-------------------------- MODULE Orchestrator_proof --------------------------
(***************************************************************************)
(* Proofs about Orchestrator: what every end of the script says, whatever  *)
(* the two workers and the timeouts do.                                    *)
(*                                                                         *)
(* The argument: each wait of the script ends with its worker ended or     *)
(* with a failure on record, and a whole report was written by a worker    *)
(* that then ended by itself.                                              *)
(***************************************************************************)
EXTENDS Orchestrator, TLAPS

\* The inductive invariant: what the orchestrator's place in the script, its
\* workers and their files say of each other.
Contents == {"none", "cut", "result", "error"}

Flags == fenced \in BOOLEAN /\ failures \in BOOLEAN /\ stopped \in BOOLEAN /\ thaw \in BOOLEAN /\ overlap \in BOOLEAN

Data ==
    /\ TypeOK
    /\ Flags
    /\ ready \in {"none", "empty", "pid"}
    /\ out \in [A : Contents, B : Contents]

\* A is stopped from its freeze to its thaw, and was ready for it.
Freezing ==
    /\ stopped => pc \in {"spawnB", "waitB", "readB", "thaw", "died"}
    /\ pc \in {"poll", "parse", "spawnB", "waitB", "readB", "thaw"} => ~thaw
    /\ pc = "parse" => ready # "none"
    /\ pc \in {"spawnB", "waitB", "readB", "thaw", "waitA", "readA", "check", "proven"} => ready = "pid"

\* Who was waited for has ended, or was killed, and a kill is on record.
Waiting ==
    /\ pc \in {"readB", "thaw", "waitA", "readA", "check", "proven"} \/ thaw => B \in {"doomed", "exited", "dead"}
    /\ pc = "failed" => B \in {"none", "doomed", "exited", "dead"}
    /\ pc \in {"readA", "check", "proven", "failed"} => Ended(A)
    /\ B = "doomed" => failures
    /\ overlap => B \in {"doomed", "dead"} /\ failures

\* Who has a whole report has ended by itself, and what was read was whole or is on
\* record as missing; then the verdicts.
Reporting ==
    /\ out.A \in {"result", "error"} /\ ~Over => A = "exited"
    /\ out.B \in {"result", "error"} => B = "exited"
    /\ pc \in {"thaw", "waitA", "readA", "check", "proven"} => out.B \in {"result", "error"} \/ failures
    /\ pc \in {"waitA", "readA", "check", "proven"} => thaw
    /\ pc = "proven" => ~failures /\ AsExpected /\ A = "exited"
    /\ pc = "died" =>
         \/ cause = "cut result" /\ \/ out.A = "cut" /\ Ended(A)
                                    \/ out.B = "cut" /\ B \in {"doomed", "exited", "dead"}
         \/ cause = "empty ready file" /\ ~thaw
         \/ cause = "never ready" /\ Ended(A)
         \/ cause = "no messages" /\ out.B = "error" /\ Ended(A)

IInv == Data /\ Freezing /\ Waiting /\ Reporting

-----------------------------------------------------------------------------
LEMMA InitInv == Init => IInv
  <1> SUFFICES ASSUME Init PROVE IInv
    OBVIOUS
  <1>1. /\ script \in Scripts /\ fenced \in BOOLEAN /\ pc = "poll" /\ failures = FALSE /\ cause = "none"
        /\ A = "starting" /\ B = "none" /\ stopped = FALSE /\ ready = "none" /\ thaw = FALSE
        /\ out = [A |-> "none", B |-> "none"] /\ overlap = FALSE
    BY DEF Init
  <1>2. Data
    BY <1>1 DEF Data, Flags, TypeOK, Contents
  <1>3. Freezing
    BY <1>1 DEF Freezing
  <1>4. Waiting
    BY <1>1 DEF Waiting
  <1>5. Reporting
    BY <1>1 DEF Reporting
  <1>6. QED
    BY <1>2, <1>3, <1>4, <1>5 DEF IInv

LEMMA AnnouncesOpenKeeps == ASSUME IInv, AnnouncesOpen PROVE IInv'
  <1>1. /\ A = "starting" /\ ready = "none" /\ ready' = "empty"
        /\ UNCHANGED <<script, fenced, pc, failures, cause, A, B, stopped, thaw, out, overlap>>
    BY DEF AnnouncesOpen, orchestrator, run
  <1>2. Data'
    <2>1. TypeOK'
      BY <1>1 DEF IInv, Data, TypeOK
    <2>2. Flags'
      BY <1>1 DEF IInv, Data, Flags
    <2>3. QED
      BY <1>1, <2>1, <2>2 DEF IInv, Data, Contents
  <1>3. Freezing'
    BY <1>1 DEF IInv, Data, TypeOK, Freezing
  <1>4. Waiting'
    BY <1>1 DEF IInv, Data, TypeOK, Freezing, Waiting, Ended
  <1>5. Reporting'
    BY <1>1 DEF IInv, Data, TypeOK, Contents, Freezing, Waiting, Reporting, Ended, Over, AsExpected
  <1>6. QED
    BY <1>2, <1>3, <1>4, <1>5 DEF IInv

LEMMA AnnouncesKeeps == ASSUME IInv, Announces PROVE IInv'
  <1>1. /\ A = "starting" /\ ready = "empty" /\ ready' = "pid" /\ A' = "gated"
        /\ UNCHANGED <<script, fenced, pc, failures, cause, B, stopped, thaw, out, overlap>>
    BY DEF Announces, orchestrator, run
  <1>2. Data'
    <2>1. TypeOK'
      BY <1>1 DEF IInv, Data, TypeOK
    <2>2. Flags'
      BY <1>1 DEF IInv, Data, Flags
    <2>3. QED
      BY <1>1, <2>1, <2>2 DEF IInv, Data, Contents
  <1>3. Freezing'
    BY <1>1 DEF IInv, Data, TypeOK, Freezing
  <1>4. Waiting'
    BY <1>1 DEF IInv, Data, TypeOK, Freezing, Waiting, Ended
  <1>5. Reporting'
    BY <1>1 DEF IInv, Data, TypeOK, Contents, Freezing, Waiting, Reporting, Ended, Over, AsExpected
  <1>6. QED
    BY <1>2, <1>3, <1>4, <1>5 DEF IInv

LEMMA ThawsKeeps == ASSUME IInv, Thaws PROVE IInv'
  <1>1. /\ A = "gated" /\ thaw /\ A' = "writing" /\ overlap' = Alive(B)
        /\ UNCHANGED <<script, fenced, pc, failures, cause, B, stopped, ready, thaw, out>>
    BY DEF Thaws, orchestrator, run
  <1>2. Data'
    <2>1. TypeOK'
      BY <1>1 DEF IInv, Data, TypeOK, Alive
    <2>2. Flags'
      BY <1>1 DEF IInv, Data, Flags, Alive
    <2>3. QED
      BY <1>1, <2>1, <2>2 DEF IInv, Data, Contents
  <1>3. Freezing'
    BY <1>1 DEF IInv, Data, TypeOK, Freezing
  <1>4. Waiting'
    BY <1>1 DEF IInv, Data, TypeOK, Freezing, Waiting, Ended, Alive
  <1>5. Reporting'
    BY <1>1 DEF IInv, Data, TypeOK, Contents, Freezing, Waiting, Reporting, Ended, Over, AsExpected
  <1>6. QED
    BY <1>2, <1>3, <1>4, <1>5 DEF IInv

LEMMA AReportOpensKeeps == ASSUME IInv, ReportOpens("A") PROVE IInv'
  <1>1. /\ A \in {"starting", "writing"} /\ A' = "reporting" /\ out' = [out EXCEPT !["A"] = "cut"]
        /\ UNCHANGED <<script, fenced, pc, failures, cause, B, stopped, ready, thaw, overlap>>
    BY DEF ReportOpens, orchestrator, run
  <1>2. Data'
    <2>1. TypeOK'
      BY <1>1 DEF IInv, Data, TypeOK
    <2>2. Flags'
      BY <1>1 DEF IInv, Data, Flags
    <2>3. QED
      BY <1>1, <2>1, <2>2 DEF IInv, Data, Contents
  <1>3. Freezing'
    BY <1>1 DEF IInv, Data, TypeOK, Freezing
  <1>4. Waiting'
    BY <1>1 DEF IInv, Data, TypeOK, Freezing, Waiting, Ended
  <1>5. Reporting'
    BY <1>1 DEF IInv, Data, TypeOK, Contents, Freezing, Waiting, Reporting, Ended, Over, AsExpected
  <1>6. QED
    BY <1>2, <1>3, <1>4, <1>5 DEF IInv

LEMMA BReportOpensKeeps == ASSUME IInv, ReportOpens("B") PROVE IInv'
  <1>1. /\ B \in {"writing"} /\ B' = "reporting" /\ out' = [out EXCEPT !["B"] = "cut"]
        /\ UNCHANGED <<script, fenced, pc, failures, cause, A, stopped, ready, thaw, overlap>>
    BY DEF ReportOpens, orchestrator, run
  <1>2. Data'
    <2>1. TypeOK'
      BY <1>1 DEF IInv, Data, TypeOK
    <2>2. Flags'
      BY <1>1 DEF IInv, Data, Flags
    <2>3. QED
      BY <1>1, <2>1, <2>2 DEF IInv, Data, Contents
  <1>3. Freezing'
    BY <1>1 DEF IInv, Data, TypeOK, Freezing
  <1>4. Waiting'
    BY <1>1 DEF IInv, Data, TypeOK, Freezing, Waiting, Ended
  <1>5. Reporting'
    BY <1>1 DEF IInv, Data, TypeOK, Contents, Freezing, Waiting, Reporting, Ended, Over, AsExpected
  <1>6. QED
    BY <1>2, <1>3, <1>4, <1>5 DEF IInv

LEMMA AReportKeeps == ASSUME IInv, NEW what \in {"result", "error"}, Report("A", what) PROVE IInv'
  <1>1. /\ out["A"] = "cut" /\ A = "reporting" /\ A' = "exited"
        /\ out' = [out EXCEPT !["A"] = what]
        /\ UNCHANGED <<script, fenced, pc, failures, cause, B, stopped, ready, thaw, overlap>>
    BY DEF Report, orchestrator, run
  <1>2. Data'
    <2>1. TypeOK'
      BY <1>1 DEF IInv, Data, TypeOK
    <2>2. Flags'
      BY <1>1 DEF IInv, Data, Flags
    <2>3. QED
      BY <1>1, <2>1, <2>2 DEF IInv, Data, Contents
  <1>3. Freezing'
    BY <1>1 DEF IInv, Data, TypeOK, Freezing
  <1>4. Waiting'
    BY <1>1 DEF IInv, Data, TypeOK, Freezing, Waiting, Ended
  <1>5. Reporting'
    BY <1>1 DEF IInv, Data, TypeOK, Contents, Freezing, Waiting, Reporting, Ended, Over, AsExpected
  <1>6. QED
    BY <1>2, <1>3, <1>4, <1>5 DEF IInv

LEMMA BReportKeeps == ASSUME IInv, NEW what \in {"result", "error"}, Report("B", what) PROVE IInv'
  <1>1. /\ out["B"] = "cut" /\ B = "reporting" /\ B' = "exited"
        /\ out' = [out EXCEPT !["B"] = what]
        /\ UNCHANGED <<script, fenced, pc, failures, cause, A, stopped, ready, thaw, overlap>>
    BY DEF Report, orchestrator, run
  <1>2. Data'
    <2>1. TypeOK'
      BY <1>1 DEF IInv, Data, TypeOK
    <2>2. Flags'
      BY <1>1 DEF IInv, Data, Flags
    <2>3. QED
      BY <1>1, <2>1, <2>2 DEF IInv, Data, Contents
  <1>3. Freezing'
    BY <1>1 DEF IInv, Data, TypeOK, Freezing
  <1>4. Waiting'
    BY <1>1 DEF IInv, Data, TypeOK, Freezing, Waiting, Ended
  <1>5. Reporting'
    BY <1>1 DEF IInv, Data, TypeOK, Contents, Freezing, Waiting, Reporting, Ended, Over, AsExpected
  <1>6. QED
    BY <1>2, <1>3, <1>4, <1>5 DEF IInv

LEMMA ACrashesKeeps == ASSUME IInv, Crashes("A") PROVE IInv'
  <1>1. /\ Alive(A) /\ A' = "dead"
        /\ UNCHANGED <<script, fenced, pc, failures, cause, B, stopped, ready, thaw, out, overlap>>
    BY DEF Crashes, orchestrator, run
  <1>2. Data'
    <2>1. TypeOK'
      BY <1>1 DEF IInv, Data, TypeOK, Alive
    <2>2. Flags'
      BY <1>1 DEF IInv, Data, Flags, Alive
    <2>3. QED
      BY <1>1, <2>1, <2>2 DEF IInv, Data, Contents
  <1>3. Freezing'
    BY <1>1 DEF IInv, Data, TypeOK, Freezing
  <1>4. Waiting'
    BY <1>1 DEF IInv, Data, TypeOK, Freezing, Waiting, Ended, Alive
  <1>5. Reporting'
    BY <1>1 DEF IInv, Data, TypeOK, Contents, Freezing, Waiting, Reporting, Ended, Over, AsExpected, Alive
  <1>6. QED
    BY <1>2, <1>3, <1>4, <1>5 DEF IInv

LEMMA BCrashesKeeps == ASSUME IInv, Crashes("B") PROVE IInv'
  <1>1. /\ Alive(B) /\ B' = "dead"
        /\ UNCHANGED <<script, fenced, pc, failures, cause, A, stopped, ready, thaw, out, overlap>>
    BY DEF Crashes, orchestrator, run
  <1>2. Data'
    <2>1. TypeOK'
      BY <1>1 DEF IInv, Data, TypeOK, Alive
    <2>2. Flags'
      BY <1>1 DEF IInv, Data, Flags, Alive
    <2>3. QED
      BY <1>1, <2>1, <2>2 DEF IInv, Data, Contents
  <1>3. Freezing'
    BY <1>1 DEF IInv, Data, TypeOK, Freezing
  <1>4. Waiting'
    BY <1>1 DEF IInv, Data, TypeOK, Freezing, Waiting, Ended, Alive
  <1>5. Reporting'
    BY <1>1 DEF IInv, Data, TypeOK, Contents, Freezing, Waiting, Reporting, Ended, Over, AsExpected, Alive
  <1>6. QED
    BY <1>2, <1>3, <1>4, <1>5 DEF IInv

LEMMA PollsKeeps == ASSUME IInv, Polls PROVE IInv'
  <1>1. /\ pc = "poll" /\ ready # "none" /\ pc' = "parse"
        /\ UNCHANGED <<script, fenced, failures, cause, A, B, stopped, ready, thaw, out, overlap>>
    BY DEF Polls, run, workers
  <1>2. Data'
    <2>1. TypeOK'
      BY <1>1 DEF IInv, Data, TypeOK
    <2>2. Flags'
      BY <1>1 DEF IInv, Data, Flags
    <2>3. QED
      BY <1>1, <2>1, <2>2 DEF IInv, Data, Contents
  <1>3. Freezing'
    BY <1>1 DEF IInv, Data, TypeOK, Freezing
  <1>4. Waiting'
    BY <1>1 DEF IInv, Data, TypeOK, Freezing, Waiting, Ended
  <1>5. Reporting'
    BY <1>1 DEF IInv, Data, TypeOK, Contents, Freezing, Waiting, Reporting, Ended, Over, AsExpected
  <1>6. QED
    BY <1>2, <1>3, <1>4, <1>5 DEF IInv

LEMMA FreezesKeeps == ASSUME IInv, Freezes PROVE IInv'
  <1>1. /\ pc = "parse"
        /\ \/ ready = "empty" /\ pc' = "died" /\ cause' = "empty ready file" /\ stopped' = stopped
           \/ ready # "empty" /\ pc' = "spawnB" /\ stopped' = TRUE /\ cause' = cause
        /\ UNCHANGED <<script, fenced, failures, A, B, ready, thaw, out, overlap>>
    BY DEF Freezes, Dies, run, workers
  <1>2. Data'
    <2>1. TypeOK'
      BY <1>1 DEF IInv, Data, TypeOK
    <2>2. Flags'
      BY <1>1 DEF IInv, Data, Flags
    <2>3. QED
      BY <1>1, <2>1, <2>2 DEF IInv, Data, Contents
  <1>3. Freezing'
    BY <1>1 DEF IInv, Data, TypeOK, Freezing
  <1>4. Waiting'
    BY <1>1 DEF IInv, Data, TypeOK, Freezing, Waiting, Ended
  <1>5. Reporting'
    BY <1>1 DEF IInv, Data, TypeOK, Contents, Freezing, Waiting, Reporting, Ended, Over, AsExpected
  <1>6. QED
    BY <1>2, <1>3, <1>4, <1>5 DEF IInv

LEMMA SpawnsBKeeps == ASSUME IInv, SpawnsB PROVE IInv'
  <1>1. /\ pc = "spawnB" /\ B' = "writing" /\ pc' = "waitB"
        /\ UNCHANGED <<script, fenced, failures, cause, A, stopped, ready, thaw, out, overlap>>
    BY DEF SpawnsB, run
  <1>2. Data'
    <2>1. TypeOK'
      BY <1>1 DEF IInv, Data, TypeOK
    <2>2. Flags'
      BY <1>1 DEF IInv, Data, Flags
    <2>3. QED
      BY <1>1, <2>1, <2>2 DEF IInv, Data, Contents
  <1>3. Freezing'
    BY <1>1 DEF IInv, Data, TypeOK, Freezing
  <1>4. Waiting'
    BY <1>1 DEF IInv, Data, TypeOK, Freezing, Waiting, Ended
  <1>5. Reporting'
    BY <1>1 DEF IInv, Data, TypeOK, Contents, Freezing, Waiting, Reporting, Ended, Over, AsExpected
  <1>6. QED
    BY <1>2, <1>3, <1>4, <1>5 DEF IInv

LEMMA WaitsBKeeps == ASSUME IInv, WaitsB PROVE IInv'
  <1>1. /\ pc = "waitB" /\ B \in {"exited", "dead"} /\ pc' = "readB"
        /\ UNCHANGED <<script, fenced, failures, cause, A, B, stopped, ready, thaw, out, overlap>>
    BY DEF WaitsB, Ended, run, workers
  <1>2. Data'
    <2>1. TypeOK'
      BY <1>1 DEF IInv, Data, TypeOK
    <2>2. Flags'
      BY <1>1 DEF IInv, Data, Flags
    <2>3. QED
      BY <1>1, <2>1, <2>2 DEF IInv, Data, Contents
  <1>3. Freezing'
    BY <1>1 DEF IInv, Data, TypeOK, Freezing
  <1>4. Waiting'
    BY <1>1 DEF IInv, Data, TypeOK, Freezing, Waiting, Ended
  <1>5. Reporting'
    BY <1>1 DEF IInv, Data, TypeOK, Contents, Freezing, Waiting, Reporting, Ended, Over, AsExpected
  <1>6. QED
    BY <1>2, <1>3, <1>4, <1>5 DEF IInv

LEMMA BTimesOutKeeps == ASSUME IInv, BTimesOut PROVE IInv'
  <1>1. /\ pc = "waitB" /\ B \notin {"exited", "dead"} /\ B' = "doomed" /\ failures' = TRUE /\ pc' = "readB"
        /\ UNCHANGED <<script, fenced, cause, A, stopped, ready, thaw, out, overlap>>
    BY DEF BTimesOut, Ended, run
  <1>2. Data'
    <2>1. TypeOK'
      BY <1>1 DEF IInv, Data, TypeOK
    <2>2. Flags'
      BY <1>1 DEF IInv, Data, Flags
    <2>3. QED
      BY <1>1, <2>1, <2>2 DEF IInv, Data, Contents
  <1>3. Freezing'
    BY <1>1 DEF IInv, Data, TypeOK, Freezing
  <1>4. Waiting'
    BY <1>1 DEF IInv, Data, TypeOK, Freezing, Waiting, Ended
  <1>5. Reporting'
    BY <1>1 DEF IInv, Data, TypeOK, Contents, Freezing, Waiting, Reporting, Ended, Over, AsExpected
  <1>6. QED
    BY <1>2, <1>3, <1>4, <1>5 DEF IInv

LEMMA ReadsBKeeps == ASSUME IInv, ReadsB PROVE IInv'
  <1>1. /\ pc = "readB"
        /\ \/ out.B = "cut" /\ pc' = "died" /\ cause' = "cut result"
           \/ out.B # "cut" /\ pc' = "thaw" /\ cause' = cause
        /\ failures' = (failures \/ out.B = "none")
        /\ UNCHANGED <<script, fenced, A, B, stopped, ready, thaw, out, overlap>>
    BY DEF ReadsB, read_out, Dies, run, workers
  <1>2. Data'
    <2>1. TypeOK'
      BY <1>1 DEF IInv, Data, TypeOK
    <2>2. Flags'
      BY <1>1 DEF IInv, Data, Flags
    <2>3. QED
      BY <1>1, <2>1, <2>2 DEF IInv, Data, Contents
  <1>3. Freezing'
    BY <1>1 DEF IInv, Data, TypeOK, Freezing
  <1>4. Waiting'
    BY <1>1 DEF IInv, Data, TypeOK, Freezing, Waiting, Ended
  <1>5. Reporting'
    BY <1>1 DEF IInv, Data, TypeOK, Contents, Freezing, Waiting, Reporting, Ended, Over, AsExpected
  <1>6. QED
    BY <1>2, <1>3, <1>4, <1>5 DEF IInv

LEMMA ThawingKeeps == ASSUME IInv, Thawing PROVE IInv'
  <1>1. /\ pc = "thaw" /\ thaw' = TRUE /\ stopped' = FALSE /\ pc' = "waitA"
        /\ UNCHANGED <<script, fenced, failures, cause, A, B, ready, out, overlap>>
    BY DEF Thawing, run, workers
  <1>2. Data'
    <2>1. TypeOK'
      BY <1>1 DEF IInv, Data, TypeOK
    <2>2. Flags'
      BY <1>1 DEF IInv, Data, Flags
    <2>3. QED
      BY <1>1, <2>1, <2>2 DEF IInv, Data, Contents
  <1>3. Freezing'
    BY <1>1 DEF IInv, Data, TypeOK, Freezing
  <1>4. Waiting'
    BY <1>1 DEF IInv, Data, TypeOK, Freezing, Waiting, Ended
  <1>5. Reporting'
    BY <1>1 DEF IInv, Data, TypeOK, Contents, Freezing, Waiting, Reporting, Ended, Over, AsExpected
  <1>6. QED
    BY <1>2, <1>3, <1>4, <1>5 DEF IInv

LEMMA WaitsAKeeps == ASSUME IInv, WaitsA PROVE IInv'
  <1>1. /\ pc = "waitA" /\ A \in {"exited", "dead"} /\ pc' = "readA"
        /\ UNCHANGED <<script, fenced, failures, cause, A, B, stopped, ready, thaw, out, overlap>>
    BY DEF WaitsA, Ended, run, workers
  <1>2. Data'
    <2>1. TypeOK'
      BY <1>1 DEF IInv, Data, TypeOK
    <2>2. Flags'
      BY <1>1 DEF IInv, Data, Flags
    <2>3. QED
      BY <1>1, <2>1, <2>2 DEF IInv, Data, Contents
  <1>3. Freezing'
    BY <1>1 DEF IInv, Data, TypeOK, Freezing
  <1>4. Waiting'
    BY <1>1 DEF IInv, Data, TypeOK, Freezing, Waiting, Ended
  <1>5. Reporting'
    BY <1>1 DEF IInv, Data, TypeOK, Contents, Freezing, Waiting, Reporting, Ended, Over, AsExpected
  <1>6. QED
    BY <1>2, <1>3, <1>4, <1>5 DEF IInv

LEMMA ATimesOutKeeps == ASSUME IInv, ATimesOut PROVE IInv'
  <1>1. /\ pc = "waitA" /\ A \notin {"exited", "dead"} /\ A' = "dead" /\ failures' = TRUE /\ pc' = "readA"
        /\ UNCHANGED <<script, fenced, cause, B, stopped, ready, thaw, out, overlap>>
    BY DEF ATimesOut, Ended, run
  <1>2. Data'
    <2>1. TypeOK'
      BY <1>1 DEF IInv, Data, TypeOK
    <2>2. Flags'
      BY <1>1 DEF IInv, Data, Flags
    <2>3. QED
      BY <1>1, <2>1, <2>2 DEF IInv, Data, Contents
  <1>3. Freezing'
    BY <1>1 DEF IInv, Data, TypeOK, Freezing
  <1>4. Waiting'
    BY <1>1 DEF IInv, Data, TypeOK, Freezing, Waiting, Ended
  <1>5. Reporting'
    BY <1>1 DEF IInv, Data, TypeOK, Contents, Freezing, Waiting, Reporting, Ended, Over, AsExpected
  <1>6. QED
    BY <1>2, <1>3, <1>4, <1>5 DEF IInv

LEMMA ReadsAKeeps == ASSUME IInv, ReadsA PROVE IInv'
  <1>1. /\ pc = "readA"
        /\ \/ out.A = "cut" /\ pc' = "died" /\ cause' = "cut result"
           \/ out.A # "cut" /\ pc' = "check" /\ cause' = cause
        /\ failures' = (failures \/ out.A = "none")
        /\ UNCHANGED <<script, fenced, A, B, stopped, ready, thaw, out, overlap>>
    BY DEF ReadsA, read_out, Dies, run, workers
  <1>2. Data'
    <2>1. TypeOK'
      BY <1>1 DEF IInv, Data, TypeOK
    <2>2. Flags'
      BY <1>1 DEF IInv, Data, Flags
    <2>3. QED
      BY <1>1, <2>1, <2>2 DEF IInv, Data, Contents
  <1>3. Freezing'
    BY <1>1 DEF IInv, Data, TypeOK, Freezing
  <1>4. Waiting'
    BY <1>1 DEF IInv, Data, TypeOK, Freezing, Waiting, Ended
  <1>5. Reporting'
    BY <1>1 DEF IInv, Data, TypeOK, Contents, Freezing, Waiting, Reporting, Ended, Over, AsExpected
  <1>6. QED
    BY <1>2, <1>3, <1>4, <1>5 DEF IInv

LEMMA PollTimesOutKeeps == ASSUME IInv, PollTimesOut PROVE IInv'
  <1>1. /\ pc = "poll" /\ A' = "dead"
        /\ \/ pc' = "died" /\ cause' = "never ready" /\ failures' = failures
           \/ failures' = TRUE /\ pc' = "failed" /\ cause' = cause
        /\ UNCHANGED <<script, fenced, B, stopped, ready, thaw, out, overlap>>
    BY DEF PollTimesOut, Dies, run
  <1>2. Data'
    <2>1. TypeOK'
      BY <1>1 DEF IInv, Data, TypeOK
    <2>2. Flags'
      BY <1>1 DEF IInv, Data, Flags
    <2>3. QED
      BY <1>1, <2>1, <2>2 DEF IInv, Data, Contents
  <1>3. Freezing'
    BY <1>1 DEF IInv, Data, TypeOK, Freezing
  <1>4. Waiting'
    BY <1>1 DEF IInv, Data, TypeOK, Freezing, Waiting, Ended
  <1>5. Reporting'
    BY <1>1 DEF IInv, Data, TypeOK, Contents, Freezing, Waiting, Reporting, Ended, Over, AsExpected
  <1>6. QED
    BY <1>2, <1>3, <1>4, <1>5 DEF IInv

LEMMA ChecksKeeps == ASSUME IInv, Checks PROVE IInv'
  <1>1. /\ pc = "check"
        /\ \/ out.B = "error" /\ pc' = "died" /\ cause' = "no messages" /\ failures' = failures
           \/ /\ failures' \in {TRUE, failures \/ ~AsExpected} /\ cause' = cause
              /\ pc' = IF failures' THEN "failed" ELSE "proven"
        /\ UNCHANGED <<script, fenced, A, B, stopped, ready, thaw, out, overlap>>
    BY DEF Checks, Dies, run, workers
  <1>2. Data'
    <2>1. TypeOK'
      BY <1>1 DEF IInv, Data, TypeOK
    <2>2. Flags'
      BY <1>1 DEF IInv, Data, Flags
    <2>3. QED
      BY <1>1, <2>1, <2>2 DEF IInv, Data, Contents
  <1>3. Freezing'
    BY <1>1 DEF IInv, Data, TypeOK, Freezing
  <1>4. Waiting'
    BY <1>1 DEF IInv, Data, TypeOK, Freezing, Waiting, Ended
  <1>5. Reporting'
    BY <1>1 DEF IInv, Data, TypeOK, Contents, Freezing, Waiting, Reporting, Ended, Over, AsExpected
  <1>6. QED
    BY <1>2, <1>3, <1>4, <1>5 DEF IInv

LEMMA NextKeeps == IInv /\ [Next]_vars => IInv'
  <1> SUFFICES ASSUME IInv, [Next]_vars PROVE IInv'
    OBVIOUS
  <1>1. CASE WorkerStep
    <2>1. ASSUME NEW w \in {"A", "B"}, ReportOpens(w) \/ Crashes(w) \/ \E what \in {"result", "error"} : Report(w, what)
          PROVE  IInv'
      BY <2>1, AReportOpensKeeps, BReportOpensKeeps, ACrashesKeeps, BCrashesKeeps, AReportKeeps, BReportKeeps
    <2>2. QED
      BY <1>1, <2>1, AnnouncesOpenKeeps, AnnouncesKeeps, ThawsKeeps DEF WorkerStep
  <1>2. CASE OrchestratorStep
    BY <1>2, PollsKeeps, FreezesKeeps, SpawnsBKeeps, WaitsBKeeps, BTimesOutKeeps, ReadsBKeeps, ThawingKeeps,
       WaitsAKeeps, ATimesOutKeeps, ReadsAKeeps, PollTimesOutKeeps, ChecksKeeps DEF OrchestratorStep, TimesOut
  <1>3. CASE UNCHANGED vars
    <2>1. /\ UNCHANGED <<script, fenced, pc, failures, cause, A, B, stopped, ready, thaw, out, overlap>>
      BY <1>3 DEF vars
    <2>2. Data'
      BY <2>1 DEF IInv, Data, TypeOK, Flags
    <2>3. Freezing' /\ Waiting' /\ Reporting'
      BY <2>1 DEF IInv, Freezing, Waiting, Reporting, Ended, Over, AsExpected
    <2>4. QED
      BY <2>2, <2>3 DEF IInv
  <1>4. QED
    BY <1>1, <1>2, <1>3 DEF Next, Done

\* The script, its workers and its files agree in every reachable state.
THEOREM Invariance == Spec => []IInv
  BY InitInv, NextKeeps, PTL DEF Spec

-----------------------------------------------------------------------------
\* "PROVEN" is printed of a run in which the zombie wrote after the other worker
\* had ended, both by themselves with a whole report, the zombie's an error exactly
\* under the fence (proof.py's verdict).
THEOREM ProofsAreTrue == Spec => []NoFalseProof
  <1>1. IInv => NoFalseProof
    BY DEF IInv, Data, Freezing, Waiting, Reporting, NoFalseProof, AsExpected
  <1>2. QED
    BY <1>1, Invariance, PTL

\* The zombie is thawed beside no worker that goes on writing (BTimesOut kills
\* without a wait, and then the run is on record as a failure).
THEOREM ThawIsExclusive == Spec => []TakeoverIsExclusive
  <1>1. IInv => TakeoverIsExclusive
    BY DEF IInv, Waiting, TakeoverIsExclusive
  <1>2. QED
    BY <1>1, Invariance, PTL

\* Types; a verdict leaves no worker behind; and what the orchestrator dies of.
THEOREM EndsAreAccountedFor == Spec => []Inv
  <1>1. IInv => NobodyIsLeft
    BY DEF IInv, Data, Freezing, Waiting, Reporting, NobodyIsLeft, Alive, Ended, AsExpected
  <1>2. IInv => DiesOfWhatItRead
    <2> SUFFICES ASSUME IInv, pc = "died" PROVE DiesOfWhatItRead
      BY DEF DiesOfWhatItRead
    <2>1. CASE cause = "cut result" /\ out["A"] = "cut" /\ Ended(A)
      <3>1. ~Reports("A")
        BY <2>1 DEF Reports, Ended
      <3>2. QED
        BY <2>1, <3>1 DEF DiesOfWhatItRead
    <2>2. CASE cause = "cut result" /\ out["B"] = "cut" /\ B \in {"doomed", "exited", "dead"}
      <3>1. ~Reports("B")
        BY <2>2 DEF Reports
      <3>2. QED
        BY <2>2, <3>1 DEF DiesOfWhatItRead
    <2>3. CASE cause = "empty ready file" /\ ~thaw
      <3>1. thaw = FALSE
        BY <2>3 DEF IInv, Data, Flags
      <3>2. QED
        BY <2>3, <3>1 DEF DiesOfWhatItRead
    <2>4. CASE cause = "never ready" /\ Ended(A)
      BY <2>4 DEF DiesOfWhatItRead, Alive, Ended
    <2>5. CASE cause = "no messages" /\ out.B = "error" /\ Ended(A)
      BY <2>5 DEF DiesOfWhatItRead, Alive, Ended
    <2>6. QED
      BY <2>1, <2>2, <2>3, <2>4, <2>5 DEF IInv, Reporting
  <1>3. IInv => Inv
    BY <1>1, <1>2 DEF IInv, Data, Inv
  <1>4. QED
    BY <1>3, Invariance, PTL
=============================================================================
