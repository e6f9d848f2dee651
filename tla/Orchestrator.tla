---------------------------- MODULE Orchestrator ----------------------------
(***************************************************************************)
(* The process that drives the proof: proof.py's run_scenario and verdict, *)
(* and overwrite.py's scenario, which differs where said.  It spawns two   *)
(* workers, freezes one, waits for them with a timeout, and reads what     *)
(* they report.  Ready, thaw and result files are all that passes between  *)
(* the processes; a file exists before its content does.                   *)
(*                                                                         *)
(* What the workers do to the thread is Takeover's and Overwrite's.  Here  *)
(* they run, hang, crash or report; the rest of the checks hold or do not. *)
(***************************************************************************)
EXTENDS Naturals

CONSTANT Scripts  \* the scripts to run: "proof", "overwrite"

VARIABLES
    script, fenced,
    pc,        \* the orchestrator's place
    failures,  \* has FAILURES an entry?
    cause,     \* what it died of
    A, B,      \* the workers
    stopped,   \* is A under SIGSTOP?
    ready,     \* A's ready file: "none", "empty", "pid"
    thaw,      \* does the thaw file exist?
    out,       \* per worker its result file: "none", "cut", "result" or "error"
    overlap    \* history: did A write while B could?

vars == <<script, fenced, pc, failures, cause, A, B, stopped, ready, thaw, out, overlap>>

workers == <<A, B, ready, out, overlap>>
run == <<script, fenced>>

Alive(w) == w \notin {"none", "exited", "dead"}

TypeOK ==
    /\ pc \in {"poll", "parse", "spawnB", "waitB", "readB", "thaw", "waitA", "readA", "check", "proven", "failed", "died"}
    /\ A \in {"starting", "gated", "writing", "reporting", "doomed", "exited", "dead"}
    /\ B \in {"none", "writing", "reporting", "doomed", "exited", "dead"}
    /\ pc \in {"poll", "parse", "spawnB"} => B = "none" /\ ~thaw
    /\ pc \in {"spawnB", "waitB", "readB", "thaw"} => stopped
    /\ out.B # "none" => B # "none"

Init ==
    /\ script \in Scripts /\ fenced \in BOOLEAN
    /\ pc = "poll" /\ failures = FALSE /\ cause = "none"
    /\ A = "starting" /\ B = "none"
    /\ stopped = FALSE /\ ready = "none" /\ thaw = FALSE
    /\ out = [A |-> "none", B |-> "none"] /\ overlap = FALSE

-----------------------------------------------------------------------------
(* The workers.  Each may stop for good at any step: none has fairness.     *)

orchestrator == <<run, pc, failures, cause, stopped, thaw>>

\* The ready file is opened, then the pid is in it, and A polls for the thaw file.
AnnouncesOpen ==
    /\ A = "starting" /\ ~stopped /\ ready = "none"
    /\ ready' = "empty"
    /\ UNCHANGED <<orchestrator, A, B, out, overlap>>

Announces ==
    /\ A = "starting" /\ ~stopped /\ ready = "empty"
    /\ ready' = "pid" /\ A' = "gated"
    /\ UNCHANGED <<orchestrator, B, out, overlap>>

Thaws ==
    /\ A = "gated" /\ ~stopped /\ thaw
    /\ A' = "writing"
    \* B was killed and not waited for; its session may still write.
    /\ overlap' = Alive(B)
    /\ UNCHANGED <<orchestrator, B, ready, out>>

\* The run ended, in a result or an exception, and the report is opened.
ReportOpens(w) ==
    /\ \/ w = "A" /\ A \in {"starting", "writing"} /\ ~stopped /\ A' = "reporting" /\ UNCHANGED B
       \/ w = "B" /\ B = "writing" /\ B' = "reporting" /\ UNCHANGED A
    /\ out' = [out EXCEPT ![w] = "cut"]
    /\ UNCHANGED <<orchestrator, ready, overlap>>

Report(w, what) ==
    /\ out[w] = "cut"
    /\ \/ w = "A" /\ A = "reporting" /\ ~stopped /\ A' = "exited" /\ UNCHANGED B
       \/ w = "B" /\ B = "reporting" /\ B' = "exited" /\ UNCHANGED A
    /\ out' = [out EXCEPT ![w] = what]
    /\ UNCHANGED <<orchestrator, ready, overlap>>

\* A hard crash, at any point; or the end of a worker that was killed.
Crashes(w) ==
    /\ \/ w = "A" /\ Alive(A) /\ ~stopped /\ A' = "dead" /\ UNCHANGED B
       \/ w = "B" /\ Alive(B) /\ B' = "dead" /\ UNCHANGED A
    /\ UNCHANGED <<orchestrator, ready, out, overlap>>

Ended(w) == w \in {"exited", "dead"}

WorkerStep ==
    \/ AnnouncesOpen \/ Announces \/ Thaws
    \/ \E w \in {"A", "B"} : ReportOpens(w) \/ Crashes(w) \/ (\E what \in {"result", "error"} : Report(w, what))

-----------------------------------------------------------------------------
(* The orchestrator.                                                        *)

Dies(why) == pc' = "died" /\ cause' = why

Polls ==
    /\ pc = "poll" /\ ready # "none"
    /\ pc' = "parse"
    /\ UNCHANGED <<run, failures, cause, stopped, thaw, workers>>

\* Mutant: the poll has no deadline.
PollTimesOut_Never == pc = "poll" /\ UNCHANGED vars

\* 60 s: proof.py kills A and leaves by SystemExit, overwrite.py records a failure.
PollTimesOut ==
    /\ pc = "poll"
    /\ A' = "dead"
    /\ IF script = "proof" THEN Dies("never ready") /\ UNCHANGED failures
       ELSE failures' = TRUE /\ pc' = "failed" /\ UNCHANGED cause
    /\ UNCHANGED <<run, stopped, thaw, B, ready, out, overlap>>

\* int(read_text()), then SIGSTOP.  A may have ended meanwhile; a signal to a
\* process that is not yet waited for is no error.
Freezes ==
    /\ pc = "parse"
    /\ IF ready = "empty" THEN Dies("empty ready file") /\ UNCHANGED stopped
       ELSE pc' = "spawnB" /\ stopped' = TRUE /\ UNCHANGED cause
    /\ UNCHANGED <<run, failures, thaw, workers>>

\* Mutant: B is not waited for.
SpawnsB_Only ==
    /\ pc = "spawnB"
    /\ B' = "writing" /\ pc' = "thaw"
    /\ UNCHANGED <<run, failures, cause, stopped, thaw, A, ready, out, overlap>>

SpawnsB ==
    /\ pc = "spawnB"
    /\ B' = "writing" /\ pc' = "waitB"
    /\ UNCHANGED <<run, failures, cause, stopped, thaw, A, ready, out, overlap>>

WaitsB ==
    /\ pc = "waitB" /\ Ended(B)
    /\ pc' = "readB"
    /\ UNCHANGED <<run, failures, cause, stopped, thaw, workers>>

\* 180 s: SIGKILL, without waiting for the end.
BTimesOut ==
    /\ pc = "waitB" /\ ~Ended(B)
    /\ B' = "doomed" /\ failures' = TRUE /\ pc' = "readB"
    /\ UNCHANGED <<run, cause, stopped, thaw, A, ready, out, overlap>>

\* A missing file is a failure; one cut short raises in json.loads.
read_out(w, next) ==
    /\ IF out[w] = "cut" THEN Dies("cut result") ELSE pc' = next /\ UNCHANGED cause
    /\ failures' = (failures \/ out[w] = "none")
    /\ UNCHANGED <<run, stopped, thaw, workers>>

ReadsB == pc = "readB" /\ read_out("B", "thaw")

Thawing ==
    /\ pc = "thaw"
    /\ thaw' = TRUE /\ stopped' = FALSE /\ pc' = "waitA"
    /\ UNCHANGED <<run, failures, cause, workers>>

WaitsA ==
    /\ pc = "waitA" /\ Ended(A)
    /\ pc' = "readA"
    /\ UNCHANGED <<run, failures, cause, stopped, thaw, workers>>

\* Mutant: A is given up, not killed.
ATimesOut_Leaves ==
    /\ pc = "waitA" /\ ~Ended(A)
    /\ failures' = TRUE /\ pc' = "readA"
    /\ UNCHANGED <<run, cause, stopped, thaw, workers>>

\* 120 s: SIGKILL and wait.
ATimesOut ==
    /\ pc = "waitA" /\ ~Ended(A)
    /\ A' = "dead" /\ failures' = TRUE /\ pc' = "readA"
    /\ UNCHANGED <<run, cause, stopped, thaw, B, ready, out, overlap>>

ReadsA == pc = "readA" /\ read_out("A", "check")

\* Mutant: what the zombie reported is not looked at.
AsExpected_ByB == out.B = "result"

\* Both succeed without the fence; with it A ends in an error, of B's report only
\* the claim is looked at, which a report of an error has as well.
AsExpected == out.A = (IF fenced THEN "error" ELSE "result") /\ (fenced \/ out.B = "result")

\* The checks, the verdict.  half_a prints B's last message, which is not in the
\* report of a B that raised.
Checks ==
    /\ pc = "check"
    /\ IF script = "proof" /\ ~fenced /\ out.B = "error"
       THEN Dies("no messages") /\ UNCHANGED failures
       ELSE /\ failures' \in {TRUE, failures \/ ~AsExpected}
            /\ pc' = IF failures' THEN "failed" ELSE "proven"
            /\ UNCHANGED cause
    /\ UNCHANGED <<run, stopped, thaw, workers>>

TimesOut == PollTimesOut \/ BTimesOut \/ ATimesOut

Over == pc \in {"proven", "failed", "died"}

OrchestratorStep ==
    Polls \/ Freezes \/ SpawnsB \/ WaitsB \/ ReadsB \/ Thawing \/ WaitsA \/ ReadsA \/ Checks \/ TimesOut

Done == Over /\ UNCHANGED vars

Next == WorkerStep \/ OrchestratorStep \/ Done

Spec == Init /\ [][Next]_vars

\* The orchestrator runs and its timeouts fire; SIGKILL arrives.
FairSpec == Spec /\ WF_vars(OrchestratorStep) /\ WF_vars(B = "doomed" /\ Crashes("B"))

-----------------------------------------------------------------------------
\* "PROVEN" is printed of a run in which the zombie was ready, froze and wrote after
\* the other worker had ended; both ended by themselves with a whole report; the
\* zombie failed exactly under the fence, and without it the other did not.  (With it
\* the other may have: what is checked there are the rows B left.)
NoFalseProof ==
    pc = "proven" =>
        /\ ready = "pid" /\ thaw /\ ~stopped /\ ~overlap
        /\ A = "exited" /\ out.A = (IF fenced THEN "error" ELSE "result")
        /\ B = "exited" /\ out.B \in (IF fenced THEN {"result", "error"} ELSE {"result"})

\* The zombie is never thawed beside a worker that goes on writing: at worst beside
\* one that was sent SIGKILL, and then the run is on record as a failure.
TakeoverIsExclusive == overlap => B \in {"doomed", "dead"} /\ failures

\* Is the worker still at its report?
Reports(w) == IF w = "A" THEN A = "reporting" ELSE B = "reporting"

\* A verdict leaves no worker behind, frozen or running, but for a B on its way out.
NobodyIsLeft == pc \in {"proven", "failed"} => ~stopped /\ ~Alive(A) /\ B \in {"none", "doomed", "exited", "dead"}

\* A worker that only hangs never costs the verdict: what stops the orchestrator
\* short of it is a report cut off by a crash or by its own SIGKILL, a ready file
\* read between its creation and its content, a worker that never got ready, or
\* the missing answer of a B that raised on the unfenced thread.
DiesOfWhatItRead ==
    pc = "died" =>
        \/ cause = "cut result" /\ \E w \in {"A", "B"} : out[w] = "cut" /\ ~Reports(w)
        \/ cause = "empty ready file" /\ thaw = FALSE
        \/ cause = "never ready" /\ ~Alive(A)
        \/ cause = "no messages" /\ out.B = "error" /\ ~Alive(A)

\* Types, and both of these: every end of the orchestrator is accounted for.
Inv == TypeOK /\ NobodyIsLeft /\ DiesOfWhatItRead

\* A hung or frozen worker does not hang the proof.
ProofEnds == <>Over
=============================================================================
