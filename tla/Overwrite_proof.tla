---------------------------- MODULE Overwrite_proof ----------------------------
(***************************************************************************)
(* Proofs about Overwrite: for any workers and any deployments an answer   *)
(* that was acknowledged under the fence stands, and the run finishes once *)
(* and with answers that were given.                                       *)
(*                                                                         *)
(* The argument: whoever goes on from a row read it after the row was      *)
(* written, and whoever read before is stale by then, because the block    *)
(* that wrote the row was still its owner's when it landed.  A stale       *)
(* worker's block could only land late.                                    *)
(***************************************************************************)
EXTENDS Overwrite, FiniteSetTheorems, SequenceTheorems, TLAPS

-----------------------------------------------------------------------------
(* The inductive invariant.                                                 *)

answer == rows[<<task, "__resume__">>]     \* the task's row of answers
output == rows[<<task, "log">>]            \* the task's stored output

Running(v) == pc[v] \in {"loaded", "ran"}
Asked(v) == pc[v] \in {"ran", "ok", "refused", "killed"}
Open(v, b) == b \in pend[v] \/ block[v] = b
Stale(v) == v \in Workers /\ held[v] < fence

\* The fence values savers hold, and who may run at all.
FenceInv ==
    /\ fenced => fence >= 1
    /\ held[Later] = Plain
    /\ \A v \in All : /\ held[v] <= fence
                      /\ held[v] # Plain => v \in Workers
                      /\ held[v] = 1 => v = A
                      /\ pc[v] = "idle" => held[v] = Plain
                      /\ pc[v] # "idle" => v \in Workers \union {Later}
    /\ \A v, w \in All : held[v] # Plain /\ held[v] = held[w] => v = w
    /\ pc[Later] # "idle" => \A v \in Workers : pc[v] # "idle" /\ ~Live(v)

\* The batches of a worker fit the answers its task was resumed with.
BatchInv(v) ==
    /\ block[v] \notin pend[v] \ {None}
    /\ \A b \in {"resume", "pause", "done", "put"} : Open(v, b) => Running(v)
    /\ \A b \in {"pause", "done", "put"} : Open(v, b) => pc[v] = "ran"
    /\ Open(v, "pause") => Len(mem[v]) = 0
    /\ Open(v, "done") => Len(mem[v]) = 1
    /\ Open(v, "put") => Len(mem[v]) # 0

\* The rows hold at most one answer, the output has two, by different workers;
\* what a worker was resumed with it did not give itself.
RowsInv ==
    /\ Len(answer) <= 1
    /\ \A n \in DOMAIN answer : Asked(answer[n])
    /\ output # MISSING => /\ answer # MISSING /\ Len(output) = 2
                           /\ output[1] # output[2]
                           /\ Asked(output[1]) /\ Asked(output[2])
    /\ \A v \in All : /\ mem[v] # <<>> => answer # MISSING
                      /\ Len(mem[v]) = 1 => Asked(mem[v][1]) /\ mem[v][1] # v
                      /\ Len(mem[v]) = 2 => mem[v] = output

Calm == Protected /\ late = 0

\* Under the fence and without a late block: whoever could still overwrite the
\* answer, the output or the end of the run is stale.
FirstAnswerInv ==
    /\ answer # MISSING =>
         \A v \in All : Running(v) /\ mem[v] = <<>> => Stale(v) \/ answer[1] = v
    /\ \A v \in All : pc[v] = "ran" /\ mem[v] = <<>> /\ ~bounced[v] /\ ~Open(v, "pause")
                         => answer # MISSING /\ answer[1] = v
    /\ \A v \in All : mem[v] # <<>> => mem[v][1] = answer[1]
    /\ output # MISSING => output[1] = answer[1]
    /\ \A i \in DOMAIN chain : answer # MISSING /\ chain[i][1] = answer[1]
    /\ acked # <<>> => answer # MISSING /\ acked[1] = answer[1]

OutputInv ==
    output # MISSING =>
        \A v \in All : Running(v) /\ Len(mem[v]) = 1 => Stale(v) \/ output[2] = v

EndInv ==
    chain # <<>> =>
        /\ Len(chain) = 1
        /\ output \in {MISSING, chain[1]}
        /\ \A v \in All : Running(v) =>
             \/ Stale(v)
             \/ pc[v] = "ran" /\ ~Open(v, "put") /\ (Len(mem[v]) = 1 => chain[1] = consumed(v))

CalmInv == Calm => FirstAnswerInv /\ OutputInv /\ EndInv

IInv ==
    /\ TypeOK
    /\ acked \in Seq(All)
    /\ FenceInv
    /\ \A v \in All : BatchInv(v)
    /\ RowsInv
    /\ AnswersWereGiven
    /\ CalmInv

-----------------------------------------------------------------------------
(* Lists of answers, and what a batch leaves in the rows.                   *)

LEMMA AnswerLists ==
    ASSUME NEW s \in Answers
    PROVE  /\ s \in Seq(All) /\ Len(s) \in 0..2 /\ DOMAIN s = 1..Len(s)
           /\ Len(s) = 0 <=> s = <<>>
           /\ \A n \in DOMAIN s : s[n] \in All
  <1>1. PICK n \in 0..2 : s \in [1..n -> All]
    BY DEF Answers
  <1>2. s \in Seq(All) /\ Len(s) = n
    BY <1>1
  <1>3. QED
    BY <1>1, <1>2

LEMMA ListsAreAnswers ==
    ASSUME NEW s \in Seq(All), Len(s) <= 2
    PROVE  s \in Answers
  <1>1. PICK n \in Nat : n = Len(s)
    BY LenProperties
  <1>2. n \in 0..2
    BY <1>1
  <1>3. s \in [1..n -> All]
    BY <1>1, LenProperties
  <1>4. QED
    BY <1>2, <1>3 DEF Answers

LEMMA NoAnswer == MISSING \in Answers /\ Len(MISSING) = 0 /\ DOMAIN MISSING = {}
  <1>1. <<>> \in Seq(All) /\ Len(<<>>) = 0 /\ Len(<<>>) <= 2
    BY EmptySeq
  <1>2. <<>> \in Answers
    BY <1>1, ListsAreAnswers
  <1>3. QED
    BY <1>1, <1>2 DEF MISSING

LEMMA ConsumedIs ==
    ASSUME TypeOK, NEW w \in All, Len(mem[w]) <= 1
    PROVE  /\ consumed(w) \in Answers /\ Len(consumed(w)) = Len(mem[w]) + 1
           /\ Len(mem[w]) = 0 => consumed(w) = <<w>>
           /\ Len(mem[w]) = 1 => /\ Len(consumed(w)) = 2
                                 /\ consumed(w)[1] = mem[w][1] /\ consumed(w)[2] = w
  <1>1. mem[w] \in Answers
    BY DEF TypeOK
  <1>2. mem[w] \in Seq(All) /\ (Len(mem[w]) = 0 => mem[w] = <<>>)
    BY <1>1, AnswerLists
  <1>3. /\ consumed(w) \in Seq(All) /\ Len(consumed(w)) = Len(mem[w]) + 1
        /\ \A n \in 1..Len(mem[w]) : consumed(w)[n] = mem[w][n]
        /\ consumed(w)[Len(mem[w]) + 1] = w
    BY <1>2, AppendProperties DEF consumed
  <1>4. consumed(w) \in Answers
    BY <1>3, ListsAreAnswers
  <1>5. ASSUME Len(mem[w]) = 0 PROVE consumed(w) = <<w>>
    <2>1. consumed(w) = Append(<<>>, w)
      BY <1>2, <1>5 DEF consumed
    <2>2. QED
      BY <2>1
  <1>6. ASSUME Len(mem[w]) = 1
        PROVE  Len(consumed(w)) = 2 /\ consumed(w)[1] = mem[w][1] /\ consumed(w)[2] = w
    BY <1>3, <1>6
  <1>7. QED
    BY <1>3, <1>4, <1>5, <1>6

LEMMA TypedRows ==
    ASSUME TypeOK
    PROVE  answer \in Answers /\ output \in Answers /\ rows[<<NULL_TASK_ID, "__resume__">>] \in Answers
  BY DEF TypeOK, Keys, answer, output

\* What each batch leaves in the rows.
LEMMA StoredRows ==
    ASSUME TypeOK, NEW w \in All, NEW b \in {"resume", "pause", "done", "put"}, rows' = stored(w, b)
    PROVE  /\ b \in {"resume", "put"} => answer' = answer /\ output' = output
           /\ b = "pause" => answer' = consumed(w) /\ output' = output
           /\ b = "done" => /\ answer' = IF answer = MISSING THEN consumed(w) ELSE answer
                            /\ output' = IF output = MISSING THEN consumed(w) ELSE output
           /\ rows'[<<NULL_TASK_ID, "__resume__">>] \in {rows[<<NULL_TASK_ID, "__resume__">>], <<w>>}
  <1> USE DEF Keys, put_writes, pure, WRITES_IDX_MAP, answer, output, task, NULL_TASK_ID
  <1>1. CASE b = "put"
    BY <1>1 DEF stored
  <1>2. CASE b = "resume"
    <2>1. DOMAIN resumeBatch(w) = {"__resume__"} /\ resumeBatch(w)["__resume__"] = <<w>>
      BY DEF resumeBatch
    <2>2. rows' = put_writes(rows, NULL_TASK_ID, resumeBatch(w))
      BY <1>2 DEF stored
    <2>3. QED
      BY <1>2, <2>1, <2>2
  <1>3. CASE b = "pause"
    <2>1. DOMAIN pauseBatch(w) = {"__interrupt__", "__resume__"} /\ pauseBatch(w)["__resume__"] = consumed(w)
      BY DEF pauseBatch
    <2>2. rows' = put_writes(rows, task, pauseBatch(w))
      BY <1>3 DEF stored
    <2>3. QED
      BY <1>3, <2>1, <2>2
  <1>4. CASE b = "done"
    <2>1. DOMAIN doneBatch(w) = {"__resume__", "log"} /\ ~pure(doneBatch(w))
          /\ doneBatch(w)["__resume__"] = consumed(w) /\ doneBatch(w)["log"] = consumed(w)
      BY DEF doneBatch
    <2>2. rows' = put_writes(rows, task, doneBatch(w))
      BY <1>4 DEF stored
    <2>3. QED
      BY <1>4, <2>1, <2>2
  <1>5. QED
    BY <1>1, <1>2, <1>3, <1>4

-----------------------------------------------------------------------------
(* Who is stale.                                                            *)

LEMMA WorkersAre ==
    ASSUME TypeOK
    PROVE  /\ Workers \subseteq Worker /\ A \in Workers /\ Later \notin Workers
           /\ Workers \subseteq All /\ Later \in All /\ Gated \subseteq Workers
           /\ fenced \in BOOLEAN
  BY ScenariosAssumption DEF TypeOK, Workers, Gated, fenced, All

\* While an owner of the thread is at work, all the others are stale.
LEMMA OthersAreStale ==
    ASSUME IInv, Calm, NEW w \in All, Running(w), Owns(w), NEW v \in All, Running(v), v # w
    PROVE  Stale(v)
  <1>1. w \in Workers /\ v \in Workers
    <2>1. w \in Workers \union {Later} /\ v \in Workers \union {Later}
      BY DEF IInv, FenceInv, Running
    <2>2. pc[Later] # "idle" => \A u \in Workers : ~Live(u)
      BY DEF IInv, FenceInv
    <2>3. Live(w) /\ Live(v) /\ pc[w] # "idle" /\ pc[v] # "idle"
      BY DEF Running, Live
    <2>4. QED
      BY <2>1, <2>2, <2>3
  <1>2. held[w] # Plain /\ held[v] # Plain
    BY <1>1 DEF Calm, Protected, Running
  <1>3. held[w] = fence
    BY <1>2 DEF Owns, Unfenced
  <1>4. held[v] <= fence /\ held[v] # held[w]
    BY <1>2 DEF IInv, FenceInv
  <1>5. QED
    BY <1>1, <1>3, <1>4 DEF Stale, IInv, TypeOK

\* What a stale worker commits is late.
LEMMA StaleIsLate ==
    ASSUME IInv, Calm, NEW w \in All, pc[w] # "idle", Stale(w)
    PROVE  ~Owns(w)
  <1>1. held[w] # Plain
    BY DEF Calm, Protected, Stale
  <1>2. QED
    BY <1>1 DEF Stale, Owns, Unfenced, IInv, TypeOK

LEMMA CalmBefore ==
    ASSUME IInv, Calm', late' = late \/ late' = late + 1, scenario' = scenario,
           \A v \in Workers : pc[v] # "idle" => pc'[v] # "idle" /\ held'[v] = held[v]
    PROVE  Calm
  <1>1. late = 0
    BY DEF Calm, IInv, TypeOK
  <1>2. Workers' = Workers /\ fenced' = fenced
    BY DEF Workers, fenced
  <1>3. QED
    BY <1>1, <1>2 DEF Calm, Protected

-----------------------------------------------------------------------------
(* The initial states.                                                      *)

LEMMA WorkersCount ==
    ASSUME TypeOK
    PROVE  /\ Cardinality(Worker) \in Nat /\ Cardinality(Workers) \in Nat
           /\ Cardinality(Workers) <= Cardinality(Worker)
  BY WorkersAre, ScenariosAssumption, FS_Subset, FS_CardinalityType

LEMMA InitRows ==
    ASSUME Init
    PROVE  /\ \A k \in Keys : k[2] # "__interrupt__" => rows[k] = MISSING
           /\ answer = MISSING /\ output = MISSING
  <1>1. rows = put_writes([k \in Keys |-> MISSING], task, [c \in {"__interrupt__"} |-> <<"approve step 1?">>])
    BY DEF Init
  <1>2. \A k \in Keys : k[2] # "__interrupt__" => rows[k] = MISSING
    BY <1>1 DEF put_writes
  <1>3. QED
    BY <1>2 DEF Keys, answer, output

LEMMA InitInv == Init => IInv
  <1> SUFFICES ASSUME Init PROVE IInv
    OBVIOUS
  <1>0. /\ scenario \in Scenarios /\ thawed = FALSE /\ late = 0 /\ chain = <<>> /\ acked = <<>>
        /\ fence = IF fenced THEN 1 ELSE 0
        /\ expect \in [Worker -> 1..(Cardinality(Workers) - 1)]
        /\ held = [w \in All |-> Plain] /\ pc = [w \in All |-> "idle"]
        /\ mem = [w \in All |-> <<>>] /\ pend = [w \in All |-> {}]
        /\ block = [w \in All |-> None] /\ bounced = [w \in All |-> FALSE]
    BY DEF Init
  <1>1. TypeOK
    <2>1. chain \in Seq(Answers)
      BY <1>0
    <2>2. Workers \subseteq Worker /\ A \in Worker /\ IsFiniteSet(Worker) /\ fenced \in BOOLEAN
      BY <1>0, ScenariosAssumption DEF Workers, fenced
    <2>3. Cardinality(Worker) \in Nat /\ Cardinality(Workers) \in Nat /\ Cardinality(Workers) <= Cardinality(Worker)
      BY <2>2, FS_Subset, FS_CardinalityType
    <2>4. expect \in [Worker -> 1..Cardinality(Worker)]
      <3>1. \A n \in 1..(Cardinality(Workers) - 1) : n \in 1..Cardinality(Worker)
        BY <2>3
      <3>2. QED
        BY <3>1, <1>0
    <2>5. fence \in 0..(Cardinality(Worker) + 1) /\ Plain \in 0..(Cardinality(Worker) + 1)
      BY <1>0, <2>2, <2>3 DEF Plain
    <2>6. \A k \in Keys : k[2] # "__interrupt__" => rows[k] \in Answers
      BY InitRows, NoAnswer
    <2>7. held \in [All -> 0..(Cardinality(Worker) + 1)]
      BY <2>5, <1>0
    <2>8. mem \in [All -> Answers]
      BY <1>0, NoAnswer DEF MISSING
    <2>9. QED
      BY <1>0, <2>1, <2>4, <2>5, <2>6, <2>7, <2>8 DEF TypeOK
  <1>2. acked \in Seq(All) /\ answer = MISSING /\ output = MISSING
    BY <1>0, InitRows
  <1>3. FenceInv
    <2>1. fenced \in BOOLEAN /\ fence \in Nat /\ (fenced => fence >= 1)
      BY <1>0, <1>1, WorkersAre
    <2>2. \A v \in All : held[v] = 0 /\ pc[v] = "idle"
      BY <1>0 DEF Plain
    <2>3. QED
      BY <2>1, <2>2, WorkersAre, <1>1 DEF FenceInv, Plain
  <1>4. \A v \in All : BatchInv(v)
    BY <1>0 DEF BatchInv, Open, None
  <1>5. RowsInv
    <2>1. \A v \in All : mem[v] = MISSING
      BY <1>0 DEF MISSING
    <2>2. QED
      BY <1>2, <2>1, NoAnswer DEF RowsInv, MISSING
  <1>6. AnswersWereGiven
    BY <1>0 DEF AnswersWereGiven
  <1>7. FirstAnswerInv /\ OutputInv /\ EndInv
    <2>1. \A v \in All : pc[v] = "idle" /\ mem[v] = <<>>
      BY <1>0
    <2>2. FirstAnswerInv
      BY <1>0, <1>2, <2>1 DEF FirstAnswerInv, MISSING
    <2>3. QED
      BY <1>0, <1>2, <2>2 DEF OutputInv, EndInv
  <1>8. QED
    BY <1>1, <1>2, <1>3, <1>4, <1>5, <1>6, <1>7 DEF IInv, CalmInv

-----------------------------------------------------------------------------
(* Steps that leave the store alone.                                        *)

\* No answer is taken back from a worker that was asked.
LEMMA GivenStay ==
    ASSUME IInv, UNCHANGED <<answer, output, chain, mem>>, \A v \in All : Asked(v) => Asked(v)'
    PROVE  RowsInv' /\ AnswersWereGiven'
  <1>1. answer \in Answers /\ output \in Answers /\ \A v \in All : mem[v] \in Answers
    BY TypedRows DEF IInv, TypeOK
  <1>2. /\ DOMAIN answer = 1..Len(answer) /\ \A n \in DOMAIN answer : answer[n] \in All
        /\ DOMAIN output = 1..Len(output) /\ \A n \in DOMAIN output : output[n] \in All
        /\ \A v \in All : DOMAIN mem[v] = 1..Len(mem[v]) /\ \A n \in DOMAIN mem[v] : mem[v][n] \in All
    BY <1>1, AnswerLists
  <1>3. RowsInv'
    BY <1>2 DEF IInv, RowsInv, Asked
  <1>4. ASSUME NEW i \in DOMAIN chain PROVE \A n \in DOMAIN chain[i] : chain[i][n] \in All
    <2>1. chain \in Seq(Answers)
      BY DEF IInv, TypeOK
    <2>2. chain[i] \in Answers
      BY <2>1
    <2>3. QED
      BY <2>2, AnswerLists
  <1>5. AnswersWereGiven'
    BY <1>4 DEF IInv, AnswersWereGiven, Asked
  <1>6. QED
    BY <1>3, <1>5

\* What the calm relies on stays when no worker begins to run, none stops being
\* stale, and none loses a batch that is not written.
LEMMA CalmStays ==
    ASSUME IInv, Calm, UNCHANGED <<answer, output, chain, mem>>,
           acked' = acked \/ (answer # MISSING /\ acked'[1] = answer[1]),
           \A v \in All :
             /\ Running(v)' => Running(v)
             /\ Running(v)' /\ Stale(v) => Stale(v)'
             /\ pc'[v] = "ran" /\ mem[v] = <<>> /\ ~bounced'[v] /\ ~Open(v, "pause")'
                  => pc[v] = "ran" /\ ~bounced[v] /\ ~Open(v, "pause")
             /\ Running(v)' /\ pc[v] = "ran" /\ ~Open(v, "put")
                  => pc'[v] = "ran" /\ ~Open(v, "put")'
    PROVE  CalmInv'
  <1>1. FirstAnswerInv /\ OutputInv /\ EndInv
    BY DEF IInv, CalmInv
  <1>2. FirstAnswerInv'
    BY <1>1 DEF FirstAnswerInv
  <1>3. OutputInv'
    BY <1>1 DEF OutputInv
  <1>4. EndInv'
    BY <1>1 DEF EndInv, consumed
  <1>5. QED
    BY <1>2, <1>3, <1>4 DEF CalmInv

LEMMA SameRows ==
    ASSUME UNCHANGED rows
    PROVE  answer' = answer /\ output' = output
  BY DEF answer, output

LEMMA SameScenario ==
    ASSUME UNCHANGED scenario
    PROVE  Workers' = Workers /\ Gated' = Gated /\ fenced' = fenced
  BY DEF Workers, Gated, fenced

LEMMA StartKeeps ==
    ASSUME IInv, NEW w \in Workers \union {Later}, Start(w)
    PROVE  IInv'
  <1> DEFINE wins == fenced /\ w \in Workers \ {A} /\ fence = expect[w]
  <1>0. /\ pc[w] = "idle" /\ (w = Later => LaterMayStart)
        /\ fence' = IF wins THEN fence + 1 ELSE fence
        /\ held' = [held EXCEPT ![w] = IF wins THEN fence' ELSE IF fenced /\ w = A THEN 1 ELSE Plain]
        /\ pc' = [pc EXCEPT ![w] = "claimed"]
        /\ UNCHANGED <<scenario, expect, mem, pend, block, bounced, rows, chain, thawed, acked, late>>
    BY DEF Start
  <1>1. TypeOK /\ FenceInv /\ Workers \subseteq Worker /\ A \in Workers /\ Later \notin Workers
        /\ Workers \subseteq All /\ w \in All /\ fenced \in BOOLEAN
    BY WorkersAre DEF IInv
  <1>2. UNCHANGED <<answer, output, Workers, Gated, fenced>>
    BY <1>0, SameRows, SameScenario
  <1>3. fence' \in 0..(Cardinality(Worker) + 1) /\ fence' >= fence
    <2>1. wins => fence <= Cardinality(Worker)
      BY <1>1, WorkersCount DEF TypeOK
    <2>2. QED
      BY <1>0, <1>1, <2>1, WorkersCount DEF TypeOK
  <1>4. held'[w] \in {Plain, 1, fence'} /\ (held'[w] = 1 => fence' >= 1) /\ held'[w] \in 0..(Cardinality(Worker) + 1)
    BY <1>0, <1>1, <1>3, WorkersCount DEF TypeOK, FenceInv, Plain
  <1>5. TypeOK'
    <2>1. held' \in [All -> 0..(Cardinality(Worker) + 1)] /\ pc' \in [All -> {"idle", "claimed", "loaded", "ran", "ok", "refused", "killed"}]
      BY <1>0, <1>1, <1>4 DEF TypeOK
    <2>2. QED
      BY <1>0, <1>1, <1>3, <2>1 DEF TypeOK
  <1>6. FenceInv'
    <2>1. \A v \in All : v # w => held'[v] = held[v] /\ pc'[v] = pc[v] /\ held[v] <= fence'
      BY <1>0, <1>1, <1>3 DEF TypeOK, FenceInv
    <2>2. held'[w] # Plain => w \in Workers /\ held'[w] <= fence'
      BY <1>0, <1>1, <1>3 DEF TypeOK, FenceInv, Plain
    <2>3. /\ held'[w] = 1 => w = A
          /\ \A v \in All : held'[w] # Plain /\ held'[v] = held'[w] => v = w
      BY <1>0, <1>1, <1>3 DEF TypeOK, FenceInv, Plain
    <2>4. held'[w] <= fence' /\ pc'[w] = "claimed"
      BY <1>0, <1>1, <1>3, <2>2 DEF TypeOK, Plain
    <2>5. pc'[Later] # "idle" => \A v \in Workers : pc'[v] # "idle" /\ ~Live(v)'
      BY <1>0, <1>1 DEF LaterMayStart, FenceInv, Live, TypeOK
    <2>6. held'[Later] = Plain
      BY <1>0, <1>1 DEF FenceInv, TypeOK
    <2>7. fenced' => fence' >= 1
      BY <1>1, <1>2, <1>3 DEF FenceInv, TypeOK
    <2>8. \A u, v \in All : held'[u] # Plain /\ held'[u] = held'[v] => u = v
      BY <1>1, <2>1, <2>3 DEF FenceInv
    <2>9. QED
      BY <1>1, <1>2, <2>1, <2>2, <2>3, <2>4, <2>5, <2>6, <2>7, <2>8 DEF FenceInv
  <1>7. \A v \in All : Running(v)' = Running(v) /\ (pc'[v] = "ran" <=> pc[v] = "ran") /\ (Asked(v)' = Asked(v))
    BY <1>0, <1>1 DEF Running, Asked, TypeOK
  <1>8. \A v \in All : BatchInv(v)'
    BY <1>0, <1>7 DEF IInv, BatchInv, Open
  <1>9. RowsInv' /\ AnswersWereGiven'
    BY <1>0, <1>2, <1>7, GivenStay
  <1>10. CalmInv'
    <2>1. SUFFICES ASSUME Calm' PROVE CalmInv'
      BY DEF CalmInv
    <2>2. Calm
      BY <2>1, <1>0, <1>1, CalmBefore DEF TypeOK
    <2>3. \A v \in All : Running(v) /\ Stale(v) => Stale(v)'
      BY <1>0, <1>1, <1>2, <1>3 DEF Running, Stale, TypeOK
    <2>4. QED
      BY <1>0, <1>2, <1>7, <2>2, <2>3, CalmStays DEF Open
  <1>11. QED
    BY <1>0, <1>5, <1>6, <1>8, <1>9, <1>10 DEF IInv

\* The steps that leave the fence and the store to others.
LEMMA FenceStays ==
    ASSUME IInv, UNCHANGED <<scenario, fence, held>>,
           \A v \in All : /\ pc'[v] = "idle" <=> pc[v] = "idle"
                          /\ Live(v)' => Live(v)
    PROVE  FenceInv'
  <1>1. UNCHANGED <<Workers, fenced>>
    BY SameScenario
  <1>2. Workers \subseteq All /\ Later \in All
    BY WorkersAre DEF IInv
  <1>3. QED
    BY <1>1, <1>2 DEF IInv, FenceInv

LEMMA approveKeeps ==
    ASSUME IInv, NEW w \in Workers \union {Later}, approve(w)
    PROVE  IInv'
  <1>0. /\ pc[w] = "loaded" /\ pc' = [pc EXCEPT ![w] = "ran"]
        /\ UNCHANGED <<scenario, fence, expect, held, mem, block, bounced, rows, chain, thawed, acked, late>>
        /\ TypeOK /\ w \in All
    BY WorkersAre DEF approve, IInv
  <1>1. mem[w] \in Answers /\ Len(mem[w]) \in 0..2 /\ (Len(mem[w]) = 0 <=> mem[w] = <<>>)
    BY <1>0, AnswerLists DEF TypeOK
  <1>2. PICK B \in {{"pause"}, {"done", "put"}, {"put"}} :
           /\ pend' = [pend EXCEPT ![w] = @ \union B]
           /\ "pause" \in B <=> Len(mem[w]) = 0
           /\ "done" \in B <=> Len(mem[w]) = 1
    <2>1. CASE Len(mem[w]) = 0
      BY <2>1 DEF approve
    <2>2. CASE Len(mem[w]) = 1
      BY <2>2 DEF approve
    <2>3. CASE Len(mem[w]) = 2
      BY <2>3 DEF approve
    <2>4. QED
      BY <1>1, <2>1, <2>2, <2>3
  <1>3. \A v \in All : /\ v # w => pc'[v] = pc[v] /\ pend'[v] = pend[v]
                       /\ Running(v)' = Running(v) /\ (Asked(v) => Asked(v)')
    BY <1>0, <1>2 DEF Running, Asked, TypeOK
  <1>4. pc'[w] = "ran" /\ pend'[w] = pend[w] \union B
    BY <1>0, <1>2 DEF TypeOK
  <1>5. TypeOK'
    BY <1>0, <1>2 DEF TypeOK
  <1>6. FenceInv'
    BY <1>0, <1>3, <1>4, FenceStays DEF Live
  <1>7. ASSUME NEW v \in All PROVE BatchInv(v)'
    <2>1. BatchInv(v) /\ BatchInv(w)
      BY <1>0 DEF IInv
    <2>2. CASE v # w
      BY <1>0, <1>3, <2>1, <2>2 DEF BatchInv, Open
    <2>3. CASE v = w
      BY <1>0, <1>2, <1>4, <2>1, <2>3 DEF BatchInv, Open, Running, None
    <2>4. QED
      BY <2>2, <2>3
  <1>8. UNCHANGED <<answer, output>>
    BY <1>0, SameRows
  <1>9. RowsInv' /\ AnswersWereGiven'
    BY <1>0, <1>3, <1>8, GivenStay
  <1>10. CalmInv'
    <2>1. SUFFICES ASSUME Calm' PROVE CalmInv'
      BY DEF CalmInv
    <2>2. Calm
      BY <2>1, <1>0, <1>3, <1>4, WorkersAre, CalmBefore
    <2>3. \A v \in All : Stale(v) => Stale(v)'
      BY <1>0, SameScenario DEF Stale
    <2>4. Open(w, "pause")' \/ mem[w] # <<>>
      BY <1>1, <1>2, <1>4 DEF Open
    <2>5. QED
      BY <1>0, <1>3, <1>8, <2>2, <2>3, <2>4, CalmStays DEF Open
  <1>11. QED
    BY <1>0, <1>5, <1>6, <1>7, <1>9, <1>10 DEF IInv

LEMMA AdmitKeeps ==
    ASSUME IInv, NEW w \in Workers \union {Later}, NEW b \in pend[w], Admit(w, b)
    PROVE  IInv'
  <1>0. /\ block[w] = None /\ block' = [block EXCEPT ![w] = b]
        /\ pend' = [pend EXCEPT ![w] = @ \ {b}]
        /\ UNCHANGED <<scenario, fence, expect, held, pc, mem, bounced, rows, chain, thawed, acked, late>>
        /\ TypeOK /\ w \in All /\ b \in {"resume", "pause", "done", "put"}
    BY WorkersAre DEF Admit, IInv, TypeOK
  <1>1. TypeOK'
    BY <1>0 DEF TypeOK
  <1>2. FenceInv'
    BY <1>0, FenceStays DEF Live
  <1>3. \A v \in All, c \in {"resume", "pause", "done", "put"} : Open(v, c)' = Open(v, c)
    BY <1>0 DEF Open, TypeOK, None
  <1>4. ASSUME NEW v \in All PROVE BatchInv(v)'
    <2>1. BatchInv(v) /\ block'[v] \notin pend'[v] \ {None}
      BY <1>0 DEF IInv, BatchInv, TypeOK
    <2>2. QED
      BY <1>0, <1>3, <2>1 DEF BatchInv, Running
  <1>5. UNCHANGED <<answer, output>>
    BY <1>0, SameRows
  <1>6. RowsInv' /\ AnswersWereGiven'
    BY <1>0, <1>5, GivenStay DEF Asked
  <1>7. CalmInv'
    <2>1. SUFFICES ASSUME Calm' PROVE CalmInv'
      BY DEF CalmInv
    <2>2. Calm
      BY <2>1, <1>0, CalmBefore
    <2>3. \A v \in All : Stale(v) => Stale(v)'
      BY <1>0, SameScenario DEF Stale
    <2>4. QED
      BY <1>0, <1>3, <1>5, <2>2, <2>3, CalmStays DEF Running
  <1>8. QED
    BY <1>0, <1>1, <1>2, <1>4, <1>6, <1>7 DEF IInv

LEMMA RefuseKeeps ==
    ASSUME IInv, NEW w \in Workers \union {Later}, NEW b \in pend[w], Refuse(w, b)
    PROVE  IInv'
  <1>0. /\ bounced' = [bounced EXCEPT ![w] = TRUE]
        /\ pend' = [pend EXCEPT ![w] = @ \ {b}]
        /\ UNCHANGED <<scenario, fence, expect, held, pc, mem, block, rows, chain, thawed, acked, late>>
        /\ TypeOK /\ w \in All
    BY WorkersAre DEF Refuse, IInv, TypeOK
  <1>1. TypeOK'
    BY <1>0 DEF TypeOK
  <1>2. FenceInv'
    BY <1>0, FenceStays DEF Live
  <1>3. \A v \in All, c \in {"resume", "pause", "done", "put"} :
           (Open(v, c)' => Open(v, c)) /\ (v # w => Open(v, c)' = Open(v, c))
    BY <1>0 DEF Open, TypeOK
  <1>4. ASSUME NEW v \in All PROVE BatchInv(v)'
    <2>1. BatchInv(v) /\ block'[v] \notin pend'[v] \ {None}
      BY <1>0 DEF IInv, BatchInv, TypeOK
    <2>2. QED
      BY <1>0, <1>3, <2>1 DEF BatchInv, Running
  <1>5. UNCHANGED <<answer, output>>
    BY <1>0, SameRows
  <1>6. RowsInv' /\ AnswersWereGiven'
    BY <1>0, <1>5, GivenStay DEF Asked
  <1>7. CalmInv'
    <2>1. SUFFICES ASSUME Calm' PROVE CalmInv'
      BY DEF CalmInv
    <2>2. Calm
      BY <2>1, <1>0, CalmBefore
    <2>3. \A v \in All : Stale(v) => Stale(v)'
      BY <1>0, SameScenario DEF Stale
    <2>4. \A v \in All : (~bounced'[v] => v # w /\ ~bounced[v])
      BY <1>0 DEF TypeOK
    <2>5. QED
      BY <1>0, <1>3, <1>5, <2>2, <2>3, <2>4, CalmStays DEF Running
  <1>8. QED
    BY <1>0, <1>1, <1>2, <1>4, <1>6, <1>7 DEF IInv

LEMMA KillKeeps ==
    ASSUME IInv, NEW w \in Workers \union {Later}, Kill(w)
    PROVE  IInv'
  <1>0. /\ Live(w) /\ pc' = [pc EXCEPT ![w] = "killed"]
        /\ block' = [block EXCEPT ![w] = None] /\ pend' = [pend EXCEPT ![w] = {}]
        /\ UNCHANGED <<scenario, fence, expect, held, mem, bounced, rows, chain, thawed, acked, late>>
        /\ TypeOK /\ w \in All
    BY WorkersAre DEF Kill, IInv
  <1>1. TypeOK'
    BY <1>0 DEF TypeOK
  <1>2. \A v \in All : v # w => pc'[v] = pc[v] /\ block'[v] = block[v] /\ pend'[v] = pend[v]
    BY <1>0 DEF TypeOK
  <1>3. pc'[w] = "killed" /\ block'[w] = None /\ pend'[w] = {}
    BY <1>0 DEF TypeOK
  <1>4. FenceInv'
    BY <1>0, <1>2, <1>3, FenceStays DEF Live
  <1>5. ASSUME NEW v \in All PROVE BatchInv(v)'
    <2>1. CASE v # w
      BY <1>0, <1>2, <2>1 DEF IInv, BatchInv, Open, Running
    <2>2. CASE v = w
      BY <1>3, <2>2 DEF BatchInv, Open, None
    <2>3. QED
      BY <2>1, <2>2
  <1>6. UNCHANGED <<answer, output>> /\ \A v \in All : Asked(v) => Asked(v)'
    BY <1>0, <1>2, <1>3, SameRows DEF Asked
  <1>7. RowsInv' /\ AnswersWereGiven'
    BY <1>0, <1>6, GivenStay
  <1>8. CalmInv'
    <2>1. SUFFICES ASSUME Calm' PROVE CalmInv'
      BY DEF CalmInv
    <2>2. Calm
      BY <2>1, <1>0, <1>2, <1>3, WorkersAre, CalmBefore
    <2>3. \A v \in All : Stale(v) => Stale(v)'
      BY <1>0, SameScenario DEF Stale
    <2>4. QED
      BY <1>0, <1>2, <1>3, <1>6, <2>2, <2>3, CalmStays DEF Running, Open
  <1>9. QED
    BY <1>0, <1>1, <1>4, <1>5, <1>7, <1>8 DEF IInv

LEMMA ThawKeeps ==
    ASSUME IInv, Thaw
    PROVE  IInv'
  <1>0. /\ thawed' = TRUE /\ TypeOK
        /\ UNCHANGED <<scenario, fence, expect, held, pc, mem, pend, block, bounced, rows, chain, acked, late>>
    BY DEF Thaw, IInv
  <1>1. TypeOK'
    BY <1>0 DEF TypeOK
  <1>2. FenceInv'
    BY <1>0, FenceStays DEF Live
  <1>3. \A v \in All : BatchInv(v)'
    BY <1>0 DEF IInv, BatchInv, Open, Running
  <1>4. UNCHANGED <<answer, output>>
    BY <1>0, SameRows
  <1>5. RowsInv' /\ AnswersWereGiven'
    BY <1>0, <1>4, GivenStay DEF Asked
  <1>6. CalmInv'
    <2>1. SUFFICES ASSUME Calm' PROVE CalmInv'
      BY DEF CalmInv
    <2>2. Calm
      BY <2>1, <1>0, CalmBefore
    <2>3. \A v \in All : Stale(v) => Stale(v)'
      BY <1>0, SameScenario DEF Stale
    <2>4. QED
      BY <1>0, <1>4, <2>2, <2>3, CalmStays DEF Running, Open
  <1>7. QED
    BY <1>0, <1>1, <1>2, <1>3, <1>5, <1>6 DEF IInv

LEMMA ReportKeeps ==
    ASSUME IInv, NEW w \in Workers \union {Later}, Report(w)
    PROVE  IInv'
  <1>0. /\ pc[w] = "ran" /\ pend[w] = {} /\ block[w] = None
        /\ pc' = [pc EXCEPT ![w] = IF bounced[w] THEN "refused" ELSE "ok"]
        /\ acked' = IF ~bounced[w] /\ mem[w] = <<>> THEN Append(acked, w) ELSE acked
        /\ UNCHANGED <<scenario, fence, expect, held, mem, pend, block, bounced, rows, chain, thawed, late>>
        /\ TypeOK /\ w \in All /\ acked \in Seq(All)
    BY WorkersAre DEF Report, IInv
  <1>1. \A v \in All : v # w => pc'[v] = pc[v]
    BY <1>0 DEF TypeOK
  <1>2. pc'[w] \in {"refused", "ok"}
    BY <1>0 DEF TypeOK
  <1>3. TypeOK' /\ acked' \in Seq(All)
    BY <1>0 DEF TypeOK
  <1>4. FenceInv'
    BY <1>0, <1>1, <1>2, FenceStays DEF Live
  <1>5. ASSUME NEW v \in All PROVE BatchInv(v)'
    <2>1. BatchInv(v)
      BY DEF IInv
    <2>2. CASE v # w
      BY <1>0, <1>1, <2>1, <2>2 DEF BatchInv, Open, Running
    <2>3. CASE v = w
      BY <1>0, <2>1, <2>3 DEF BatchInv, Open, None
    <2>4. QED
      BY <2>2, <2>3
  <1>6. UNCHANGED <<answer, output>> /\ \A v \in All : Asked(v) => Asked(v)'
    BY <1>0, <1>1, <1>2, SameRows DEF Asked
  <1>7. RowsInv' /\ AnswersWereGiven'
    BY <1>0, <1>6, GivenStay
  <1>8. CalmInv'
    <2>1. SUFFICES ASSUME Calm' PROVE CalmInv'
      BY DEF CalmInv
    <2>2. Calm
      BY <2>1, <1>0, <1>1, <1>2, WorkersAre, CalmBefore
    <2>3. \A v \in All : Stale(v) => Stale(v)'
      BY <1>0, SameScenario DEF Stale
    <2>4. acked' = acked \/ (answer # MISSING /\ acked'[1] = answer[1])
      <3>1. CASE bounced[w] \/ mem[w] # <<>>
        BY <1>0, <3>1
      <3>2. CASE ~bounced[w] /\ mem[w] = <<>>
        <4>1. FirstAnswerInv
          BY <2>2 DEF IInv, CalmInv
        <4>2. ~Open(w, "pause")
          BY <1>0 DEF Open, None
        <4>3. answer # MISSING /\ answer[1] = w
          BY <1>0, <3>2, <4>1, <4>2 DEF FirstAnswerInv
        <4>4. acked # <<>> => acked[1] = answer[1]
          BY <4>1 DEF FirstAnswerInv
        <4>5. acked' = Append(acked, w)
          BY <1>0, <3>2
        <4>6. acked'[1] = IF acked = <<>> THEN w ELSE acked[1]
          <5>1. CASE acked = <<>>
            BY <4>5, <5>1
          <5>2. CASE acked # <<>>
            BY <1>0, <4>5, <5>2, EmptySeq, AppendProperties
          <5>3. QED
            BY <5>1, <5>2
        <4>7. QED
          BY <4>3, <4>4, <4>6
      <3>3. QED
        BY <3>1, <3>2
    <2>5. QED
      BY <1>0, <1>1, <1>2, <1>6, <2>2, <2>3, <2>4, CalmStays DEF Running, Open
  <1>9. QED
    BY <1>0, <1>3, <1>4, <1>5, <1>7, <1>8 DEF IInv

LEMMA LoadKeeps ==
    ASSUME IInv, NEW w \in Workers \union {Later}, Load(w)
    PROVE  IInv'
  <1> DEFINE read == IF output # MISSING THEN output ELSE answer
  <1>0. /\ pc[w] = "claimed" /\ TypeOK /\ w \in All
        /\ UNCHANGED <<scenario, fence, expect, held, block, bounced, rows, chain, thawed, acked, late>>
        /\ \/ chain # <<>> /\ pc' = [pc EXCEPT ![w] = "ok"] /\ UNCHANGED <<mem, pend>>
           \/ /\ chain = <<>> /\ pc' = [pc EXCEPT ![w] = "loaded"]
              /\ mem' = [mem EXCEPT ![w] = read] /\ pend' = [pend EXCEPT ![w] = {"resume"}]
    BY WorkersAre DEF Load, IInv, answer, output
  <1>1. answer \in Answers /\ output \in Answers /\ read \in Answers
    BY <1>0, TypedRows
  <1>2. \A v \in All : v # w => pc'[v] = pc[v] /\ pend'[v] = pend[v] /\ mem'[v] = mem[v]
    BY <1>0 DEF TypeOK
  <1>3. pc'[w] \in {"ok", "loaded"} /\ pc'[w] # "idle" /\ Live(w)
    BY <1>0 DEF TypeOK, Live
  <1>4. TypeOK'
    <2>1. /\ pc' \in [All -> {"idle", "claimed", "loaded", "ran", "ok", "refused", "killed"}]
          /\ mem' \in [All -> Answers] /\ pend' \in [All -> SUBSET {"resume", "pause", "done", "put"}]
      <3>1. CASE chain # <<>>
        BY <1>0, <3>1 DEF TypeOK
      <3>2. CASE chain = <<>>
        <4>1. mem' \in [All -> Answers]
          BY <1>0, <1>1, <3>2 DEF TypeOK
        <4>2. pend' \in [All -> SUBSET {"resume", "pause", "done", "put"}]
          <5>1. {"resume"} \in SUBSET {"resume", "pause", "done", "put"}
            OBVIOUS
          <5>2. QED
            BY <1>0, <3>2, <5>1 DEF TypeOK
        <4>3. pc' \in [All -> {"idle", "claimed", "loaded", "ran", "ok", "refused", "killed"}]
          BY <1>0, <3>2 DEF TypeOK
        <4>4. QED
          BY <4>1, <4>2, <4>3
      <3>3. QED
        BY <3>1, <3>2
    <2>2. QED
      BY <1>0, <2>1 DEF TypeOK
  <1>5. FenceInv'
    BY <1>0, <1>2, <1>3, FenceStays DEF Live
  <1>6. ~Asked(w) /\ ~Running(w) /\ \A v \in All : Asked(v) => Asked(v)'
    BY <1>0, <1>2 DEF Asked, Running
  <1>7. UNCHANGED <<answer, output>>
    BY <1>0, SameRows
  <1>8. CASE chain # <<>>
    <2>1. /\ pc'[w] = "ok" /\ UNCHANGED <<mem, pend>>
      BY <1>0, <1>8 DEF TypeOK
    <2>2. \A v \in All : BatchInv(v)'
      BY <1>0, <1>2, <1>6, <2>1 DEF IInv, BatchInv, Open, Running
    <2>3. RowsInv' /\ AnswersWereGiven'
      BY <1>0, <1>6, <1>7, <2>1, GivenStay
    <2>4. CalmInv'
      <3>1. SUFFICES ASSUME Calm' PROVE CalmInv'
        BY DEF CalmInv
      <3>2. Calm
        BY <3>1, <1>0, <1>2, <1>3, WorkersAre, CalmBefore
      <3>3. \A v \in All : Stale(v) => Stale(v)'
        BY <1>0, SameScenario DEF Stale
      <3>4. QED
        BY <1>0, <1>2, <1>7, <2>1, <3>2, <3>3, CalmStays DEF Running, Open
    <2>5. QED
      BY <1>0, <1>4, <1>5, <2>2, <2>3, <2>4 DEF IInv
  <1>9. CASE chain = <<>>
    <2>1. pc'[w] = "loaded" /\ mem'[w] = read /\ pend'[w] = {"resume"} /\ chain' = <<>>
      BY <1>0, <1>9 DEF TypeOK
    <2>2. ASSUME NEW v \in All PROVE BatchInv(v)'
      <3>1. BatchInv(v)
        BY DEF IInv
      <3>2. CASE v # w
        BY <1>0, <1>2, <3>1, <3>2 DEF BatchInv, Open, Running
      <3>3. CASE v = w
        <4>1. block[w] = None
          BY <1>0, <1>6, <3>1, <3>3 DEF BatchInv, Open, TypeOK
        <4>2. QED
          BY <1>0, <2>1, <3>3, <4>1 DEF BatchInv, Open, Running, None
      <3>4. QED
        BY <3>2, <3>3
    <2>3. AnswersWereGiven'
      BY <2>1 DEF AnswersWereGiven
    <2>4. /\ read # MISSING => answer # MISSING
          /\ Len(read) = 1 => read = answer /\ output = MISSING /\ Asked(read[1]) /\ read[1] \in All /\ read[1] # w
          /\ Len(read) = 2 => read = output
          /\ read = MISSING => answer = MISSING
          /\ Len(read) = 1 => read # MISSING
      <3>1. RowsInv
        BY DEF IInv
      <3>2. Len(answer) = 1 => 1 \in DOMAIN answer /\ answer[1] \in All
        BY <1>1, AnswerLists
      <3>3. Len(MISSING) = 0
        BY NoAnswer
      <3>4. QED
        BY <1>6, <3>1, <3>2, <3>3 DEF RowsInv
    <2>5. RowsInv'
      <3> DEFINE Given == {"ran", "ok", "refused", "killed"}
      <3>0. \A u \in All : Asked(u) => pc'[u] \in Given
        BY <1>6 DEF Asked
      <3>1. RowsInv /\ DOMAIN answer = 1..Len(answer) /\ \A n \in DOMAIN answer : answer[n] \in All
        BY <1>1, AnswerLists DEF IInv
      <3>2. output # MISSING => output[1] \in All /\ output[2] \in All
        <4>1. DOMAIN output = 1..Len(output) /\ \A n \in DOMAIN output : output[n] \in All
          BY <1>1, AnswerLists
        <4>2. QED
          BY <3>1, <4>1 DEF RowsInv
      <3>3. ASSUME NEW v \in All, v # w
            PROVE  /\ mem'[v] # <<>> => answer # MISSING
                   /\ Len(mem'[v]) = 1 => pc'[mem'[v][1]] \in Given /\ mem'[v][1] # v
                   /\ Len(mem'[v]) = 2 => mem'[v] = output
        <4>1. Len(mem[v]) = 1 => mem[v][1] \in All
          <5>1. mem[v] \in Answers
            BY <1>0 DEF TypeOK
          <5>2. QED
            BY <5>1, AnswerLists
        <4>2. QED
          BY <1>2, <3>0, <3>1, <3>3, <4>1 DEF RowsInv
      <3>4. /\ mem'[w] # <<>> => answer # MISSING
            /\ Len(mem'[w]) = 1 => pc'[mem'[w][1]] \in Given /\ mem'[w][1] # w
            /\ Len(mem'[w]) = 2 => mem'[w] = output
        BY <3>0, <2>1, <2>4 DEF MISSING
      <3>5. /\ Len(answer') <= 1
            /\ \A n \in DOMAIN answer' : pc'[answer'[n]] \in Given
            /\ output' # MISSING => /\ answer' # MISSING /\ Len(output') = 2
                                    /\ output'[1] # output'[2]
                                    /\ pc'[output'[1]] \in Given /\ pc'[output'[2]] \in Given
        BY <1>7, <3>0, <3>1, <3>2 DEF RowsInv
      <3>6. QED
        BY <1>7, <3>3, <3>4, <3>5 DEF RowsInv, Asked
    <2>6. CalmInv'
      <3>1. SUFFICES ASSUME Calm' PROVE CalmInv'
        BY DEF CalmInv
      <3>2. Calm
        BY <3>1, <1>0, <1>2, <1>3, WorkersAre, CalmBefore
      <3>3. \A v \in All : Stale(v) => Stale(v)'
        BY <1>0, SameScenario DEF Stale
      <3>4. FirstAnswerInv /\ OutputInv
        BY <3>2 DEF IInv, CalmInv
      <3>5. \A v \in All : v # w => Running(v)' = Running(v) /\ Open(v, "pause")' = Open(v, "pause")
        BY <1>0, <1>2 DEF Running, Open
      <3>6. FirstAnswerInv'
        <4>1. mem'[w] # <<>> => mem'[w][1] = answer[1]
          BY <2>1, <2>4, <3>4 DEF FirstAnswerInv, MISSING
        <4>2. QED
          BY <1>0, <1>2, <1>7, <2>1, <2>4, <3>3, <3>4, <3>5, <4>1 DEF FirstAnswerInv, MISSING
      <3>7. OutputInv'
        BY <1>2, <1>7, <2>1, <2>4, <3>3, <3>4, <3>5 DEF OutputInv
      <3>8. EndInv'
        BY <2>1 DEF EndInv
      <3>9. QED
        BY <3>6, <3>7, <3>8 DEF CalmInv
    <2>7. QED
      BY <1>0, <1>4, <1>5, <2>2, <2>3, <2>5, <2>6 DEF IInv
  <1>10. QED
    BY <1>8, <1>9

-----------------------------------------------------------------------------
(* The commit of a batch, the only step that writes.                        *)

\* What a commit leaves in the rows and on the chain, by the batch.
LEMMA CommitWrites ==
    ASSUME IInv, NEW w \in Workers \union {Later}, Commit(w)
    PROVE  /\ w \in All /\ Running(w)
           /\ \/ block[w] = "resume" /\ UNCHANGED <<answer, output, chain>>
              \/ /\ block[w] = "pause" /\ mem[w] = <<>> /\ pc[w] = "ran"
                 /\ answer' = <<w>> /\ UNCHANGED <<output, chain>>
              \/ /\ block[w] = "done" /\ Len(mem[w]) = 1 /\ pc[w] = "ran"
                 /\ answer # MISSING /\ output' = IF output = MISSING THEN consumed(w) ELSE output
                 /\ UNCHANGED <<answer, chain>>
              \/ /\ block[w] = "put" /\ pc[w] = "ran" /\ answer # MISSING
                 /\ \/ Len(mem[w]) = 2 /\ mem[w] = output /\ chain' = Append(chain, output)
                    \/ Len(mem[w]) = 1 /\ chain' = Append(chain, consumed(w))
                 /\ UNCHANGED <<answer, output>>
  <1>0. /\ TypeOK /\ w \in All /\ BatchInv(w) /\ RowsInv
        /\ block[w] \in {"resume", "pause", "done", "put"} /\ Open(w, block[w])
        /\ rows' = stored(w, block[w])
        /\ chain' = IF block[w] = "put"
                    THEN Append(chain, IF Len(mem[w]) = 2 THEN mem[w] ELSE consumed(w)) ELSE chain
    BY WorkersAre DEF IInv, Commit, TypeOK, Open
  <1>1. mem[w] \in Answers /\ Len(mem[w]) \in 0..2 /\ (Len(mem[w]) = 0 <=> mem[w] = <<>>)
    BY <1>0, AnswerLists DEF TypeOK
  <1>2. Running(w) /\ (block[w] # "resume" => pc[w] = "ran")
    BY <1>0 DEF BatchInv
  <1>4. CASE block[w] = "resume"
    <2>1. answer' = answer /\ output' = output
      BY <1>0, <1>4, StoredRows
    <2>2. QED
      BY <1>0, <1>2, <1>4, <2>1
  <1>5. CASE block[w] = "pause"
    <2>1. answer' = consumed(w) /\ output' = output
      BY <1>0, <1>5, StoredRows
    <2>2. Len(mem[w]) = 0 /\ consumed(w) = <<w>>
      BY <1>0, <1>5, ConsumedIs DEF BatchInv
    <2>3. QED
      BY <1>0, <1>1, <1>2, <1>5, <2>1, <2>2
  <1>6. CASE block[w] = "done"
    <2>1. /\ answer' = IF answer = MISSING THEN consumed(w) ELSE answer
          /\ output' = IF output = MISSING THEN consumed(w) ELSE output
      BY <1>0, <1>6, StoredRows
    <2>2. Len(mem[w]) = 1 /\ answer # MISSING
      BY <1>0, <1>1, <1>6 DEF BatchInv, RowsInv
    <2>3. QED
      BY <1>0, <1>2, <1>6, <2>1, <2>2
  <1>7. CASE block[w] = "put"
    <2>1. answer' = answer /\ output' = output
      BY <1>0, <1>7, StoredRows
    <2>2. Len(mem[w]) \in {1, 2} /\ answer # MISSING
      BY <1>0, <1>1, <1>7 DEF BatchInv, RowsInv
    <2>3. QED
      BY <1>0, <1>2, <1>7, <2>1, <2>2 DEF RowsInv
  <1>8. QED
    BY <1>0, <1>4, <1>5, <1>6, <1>7

\* What is appended to the chain was given, by two workers.
LEMMA AppendedWasGiven ==
    ASSUME IInv, NEW w \in All, pc[w] = "ran",
           NEW e, (e = output /\ output # MISSING) \/ (Len(mem[w]) = 1 /\ e = consumed(w))
    PROVE  /\ e \in Answers /\ IsInjective(e) /\ Len(e) = 2
           /\ \A n \in DOMAIN e : e[n] \in All /\ Asked(e[n])
  <1>1. TypeOK /\ RowsInv /\ output \in Answers
    BY TypedRows DEF IInv
  <1>2. e \in Answers /\ Len(e) = 2 /\ e[1] # e[2] /\ Asked(e[1]) /\ Asked(e[2])
    <2>1. CASE e = output /\ output # MISSING
      BY <1>1, <2>1 DEF RowsInv
    <2>2. CASE Len(mem[w]) = 1 /\ e = consumed(w)
      <3>1. e \in Answers /\ Len(e) = 2 /\ e[1] = mem[w][1] /\ e[2] = w
        <4>1. Len(mem[w]) <= 1
          BY <2>2
        <4>2. QED
          BY <1>1, <2>2, <4>1, ConsumedIs
      <3>2. QED
        BY <1>1, <2>2, <3>1 DEF RowsInv, Asked
    <2>3. QED
      BY <2>1, <2>2
  <1>3. DOMAIN e = {1, 2} /\ e[1] \in All /\ e[2] \in All
    <2>1. DOMAIN e = 1..2 /\ \A n \in DOMAIN e : e[n] \in All
      BY <1>2, AnswerLists
    <2>2. QED
      BY <2>1
  <1>4. QED
    BY <1>2, <1>3 DEF IsInjective

LEMMA CommitKeeps ==
    ASSUME IInv, NEW w \in Workers \union {Later}, Commit(w)
    PROVE  IInv'
  <1>0. /\ TypeOK /\ w \in All /\ Running(w) /\ RowsInv /\ AnswersWereGiven
        /\ block' = [block EXCEPT ![w] = None]
        /\ late' = IF Owns(w) THEN late ELSE late + 1
        /\ UNCHANGED <<scenario, fence, expect, held, pc, mem, pend, bounced, thawed, acked>>
    BY CommitWrites DEF IInv, Commit
  <1>1. answer \in Answers /\ output \in Answers /\ \A v \in All : mem[v] \in Answers
    BY <1>0, TypedRows DEF TypeOK
  <1>2. /\ DOMAIN answer = 1..Len(answer) /\ \A n \in DOMAIN answer : answer[n] \in All
        /\ DOMAIN output = 1..Len(output) /\ \A n \in DOMAIN output : output[n] \in All
    BY <1>1, AnswerLists
  <1>3. \A v \in All, c \in {"resume", "pause", "done", "put"} :
           (Open(v, c)' => Open(v, c)) /\ (c # block[w] \/ v # w => Open(v, c)' = Open(v, c))
    BY <1>0 DEF Open, TypeOK, None
  <1>4. ASSUME NEW c, c = block[w], block[w] # None PROVE ~Open(w, c)'
    BY <1>0, <1>4 DEF IInv, BatchInv, Open, TypeOK
  <1>5. ASSUME NEW x, chain' = Append(chain, x), pc[w] = "ran",
               (x = output /\ output # MISSING) \/ (Len(mem[w]) = 1 /\ x = consumed(w))
        PROVE  /\ x \in Answers /\ IsInjective(x) /\ Len(x) = 2
               /\ \A n \in DOMAIN x : x[n] \in All /\ Asked(x[n])
               /\ chain' \in Seq(Answers) /\ DOMAIN chain' = 1..(Len(chain) + 1)
               /\ \A i \in DOMAIN chain' : chain'[i] = IF i = Len(chain) + 1 THEN x ELSE chain[i]
               /\ DOMAIN chain = 1..Len(chain) /\ Len(chain) \in Nat /\ Len(chain') = Len(chain) + 1
    <2>1. /\ x \in Answers /\ IsInjective(x) /\ Len(x) = 2
          /\ \A n \in DOMAIN x : x[n] \in All /\ Asked(x[n])
      BY <1>0, <1>5, AppendedWasGiven
    <2>2. chain \in Seq(Answers)
      BY <1>0 DEF TypeOK
    <2>3. QED
      BY <1>5, <2>1, <2>2, AppendProperties, LenProperties
  <1>6. ASSUME block[w] = "put"
        PROVE  /\ pc[w] = "ran" /\ answer # MISSING /\ UNCHANGED <<answer, output>>
               /\ \/ chain' = Append(chain, output) /\ output # MISSING /\ Len(mem[w]) = 2
                  \/ chain' = Append(chain, consumed(w)) /\ Len(mem[w]) = 1
    <2>1. Len(mem[w]) = 2 /\ mem[w] = output => output # MISSING
      BY NoAnswer
    <2>2. QED
      BY <1>6, <2>1, CommitWrites
  <1>7. TypeOK' /\ acked' \in Seq(All)
    <2>1. chain' \in Seq(Answers)
      <3>1. CASE block[w] = "put"
        <4>1. CASE chain' = Append(chain, output) /\ output # MISSING
          BY <1>5, <1>6, <3>1, <4>1
        <4>2. CASE chain' = Append(chain, consumed(w)) /\ Len(mem[w]) = 1
          BY <1>5, <1>6, <3>1, <4>2
        <4>3. QED
          BY <1>6, <3>1, <4>1, <4>2
      <3>2. CASE block[w] # "put"
        BY <1>0, <3>2, CommitWrites DEF TypeOK
      <3>3. QED
        BY <3>1, <3>2
    <2>2. \A k \in Keys : k[2] # "__interrupt__" => rows'[k] \in Answers
      <3>1. answer' \in Answers /\ output' \in Answers
        <4>1. Len(mem[w]) <= 1 => consumed(w) \in Answers
          BY <1>0, ConsumedIs
        <4>2. <<w>> \in Answers
          <5>1. <<w>> \in Seq(All) /\ Len(<<w>>) <= 2
            BY <1>0
          <5>2. QED
            BY <5>1, ListsAreAnswers
        <4>3. Len(mem[w]) = 1 => Len(mem[w]) <= 1
          OBVIOUS
        <4>4. QED
          BY <1>1, <4>1, <4>2, <4>3, CommitWrites
      <3>2. rows'[<<NULL_TASK_ID, "__resume__">>] \in Answers
        <4>1. <<w>> \in Seq(All) /\ Len(<<w>>) <= 2
          BY <1>0
        <4>2. <<w>> \in Answers
          BY <4>1, ListsAreAnswers
        <4>3. rows' = stored(w, block[w]) /\ block[w] \in {"resume", "pause", "done", "put"}
          BY <1>0 DEF Commit, TypeOK
        <4>4. QED
          BY <1>0, <4>2, <4>3, StoredRows, TypedRows
      <3>3. QED
        BY <3>1, <3>2 DEF Keys, answer, output
    <2>3. late' \in Nat /\ block' \in [All -> {None, "resume", "pause", "done", "put"}]
      BY <1>0 DEF TypeOK, None
    <2>4. QED
      BY <1>0, <2>1, <2>2, <2>3 DEF TypeOK, IInv
  <1>8. FenceInv'
    BY <1>0, FenceStays DEF Live
  <1>9. ASSUME NEW v \in All PROVE BatchInv(v)'
    <2>1. BatchInv(v) /\ block'[v] \notin pend'[v] \ {None}
      BY <1>0 DEF IInv, BatchInv, TypeOK
    <2>2. QED
      BY <1>0, <1>3, <2>1 DEF BatchInv, Running
  <1>10. RowsInv'
    <2>1. \A v \in All : /\ mem[v] # <<>> => answer # MISSING
                         /\ Len(mem[v]) = 1 => Asked(mem[v][1]) /\ mem[v][1] # v
                         /\ Len(mem[v]) = 2 => mem[v] = output
      BY <1>0 DEF RowsInv
    <2>2. answer' # MISSING \/ answer' = answer
      <3>1. <<w>> # MISSING
        BY DEF MISSING
      <3>2. QED
        BY <3>1, CommitWrites
    <2>3. output # MISSING => output' = output
      BY CommitWrites
    <2>4. \A v \in All : Len(mem[v]) = 2 => mem[v] = output'
      BY <1>0, <2>1, <2>3, NoAnswer
    <2>5. Len(answer') <= 1 /\ \A n \in DOMAIN answer' : Asked(answer'[n])
      <3>1. CASE answer' = answer
        BY <1>0, <3>1 DEF RowsInv
      <3>2. CASE answer' = <<w>> /\ pc[w] = "ran"
        BY <3>2 DEF Asked
      <3>3. QED
        BY <3>1, <3>2, CommitWrites
    <2>6. output' # MISSING => /\ answer' # MISSING /\ Len(output') = 2
                               /\ output'[1] # output'[2]
                               /\ Asked(output'[1]) /\ Asked(output'[2])
      <3>1. CASE output' = output
        BY <1>0, <2>2, <3>1 DEF RowsInv, MISSING
      <3>2. CASE output' # output
        <4>1. output' = consumed(w) /\ Len(mem[w]) = 1 /\ pc[w] = "ran" /\ answer' # MISSING
          BY <3>2, CommitWrites
        <4>2. Len(mem[w]) <= 1
          BY <4>1
        <4>3. Len(output') = 2 /\ output'[1] = mem[w][1] /\ output'[2] = w
          BY <1>0, <4>1, <4>2, ConsumedIs
        <4>4. QED
          BY <1>0, <2>1, <4>1, <4>3 DEF Asked
      <3>3. QED
        BY <3>1, <3>2
    <2>7. QED
      BY <1>0, <2>1, <2>2, <2>4, <2>5, <2>6 DEF RowsInv, Asked
  <1>11. AnswersWereGiven'
    <2>1. CASE block[w] = "put"
      <3>1. PICK x \in {output, consumed(w)} :
               /\ chain' = Append(chain, x)
               /\ (x = output /\ output # MISSING) \/ (Len(mem[w]) = 1 /\ x = consumed(w))
        BY <1>6, <2>1
      <3>2. QED
        BY <1>0, <1>5, <1>6, <2>1, <3>1 DEF AnswersWereGiven, Asked
    <2>2. CASE block[w] # "put"
      BY <1>0, <2>2, CommitWrites DEF AnswersWereGiven
    <2>3. QED
      BY <2>1, <2>2
  <1>12. CalmInv'
    <2>1. SUFFICES ASSUME Calm' PROVE CalmInv'
      BY DEF CalmInv
    <2>2. Calm /\ Owns(w)
      <3>1. Calm
        BY <2>1, <1>0, CalmBefore
      <3>2. late = 0 /\ late' = 0
        BY <2>1, <3>1 DEF Calm
      <3>3. QED
        BY <1>0, <3>1, <3>2
    <2>3. \A v \in All : Stale(v)' = Stale(v) /\ Running(v)' = Running(v)
      BY <1>0, SameScenario DEF Stale, Running
    <2>4. \A v \in All : Running(v) /\ v # w => Stale(v)
      BY <1>0, <2>2, OthersAreStale
    <2>5. ~Stale(w)
      BY <1>0, <2>2, StaleIsLate DEF Running
    <2>6. FirstAnswerInv /\ OutputInv /\ EndInv
      BY <2>2 DEF IInv, CalmInv
    <2>7. answer # MISSING => answer' # MISSING /\ answer'[1] = answer[1]
      <3>1. ASSUME answer' = <<w>>, mem[w] = <<>>, answer # MISSING PROVE answer[1] = w
        BY <1>0, <2>5, <2>6, <3>1 DEF FirstAnswerInv
      <3>2. <<w>> # MISSING /\ <<w>>[1] = w
        BY DEF MISSING
      <3>3. QED
        BY <3>1, <3>2, CommitWrites
    <2>8. \/ answer' = answer /\ block[w] # "pause"
          \/ answer' # MISSING /\ answer'[1] = w /\ mem[w] = <<>> /\ block[w] = "pause"
      <3>1. <<w>> # MISSING /\ <<w>>[1] = w
        BY DEF MISSING
      <3>2. QED
        BY <3>1, CommitWrites
    <2>9. mem[w] # <<>> => answer # MISSING /\ mem[w][1] = answer[1]
      BY <1>0, <2>6 DEF RowsInv, FirstAnswerInv
    <2>10. ASSUME Len(mem[w]) = 1
           PROVE  /\ consumed(w) \in Seq(All) /\ Len(consumed(w)) = 2
                  /\ consumed(w)[1] = answer[1] /\ consumed(w)[2] = w /\ answer # MISSING
      <3>1. Len(mem[w]) <= 1 /\ mem[w] # <<>>
        BY <2>10, EmptySeq
      <3>2. QED
        BY <1>0, <2>9, <2>10, <3>1, ConsumedIs, AnswerLists
    <2>11. \/ output' = output
           \/ /\ output = MISSING /\ output' = consumed(w) /\ Len(mem[w]) = 1
              /\ block[w] = "done" /\ pc[w] = "ran"
      BY CommitWrites
    <2>12. FirstAnswerInv'
      <3>1. answer' # MISSING => \A v \in All : Running(v) /\ mem[v] = <<>> => Stale(v) \/ answer'[1] = v
        BY <2>4, <2>6, <2>8 DEF FirstAnswerInv
      <3>2. ASSUME NEW v \in All, pc[v] = "ran", mem[v] = <<>>, ~bounced[v], ~Open(v, "pause")'
            PROVE  answer' # MISSING /\ answer'[1] = v
        BY <1>3, <2>6, <2>7, <2>8, <3>2 DEF FirstAnswerInv
      <3>3. \A v \in All : mem[v] # <<>> => mem[v][1] = answer'[1]
        BY <1>0, <2>6, <2>7 DEF FirstAnswerInv, RowsInv
      <3>4. output' # MISSING => output'[1] = answer'[1]
        BY <1>0, <2>6, <2>7, <2>10, <2>11 DEF FirstAnswerInv, RowsInv
      <3>5. \A i \in DOMAIN chain' : answer' # MISSING /\ chain'[i][1] = answer'[1]
        <4>1. CASE block[w] = "put"
          <5>1. PICK x \in {output, consumed(w)} :
                   /\ chain' = Append(chain, x)
                   /\ (x = output /\ output # MISSING) \/ (Len(mem[w]) = 1 /\ x = consumed(w))
            BY <1>6, <4>1
          <5>2. x[1] = answer'[1] /\ answer' # MISSING
            BY <1>0, <2>6, <2>7, <2>10, <5>1 DEF FirstAnswerInv, RowsInv
          <5>3. QED
            BY <1>5, <1>6, <2>6, <2>7, <4>1, <5>1, <5>2 DEF FirstAnswerInv
        <4>2. CASE block[w] # "put"
          BY <2>6, <2>7, <4>2, CommitWrites DEF FirstAnswerInv
        <4>3. QED
          BY <4>1, <4>2
      <3>6. acked # <<>> => answer' # MISSING /\ acked[1] = answer'[1]
        BY <2>6, <2>7 DEF FirstAnswerInv
      <3>7. QED
        BY <1>0, <2>3, <3>1, <3>2, <3>3, <3>4, <3>5, <3>6 DEF FirstAnswerInv
    <2>13. OutputInv'
      BY <1>0, <2>3, <2>4, <2>6, <2>10, <2>11 DEF OutputInv
    <2>14. EndInv'
      <3>1. CASE block[w] # "put"
        <4>1. chain' = chain
          BY <3>1, CommitWrites
        <4>2. chain # <<>> /\ Len(mem[w]) = 1 => chain[1] = consumed(w)
          BY <1>0, <2>5, <2>6 DEF EndInv
        <4>3. chain # <<>> => output' \in {MISSING, chain[1]}
          BY <2>6, <2>11, <4>2 DEF EndInv
        <4>4. QED
          BY <1>0, <1>3, <2>3, <2>6, <3>1, <4>1, <4>3 DEF EndInv, consumed
      <3>2. CASE block[w] = "put"
        <4>1. chain = <<>>
          BY <1>0, <2>5, <2>6, <3>2 DEF EndInv, Open
        <4>2. PICK x : /\ chain' = Append(chain, x)
                       /\ \/ x = output /\ output # MISSING /\ Len(mem[w]) = 2
                          \/ Len(mem[w]) = 1 /\ x = consumed(w)
          BY <1>6, <3>2
        <4>3. Len(chain) = 0 /\ Len(chain') = 1 /\ chain'[1] = x
          <5>1. chain' = <<x>>
            BY <4>1, <4>2
          <5>2. QED
            BY <4>1, <5>1
        <4>4. output \in {MISSING, x}
          <5>1. ASSUME Len(mem[w]) = 1, x = consumed(w), output # MISSING PROVE output = x
            <6>1. output[1] = answer[1] /\ output[2] = w /\ Len(output) = 2 /\ output \in Seq(All)
              BY <1>0, <1>1, <2>5, <2>6, <5>1, AnswerLists DEF FirstAnswerInv, OutputInv, RowsInv
            <6>2. QED
              BY <2>10, <5>1, <6>1, SeqEqual
          <5>2. QED
            BY <4>2, <5>1
        <4>5. pc[w] = "ran" /\ ~Open(w, "put")' /\ output' = output /\ (Len(mem[w]) = 1 => x = consumed(w))
          <5>1. ~Open(w, "put")'
            BY <1>4, <3>2 DEF None
          <5>2. QED
            BY <1>6, <3>2, <4>2, <5>1
        <4>6. QED
          BY <1>0, <2>3, <2>4, <4>3, <4>4, <4>5 DEF EndInv, consumed
      <3>3. QED
        BY <3>1, <3>2
    <2>15. QED
      BY <2>12, <2>13, <2>14 DEF CalmInv
  <1>13. QED
    BY <1>7, <1>8, <1>9, <1>10, <1>11, <1>12 DEF IInv

-----------------------------------------------------------------------------
(* The theorems.                                                            *)

LEMMA NextKeeps == IInv /\ [Next]_vars => IInv'
  <1> SUFFICES ASSUME IInv, [Next]_vars PROVE IInv'
    OBVIOUS
  <1>1. ASSUME NEW w \in Workers \union {Later}, Step(w) PROVE IInv'
    <2>1. CASE Start(w)
      BY <2>1, StartKeeps
    <2>2. CASE Load(w)
      BY <2>2, LoadKeeps
    <2>3. CASE approve(w)
      BY <2>3, approveKeeps
    <2>4. CASE \E b \in pend[w] : Admit(w, b) \/ Refuse(w, b)
      BY <2>4, AdmitKeeps, RefuseKeeps
    <2>5. CASE Commit(w)
      BY <2>5, CommitKeeps
    <2>6. CASE Report(w)
      BY <2>6, ReportKeeps
    <2>7. QED
      BY <1>1, <2>1, <2>2, <2>3, <2>4, <2>5, <2>6 DEF Step
  <1>2. ASSUME NEW w \in Workers \union {Later}, Kill(w) PROVE IInv'
    BY <1>2, KillKeeps
  <1>3. ASSUME Thaw PROVE IInv'
    BY <1>3, ThawKeeps
  <1>4. ASSUME UNCHANGED vars PROVE IInv'
    <2>1. /\ TypeOK /\ UNCHANGED <<answer, output, Workers, fenced>>
          /\ UNCHANGED <<scenario, fence, expect, held, pc, mem, pend, block, bounced,
                         rows, chain, thawed, acked, late>>
      BY <1>4, SameRows, SameScenario DEF vars, IInv
    <2>2. TypeOK' /\ FenceInv'
      BY <2>1, FenceStays DEF TypeOK, Workers, Live
    <2>3. \A v \in All : BatchInv(v)'
      BY <2>1 DEF IInv, BatchInv, Open, Running
    <2>4. RowsInv' /\ AnswersWereGiven'
      BY <2>1, GivenStay DEF Asked
    <2>5. CalmInv'
      <3>1. SUFFICES ASSUME Calm' PROVE CalmInv'
        BY DEF CalmInv
      <3>2. Calm
        BY <2>1, <3>1, CalmBefore
      <3>3. QED
        BY <2>1, <3>2, CalmStays DEF Stale, Running, Open
    <2>6. QED
      BY <2>1, <2>2, <2>3, <2>4, <2>5 DEF IInv
  <1>5. QED
    BY <1>1, <1>2, <1>3, <1>4 DEF Next, Done

-----------------------------------------------------------------------------
(* The script's own deployment: A with a gate, and one B without.           *)

TheScript(B) == Workers = {A, B} /\ B # A /\ Gated = {A} /\ ~scenario.kills
kept(B) == IF fenced THEN B ELSE A
nullRow == rows[<<NULL_TASK_ID, "__resume__">>]

\* A batch of the run was handed over, and is stored or refused by now.
Resumed(w) == pc[w] \in {"loaded", "ran", "ok", "refused"} /\ ~Open(w, "resume")
Through(w, b) == pc[w] \in {"ran", "ok", "refused"} /\ ~Open(w, b)

\* Who is where: A has loaded before B starts, and its gate opens when B is through.
StagesInv(B) ==
    /\ \A w \in All : pc[w] # "killed"
    /\ pc[A] \in {"idle", "claimed"} => pc[B] = "idle"
    /\ thawed => pc[B] = "ok"
    /\ expect[B] = 1
    /\ fence = IF ~fenced THEN 0 ELSE IF pc[B] = "idle" THEN 1 ELSE 2
    /\ pc[A] # "idle" => held[A] = IF fenced THEN 1 ELSE Plain
    /\ pc[B] # "idle" => held[B] = IF fenced THEN 2 ELSE Plain

AtTheGate ==
    /\ block[A] = None /\ ~bounced[A] /\ pc[A] \notin {"ok", "refused"}
    /\ Running(A) => "resume" \in pend[A]
    /\ pc[A] = "ran" => "pause" \in pend[A]

\* Only A, and only under a fence, is refused: all that it asks to write.
RefusalsInv(B) ==
    /\ ~thawed => AtTheGate
    /\ fenced => block[A] = None /\ pc[A] # "ok" /\ (pc[A] = "ran" /\ "pause" \notin pend[A] => bounced[A])
    /\ ~fenced => ~bounced[A] /\ pc[A] # "refused"
    /\ \A w \in {B, Later} : ~bounced[w] /\ pc[w] # "refused"

\* What the rows hold, by what went through.
ScriptRows(B) ==
    /\ mem[A] = <<>> /\ mem[B] = <<>>
    /\ pc[Later] \notin {"idle", "claimed"} => mem[Later] = <<kept(B)>>
    /\ answer = IF ~fenced /\ Through(A, "pause") THEN <<A>> ELSE IF Through(B, "pause") THEN <<B>> ELSE MISSING
    /\ pc[Later] = "idle" =>
          nullRow = IF ~fenced /\ Resumed(A) THEN <<A>> ELSE IF Resumed(B) THEN <<B>> ELSE MISSING
    /\ output = IF Through(Later, "done") THEN <<kept(B), Later>> ELSE MISSING
    /\ chain = IF Through(Later, "put") THEN <<<<kept(B), Later>>>> ELSE <<>>

ScriptedInv(B) == TheScript(B) => StagesInv(B) /\ RefusalsInv(B) /\ ScriptRows(B)

\* Who plays.
LEMMA TheCast ==
    ASSUME IInv, NEW B, TheScript(B)
    PROVE  /\ A \in All /\ B \in All /\ Later \in All /\ B \in Worker
           /\ A # B /\ A # Later /\ B # Later
           /\ Workers \union {Later} = {A, B, Later} /\ A \in Workers /\ B \in Workers
           /\ fenced \in BOOLEAN /\ held[Later] = Plain
           /\ BatchInv(A) /\ BatchInv(B) /\ BatchInv(Later)
           /\ pc[Later] # "idle" => /\ pc[A] \in {"ok", "refused", "killed"}
                                    /\ pc[B] \in {"ok", "refused", "killed"}
  <1>1. /\ Workers \subseteq Worker /\ A \in Workers /\ Later \notin Workers /\ Workers \subseteq All
        /\ Later \in All /\ fenced \in BOOLEAN
    BY WorkersAre DEF IInv
  <1>2. B \in Workers /\ A # B /\ Workers = {A, B}
    BY DEF TheScript
  <1>3. pc[Later] # "idle" => \A v \in {A, B} : pc[v] # "idle" /\ ~Live(v)
    BY <1>2 DEF IInv, FenceInv
  <1>4. pc[A] \in {"idle", "claimed", "loaded", "ran", "ok", "refused", "killed"}
        /\ pc[B] \in {"idle", "claimed", "loaded", "ran", "ok", "refused", "killed"}
    BY <1>1, <1>2 DEF IInv, TypeOK
  <1>5. BatchInv(A) /\ BatchInv(B) /\ BatchInv(Later) /\ held[Later] = Plain
    BY <1>1, <1>2 DEF IInv, FenceInv
  <1>6. QED
    BY <1>1, <1>2, <1>3, <1>4, <1>5 DEF Live

LEMMA TheScriptStays ==
    ASSUME UNCHANGED scenario, NEW B
    PROVE  TheScript(B)' = TheScript(B) /\ kept(B)' = kept(B) /\ fenced' = fenced
  BY DEF TheScript, kept, Workers, Gated, fenced

\* What is to be shown of a step that writes nothing.
LEMMA NothingStored ==
    ASSUME NEW B, ScriptRows(B), UNCHANGED <<scenario, rows, chain>>,
           mem'[A] = mem[A], mem'[B] = mem[B],
           pc'[Later] \notin {"idle", "claimed"} => mem'[Later] = <<kept(B)>>,
           pc'[Later] = "idle" => pc[Later] = "idle",
           ~fenced => /\ Through(A, "pause")' <=> Through(A, "pause")
                      /\ Resumed(A)' <=> Resumed(A),
           Through(B, "pause")' <=> Through(B, "pause"),
           Resumed(B)' <=> Resumed(B),
           Through(Later, "done")' <=> Through(Later, "done"),
           Through(Later, "put")' <=> Through(Later, "put")
    PROVE  ScriptRows(B)'
  <1>1. /\ answer' = answer /\ output' = output /\ nullRow' = nullRow /\ chain' = chain
        /\ fenced' = fenced /\ kept(B)' = kept(B)
    BY SameRows, TheScriptStays DEF nullRow
  <1>2. mem'[A] = <<>> /\ mem'[B] = <<>>
    BY DEF ScriptRows
  <1>3. answer' = IF ~fenced' /\ Through(A, "pause")' THEN <<A>> ELSE IF Through(B, "pause")' THEN <<B>> ELSE MISSING
    BY <1>1 DEF ScriptRows
  <1>4. pc'[Later] = "idle" =>
          nullRow' = IF ~fenced' /\ Resumed(A)' THEN <<A>> ELSE IF Resumed(B)' THEN <<B>> ELSE MISSING
    BY <1>1 DEF ScriptRows
  <1>5. output' = IF Through(Later, "done")' THEN <<kept(B)', Later>> ELSE MISSING
    BY <1>1 DEF ScriptRows
  <1>6. chain' = IF Through(Later, "put")' THEN <<<<kept(B)', Later>>>> ELSE <<>>
    BY <1>1 DEF ScriptRows
  <1>7. QED
    BY <1>1, <1>2, <1>3, <1>4, <1>5, <1>6 DEF ScriptRows

LEMMA StartInScript ==
    ASSUME IInv, NEW B, TheScript(B), StagesInv(B), RefusalsInv(B), ScriptRows(B),
           NEW w \in {A, B, Later}, StageOrder(w), Start(w)
    PROVE  StagesInv(B)' /\ RefusalsInv(B)' /\ ScriptRows(B)'
  <1> DEFINE wins == fenced /\ w \in Workers \ {A} /\ fence = expect[w]
  <1>0. /\ pc[w] = "idle"
        /\ fence' = IF wins THEN fence + 1 ELSE fence
        /\ held' = [held EXCEPT ![w] = IF wins THEN fence' ELSE IF fenced /\ w = A THEN 1 ELSE Plain]
        /\ pc' = [pc EXCEPT ![w] = "claimed"]
        /\ UNCHANGED <<scenario, expect, mem, pend, block, bounced, rows, chain, thawed>>
    BY DEF Start
  <1>1. /\ w \in All /\ TypeOK /\ A \in All /\ B \in All /\ Later \in All
        /\ A # B /\ A # Later /\ B # Later /\ Workers = {A, B} /\ Gated = {A} /\ fenced \in BOOLEAN
    BY TheCast DEF IInv, TheScript
  <1>2. /\ pc'[w] = "claimed" /\ held'[w] = IF wins THEN fence' ELSE IF fenced /\ w = A THEN 1 ELSE Plain
        /\ \A v \in All \ {w} : pc'[v] = pc[v] /\ held'[v] = held[v]
    BY <1>0, <1>1 DEF TypeOK
  <1>3. fenced' = fenced
    BY <1>0, TheScriptStays
  <1>4. wins <=> fenced /\ w = B
    <2>1. w = B /\ fenced => fence = 1 /\ expect[B] = 1
      BY <1>0 DEF StagesInv
    <2>2. QED
      BY <2>1, <1>1
  <1>5. fence' = IF ~fenced' THEN 0 ELSE IF pc'[B] = "idle" THEN 1 ELSE 2
    <2>1. w = B => pc[B] = "idle" /\ pc'[B] = "claimed"
      BY <1>0, <1>2
    <2>2. w # B => pc'[B] = pc[B]
      BY <1>1, <1>2
    <2>3. 1 + 1 = 2
      OBVIOUS
    <2>4. QED
      BY <2>1, <2>2, <2>3, <1>0, <1>3, <1>4 DEF StagesInv
  <1>6. w = B => pc[A] \notin {"idle", "claimed"}
    BY <1>1 DEF StageOrder
  <1>7. pc'[A] \in {"idle", "claimed"} => pc'[B] = "idle"
    BY <1>0, <1>1, <1>2, <1>6 DEF StagesInv
  <1>8. thawed' => pc'[B] = "ok"
    BY <1>0, <1>1, <1>2 DEF StagesInv
  <1>9. StagesInv(B)'
    <2>1. \A v \in All : pc'[v] # "killed"
      BY <1>1, <1>2 DEF StagesInv
    <2>2. pc'[A] # "idle" => held'[A] = IF fenced' THEN 1 ELSE Plain
      BY <1>1, <1>2, <1>3, <1>4 DEF StagesInv
    <2>3. pc'[B] # "idle" => held'[B] = IF fenced' THEN 2 ELSE Plain
      <3>1. CASE w = B
        BY <3>1, <1>1, <1>2, <1>3, <1>4, <1>5
      <3>2. CASE w # B
        BY <3>2, <1>1, <1>2, <1>3 DEF StagesInv
      <3>3. QED
        BY <3>1, <3>2
    <2>4. QED
      BY <2>1, <2>2, <2>3, <1>0, <1>5, <1>7, <1>8 DEF StagesInv
  <1>10. RefusalsInv(B)'
    <2>1. /\ pc'[A] = pc[A] \/ pc'[A] = "claimed"
          /\ \A v \in {B, Later} : pc'[v] = pc[v] \/ pc'[v] = "claimed"
      BY <1>1, <1>2
    <2>2. AtTheGate => AtTheGate'
      BY <2>1, <1>0 DEF AtTheGate, Running
    <2>3. QED
      BY <2>1, <2>2, <1>0, <1>3 DEF RefusalsInv
  <1>11. ScriptRows(B)'
    <2>1. \A v \in All : \A b : Through(v, b)' <=> Through(v, b)
      BY <1>0, <1>2 DEF Through, Open
    <2>2. \A v \in All : Resumed(v)' <=> Resumed(v)
      BY <1>0, <1>2 DEF Resumed, Open
    <2>3. pc'[Later] = "idle" => pc[Later] = "idle"
      BY <1>1, <1>2
    <2>4. pc'[Later] \notin {"idle", "claimed"} => mem'[Later] = <<kept(B)>>
      BY <1>0, <1>1, <1>2 DEF ScriptRows
    <2>5. mem'[A] = mem[A] /\ mem'[B] = mem[B] /\ UNCHANGED <<scenario, rows, chain>>
      BY <1>0
    <2>6. QED
      BY <2>1, <2>2, <2>3, <2>4, <2>5, <1>1, NothingStored
  <1>12. QED
    BY <1>9, <1>10, <1>11

LEMMA LoadInScript ==
    ASSUME IInv, NEW B, TheScript(B), StagesInv(B), RefusalsInv(B), ScriptRows(B),
           NEW w \in {A, B, Later}, Load(w)
    PROVE  StagesInv(B)' /\ RefusalsInv(B)' /\ ScriptRows(B)'
  <1>1. /\ w \in All /\ TypeOK /\ A \in All /\ B \in All /\ Later \in All
        /\ A # B /\ A # Later /\ B # Later /\ fenced \in BOOLEAN /\ pc[w] = "claimed"
        /\ pc[Later] # "idle" => /\ pc[A] \in {"ok", "refused", "killed"}
                                 /\ pc[B] \in {"ok", "refused", "killed"}
    BY TheCast DEF IInv, Load
  <1>2. w # Later => pc[Later] = "idle"
    BY <1>1
  <1>3. chain = <<>> /\ output = MISSING
    BY <1>1, <1>2 DEF ScriptRows, Through
  <1>4. answer = IF w = Later THEN <<kept(B)>> ELSE <<>>
    <2>1. CASE w = A
      <3>1. pc[B] = "idle" /\ ~Through(A, "pause") /\ ~Through(B, "pause")
        BY <2>1, <1>1 DEF StagesInv, Through
      <3>2. QED
        BY <2>1, <3>1, <1>1 DEF ScriptRows, MISSING
    <2>2. CASE w = B
      <3>1. ~thawed /\ ~Through(B, "pause")
        BY <2>2, <1>1 DEF StagesInv, Through
      <3>2. ~Through(A, "pause")
        BY <3>1 DEF RefusalsInv, AtTheGate, Through, Open
      <3>3. QED
        BY <2>2, <3>1, <3>2, <1>1 DEF ScriptRows, MISSING
    <2>3. CASE w = Later
      <3>1. pc[A] \in {"ok", "refused"} /\ pc[B] = "ok"
        BY <2>3, <1>1 DEF StagesInv, RefusalsInv
      <3>2. ~Open(A, "pause") /\ ~Open(B, "pause")
        BY <3>1, TheCast DEF BatchInv
      <3>3. Through(A, "pause") /\ Through(B, "pause")
        BY <3>1, <3>2 DEF Through
      <3>4. QED
        BY <2>3, <3>3 DEF ScriptRows, kept
    <2>4. QED
      BY <2>1, <2>2, <2>3
  <1>5. /\ pc' = [pc EXCEPT ![w] = "loaded"] /\ pend' = [pend EXCEPT ![w] = {"resume"}]
        /\ mem' = [mem EXCEPT ![w] = answer]
        /\ UNCHANGED <<scenario, fence, expect, held, block, bounced, rows, chain, thawed>>
    BY <1>3 DEF Load, output, answer
  <1>6. /\ pc'[w] = "loaded" /\ pend'[w] = {"resume"} /\ mem'[w] = answer
        /\ \A v \in All \ {w} : pc'[v] = pc[v] /\ pend'[v] = pend[v] /\ mem'[v] = mem[v]
    BY <1>1, <1>5 DEF TypeOK
  <1>7. fenced' = fenced
    BY <1>5, TheScriptStays
  <1>8. StagesInv(B)'
    BY <1>1, <1>5, <1>6, <1>7 DEF StagesInv
  <1>9. RefusalsInv(B)'
    <2>1. AtTheGate => AtTheGate'
      BY <1>1, <1>5, <1>6 DEF AtTheGate, Running
    <2>2. /\ (pc'[A] = pc[A] /\ pend'[A] = pend[A]) \/ pc'[A] = "loaded"
          /\ \A v \in {B, Later} : pc'[v] = pc[v] \/ pc'[v] = "loaded"
      BY <1>1, <1>6
    <2>3. QED
      BY <2>1, <2>2, <1>5, <1>7 DEF RefusalsInv
  <1>10. ScriptRows(B)'
    <2>1. \A v \in All : \A b : Through(v, b)' <=> Through(v, b)
      <3>1. \A b : ~Through(w, b) /\ ~Through(w, b)'
        BY <1>1, <1>6 DEF Through
      <3>2. QED
        BY <3>1, <1>5, <1>6 DEF Through, Open
    <2>2. \A v \in All : Resumed(v)' <=> Resumed(v)
      <3>1. ~Resumed(w) /\ ~Resumed(w)'
        BY <1>1, <1>6 DEF Resumed, Open
      <3>2. QED
        BY <3>1, <1>5, <1>6 DEF Resumed, Open
    <2>3. pc'[Later] = "idle" => pc[Later] = "idle"
      BY <1>1, <1>6
    <2>4. pc'[Later] \notin {"idle", "claimed"} => mem'[Later] = <<kept(B)>>
      BY <1>1, <1>4, <1>6 DEF ScriptRows
    <2>5. mem'[A] = mem[A] /\ mem'[B] = mem[B]
      BY <1>1, <1>4, <1>6 DEF ScriptRows
    <2>6. QED
      BY <2>1, <2>2, <2>3, <2>4, <2>5, <1>1, <1>5, NothingStored
  <1>11. QED
    BY <1>8, <1>9, <1>10

LEMMA approveInScript ==
    ASSUME IInv, NEW B, TheScript(B), StagesInv(B), RefusalsInv(B), ScriptRows(B),
           NEW w \in {A, B, Later}, approve(w)
    PROVE  StagesInv(B)' /\ RefusalsInv(B)' /\ ScriptRows(B)'
  <1>1. /\ w \in All /\ TypeOK /\ A \in All /\ B \in All /\ Later \in All
        /\ A # B /\ A # Later /\ B # Later /\ pc[w] = "loaded"
    BY TheCast DEF IInv, approve
  <1>2. mem[w] = IF w = Later THEN <<kept(B)>> ELSE <<>>
    BY <1>1 DEF ScriptRows
  <1>3. Len(<<>>) = 0 /\ Len(<<kept(B)>>) = 1
    OBVIOUS
  <1>4. /\ pc' = [pc EXCEPT ![w] = "ran"]
        /\ pend' = [pend EXCEPT ![w] = @ \union (IF w = Later THEN {"done", "put"} ELSE {"pause"})]
        /\ UNCHANGED <<scenario, fence, expect, held, mem, block, bounced, rows, chain, thawed>>
    <2>1. (IF w = Later THEN {"done", "put"} ELSE {"pause"})
            = CASE Len(mem[w]) = 0 -> {"pause"}
                [] Len(mem[w]) = 1 -> {"done", "put"}
                [] Len(mem[w]) = 2 -> {"put"}
      <3>1. CASE w = Later
        <4>1. Len(mem[w]) = 1
          BY <3>1, <1>2, <1>3
        <4>2. QED
          BY <3>1, <4>1
      <3>2. CASE w # Later
        <4>1. Len(mem[w]) = 0
          BY <3>2, <1>2, <1>3
        <4>2. QED
          BY <3>2, <4>1
      <3>3. QED
        BY <3>1, <3>2
    <2>2. QED
      BY <2>1 DEF approve
  <1>5. /\ pc'[w] = "ran" /\ pend'[w] = pend[w] \union (IF w = Later THEN {"done", "put"} ELSE {"pause"})
        /\ \A v \in All \ {w} : pc'[v] = pc[v] /\ pend'[v] = pend[v]
    BY <1>1, <1>4 DEF TypeOK
  <1>6. fenced' = fenced
    BY <1>4, TheScriptStays
  <1>7. StagesInv(B)'
    BY <1>1, <1>4, <1>5, <1>6 DEF StagesInv
  <1>8. RefusalsInv(B)'
    <2>1. AtTheGate => AtTheGate'
      BY <1>1, <1>4, <1>5 DEF AtTheGate, Running
    <2>2. /\ (pc'[A] = pc[A] /\ pend'[A] = pend[A]) \/ (pc'[A] = "ran" /\ "pause" \in pend'[A])
          /\ \A v \in {B, Later} : pc'[v] = pc[v] \/ pc'[v] = "ran"
      BY <1>1, <1>5
    <2>3. QED
      BY <2>1, <2>2, <1>4, <1>6 DEF RefusalsInv
  <1>9. ScriptRows(B)'
    <2>1. \A v \in All \ {w} : \A b : Through(v, b)' <=> Through(v, b)
      BY <1>4, <1>5 DEF Through, Open
    <2>2. \A b : ~Through(w, b)
      BY <1>1 DEF Through
    <2>3. /\ w # Later => ~Through(w, "pause")'
          /\ w = Later => ~Through(w, "done")' /\ ~Through(w, "put")'
      BY <1>5 DEF Through, Open
    <2>4. \A v \in All : Resumed(v)' <=> Resumed(v)
      <3>1. Resumed(w)' <=> Resumed(w)
        BY <1>1, <1>4, <1>5 DEF Resumed, Open
      <3>2. QED
        BY <3>1, <1>4, <1>5 DEF Resumed, Open
    <2>5. pc'[Later] = "idle" => pc[Later] = "idle"
      BY <1>1, <1>5
    <2>6. pc'[Later] \notin {"idle", "claimed"} => mem'[Later] = <<kept(B)>>
      BY <1>1, <1>2, <1>4, <1>5 DEF ScriptRows
    <2>7. mem'[A] = mem[A] /\ mem'[B] = mem[B]
      BY <1>4
    <2>8. QED
      BY <2>1, <2>2, <2>3, <2>4, <2>5, <2>6, <2>7, <1>1, <1>4, NothingStored
  <1>10. QED
    BY <1>7, <1>8, <1>9

\* Everybody but a fenced A owns the thread for as long as it runs.
LEMMA WhoOwns ==
    ASSUME IInv, NEW B, TheScript(B), StagesInv(B), NEW w \in {A, B, Later}, Running(w)
    PROVE  /\ w # A \/ ~fenced => Owns(w)
           /\ w = A /\ fenced /\ thawed => ~Owns(w)
  <1>1. held[Later] = Plain /\ fenced \in BOOLEAN
    BY TheCast
  <1>2. pc[w] # "idle"
    BY DEF Running
  <1>3. thawed => pc[B] # "idle"
    BY DEF StagesInv
  <1>4. QED
    BY <1>1, <1>2, <1>3 DEF StagesInv, Owns, Unfenced, Plain

LEMMA AdmitInScript ==
    ASSUME IInv, NEW B, TheScript(B), StagesInv(B), RefusalsInv(B), ScriptRows(B),
           NEW w \in {A, B, Later}, NEW b \in pend[w], Admit(w, b)
    PROVE  StagesInv(B)' /\ RefusalsInv(B)' /\ ScriptRows(B)'
  <1>1. /\ w \in All /\ TypeOK /\ A \in All /\ B \in All /\ Later \in All
        /\ A # B /\ A # Later /\ B # Later /\ BatchInv(w) /\ fenced \in BOOLEAN /\ Gated = {A}
    BY TheCast DEF IInv, TheScript
  <1>2. /\ b \in pend[w] /\ block[w] = None /\ GateOpen(w) /\ Owns(w)
        /\ block' = [block EXCEPT ![w] = b] /\ pend' = [pend EXCEPT ![w] = @ \ {b}]
        /\ UNCHANGED <<scenario, fence, expect, held, pc, mem, bounced, rows, chain, thawed>>
    BY DEF Admit
  <1>3. b \in {"resume", "pause", "done", "put"} /\ b # None
    BY <1>1, <1>2 DEF TypeOK, None
  <1>4. Running(w)
    BY <1>1, <1>2, <1>3 DEF BatchInv, Open
  <1>5. /\ block'[w] = b /\ pend'[w] = pend[w] \ {b}
        /\ \A v \in All \ {w} : block'[v] = block[v] /\ pend'[v] = pend[v]
    BY <1>1, <1>2 DEF TypeOK
  <1>6. w = A => thawed /\ ~fenced
    <2>1. w = A => thawed
      BY <1>1, <1>2 DEF GateOpen
    <2>2. QED
      BY <2>1, <1>1, <1>2, <1>4, WhoOwns
  <1>7. fenced' = fenced
    BY <1>2, TheScriptStays
  <1>8. StagesInv(B)'
    BY <1>2, <1>7 DEF StagesInv
  <1>9. RefusalsInv(B)'
    <2>1. w # A => pend'[A] = pend[A] /\ block'[A] = block[A]
      BY <1>1, <1>5
    <2>2. ~thawed' => AtTheGate'
      BY <2>1, <1>2, <1>6 DEF RefusalsInv, AtTheGate, Running
    <2>3. QED
      BY <2>1, <2>2, <1>2, <1>6, <1>7 DEF RefusalsInv
  <1>10. ScriptRows(B)'
    <2>1. \A v \in All : \A x \in {"resume", "pause", "done", "put"} : Open(v, x)' <=> Open(v, x)
      <3>1. \A x \in {"resume", "pause", "done", "put"} : Open(w, x)' <=> Open(w, x)
        BY <1>2, <1>5 DEF Open, None
      <3>2. QED
        BY <3>1, <1>5 DEF Open
    <2>2. \A v \in All : \A x \in {"resume", "pause", "done", "put"} : Through(v, x)' <=> Through(v, x)
      BY <2>1, <1>2 DEF Through
    <2>3. \A v \in All : Resumed(v)' <=> Resumed(v)
      BY <2>1, <1>2 DEF Resumed
    <2>4. pc'[Later] \notin {"idle", "claimed"} => mem'[Later] = <<kept(B)>>
      BY <1>2 DEF ScriptRows
    <2>5. QED
      BY <2>2, <2>3, <2>4, <1>1, <1>2, NothingStored
  <1>11. QED
    BY <1>8, <1>9, <1>10

LEMMA RefuseInScript ==
    ASSUME IInv, NEW B, TheScript(B), StagesInv(B), RefusalsInv(B), ScriptRows(B),
           NEW w \in {A, B, Later}, NEW b \in pend[w], Refuse(w, b)
    PROVE  StagesInv(B)' /\ RefusalsInv(B)' /\ ScriptRows(B)'
  <1>1. /\ w \in All /\ TypeOK /\ A \in All /\ B \in All /\ Later \in All
        /\ A # B /\ A # Later /\ B # Later /\ BatchInv(w) /\ fenced \in BOOLEAN /\ Gated = {A}
    BY TheCast DEF IInv, TheScript
  <1>2. /\ b \in pend[w] /\ GateOpen(w) /\ ~Owns(w)
        /\ bounced' = [bounced EXCEPT ![w] = TRUE] /\ pend' = [pend EXCEPT ![w] = @ \ {b}]
        /\ UNCHANGED <<scenario, fence, expect, held, pc, mem, block, rows, chain, thawed>>
    BY DEF Refuse
  <1>3. Running(w)
    <2>1. b \in {"resume", "pause", "done", "put"}
      BY <1>1, <1>2 DEF TypeOK
    <2>2. QED
      BY <2>1, <1>1, <1>2 DEF BatchInv, Open
  <1>4. w = A /\ fenced
    BY <1>2, <1>3, WhoOwns
  <1>5. thawed
    BY <1>1, <1>2, <1>4 DEF GateOpen
  <1>6. /\ bounced'[A] = TRUE
        /\ \A v \in All \ {A} : bounced'[v] = bounced[v] /\ pend'[v] = pend[v]
    BY <1>1, <1>2, <1>4 DEF TypeOK
  <1>7. fenced' = fenced
    BY <1>2, TheScriptStays
  <1>8. StagesInv(B)'
    BY <1>2, <1>7 DEF StagesInv
  <1>9. RefusalsInv(B)'
    BY <1>1, <1>2, <1>4, <1>5, <1>6, <1>7 DEF RefusalsInv
  <1>10. ScriptRows(B)'
    <2>1. \A v \in All \ {A} : \A x : Open(v, x)' <=> Open(v, x)
      BY <1>2, <1>6 DEF Open
    <2>2. \A v \in All \ {A} : \A x : Through(v, x)' <=> Through(v, x)
      BY <2>1, <1>2 DEF Through
    <2>3. \A v \in All \ {A} : Resumed(v)' <=> Resumed(v)
      BY <2>1, <1>2 DEF Resumed
    <2>4. pc'[Later] \notin {"idle", "claimed"} => mem'[Later] = <<kept(B)>>
      BY <1>2 DEF ScriptRows
    <2>5. QED
      BY <2>2, <2>3, <2>4, <1>1, <1>2, <1>4, NothingStored
  <1>11. QED
    BY <1>8, <1>9, <1>10

LEMMA ReportInScript ==
    ASSUME IInv, NEW B, TheScript(B), StagesInv(B), RefusalsInv(B), ScriptRows(B),
           NEW w \in {A, B, Later}, Report(w)
    PROVE  StagesInv(B)' /\ RefusalsInv(B)' /\ ScriptRows(B)'
  <1>1. /\ w \in All /\ TypeOK /\ A \in All /\ B \in All /\ Later \in All
        /\ A # B /\ A # Later /\ B # Later /\ fenced \in BOOLEAN
    BY TheCast DEF IInv
  <1>2. /\ pc[w] = "ran" /\ pend[w] = {} /\ block[w] = None
        /\ pc' = [pc EXCEPT ![w] = IF bounced[w] THEN "refused" ELSE "ok"]
        /\ UNCHANGED <<scenario, fence, expect, held, mem, pend, block, bounced, rows, chain, thawed>>
    BY DEF Report
  <1>3. /\ pc'[w] = IF bounced[w] THEN "refused" ELSE "ok"
        /\ \A v \in All \ {w} : pc'[v] = pc[v]
    BY <1>1, <1>2 DEF TypeOK
  <1>4. fenced' = fenced
    BY <1>2, TheScriptStays
  <1>5. w = A => thawed /\ (fenced <=> bounced[A])
    BY <1>1, <1>2 DEF RefusalsInv, AtTheGate
  <1>6. w \in {B, Later} => pc'[w] = "ok"
    BY <1>1, <1>3 DEF RefusalsInv
  <1>7. StagesInv(B)'
    <2>1. \A v \in All : pc'[v] # "killed" /\ (pc'[v] = "idle" <=> pc[v] = "idle")
                         /\ (pc'[v] = "claimed" <=> pc[v] = "claimed")
      BY <1>2, <1>3 DEF StagesInv
    <2>2. thawed' => pc'[B] = "ok"
      BY <1>1, <1>2, <1>3, <1>6 DEF StagesInv
    <2>3. QED
      BY <2>1, <2>2, <1>1, <1>2, <1>4 DEF StagesInv
  <1>8. RefusalsInv(B)'
    <2>1. ~thawed' => AtTheGate'
      BY <1>1, <1>2, <1>3, <1>5 DEF RefusalsInv, AtTheGate, Running
    <2>2. CASE w = A
      BY <2>1, <2>2, <1>1, <1>2, <1>3, <1>4, <1>5 DEF RefusalsInv
    <2>3. CASE w # A
      BY <2>1, <2>3, <1>1, <1>2, <1>3, <1>4, <1>6 DEF RefusalsInv
    <2>4. QED
      BY <2>2, <2>3
  <1>9. ScriptRows(B)'
    <2>1. \A v \in All : \A x : Through(v, x)' <=> Through(v, x)
      BY <1>2, <1>3 DEF Through, Open
    <2>2. \A v \in All : Resumed(v)' <=> Resumed(v)
      BY <1>2, <1>3 DEF Resumed, Open
    <2>3. pc'[Later] = "idle" => pc[Later] = "idle"
      BY <1>1, <1>2, <1>3
    <2>4. pc'[Later] \notin {"idle", "claimed"} => mem'[Later] = <<kept(B)>>
      BY <1>1, <1>2, <1>3 DEF ScriptRows
    <2>5. QED
      BY <2>1, <2>2, <2>3, <2>4, <1>1, <1>2, NothingStored
  <1>10. QED
    BY <1>7, <1>8, <1>9

LEMMA ThawInScript ==
    ASSUME IInv, NEW B, TheScript(B), StagesInv(B), RefusalsInv(B), ScriptRows(B), Thaw
    PROVE  StagesInv(B)' /\ RefusalsInv(B)' /\ ScriptRows(B)'
  <1>1. /\ thawed' = TRUE /\ pc[B] # "idle" /\ ~Live(B)
        /\ UNCHANGED <<scenario, fence, expect, held, pc, mem, pend, block, bounced, rows, chain>>
    BY DEF Thaw, TheScript
  <1>2. pc[B] = "ok" /\ fenced' = fenced
    <2>1. pc[B] \in {"idle", "claimed", "loaded", "ran", "ok", "refused", "killed"}
      BY TheCast DEF IInv, TypeOK
    <2>2. pc[B] # "refused" /\ pc[B] # "killed"
      BY TheCast DEF StagesInv, RefusalsInv
    <2>3. QED
      BY <2>1, <2>2, <1>1, TheScriptStays DEF Live
  <1>3. StagesInv(B)'
    BY <1>1, <1>2 DEF StagesInv
  <1>4. RefusalsInv(B)'
    BY <1>1, <1>2 DEF RefusalsInv
  <1>5. ScriptRows(B)'
    <2>1. \A v, x : (Through(v, x)' <=> Through(v, x)) /\ (Resumed(v)' <=> Resumed(v))
      BY <1>1 DEF Through, Resumed, Open
    <2>2. pc'[Later] \notin {"idle", "claimed"} => mem'[Later] = <<kept(B)>>
      BY <1>1 DEF ScriptRows
    <2>3. QED
      BY <2>1, <2>2, <1>1, NothingStored
  <1>6. QED
    BY <1>3, <1>4, <1>5

\* The row of answers to nobody in particular is replaced by each.
LEMMA NullRow ==
    ASSUME TypeOK, NEW w \in All, NEW b \in {"resume", "pause", "done", "put"}, rows' = stored(w, b)
    PROVE  nullRow' = IF b = "resume" THEN <<w>> ELSE nullRow
  <1> USE DEF Keys, put_writes, pure, WRITES_IDX_MAP, nullRow, task, NULL_TASK_ID
  <1>1. CASE b = "put"
    BY <1>1 DEF stored
  <1>2. CASE b = "resume"
    <2>1. DOMAIN resumeBatch(w) = {"__resume__"} /\ resumeBatch(w)["__resume__"] = <<w>>
      BY DEF resumeBatch
    <2>2. rows' = put_writes(rows, NULL_TASK_ID, resumeBatch(w))
      BY <1>2 DEF stored
    <2>3. QED
      BY <1>2, <2>1, <2>2
  <1>3. CASE b = "pause"
    <2>1. rows' = put_writes(rows, task, pauseBatch(w))
      BY <1>3 DEF stored
    <2>2. QED
      BY <1>3, <2>1
  <1>4. CASE b = "done"
    <2>1. rows' = put_writes(rows, task, doneBatch(w))
      BY <1>4 DEF stored
    <2>2. QED
      BY <1>4, <2>1
  <1>5. QED
    BY <1>1, <1>2, <1>3, <1>4

\* The block of a worker is stored, and that is the last of its batch.
LEMMA LastOfItsBatch ==
    ASSUME IInv, NEW w \in All, BatchInv(w), Commit(w), NEW v \in All, NEW x, x # None
    PROVE  Open(v, x)' <=> Open(v, x) /\ ~(v = w /\ x = block[w])
  <1>1. /\ block' = [block EXCEPT ![w] = None] /\ pend' = pend /\ block[w] # None
    BY DEF Commit
  <1>2. block'[w] = None /\ \A u \in All \ {w} : block'[u] = block[u]
    BY <1>1 DEF IInv, TypeOK
  <1>3. block[w] \notin pend[w]
    BY <1>1 DEF BatchInv
  <1>4. CASE v = w
    BY <1>1, <1>2, <1>3, <1>4 DEF Open
  <1>5. CASE v # w
    BY <1>1, <1>2, <1>5 DEF Open
  <1>6. QED
    BY <1>4, <1>5

LEMMA Pair == ASSUME NEW k, NEW l PROVE Append(<<k>>, l) = <<k, l>>
  <1>1. <<k>> \in Seq({k, l}) /\ Len(<<k>>) = 1 /\ <<k>>[1] = k
    OBVIOUS
  <1>2. PICK s : s = Append(<<k>>, l)
    OBVIOUS
  <1>3. s \in Seq({k, l}) /\ Len(s) = 2 /\ s[1] = k /\ s[2] = l
    <2>1. /\ Append(<<k>>, l) \in Seq({k, l}) /\ Len(Append(<<k>>, l)) = 2
          /\ Append(<<k>>, l)[1] = k /\ Append(<<k>>, l)[2] = l
      BY <1>1, AppendProperties
    <2>2. QED
      BY <2>1, <1>2
  <1>4. PICK t : t = <<k, l>>
    OBVIOUS
  <1>5. t \in Seq({k, l}) /\ Len(t) = 2 /\ t[1] = k /\ t[2] = l
    BY <1>4
  <1>6. \A n \in 1..2 : s[n] = t[n]
    BY <1>3, <1>5
  <1>7. s = t
    BY <1>3, <1>5, <1>6, SeqEqual
  <1>8. QED
    BY <1>2, <1>4, <1>7

LEMMA CommitInScript ==
    ASSUME IInv, NEW B, TheScript(B), StagesInv(B), RefusalsInv(B), ScriptRows(B),
           NEW w \in {A, B, Later}, Commit(w)
    PROVE  StagesInv(B)' /\ RefusalsInv(B)' /\ ScriptRows(B)'
  <1>1. /\ w \in All /\ TypeOK /\ A \in All /\ B \in All /\ Later \in All
        /\ A # B /\ A # Later /\ B # Later /\ BatchInv(w) /\ fenced \in BOOLEAN
        /\ w \in Workers \union {Later}
        /\ pc[Later] # "idle" => /\ pc[A] \in {"ok", "refused", "killed"}
                                 /\ pc[B] \in {"ok", "refused", "killed"}
    BY TheCast DEF IInv
  <1>2. PICK b \in {"resume", "pause", "done", "put"} : b = block[w]
    BY <1>1 DEF Commit, TypeOK
  <1>3. /\ block' = [block EXCEPT ![w] = None] /\ rows' = stored(w, b)
        /\ UNCHANGED <<scenario, fence, expect, held, pc, mem, pend, bounced, thawed>>
    BY <1>2 DEF Commit
  <1>4. fenced' = fenced /\ kept(B)' = kept(B)
    BY <1>3, TheScriptStays
  <1>5. /\ \A v \in All : \A x \in {"resume", "pause", "done", "put"} :
             Through(v, x)' <=> Through(v, x) \/ (v = w /\ x = b /\ pc[v] \in {"ran", "ok", "refused"})
        /\ \A v \in All :
             Resumed(v)' <=> Resumed(v) \/ (v = w /\ b = "resume" /\ pc[v] \in {"loaded", "ran", "ok", "refused"})
    <2>1. \A v \in All : \A x : x # None => Open(v, x)' <=> Open(v, x) /\ ~(v = w /\ x = b)
      BY <1>1, <1>2, LastOfItsBatch
    <2>2. Open(w, b) /\ None \notin {"resume", "pause", "done", "put"}
      BY <1>2 DEF Open, None
    <2>3. QED
      BY <2>1, <2>2, <1>3 DEF Through, Resumed
  <1>6. StagesInv(B)'
    BY <1>3, <1>4 DEF StagesInv
  <1>7. RefusalsInv(B)'
    <2>1. block'[A] = block[A] \/ block'[A] = None
      BY <1>1, <1>3 DEF TypeOK
    <2>2. ~thawed' => AtTheGate'
      BY <2>1, <1>3 DEF RefusalsInv, AtTheGate, Running
    <2>3. QED
      BY <2>1, <2>2, <1>3, <1>4 DEF RefusalsInv
  <1>8. nullRow' = IF b = "resume" THEN <<w>> ELSE nullRow
    BY <1>1, <1>3, NullRow
  <1>9. /\ Running(w)
        /\ \/ b = "resume" /\ UNCHANGED <<answer, output, chain>>
           \/ /\ b = "pause" /\ mem[w] = <<>> /\ pc[w] = "ran"
              /\ answer' = <<w>> /\ UNCHANGED <<output, chain>>
           \/ /\ b = "done" /\ Len(mem[w]) = 1 /\ pc[w] = "ran"
              /\ output' = IF output = MISSING THEN consumed(w) ELSE output
              /\ UNCHANGED <<answer, chain>>
           \/ /\ b = "put" /\ pc[w] = "ran"
              /\ \/ Len(mem[w]) = 2
                 \/ Len(mem[w]) = 1 /\ chain' = Append(chain, consumed(w))
              /\ UNCHANGED <<answer, output>>
    BY <1>1, <1>2, CommitWrites
  <1>10. mem'[A] = <<>> /\ mem'[B] = <<>> /\ (pc'[Later] \notin {"idle", "claimed"} => mem'[Later] = <<kept(B)>>)
    BY <1>3 DEF ScriptRows
  <1>11. mem[w] = IF w = Later THEN <<kept(B)>> ELSE <<>>
    BY <1>1, <1>9 DEF ScriptRows, Running
  <1>12. Len(<<>>) = 0 /\ Len(<<kept(B)>>) = 1 /\ <<kept(B)>> # <<>>
    OBVIOUS
  <1>13. (w = Later <=> b \in {"done", "put"}) \/ b = "resume"
    BY <1>9, <1>11, <1>12
  <1>14. pc[Later] = "idle" => w # Later
    BY <1>9 DEF Running
  <1>15. w = A => ~fenced /\ thawed
    BY <1>1, <1>2 DEF RefusalsInv, AtTheGate, None
  <1>16. w # Later => pc[Later] = "idle"
    BY <1>1, <1>9 DEF Running
  <1>17. w = B => ~thawed
    BY <1>9 DEF StagesInv, Running
  <1>18. ~thawed => ~Through(A, "pause") /\ ~Resumed(A)
    BY DEF RefusalsInv, AtTheGate, Through, Resumed, Open, Running
  <1>19. answer' = IF ~fenced' /\ Through(A, "pause")' THEN <<A>> ELSE IF Through(B, "pause")' THEN <<B>> ELSE MISSING
    <2>1. CASE b = "pause"
      <3>1. w # Later /\ pc[w] = "ran" /\ answer' = <<w>>
        BY <2>1, <1>9, <1>13
      <3>2. CASE w = A
        BY <2>1, <3>1, <3>2, <1>1, <1>4, <1>5, <1>15
      <3>3. CASE w = B
        BY <2>1, <3>1, <3>3, <1>1, <1>4, <1>5, <1>17, <1>18
      <3>4. QED
        BY <3>1, <3>2, <3>3
    <2>2. CASE b # "pause"
      <3>1. answer' = answer
        BY <2>2, <1>9
      <3>2. (Through(A, "pause")' <=> Through(A, "pause")) /\ (Through(B, "pause")' <=> Through(B, "pause"))
        BY <2>2, <1>1, <1>5
      <3>3. QED
        BY <3>1, <3>2, <1>4 DEF ScriptRows
    <2>3. QED
      BY <2>1, <2>2
  <1>20. pc'[Later] = "idle" =>
           nullRow' = IF ~fenced' /\ Resumed(A)' THEN <<A>> ELSE IF Resumed(B)' THEN <<B>> ELSE MISSING
    <2>1. HAVE pc'[Later] = "idle"
    <2>2. pc[Later] = "idle" /\ w # Later
      BY <2>1, <1>3, <1>14
    <2>3. CASE b = "resume"
      <3>1. nullRow' = <<w>> /\ pc[w] \in {"loaded", "ran"}
        BY <2>3, <1>8, <1>9 DEF Running
      <3>2. CASE w = A
        BY <2>3, <3>1, <3>2, <1>1, <1>4, <1>5, <1>15
      <3>3. CASE w = B
        BY <2>3, <3>1, <3>3, <1>1, <1>4, <1>5, <1>17, <1>18
      <3>4. QED
        BY <2>2, <3>2, <3>3
    <2>4. CASE b # "resume"
      <3>1. nullRow' = nullRow
        BY <2>4, <1>8
      <3>2. (Resumed(A)' <=> Resumed(A)) /\ (Resumed(B)' <=> Resumed(B))
        BY <2>4, <1>1, <1>5
      <3>3. QED
        BY <2>2, <3>1, <3>2, <1>4 DEF ScriptRows
    <2>5. QED
      BY <2>3, <2>4
  <1>21. w = Later => consumed(w) = <<kept(B), Later>>
    <2>1. Append(<<kept(B)>>, Later) = <<kept(B), Later>>
      BY Pair
    <2>2. QED
      BY <2>1, <1>11 DEF consumed
  <1>22. output' = IF Through(Later, "done")' THEN <<kept(B)', Later>> ELSE MISSING
    <2>1. CASE b = "done"
      <3>1. w = Later /\ pc[w] = "ran" /\ Open(Later, "done")
        BY <2>1, <1>2, <1>9, <1>13 DEF Open
      <3>2. output = MISSING
        BY <3>1 DEF ScriptRows, Through
      <3>3. output' = <<kept(B), Later>> /\ Through(Later, "done")'
        BY <2>1, <3>1, <3>2, <1>1, <1>5, <1>9, <1>21
      <3>4. QED
        BY <3>3, <1>4
    <2>2. CASE b # "done"
      <3>1. output' = output
        BY <2>2, <1>9
      <3>2. Through(Later, "done")' <=> Through(Later, "done")
        BY <2>2, <1>1, <1>5
      <3>3. QED
        BY <3>1, <3>2, <1>4 DEF ScriptRows
    <2>3. QED
      BY <2>1, <2>2
  <1>23. chain' = IF Through(Later, "put")' THEN <<<<kept(B)', Later>>>> ELSE <<>>
    <2>1. CASE b = "put"
      <3>1. w = Later /\ pc[w] = "ran" /\ Open(Later, "put") /\ Len(mem[w]) = 1
        BY <2>1, <1>2, <1>9, <1>11, <1>12, <1>13 DEF Open
      <3>2. chain = <<>> /\ chain' = Append(chain, consumed(w))
        BY <2>1, <3>1, <1>9 DEF ScriptRows, Through
      <3>3. chain' = <<<<kept(B), Later>>>>
        <4>1. PICK e : e = consumed(w)
          OBVIOUS
        <4>2. chain' = <<e>>
          BY <3>2, <4>1
        <4>3. QED
          BY <3>1, <4>1, <4>2, <1>21
      <3>4. Through(Later, "put")'
        BY <2>1, <3>1, <1>1, <1>5
      <3>5. QED
        BY <3>3, <3>4, <1>4
    <2>2. CASE b # "put"
      <3>1. chain' = chain
        BY <2>2, <1>9
      <3>2. Through(Later, "put")' <=> Through(Later, "put")
        BY <2>2, <1>1, <1>5
      <3>3. QED
        BY <3>1, <3>2, <1>4 DEF ScriptRows
    <2>3. QED
      BY <2>1, <2>2
  <1>24. ScriptRows(B)'
    BY <1>4, <1>10, <1>19, <1>20, <1>22, <1>23 DEF ScriptRows
  <1>25. QED
    BY <1>6, <1>7, <1>24

LEMMA ScriptAtTheStart == ASSUME Init, NEW B PROVE ScriptedInv(B)
  <1>1. SUFFICES ASSUME TheScript(B) PROVE StagesInv(B) /\ RefusalsInv(B) /\ ScriptRows(B)
    BY DEF ScriptedInv
  <1>2. IInv
    BY InitInv
  <1>3. /\ A \in All /\ B \in All /\ Later \in All /\ B \in Worker /\ A # B /\ B # Later
    BY <1>1, <1>2, TheCast
  <1>4. /\ thawed = FALSE /\ chain = <<>>
        /\ fence = IF fenced THEN 1 ELSE 0
        /\ expect \in [Worker -> 1..(Cardinality(Workers) - 1)]
        /\ \A v \in All : /\ pc[v] = "idle" /\ mem[v] = <<>> /\ pend[v] = {} /\ block[v] = None /\ bounced[v] = FALSE
    BY DEF Init
  <1>5. expect[B] = 1
    <2>1. Cardinality(Workers) = 2
      <3>1. Workers = {A} \union {B} /\ B \notin {A} /\ IsFiniteSet({A}) /\ Cardinality({A}) = 1
        BY <1>1, FS_Singleton DEF TheScript
      <3>2. Cardinality(Workers) = 1 + 1
        BY <3>1, FS_AddElement
      <3>3. QED
        BY <3>2
    <2>2. expect[B] \in 1..1
      BY <2>1, <1>3, <1>4
    <2>3. QED
      BY <2>2
  <1>6. StagesInv(B)
    BY <1>3, <1>4, <1>5 DEF StagesInv
  <1>7. RefusalsInv(B)
    BY <1>3, <1>4 DEF RefusalsInv, AtTheGate, Running
  <1>8. ScriptRows(B)
    <2>1. answer = MISSING /\ output = MISSING /\ nullRow = MISSING
      BY InitRows DEF Keys, nullRow
    <2>2. QED
      BY <2>1, <1>3, <1>4 DEF ScriptRows, Through, Resumed
  <1>9. QED
    BY <1>6, <1>7, <1>8

LEMMA ScriptGoesOn == ASSUME IInv, NEW B, ScriptedInv(B), [Next]_vars PROVE ScriptedInv(B)'
  <1>1. scenario' = scenario
    <2>1. ASSUME NEW w, Step(w) \/ Kill(w) PROVE scenario' = scenario
      BY <2>1 DEF Step, Start, Load, approve, Admit, Refuse, Commit, Report, Kill
    <2>2. QED
      BY <2>1 DEF Next, Thaw, Done, vars
  <1>2. SUFFICES ASSUME TheScript(B) PROVE StagesInv(B)' /\ RefusalsInv(B)' /\ ScriptRows(B)'
    BY <1>1, TheScriptStays DEF ScriptedInv
  <1>3. StagesInv(B) /\ RefusalsInv(B) /\ ScriptRows(B) /\ Workers \union {Later} = {A, B, Later}
    BY <1>2, TheCast DEF ScriptedInv
  <1>4. ASSUME NEW w \in {A, B, Later}, Step(w) PROVE StagesInv(B)' /\ RefusalsInv(B)' /\ ScriptRows(B)'
    <2>1. CASE StageOrder(w) /\ Start(w)
      BY <2>1, <1>2, <1>3, StartInScript
    <2>2. CASE Load(w)
      BY <2>2, <1>2, <1>3, LoadInScript
    <2>3. CASE approve(w)
      BY <2>3, <1>2, <1>3, approveInScript
    <2>4. CASE \E b \in pend[w] : Admit(w, b) \/ Refuse(w, b)
      BY <2>4, <1>2, <1>3, AdmitInScript, RefuseInScript
    <2>5. CASE Commit(w)
      BY <2>5, <1>2, <1>3, CommitInScript
    <2>6. CASE Report(w)
      BY <2>6, <1>2, <1>3, ReportInScript
    <2>7. QED
      BY <1>4, <2>1, <2>2, <2>3, <2>4, <2>5, <2>6 DEF Step
  <1>5. ASSUME NEW w, Kill(w) PROVE FALSE
    BY <1>2, <1>5 DEF Kill, TheScript
  <1>6. ASSUME Thaw PROVE StagesInv(B)' /\ RefusalsInv(B)' /\ ScriptRows(B)'
    BY <1>2, <1>3, <1>6, ThawInScript
  <1>7. ASSUME UNCHANGED vars PROVE StagesInv(B)' /\ RefusalsInv(B)' /\ ScriptRows(B)'
    <2>1. /\ UNCHANGED <<scenario, fence, expect, held, pc, mem, pend, block, bounced, rows, chain, thawed>>
          /\ fenced' = fenced
      BY <1>1, <1>7, TheScriptStays DEF vars
    <2>2. \A v, x : (Through(v, x)' <=> Through(v, x)) /\ (Resumed(v)' <=> Resumed(v))
      BY <2>1 DEF Through, Resumed, Open
    <2>3. ScriptRows(B)'
      <3>1. pc'[Later] \notin {"idle", "claimed"} => mem'[Later] = <<kept(B)>>
        BY <1>3, <2>1 DEF ScriptRows
      <3>2. QED
        BY <1>3, <2>1, <2>2, <3>1, NothingStored
    <2>4. QED
      BY <1>3, <2>1, <2>3 DEF StagesInv, RefusalsInv, AtTheGate, Running
  <1>8. QED
    BY <1>3, <1>4, <1>5, <1>6, <1>7 DEF Next, Done

LEMMA ScriptComesOut == ASSUME IInv, NEW B, TheScript(B), ScriptedInv(B) PROVE ScriptedOutcome
  <1>1. StagesInv(B) /\ RefusalsInv(B) /\ ScriptRows(B)
    BY DEF ScriptedInv
  <1>2. (CHOOSE w \in Workers : w # A) = B
    BY DEF TheScript
  <1>3. /\ A \in All /\ B \in All /\ Later \in All /\ A # B /\ BatchInv(A) /\ BatchInv(B) /\ BatchInv(Later)
        /\ fenced \in BOOLEAN /\ Workers \union {Later} = {A, B, Later} /\ TypeOK
    BY TheCast DEF IInv
  <1>4. \A v \in {A, B, Later} : pc[v] \in {"ok", "refused"} =>
          /\ Resumed(v)
          /\ \A b \in {"pause", "done", "put"} : Through(v, b)
    BY <1>3 DEF BatchInv, Running, Resumed, Through
  <1>5. ASSUME pc[B] = "ok", pc[Later] = "idle" PROVE chain = <<>>
    BY <1>1, <1>5 DEF ScriptRows, Through
  <1>6. ASSUME pc[B] = "ok", pc[Later] = "idle", ~thawed \/ ~Live(A)
        PROVE  nullRow = <<IF thawed THEN kept(B) ELSE B>> /\ answer = <<IF thawed THEN kept(B) ELSE B>>
    <2>1. Resumed(B) /\ Through(B, "pause")
      BY <1>4, <1>6
    <2>2. CASE ~thawed
      <3>1. ~Through(A, "pause") /\ ~Resumed(A)
        BY <2>2, <1>1 DEF RefusalsInv, AtTheGate, Through, Resumed, Open, Running
      <3>2. QED
        BY <2>1, <2>2, <3>1, <1>1, <1>6 DEF ScriptRows
    <2>3. CASE thawed
      <3>1. pc[A] \in {"ok", "refused"}
        <4>1. pc[A] \in {"idle", "claimed", "loaded", "ran", "ok", "refused", "killed"} /\ ~Live(A)
          BY <2>3, <1>3, <1>6 DEF TypeOK
        <4>2. pc[A] # "killed" /\ pc[A] # "idle"
          BY <1>1, <1>3, <1>6 DEF StagesInv
        <4>3. QED
          BY <4>1, <4>2 DEF Live
      <3>2. Through(A, "pause") /\ Resumed(A)
        BY <3>1, <1>4
      <3>3. QED
        BY <2>1, <2>3, <3>2, <1>1, <1>6 DEF ScriptRows, kept
    <2>4. QED
      BY <2>2, <2>3
  <1>7. ASSUME Over PROVE pc[A] = (IF fenced THEN "refused" ELSE "ok") /\ chain = <<<<kept(B), Later>>>>
    <2>1. \A v \in {A, B, Later} : pc[v] \in {"ok", "refused"}
      <3>1. \A v \in {A, B, Later} : /\ pc[v] # "idle" /\ ~Live(v) /\ pc[v] # "killed"
                                     /\ pc[v] \in {"idle", "claimed", "loaded", "ran", "ok", "refused", "killed"}
        BY <1>1, <1>3, <1>7 DEF Over, StagesInv, TypeOK
      <3>2. QED
        BY <3>1 DEF Live
    <2>2. pc[A] = IF fenced THEN "refused" ELSE "ok"
      BY <2>1, <1>1 DEF RefusalsInv
    <2>3. Through(Later, "put")
      BY <2>1, <1>4
    <2>4. QED
      BY <2>2, <2>3, <1>1 DEF ScriptRows
  <1>8. QED
    BY <1>2, <1>5, <1>6, <1>7 DEF ScriptedOutcome, kept, nullRow, answer

-----------------------------------------------------------------------------
(* The theorems.                                                            *)

\* The inductive invariant holds for any set of workers, fenced or not.
THEOREM Invariance == Spec => []IInv
  BY InitInv, NextKeeps, PTL DEF Spec

\* An answer that a worker was told is stored stays the answer to the first
\* question: for any number of workers that thaw, claim, crash or go on from it,
\* as long as the thread is written through the fence and no block landed late.
THEOREM AnswerIsKept == Spec => []AnswerStands
  <1>1. IInv => AnswerStands
    BY DEF IInv, CalmInv, Calm, FirstAnswerInv, AnswerStands, answer, MISSING
  <1>2. QED
    BY <1>1, Invariance, PTL

\* Types; with or without a fence what finishes the run are the answers of two
\* distinct workers that were asked; under the fence it finishes once, with
\* what the task's stored output says.
THEOREM RunFinishesOnce == Spec => []Inv
  <1>1. IInv => Inv
    <2> SUFFICES ASSUME IInv PROVE Inv
      OBVIOUS
    <2>1. FinishesOnce
      <3> SUFFICES ASSUME Calm PROVE Len(chain) <= 1 /\ \A i \in DOMAIN chain : output \in {MISSING, chain[i]}
        BY DEF FinishesOnce, Calm, output
      <3>1. EndInv /\ chain \in Seq(Answers)
        BY DEF IInv, CalmInv, TypeOK
      <3>2. CASE chain = <<>>
        BY <3>2
      <3>3. CASE chain # <<>>
        <4>1. Len(chain) = 1 /\ output \in {MISSING, chain[1]}
          BY <3>1, <3>3 DEF EndInv
        <4>2. DOMAIN chain = 1..1
          BY <3>1, <4>1, LenProperties
        <4>3. QED
          BY <4>1, <4>2
      <3>4. QED
        BY <3>2, <3>3
    <2>2. QED
      BY <2>1 DEF IInv, Inv
  <1>2. QED
    BY <1>1, Invariance, PTL

\* The script's two parts come out as it checks them, in every order of its
\* workers' steps: without the fence the answer of the worker that was frozen
\* replaces the other's in both rows and nothing is added to the thread, with the
\* fence it is refused; and the run is finished by the answer that was kept.
THEOREM TheScriptComesOut ==
    ASSUME \A s \in Scenarios : s.gated = {A} => ~s.kills /\ \E B : s.workers = {A, B} /\ B # A
    PROVE  Spec => []ScriptedOutcome
  <1> DEFINE SInv == \A B \in Worker : ScriptedInv(B)
  <1>1. Init => SInv
    BY ScriptAtTheStart
  <1>2. IInv /\ SInv /\ [Next]_vars => SInv'
    <2>1. ASSUME IInv, SInv, [Next]_vars, NEW B \in Worker PROVE ScriptedInv(B)'
      BY <2>1, ScriptGoesOn
    <2>2. QED
      BY <2>1
  <1>3. IInv /\ SInv => ScriptedOutcome
    <2>1. SUFFICES ASSUME IInv, SInv, Gated = {A} PROVE ScriptedOutcome
      BY DEF ScriptedOutcome
    <2>2. scenario \in Scenarios /\ scenario.gated = {A}
      BY <2>1 DEF IInv, TypeOK, Gated
    <2>3. PICK B : Workers = {A, B} /\ B # A /\ ~scenario.kills
      BY <2>2 DEF Workers
    <2>4. TheScript(B) /\ B \in Worker
      BY <2>1, <2>3, WorkersAre DEF TheScript, IInv
    <2>5. QED
      BY <2>1, <2>4, ScriptComesOut
  <1> HIDE DEF SInv
  <1>4. QED
    BY <1>1, <1>2, <1>3, Invariance, PTL DEF Spec
=============================================================================
