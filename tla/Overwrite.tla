------------------------------ MODULE Overwrite ------------------------------
(***************************************************************************)
(* proof/overwrite.py: a node with two interrupt() calls, and the control  *)
(* rows at the checkpoint where it waits.  A batch of writes whose channels *)
(* are all special REPLACES the rows it meets (ON CONFLICT DO UPDATE), any *)
(* other batch leaves them (DO NOTHING).  Workers answer the interrupt, a  *)
(* stale one may still hold its answer, and a later worker goes on from    *)
(* whatever answer the row has then.                                       *)
(*                                                                         *)
(* A worker's answer is named by the worker.  A write block is taken as    *)
(* one admission by the guard and one commit, as in Takeover.              *)
(***************************************************************************)
EXTENDS Naturals, Sequences, SequencesExt, FiniteSets

CONSTANTS
    Worker,     \* worker processes; the first holder of the fence is A
    A,
    Later,      \* the worker of stage 4
    Scenarios   \* the deployments to look at: which workers are sent out, which of
                \* them have a gate, is the thread fenced, may a worker be killed

ASSUME ScenariosAssumption ==
    /\ A \in Worker /\ Later \notin Worker /\ IsFiniteSet(Worker)
    /\ \A s \in Scenarios :
         /\ A \in s.workers /\ s.workers \subseteq Worker /\ s.gated \subseteq s.workers
         /\ s.fenced \in BOOLEAN /\ s.kills \in BOOLEAN

VARIABLES
    scenario,   \* the deployment
    fence,      \* the fence column
    expect,     \* per worker of role B: the fence value it is sent to supersede
    held,       \* per worker: the fence of its saver, or Plain
    pc,         \* per worker: idle, claimed, loaded, ran, ok, refused, killed
    mem,        \* per worker: the answers its task was resumed with
    pend,       \* per worker: batches handed to the executor, not yet stored
    block,      \* per worker: the batch admitted by the guard, or None
    bounced,    \* per worker: was a batch refused?
    rows,       \* checkpoint_writes at the checkpoint of the interrupt
    chain,      \* checkpoints put on top of it, by what their log says
    thawed,     \* may gated workers write?
    acked,      \* history: the workers that reported a pause, in order
    late        \* history: blocks that landed after a takeover

vars == <<scenario, fence, expect, held, pc, mem, pend, block, bounced, rows, chain, thawed, acked, late>>

Workers == scenario.workers
Gated == scenario.gated
fenced == scenario.fenced

None == "none"
MISSING == <<>>
Plain == 0
All == Worker \union {Later}

NULL_TASK_ID == "null_task"
task == "task"
WRITES_IDX_MAP == {"__resume__", "__interrupt__"}      \* the special channels in use
Keys == {<<NULL_TASK_ID, "__resume__">>, <<task, "__resume__">>,
         <<task, "__interrupt__">>, <<task, "log">>}
Answers == UNION {[1..n -> All] : n \in 0..2}

-----------------------------------------------------------------------------
(* The store.  A batch maps channels to values; each channel has its own    *)
(* idx, so that (task, channel) is the conflict key.                        *)

pure(batch) == DOMAIN batch \subseteq WRITES_IDX_MAP

\* Mutant: every batch by DO NOTHING.
put_writes_Insert(r, t, batch) ==
    [k \in Keys |-> IF k[1] = t /\ k[2] \in DOMAIN batch /\ r[k] = MISSING THEN batch[k[2]] ELSE r[k]]
put_writes(r, t, batch) ==
    [k \in Keys |->
        IF k[1] = t /\ k[2] \in DOMAIN batch /\ (pure(batch) \/ r[k] = MISSING)
        THEN batch[k[2]] ELSE r[k]]

-----------------------------------------------------------------------------
(* The node and the batches of a run.                                       *)

consumed(w) == Append(mem[w], w)

resumeBatch(w) == [c \in {"__resume__"} |-> <<w>>]
pauseBatch(w) == [c \in {"__interrupt__", "__resume__"} |->
                    IF c = "__resume__" THEN consumed(w) ELSE <<"approve step 2?">>]
doneBatch(w) == [c \in {"__resume__", "log"} |-> consumed(w)]

\* What a commit of a batch does to the rows.
stored(w, b) ==
    CASE b = "resume" -> put_writes(rows, NULL_TASK_ID, resumeBatch(w))
      [] b = "pause"  -> put_writes(rows, task, pauseBatch(w))
      [] b = "done"   -> put_writes(rows, task, doneBatch(w))
      [] OTHER        -> rows

TypeOK ==
    /\ scenario \in Scenarios /\ thawed \in BOOLEAN
    /\ fence \in 0..(Cardinality(Worker) + 1)
    /\ expect \in [Worker -> 1..Cardinality(Worker)]
    /\ held \in [All -> 0..(Cardinality(Worker) + 1)]
    /\ pc \in [All -> {"idle", "claimed", "loaded", "ran", "ok", "refused", "killed"}]
    /\ mem \in [All -> Answers]
    /\ pend \in [All -> SUBSET {"resume", "pause", "done", "put"}]
    /\ block \in [All -> {None, "resume", "pause", "done", "put"}]
    /\ bounced \in [All -> BOOLEAN]
    /\ \A k \in Keys : k[2] # "__interrupt__" => rows[k] \in Answers
    /\ chain \in Seq(Answers)
    /\ late \in Nat

Live(w) == pc[w] \in {"claimed", "loaded", "ran"}

\* Stage 0: an unfenced run has stopped at the first interrupt.
Init ==
    /\ scenario \in Scenarios
    /\ fence = IF fenced THEN 1 ELSE 0
    /\ expect \in [Worker -> 1..(Cardinality(Workers) - 1)]
    /\ \A w \in Worker \ Workers : expect[w] = 1
    /\ held = [w \in All |-> Plain]
    /\ pc = [w \in All |-> "idle"]
    /\ mem = [w \in All |-> <<>>]
    /\ pend = [w \in All |-> {}]
    /\ block = [w \in All |-> None]
    /\ bounced = [w \in All |-> FALSE]
    /\ rows = put_writes([k \in Keys |-> MISSING], task, [c \in {"__interrupt__"} |-> <<"approve step 1?">>])
    /\ chain = <<>>
    /\ thawed = FALSE
    /\ acked = <<>>
    /\ late = 0

\* Stage 4: the later worker runs when the others are through.
LaterMayStart == \A v \in Workers : pc[v] # "idle" /\ ~Live(v)

\* The saver of a worker: A is given fence 1, a worker of role B claims; a claim
\* that matches no row leaves the saver plain.  The later worker has no fence.
Start(w) ==
    LET wins == fenced /\ w \in Workers \ {A} /\ fence = expect[w]
    IN  /\ pc[w] = "idle"
        /\ w = Later => LaterMayStart
        /\ fence' = IF wins THEN fence + 1 ELSE fence
        /\ held' = [held EXCEPT ![w] = IF wins THEN fence' ELSE IF fenced /\ w = A THEN 1 ELSE Plain]
        /\ pc' = [pc EXCEPT ![w] = "claimed"]
        /\ UNCHANGED <<scenario, expect, mem, pend, block, bounced, rows, chain, thawed, acked, late>>

\* invoke(Command(resume=v)): the tip is read with its rows; the answer is a
\* batch for NULL_TASK_ID.  A task that has its output stored is not run again,
\* its output is used.  On a finished thread no task is left to resume: the batch
\* for NULL_TASK_ID goes to the finished checkpoint, not to these rows, and is
\* left out, with the refusal a stale worker may meet there.
\* Mutant: the stored output is not noticed.
Load_RunsAgain(w) ==
    /\ pc[w] = "claimed"
    /\ IF chain # <<>>
       THEN pc' = [pc EXCEPT ![w] = "ok"] /\ UNCHANGED <<mem, pend>>
       ELSE /\ pc' = [pc EXCEPT ![w] = "loaded"]
            /\ mem' = [mem EXCEPT ![w] = rows[<<task, "__resume__">>]]
            /\ pend' = [pend EXCEPT ![w] = {"resume"}]
    /\ UNCHANGED <<scenario, fence, expect, held, block, bounced, rows, chain, thawed, acked, late>>

Load(w) ==
    /\ pc[w] = "claimed"
    /\ IF chain # <<>>
       THEN pc' = [pc EXCEPT ![w] = "ok"] /\ UNCHANGED <<mem, pend>>
       ELSE /\ pc' = [pc EXCEPT ![w] = "loaded"]
            /\ mem' = [mem EXCEPT ![w] = IF rows[<<task, "log">>] # MISSING THEN rows[<<task, "log">>]
                                         ELSE rows[<<task, "__resume__">>]]
            /\ pend' = [pend EXCEPT ![w] = {"resume"}]
    /\ UNCHANGED <<scenario, fence, expect, held, block, bounced, rows, chain, thawed, acked, late>>

\* approve: the stored answers and then its own, in the order of the calls.  One
\* answer leads to the second interrupt, two to the end.
approve(w) ==
    /\ pc[w] = "loaded"
    /\ pc' = [pc EXCEPT ![w] = "ran"]
    /\ pend' = [pend EXCEPT ![w] = @ \union (CASE Len(mem[w]) = 0 -> {"pause"}
                                               [] Len(mem[w]) = 1 -> {"done", "put"}
                                               [] Len(mem[w]) = 2 -> {"put"})]
    /\ UNCHANGED <<scenario, fence, expect, held, mem, block, bounced, rows, chain, thawed, acked, late>>

Unfenced(w) == held[w] = Plain
\* Mutant: a guard that lets everybody through.
Owns_Any(w) == TRUE
Owns(w) == Unfenced(w) \/ held[w] = fence

\* The saver's write seam: the gate, then the guard; one block at a time.
GateOpen(w) == w \in Gated => thawed

Admit(w, b) ==
    /\ b \in pend[w] /\ block[w] = None
    /\ GateOpen(w)
    /\ Owns(w)
    /\ block' = [block EXCEPT ![w] = b]
    /\ pend' = [pend EXCEPT ![w] = @ \ {b}]
    /\ UNCHANGED <<scenario, fence, expect, held, pc, mem, bounced, rows, chain, thawed, acked, late>>

Refuse(w, b) ==
    /\ b \in pend[w] /\ block[w] = None
    /\ GateOpen(w)
    /\ ~Owns(w)
    /\ bounced' = [bounced EXCEPT ![w] = TRUE]
    /\ pend' = [pend EXCEPT ![w] = @ \ {b}]
    /\ UNCHANGED <<scenario, fence, expect, held, pc, mem, block, rows, chain, thawed, acked, late>>

Commit(w) ==
    /\ block[w] # None
    /\ rows' = stored(w, block[w])
    /\ chain' = IF block[w] = "put"
                THEN Append(chain, IF Len(mem[w]) = 2 THEN mem[w] ELSE consumed(w)) ELSE chain
    /\ block' = [block EXCEPT ![w] = None]
    /\ late' = IF Owns(w) THEN late ELSE late + 1
    /\ UNCHANGED <<scenario, fence, expect, held, pc, mem, pend, bounced, thawed, acked>>

\* The run ends when its executor has nothing left; a refusal is its error.
Report(w) ==
    /\ pc[w] = "ran"
    /\ pend[w] = {} /\ block[w] = None
    /\ pc' = [pc EXCEPT ![w] = IF bounced[w] THEN "refused" ELSE "ok"]
    /\ acked' = IF ~bounced[w] /\ mem[w] = <<>> THEN Append(acked, w) ELSE acked
    /\ UNCHANGED <<scenario, fence, expect, held, mem, pend, block, bounced, rows, chain, thawed, late>>

\* The harness kills a worker that takes too long; its open block is rolled back.
Kill(w) ==
    /\ scenario.kills
    /\ Live(w) /\ w # Later
    /\ pc' = [pc EXCEPT ![w] = "killed"]
    /\ block' = [block EXCEPT ![w] = None]
    /\ pend' = [pend EXCEPT ![w] = {}]
    /\ UNCHANGED <<scenario, fence, expect, held, mem, bounced, rows, chain, thawed, acked, late>>

\* Stage 3: the gate opens when the workers without a gate are through.
Thaw ==
    /\ ~thawed /\ Gated # {}
    /\ \A w \in Gated : pc[w] # "idle"
    /\ \A w \in Workers \ Gated : pc[w] # "idle" /\ ~Live(w)
    /\ thawed' = TRUE
    /\ UNCHANGED <<scenario, fence, expect, held, pc, mem, pend, block, bounced, rows, chain, acked, late>>

\* Stage 1 comes before stage 2: a gated worker has loaded before others start.
StageOrder(w) == w \in Workers \ Gated => \A g \in Gated : pc[g] \notin {"idle", "claimed"}

Step(w) ==
    \/ StageOrder(w) /\ Start(w)
    \/ Load(w)
    \/ approve(w)
    \/ \E b \in pend[w] : Admit(w, b) \/ Refuse(w, b)
    \/ Commit(w)
    \/ Report(w)

Over == \A w \in Workers \union {Later} : pc[w] # "idle" /\ ~Live(w)
Done == Over /\ UNCHANGED vars

Next == (\E w \in Workers \union {Later} : Step(w) \/ Kill(w)) \/ Thaw \/ Done

Spec == Init /\ [][Next]_vars

-----------------------------------------------------------------------------
\* No worker of a fenced thread writes around the guard: no claim was lost.
Protected == fenced /\ \A w \in Workers : pc[w] = "idle" \/ held[w] # Plain

\* An answer that a worker was told is stored stays the answer to the first
\* question, whoever else thaws, claims, crashes or goes on from it: in the row,
\* and in every checkpoint that finishes the run.  (Fenced, no late block.)
AnswerStands ==
    Protected /\ late = 0 /\ acked # <<>> =>
        /\ rows[<<task, "__resume__">>][1] = acked[1]
        /\ \A i \in DOMAIN chain : chain[i][1] = acked[1]

\* Without a fence as well: a checkpoint that finishes the run was answered by two
\* distinct workers that were asked (the batches of the two never mix).
AnswersWereGiven ==
    /\ \A i \in DOMAIN chain : IsInjective(chain[i]) /\ Len(chain[i]) = 2
    /\ \A i \in DOMAIN chain : \A n \in DOMAIN chain[i] : pc[chain[i][n]] \in {"ran", "ok", "refused", "killed"}

\* The node finishes once, and the checkpoint that finishes it says what the
\* task's stored output says, whichever of the two was written first.
FinishesOnce ==
    Protected /\ late = 0 =>
        /\ Len(chain) <= 1
        /\ \A i \in DOMAIN chain : rows[<<task, "log">>] \in {MISSING, chain[i]}

\* Types, and both of these: what finishes the run is made of answers that were
\* given, it does so once, and it is what the task's stored output says.
Inv == TypeOK /\ AnswersWereGiven /\ FinishesOnce

\* What part 2 and part 3 of the script check at their stages, with A gated and
\* one B: without the fence A's answer replaces B's in both rows and no
\* checkpoint is added; with the fence B's stands.
ScriptedOutcome ==
    LET B    == CHOOSE w \in Workers : w # A
        kept == IF fenced THEN B ELSE A
    IN  Gated = {A} =>
        /\ pc[B] = "ok" /\ pc[Later] = "idle" =>
            /\ chain = <<>>
            /\ ~thawed \/ ~Live(A) =>
                LET v == IF thawed THEN kept ELSE B
                IN  rows[<<NULL_TASK_ID, "__resume__">>] = <<v>> /\ rows[<<task, "__resume__">>] = <<v>>
        /\ Over => /\ pc[A] = IF fenced THEN "refused" ELSE "ok"
                   /\ chain = <<<<kept, Later>>>>
=============================================================================
