------------------------------ MODULE Takeover ------------------------------
(***************************************************************************)
(* The scenario of proof/proof.py with every interleaving: workers          *)
(* (proof/worker.py) run one thread under durability="sync", one of them    *)
(* takes it over from another that is alive but unreachable, and both write *)
(* to the same checkpoint tables.                                           *)
(*                                                                          *)
(* The run alternates model calls and tool calls.  At checkpoint C a worker *)
(* executes the task of C, stores its message with put_writes(C), and puts  *)
(* the next checkpoint, whose parent is C.  The task id depends on C alone, *)
(* so put_writes of two workers at one checkpoint hit one conflict key: the *)
(* second is dropped by ON CONFLICT DO NOTHING.  A write block is here an   *)
(* admission followed by a commit (see FencedSaver and GuardedWrites); a    *)
(* frozen worker is one that takes no step.                                 *)
(***************************************************************************)
EXTENDS Naturals, Sequences, FiniteSets

CONSTANTS
    Worker,        \* the worker processes
    Starter,       \* the one in role A; the others are in role B
    Fenced,        \* may the deployment be fenced: a set of truth values
    Channel,       \* how "messages" may be declared: "delta", "plain"
    Expected,      \* the fence values a B may be sent to take over from
    Steps          \* super-steps of the run; odd, the last one answers

ASSUME ScenarioAssumption ==
    /\ Starter \in Worker /\ IsFiniteSet(Worker)
    /\ Fenced \subseteq BOOLEAN
    /\ Channel \subseteq {"delta", "plain"}
    /\ Expected \subseteq Nat \ {0}
    /\ Steps \in Nat /\ Steps % 2 = 1

VARIABLES
    fenced,    \* workers are spawned with a fence value
    channel,   \* the channel "messages" is kept in
    expects,   \* the fence value a B's claim expects
    chain,     \* table checkpoints, and the blobs of a plain channel
    rows,      \* table checkpoint_writes, channel "messages", by checkpoint
    clock,     \* checkpoint ids are time-ordered: the last one made
    fence,     \* column proof_fence.fence
    held,      \* fence_value of the worker's saver; 0 without one
    saver,     \* the saver the worker runs with
    phase,     \* where the worker is in its super-step
    block,     \* its write block on the server
    at,        \* the checkpoint it runs from
    next,      \* the id of the checkpoint it is about to put
    mem,       \* its in-memory message list
    msg,       \* the output of the task it has run last
    result,    \* what it reports in out_file
    dropped    \* history: messages of workers that were not stored

vars == <<fenced, channel, expects, chain, rows, clock, fence, held, saver,
          phase, block, at, next, mem, msg, result, dropped>>

deployment == <<fenced, channel, expects>>
tables == <<chain, rows>>
ownership == <<fence, held, saver>>

Id == 0..(Steps * Cardinality(Worker))

Message == [kind: {"use", "result", "answer"}, id: Worker \X (1..Steps)]

\* A row of checkpoint_writes: first the message, then who stored it, and
\* whether it landed after its writer was superseded.
Row == [msg: Message, by: Worker, late: BOOLEAN]

NoMessage == [kind |-> "none"]
NoRow == [msg |-> NoMessage]

\* "line" is the chain of parents, root first; "blob" the list a plain channel
\* stores with every checkpoint.
Checkpoint == [id: Id, parent: Id, by: Worker, late: BOOLEAN,
               line: Seq(Id), blob: Seq(Message)]

Root == [id |-> 0, parent |-> 0, by |-> Starter, late |-> FALSE,
         line |-> <<0>>, blob |-> <<>>]

-----------------------------------------------------------------------------
(* Reading the thread.                                                      *)

Tip == CHOOSE c \in chain : \A d \in chain : d.id <= c.id

StepOf(c) == Len(c.line) - 1

\* Mutant: a plain channel rebuilt from the rows as well.
TranscriptFromRows(c) == [i \in 1..StepOf(c) |-> rows[c.line[i]].msg]

\* The message list at a checkpoint.  A DeltaChannel replays the rows stored
\* along the parent chain, a plain channel reads its blob.
Transcript(c) == IF channel = "delta"
                 THEN [i \in 1..StepOf(c) |-> rows[c.line[i]].msg]
                 ELSE c.blob

\* forks(): checkpoints that share a parent with another one.
Siblings(c) == {d \in chain : d # c /\ d.id # 0 /\ c.id # 0 /\ d.parent = c.parent}

\* orphans(), its two kinds of problem.
OrphanResults(t) == {j \in 1..Len(t) : /\ t[j].kind = "result"
                                       /\ \A i \in 1..(j - 1) :
                                            ~(t[i].kind = "use" /\ t[i].id = t[j].id)}
UnansweredUses(t) == {i \in 1..Len(t) : /\ t[i].kind = "use"
                                        /\ \A j \in 1..Len(t) :
                                             ~(t[j].kind = "result" /\ t[j].id = t[i].id)}

-----------------------------------------------------------------------------

\* The first worker has put the input checkpoint and is in a model call.
Init ==
    /\ fenced \in Fenced
    /\ channel \in Channel
    /\ expects \in [Worker \ {Starter} -> Expected]
    /\ chain = {Root}
    /\ rows = [i \in Id |-> NoRow]
    /\ clock = 0
    /\ fence = IF fenced THEN 1 ELSE 0
    /\ held = [w \in Worker |-> IF w = Starter THEN fence ELSE 0]
    /\ saver = [w \in Worker |-> IF w # Starter THEN "none"
                                 ELSE IF fenced THEN "fenced" ELSE "plain"]
    /\ phase = [w \in Worker |-> IF w = Starter THEN "task" ELSE "spawned"]
    /\ block = [w \in Worker |-> "closed"]
    /\ at = [w \in Worker |-> 0]
    /\ next = [w \in Worker |-> 0]
    /\ mem = [w \in Worker |-> <<>>]
    /\ msg = [w \in Worker |-> NoMessage]
    /\ result = [w \in Worker |-> "none"]
    /\ dropped = {}

\* Mutant: a claim that takes the row without moving it on.
BumpedNot == fence

Bumped == fence + 1

\* worker.py, role B: claim, and build the saver the outcome selects.  A claim
\* that matches no row returns None, and None selects the plain saver.
Claim(w) ==
    /\ phase[w] = "spawned"
    /\ LET won == fenced /\ fence = expects[w]
       IN  /\ fence' = IF won THEN Bumped ELSE fence
           /\ held' = [held EXCEPT ![w] = IF won THEN fence' ELSE 0]
           /\ saver' = [saver EXCEPT ![w] = IF won THEN "fenced" ELSE "plain"]
    /\ phase' = [phase EXCEPT ![w] = "claimed"]
    /\ UNCHANGED <<deployment, tables, clock, block, at, next, mem, msg,
                   result, dropped>>

\* Mutant: a resume that ignores the writes already stored at the tip.
PendingNot(c) == FALSE

\* The task of the tip has already been run and its output stored.
Pending(c) == rows[c.id] # NoRow

\* invoke(None, config): read the tip and the list, and go on from there.
Load(w) ==
    /\ phase[w] = "claimed"
    /\ at' = [at EXCEPT ![w] = Tip.id]
    /\ mem' = [mem EXCEPT ![w] = Transcript(Tip)]
    /\ \/ /\ StepOf(Tip) = Steps          \* the run is already over
          /\ phase' = [phase EXCEPT ![w] = "done"]
          /\ result' = [result EXCEPT ![w] = "ok"]
          /\ UNCHANGED <<msg, next, clock>>
       \/ /\ StepOf(Tip) < Steps
          /\ Pending(Tip)
          /\ msg' = [msg EXCEPT ![w] = rows[Tip.id].msg]
          /\ clock' = clock + 1
          /\ next' = [next EXCEPT ![w] = clock']
          /\ phase' = [phase EXCEPT ![w] = "put"]
          /\ UNCHANGED result
       \/ /\ StepOf(Tip) < Steps
          /\ ~Pending(Tip)
          /\ phase' = [phase EXCEPT ![w] = "task"]
          /\ UNCHANGED <<msg, next, clock, result>>
    /\ UNCHANGED <<deployment, tables, ownership, block, dropped>>

\* The output of the task: a model call offers a tool call of its own, a tool
\* call answers the one it finds in memory, the last model call answers.
Output(w) ==
    LET k == Len(mem[w]) + 1
    IN  IF k = Steps THEN [kind |-> "answer", id |-> <<w, k>>]
        ELSE IF k % 2 = 1 THEN [kind |-> "use", id |-> <<w, k>>]
        ELSE [kind |-> "result", id |-> mem[w][k - 1].id]

\* The task runs; this is the step a worker frozen in its model call is at.
RunTask(w) ==
    /\ phase[w] = "task"
    /\ msg' = [msg EXCEPT ![w] = Output(w)]
    /\ phase' = [phase EXCEPT ![w] = "writes"]
    /\ UNCHANGED <<deployment, tables, clock, ownership, block, at, next, mem,
                   result, dropped>>

-----------------------------------------------------------------------------
(* Write blocks: put_writes in phase "writes", put in phase "put".          *)

Superseded(w) == saver[w] = "fenced" /\ fence # held[w]

\* Mutants: the guard is gone from every block, or from put_writes alone.
MayWriteAlways(w) == TRUE
MayWritePut(w) == phase[w] = "writes" \/ ~Superseded(w)

\* The verdict of GUARD_SQL; a plain saver has no guard.
MayWrite(w) == ~Superseded(w)

Admit(w) ==
    /\ phase[w] \in {"writes", "put"}
    /\ block[w] = "closed"
    /\ MayWrite(w)
    /\ block' = [block EXCEPT ![w] = "admitted"]
    /\ UNCHANGED <<deployment, tables, clock, ownership, phase, at, next, mem,
                   msg, result, dropped>>

\* The block is refused with 22012; the run ends with the error.
Refuse(w) ==
    /\ phase[w] \in {"writes", "put"}
    /\ block[w] = "closed"
    /\ ~MayWrite(w)
    /\ phase' = [phase EXCEPT ![w] = "done"]
    /\ result' = [result EXCEPT ![w] = "refused"]
    /\ UNCHANGED <<deployment, tables, clock, ownership, block, at, next, mem,
                   msg, dropped>>

\* Mutant: the conflict clause is DO UPDATE.
DoesNothingNever(w) == FALSE

\* ON CONFLICT DO NOTHING, and there is a row with the key.
DoesNothing(w) == rows[at[w]] # NoRow

\* Another worker's uncommitted row has the same conflict key.
Locked(w) == \E v \in Worker \ {w} : block[v] = "holding" /\ at[v] = at[w]

\* INSERT ... ON CONFLICT DO NOTHING: it waits for an uncommitted row with its
\* key, and does nothing if there is a committed one.
Insert(w) ==
    /\ phase[w] = "writes"
    /\ block[w] = "admitted"
    /\ ~Locked(w)
    /\ block' = [block EXCEPT ![w] = IF DoesNothing(w) THEN "skipping"
                                     ELSE "holding"]
    /\ UNCHANGED <<deployment, tables, clock, ownership, phase, at, next, mem,
                   msg, result, dropped>>

\* put_writes commits, and the next checkpoint gets its id.  The worker goes
\* on with its own message, stored or not.
CommitWrites(w) ==
    /\ phase[w] = "writes"
    /\ \/ /\ block[w] = "holding"
          /\ rows' = [rows EXCEPT ![at[w]] = [msg |-> msg[w], by |-> w,
                                              late |-> Superseded(w)]]
          /\ UNCHANGED dropped
       \/ /\ block[w] = "skipping"
          /\ dropped' = dropped \cup {msg[w]}
          /\ UNCHANGED rows
    /\ block' = [block EXCEPT ![w] = "closed"]
    /\ phase' = [phase EXCEPT ![w] = "put"]
    /\ clock' = clock + 1
    /\ next' = [next EXCEPT ![w] = clock']
    /\ UNCHANGED <<deployment, chain, ownership, at, mem, msg, result>>

\* The checkpoint w is about to put.
Child(w) ==
    [id |-> next[w], parent |-> at[w], by |-> w, late |-> Superseded(w),
     line |-> Append((CHOOSE c \in chain : c.id = at[w]).line, next[w]),
     blob |-> Append(mem[w], msg[w])]

Ended(list) == Len(list) = Steps

\* put commits; the run goes on from the new checkpoint, or returns.
CommitPut(w) ==
    /\ phase[w] = "put"
    /\ block[w] = "admitted"
    /\ chain' = chain \cup {Child(w)}
    /\ at' = [at EXCEPT ![w] = next[w]]
    /\ mem' = [mem EXCEPT ![w] = Append(@, msg[w])]
    /\ IF Ended(mem'[w])
       THEN /\ phase' = [phase EXCEPT ![w] = "done"]
            /\ result' = [result EXCEPT ![w] = "ok"]
       ELSE /\ phase' = [phase EXCEPT ![w] = "task"]
            /\ UNCHANGED result
    /\ block' = [block EXCEPT ![w] = "closed"]
    /\ UNCHANGED <<deployment, rows, clock, ownership, next, msg, dropped>>

\* Mutant: the session of a dead worker stays open.
ClosedByKillNot(w) == block[w]

\* The server rolls back the block of a dead worker.
ClosedByKill(w) == "closed"

\* The harness kills a worker that does not exit in time.
Kill(w) ==
    /\ phase[w] # "done"
    /\ phase' = [phase EXCEPT ![w] = "done"]
    /\ result' = [result EXCEPT ![w] = "killed"]
    /\ block' = [block EXCEPT ![w] = ClosedByKill(w)]
    /\ UNCHANGED <<deployment, tables, clock, ownership, at, next, mem, msg,
                   dropped>>

-----------------------------------------------------------------------------

BlockStep(w) == \/ Admit(w) \/ Refuse(w) \/ Insert(w)
                \/ CommitWrites(w) \/ CommitPut(w)

Done == (\A w \in Worker : phase[w] = "done") /\ UNCHANGED vars

Next == \/ \E w \in Worker : \/ Claim(w) \/ Load(w) \/ RunTask(w)
                             \/ BlockStep(w) \/ Kill(w)
        \/ Done

Spec == Init /\ [][Next]_vars

\* A worker inside a write block is thawed or killed by the harness, and a
\* worker sent to take over is never frozen.  The worker taken over from may
\* stay frozen in its model call for good.
Fairness ==
    /\ \A w \in Worker : WF_vars(BlockStep(w))
    /\ \A w \in Worker \ {Starter} : WF_vars(Load(w) \/ RunTask(w))

FairSpec == Spec /\ Fairness

-----------------------------------------------------------------------------
(* Properties.                                                              *)

TypeOK ==
    /\ fenced \in Fenced /\ channel \in Channel
    /\ expects \in [Worker \ {Starter} -> Expected]
    /\ Root \in chain /\ chain \subseteq Checkpoint
    /\ rows \in [Id -> Row \cup {NoRow}]
    /\ clock \in Id
    /\ fence \in Nat /\ held \in [Worker -> Nat]
    /\ saver \in [Worker -> {"none", "plain", "fenced"}]
    /\ phase \in [Worker -> {"spawned", "claimed", "task", "writes", "put", "done"}]
    /\ block \in [Worker -> {"closed", "admitted", "holding", "skipping"}]
    /\ at \in [Worker -> Id] /\ next \in [Worker -> Id]
    /\ mem \in [Worker -> Seq(Message)]
    /\ msg \in [Worker -> Message \cup {NoMessage}]
    /\ result \in [Worker -> {"none", "ok", "refused", "killed"}]
    /\ dropped \subseteq Message

\* Every write of the thread goes through the fence.
Protected == fenced /\ \A w \in Worker : saver[w] # "plain"

\* The rows and checkpoints that landed after their writer was superseded.
LateRows == {i \in Id : rows[i] # NoRow /\ rows[i].late}
LateCheckpoints == {c \in chain : c.late}

\* With the fence the chain does not fork (proof.py:444), except by the one
\* block a superseded worker was admitted to write before the takeover: a late
\* checkpoint itself, or a late row that an owner did not see.
OnlyLateBlocksFork ==
    Protected =>
        /\ \A c \in chain : \A d \in Siblings(c) : c.late \/ d.late
        /\ \A w \in Worker :
             Cardinality({i \in LateRows : rows[i].by = w})
               + Cardinality({c \in LateCheckpoints : c.by = w}) <= 1

\* Types, and: with the fence, unless a write of a superseded worker landed late, what the
\* owner of the thread has in memory is what is stored along its chain: none
\* of its messages was dropped.
OwnerSeesItsStore ==
    Protected /\ LateRows = {} =>
        \A w \in Worker : \A c \in chain :
            /\ phase[w] \in {"task", "writes", "put"} /\ ~Superseded(w)
            /\ c.id = at[w]
            => Transcript(c) = mem[w]

Inv == TypeOK /\ OwnerSeesItsStore

\* With the fence and no late block, a worker that reports success finds its
\* last checkpoint on the chain of the tip: no committed work is orphaned
\* (proof.py:358 measures the opposite without the fence).
SuccessIsReachable ==
    Protected /\ LateRows = {} /\ LateCheckpoints = {} =>
        \A w \in Worker : result[w] = "ok" =>
            \E i \in 1..Len(Tip.line) : Tip.line[i] = at[w]

\* With or without a fence: an orphaned tool result is read back only if the
\* put_writes of the tool use it answers was dropped by ON CONFLICT DO NOTHING
\* (proof.py:389).
OrphansExplained ==
    \A c \in chain : \A j \in OrphanResults(Transcript(c)) :
        [kind |-> "use", id |-> Transcript(c)[j].id] \in dropped

\* Every tool use answered and every result asked for: a thread that finished
\* under the fence with no late row (proof.py:456), and every finished branch
\* of a plain channel, fence or not (proof.py:403).
FinishedIsWellFormed ==
    (Protected /\ LateRows = {}) \/ channel = "plain" =>
        \A c \in chain : StepOf(c) = Steps =>
            OrphanResults(Transcript(c)) = {} /\ UnansweredUses(Transcript(c)) = {}

\* What has landed on the thread, by its writer and a number of its own.
Landed == {<<rows[i].by, 2 * i + 1>> : i \in {j \in Id : rows[j] # NoRow}}
            \cup {<<c.by, 2 * c.id>> : c \in chain \ {Root}}

Contract == INSTANCE GuardedWrites WITH
    MaxBlocks <- 2 * (Steps * Cardinality(Worker)) + 1,
    epoch <- fence,
    holding <- held,
    admitted <- [w \in Worker |-> block[w] # "closed"],
    durable <- Landed

\* For as long as every write goes through the fence, the run does to the tables
\* what the fence promises (GuardedWrites) and no more: each step of a worker, a
\* late commit, a dropped row and a death included, is a takeover, an admission,
\* the landing of one write that was not there, a drop, or nothing.
WritesAreGuarded == [][Protected' => [Contract!Next]_(Contract!vars)]_vars

\* A takeover comes to its end even if the worker taken over from stays
\* frozen in its model call, or is killed with an uncommitted row in hand.
TakeoverCompletes ==
    \A w \in Worker \ {Starter} : phase[w] = "claimed" ~> phase[w] = "done"

\* fence.py:69: "The fence at the single seam covering every write of THREAD
\* state".  In a fenced deployment, then, nothing is written around it.
FenceCoversEveryWrite ==
    fenced => \A c \in chain : saver[c.by] # "plain"
=============================================================================
