---------------------------- MODULE FencedSaver ----------------------------
(***************************************************************************)
(* The fence of proof/fence.py: the row proof_fence of one thread_id, the   *)
(* compare-and-set that takes a run over, and FencedPostgresSaver, which    *)
(* puts GUARD_SQL in front of the statements of every write block           *)
(* (_cursor(pipeline=True): put, put_writes, delete_thread).                *)
(*                                                                          *)
(* A worker process owns one saver, hence one connection and one            *)
(* PostgresSaver.lock; its executor threads take turns under the lock, so   *)
(* the model keeps one client program counter per worker.  The server is    *)
(* a process of its own: it works through the messages a connection has     *)
(* sent, in order, at its own pace, which is what a pipeline permits.       *)
(***************************************************************************)
EXTENDS Integers

CONSTANTS
    Worker,     \* the worker processes that may run the thread
    Branch,     \* the branches of PostgresSaver._cursor the savers may take
    Stmts,      \* SQL statements in the body of a write block
    MaxFence,   \* bound: the fence value no claim exceeds
    MaxBlocks   \* bound: write blocks one worker opens

ASSUME BoundsAssumption ==
    /\ Branch \subseteq {"pipe", "pipeline", "transaction"}
    /\ Stmts \in Nat \ {0}
    /\ MaxFence \in Nat \ {0}
    /\ MaxBlocks \in Nat

VARIABLES
    branch,   \* the branch of PostgresSaver._cursor the worker's saver takes
    cfg,      \* cfg["fence"] the worker was spawned with; 1 is role A
    fence,    \* column fence of the thread's row; 0 while there is no row
    held,     \* fence_value of the worker's saver; 0 while it has none
    proc,     \* the process and its connection
    lock,     \* PostgresSaver.lock is taken
    pc,       \* where the thread that holds the lock is in its write block
    begun,    \* write blocks the worker has opened
    served,   \* write blocks the server has finished with
    fetched,  \* write blocks whose result the client has read
    block,    \* block[w][n]: the n-th write block of w
    acked,    \* history: blocks whose put/put_writes returned normally
    told,     \* history: a refusal was raised to some caller in w
    late      \* history: blocks of w committed after w was superseded

vars == <<branch, cfg, fence, held, proc, lock, pc, begun, served, fetched,
          block, acked, told, late>>

table  == <<fence, held>>                 \* the fence and who holds what
client == <<lock, pc, begun, fetched, acked, told>>
server == <<served, late>>
static == <<branch, cfg>>

Block == [sent:  0..(Stmts + 1),   \* messages sent: the guard, then the body
          ran:   0..(Stmts + 1),   \* messages the server has executed
          guard: {"none", "passed", "failed"},
          end:   {"open", "commit", "rollback"},  \* how the client closed it
          raised: BOOLEAN,         \* a client-side exception left the body
          fate:  {"pending", "committed", "aborted"}]

NewBlock == [sent |-> 0, ran |-> 0, guard |-> "none", end |-> "open",
             raised |-> FALSE, fate |-> "pending"]

Last(w) == block[w][begun[w]]         \* the block the client is working on
First(w) == block[w][served[w] + 1]   \* the block the server is working on

SetLast(w, b) == block' = [block EXCEPT ![w][begun[w]] = b]
SetFirst(w, b) == block' = [block EXCEPT ![w][served[w] + 1] = b]

Refused(w, n) == block[w][n].guard = "failed"
Durable(w, n) == block[w][n].fate = "committed"
Superseded(w) == held[w] # 0 /\ fence # held[w]

-----------------------------------------------------------------------------
(* The fence row.                                                           *)

\* The harness spawns exactly one worker A, with fence 1; every other worker
\* is a B, told which fence value to take the run over from.
Init ==
    /\ branch \in [Worker -> Branch]
    /\ cfg \in [Worker -> 1..MaxFence]
    /\ \A v, w \in Worker : cfg[v] = 1 /\ cfg[w] = 1 => v = w
    /\ fence = 0
    /\ held = [w \in Worker |-> 0]
    /\ proc = [w \in Worker |-> "up"]
    /\ lock = [w \in Worker |-> FALSE]
    /\ pc = [w \in Worker |-> "idle"]
    /\ begun = [w \in Worker |-> 0]
    /\ served = [w \in Worker |-> 0]
    /\ fetched = [w \in Worker |-> 0]
    /\ block = [w \in Worker |-> [n \in 1..MaxBlocks |-> NewBlock]]
    /\ acked = [w \in Worker |-> {}]
    /\ told = [w \in Worker |-> FALSE]
    /\ late = [w \in Worker |-> 0]

\* install_fence, then worker A is spawned with fence=1.
InstallFence(w) ==
    /\ fence = 0
    /\ cfg[w] = 1
    /\ proc[w] = "up"
    /\ fence' = 1
    /\ held' = [held EXCEPT ![w] = 1]
    /\ UNCHANGED <<static, proc, client, server, block>>

\* Mutant: a claim that bumps the fence twice.
BumpedTwice(f) == f + 2

\* What CLAIM_SQL leaves in the row when its WHERE holds.
Bumped(f) == f + 1

\* Mutant: a WHERE that names the row only.
MayClaimAny(expected) == fence # 0

\* CLAIM_SQL's WHERE: the row exists and still has the expected value.
MayClaim(expected) == fence # 0 /\ fence = expected

\* claim(): one autocommit UPDATE ... RETURNING.  A claim that matches no row
\* returns None and changes nothing; its caller gets no fenced saver.
Claim(w) ==
    /\ cfg[w] # 1
    /\ held[w] = 0
    /\ proc[w] = "up"
    /\ MayClaim(cfg[w] - 1)
    /\ fence' = Bumped(fence)
    /\ held' = [held EXCEPT ![w] = fence']
    /\ UNCHANGED <<static, proc, client, server, block>>

-----------------------------------------------------------------------------
(* The client: one write block of FencedPostgresSaver.                      *)

\* outer.__enter__: take the lock, enter the pipeline or BEGIN.
Begin(w) ==
    /\ proc[w] = "up"
    /\ held[w] # 0
    /\ ~lock[w]
    /\ pc[w] = "idle"
    /\ begun[w] < MaxBlocks
    /\ lock' = [lock EXCEPT ![w] = TRUE]
    /\ pc' = [pc EXCEPT ![w] = "entered"]
    /\ begun' = [begun EXCEPT ![w] = @ + 1]
    /\ UNCHANGED <<static, table, proc, server, fetched, block, acked, told>>

\* cur.execute(GUARD_SQL): in a pipeline it is only queued; in a transaction
\* the call waits for the server's answer.
SendGuard(w) ==
    /\ pc[w] = "entered"
    /\ SetLast(w, [Last(w) EXCEPT !.sent = 1])
    /\ pc' = [pc EXCEPT ![w] =
                IF branch[w] = "transaction" THEN "guarding" ELSE "body"]
    /\ UNCHANGED <<static, table, proc, server, lock, begun, fetched, acked, told>>

\* The transaction branch gets the guard's result, or its 22012, here.
GuardAnswered(w) ==
    /\ pc[w] = "guarding"
    /\ Last(w).ran = 1
    /\ pc' = [pc EXCEPT ![w] =
                IF Last(w).guard = "passed" THEN "body" ELSE "unwinding"]
    /\ UNCHANGED <<static, table, proc, server, block, lock, begun, fetched,
                   acked, told>>

\* Mutant: the re-raise without the unwind.
UnwindNot(w) ==
    /\ pc[w] = "unwinding"
    /\ pc' = [pc EXCEPT ![w] = "idle"]
    /\ told' = [told EXCEPT ![w] = TRUE]
    /\ UNCHANGED <<static, table, proc, server, block, lock, begun, fetched, acked>>

\* The except branch of _Guarded.__enter__: outer.__exit__ before the re-raise.
Unwind(w) ==
    /\ pc[w] = "unwinding"
    /\ SetLast(w, [Last(w) EXCEPT !.end = "rollback"])
    /\ pc' = [pc EXCEPT ![w] = "finishing"]
    /\ UNCHANGED <<static, table, proc, server, lock, begun, fetched, acked, told>>

\* No statement of the client is unanswered (always so between the calls of
\* a transaction; a pipeline does not wait).
Answered(w) == branch[w] = "transaction" => Last(w).ran = Last(w).sent

\* The body queues, or executes, its next statement.
SendStmt(w) ==
    /\ pc[w] = "body"
    /\ Last(w).sent < Stmts + 1
    /\ Answered(w)
    /\ SetLast(w, [Last(w) EXCEPT !.sent = @ + 1])
    /\ UNCHANGED <<static, table, proc, server, client>>

\* The body is done: COMMIT, or the Sync of the pipeline.
Leave(w) ==
    /\ pc[w] = "body"
    /\ Last(w).sent = Stmts + 1
    /\ Answered(w)
    /\ SetLast(w, [Last(w) EXCEPT !.end = "commit"])
    /\ pc' = [pc EXCEPT ![w] = "finishing"]
    /\ UNCHANGED <<static, table, proc, server, lock, begun, fetched, acked, told>>

\* Mutant: the transaction branch commits on an exception as well.
EndOnRaiseCommits(w) == "commit"

\* What __exit__ sends when an exception leaves the body: conn.transaction()
\* rolls back, both pipeline branches enqueue their Sync all the same.
EndOnRaise(w) == IF branch[w] = "transaction" THEN "rollback" ELSE "commit"

\* An exception in the body, after any number of statements: the client's own, or,
\* on a pipeline branch, a refusal that sending a statement brings back early.  The
\* guard is such a statement: a refusal of an earlier block raised inside __enter__
\* is unwound (fence.py:98) with the Sync, like a body that raised at its start.
BodyRaises(w) ==
    /\ pc[w] = "body"
    /\ Answered(w)
    /\ SetLast(w, [Last(w) EXCEPT !.end = EndOnRaise(w), !.raised = TRUE])
    /\ pc' = [pc EXCEPT ![w] = "finishing"]
    /\ UNCHANGED <<static, table, proc, server, lock, begun, fetched, acked, told>>

\* Mutant: no branch waits for the server.
ResultsReadEarly(w) == fetched[w]..served[w]

\* The results __exit__ may have read when it returns: a transaction and a
\* per-write pipeline wait for the server to finish the block; the Sync of a
\* connection-level pipeline reads only what has already come back.
ResultsRead(w) ==
    IF branch[w] = "pipe" THEN fetched[w]..served[w]
    ELSE {begun[w]} \cap {served[w]}

\* Mutant: __exit__ swallows the error.
SurfacesNot(w, k) == FALSE

\* Reading the results up to block k raises if one of them is a refusal.
Surfaces(w, k) == \E n \in (fetched[w] + 1)..k : Refused(w, n)

\* outer.__exit__ returns or raises; either way the lock is released.
Finish(w) ==
    /\ pc[w] = "finishing"
    /\ \E k \in ResultsRead(w) :
         /\ fetched' = [fetched EXCEPT ![w] = k]
         /\ told' = [told EXCEPT ![w] = @ \/ Surfaces(w, k)]
         /\ acked' = IF Surfaces(w, k) \/ Last(w).raised THEN acked
                     ELSE [acked EXCEPT ![w] = @ \cup {begun[w]}]
    /\ lock' = [lock EXCEPT ![w] = FALSE]
    /\ pc' = [pc EXCEPT ![w] = "idle"]
    /\ UNCHANGED <<static, table, proc, server, begun, block>>

\* The run is over and the connection is closed; leaving a connection-level
\* pipeline reads every result still outstanding.
Close(w) ==
    /\ proc[w] = "up"
    /\ pc[w] = "idle"
    /\ served[w] = begun[w]
    /\ proc' = [proc EXCEPT ![w] = "closed"]
    /\ fetched' = [fetched EXCEPT ![w] = begun[w]]
    /\ told' = [told EXCEPT ![w] = @ \/ Surfaces(w, begun[w])]
    /\ UNCHANGED <<static, table, server, lock, pc, begun, block, acked>>

\* The process is killed at any point, e.g. by the harness's timeouts.
Kill(w) ==
    /\ proc[w] = "up"
    /\ proc' = [proc EXCEPT ![w] = "killed"]
    /\ lock' = [lock EXCEPT ![w] = FALSE]
    /\ pc' = [pc EXCEPT ![w] = "idle"]
    /\ UNCHANGED <<static, table, server, block, begun, fetched, acked, told>>

-----------------------------------------------------------------------------
(* The server: the backend of one connection.                               *)

Working(w) == proc[w] # "gone" /\ served[w] < begun[w]

\* Mutants: a guard that always passes, and one that accepts any fence value the
\* row has reached.
GuardPassesAlways(w) == TRUE
GuardPassesReached(w) == fence >= held[w]

\* GUARD_SQL at READ COMMITTED: it reads the row as committed when it runs,
\* and takes no lock on it.
GuardPasses(w) == fence = held[w]

RunGuard(w) ==
    /\ Working(w)
    /\ First(w).ran = 0
    /\ First(w).sent > 0
    /\ SetFirst(w, [First(w) EXCEPT
                      !.ran = 1,
                      !.guard = IF GuardPasses(w) THEN "passed" ELSE "failed"])
    /\ UNCHANGED <<static, table, proc, client, server>>

\* A statement of the body; after a failed guard it is skipped.
RunStmt(w) ==
    /\ Working(w)
    /\ First(w).ran > 0
    /\ First(w).ran < First(w).sent
    /\ SetFirst(w, [First(w) EXCEPT !.ran = @ + 1])
    /\ UNCHANGED <<static, table, proc, client, server>>

\* Mutant: the guard yields a count, not an error.
FateUnguarded(b) == IF b.end = "commit" THEN "committed" ELSE "aborted"

\* A failed statement aborts the block whatever the client asks for.
Fate(b) == IF b.end = "commit" /\ b.guard = "passed"
           THEN "committed" ELSE "aborted"

\* COMMIT, ROLLBACK or Sync, once everything sent before it has run.
EndBlock(w) ==
    /\ Working(w)
    /\ First(w).end # "open"
    /\ First(w).ran = First(w).sent
    /\ SetFirst(w, [First(w) EXCEPT !.fate = Fate(First(w))])
    /\ served' = [served EXCEPT ![w] = @ + 1]
    /\ late' = IF Superseded(w) /\ Fate(First(w)) = "committed"
               THEN [late EXCEPT ![w] = @ + 1] ELSE late
    /\ UNCHANGED <<static, table, proc, client>>

\* The backend notices that its client is dead and rolls back.  What it had
\* not yet executed of the messages sent is lost.
Disconnect(w) ==
    /\ proc[w] = "killed"
    /\ proc' = [proc EXCEPT ![w] = "gone"]
    /\ served' = [served EXCEPT ![w] = begun[w]]
    /\ block' = [block EXCEPT ![w] =
                   [n \in 1..MaxBlocks |->
                      IF n \in (served[w] + 1)..begun[w]
                      THEN [@[n] EXCEPT !.fate = "aborted"] ELSE @[n]]]
    /\ UNCHANGED <<static, table, client, late>>

-----------------------------------------------------------------------------

ClientStep(w) == \/ SendGuard(w) \/ GuardAnswered(w) \/ Unwind(w)
                 \/ SendStmt(w) \/ Leave(w) \/ Finish(w)

ServerStep(w) == RunGuard(w) \/ RunStmt(w) \/ EndBlock(w) \/ Disconnect(w)

\* Every process has exited and the server has nothing left to do.
Done == /\ \A w \in Worker : proc[w] \in {"closed", "gone"}
        /\ UNCHANGED vars

Next ==
    \/ \E w \in Worker :
         \/ InstallFence(w) \/ Claim(w)
         \/ Begin(w) \/ ClientStep(w) \/ BodyRaises(w) \/ Close(w) \/ Kill(w)
         \/ ServerStep(w)
    \/ Done

Spec == Init /\ [][Next]_vars

\* A thread that is in a write block runs on (the harness thaws or kills a
\* frozen worker), the server works, and a run comes to its end.
Fairness == \A w \in Worker : /\ WF_vars(ClientStep(w))
                              /\ WF_vars(ServerStep(w))
                              /\ WF_vars(Close(w))

FairSpec == Spec /\ Fairness

-----------------------------------------------------------------------------
(* Properties.                                                              *)

\* The type invariant.
TypeOK ==
    /\ branch \in [Worker -> Branch]
    /\ cfg \in [Worker -> 1..MaxFence]
    /\ fence \in 0..MaxFence
    /\ held \in [Worker -> 0..MaxFence]
    /\ proc \in [Worker -> {"up", "closed", "killed", "gone"}]
    /\ lock \in [Worker -> BOOLEAN]
    /\ pc \in [Worker -> {"idle", "entered", "guarding", "body", "unwinding",
                          "finishing"}]
    /\ begun \in [Worker -> 0..MaxBlocks]
    /\ served \in [Worker -> 0..MaxBlocks]
    /\ fetched \in [Worker -> 0..MaxBlocks]
    /\ block \in [Worker -> [1..MaxBlocks -> Block]]
    /\ acked \in [Worker -> SUBSET (1..MaxBlocks)]
    /\ told \in [Worker -> BOOLEAN]
    /\ late \in [Worker -> Nat]

\* CLAIM_SQL is a compare-and-set: of rivals sent to take the run over from
\* the same fence value at most one gets a saver, no two savers ever hold the
\* same value, and a winner holds the successor of the value it was sent to
\* supersede, never of a later takeover it did not know of.
OneHolderPerFence ==
    /\ \A v, w \in Worker : held[v] # 0 /\ held[v] = held[w] => v = w
    /\ \A w \in Worker : held[w] \in {0, cfg[w]}

\* The guard (fence.py:33) is evaluated on the server when it runs there, so
\* when a block is admitted no worker holds a later fence value: writes are
\* admitted in the order of the takeovers, even if the guard was queued
\* before the takeover.
AdmittedOnlyToLatest ==
    [][\A w \in Worker, n \in 1..MaxBlocks :
          block[w][n].guard # "passed" /\ block'[w][n].guard = "passed"
             => \A v \in Worker : held[v] <= held[w]]_vars

\* A superseded worker's write is refused except for the one block whose
\* guard had passed before the takeover committed: a worker frozen inside a
\* block lands that block when it thaws and no second one.
AtMostOneLateBlock == \A w \in Worker : late[w] <= 1

\* Refusal is for good: when the guard has refused a block of a worker, no
\* later block of that worker is durable, also when the worker never noticed
\* (the error of a connection-level pipeline, or one its runtime swallowed)
\* and went on writing.
RefusalIsFinal ==
    \A w \in Worker : \A m, n \in 1..MaxBlocks :
        m <= n /\ Refused(w, m) => ~Durable(w, n)

\* A durable block is whole, except where an exception of the client left the
\* body of a pipeline block: there __exit__ commits what was queued
\* (fence.py:26), and the transaction branch alone rolls back.
PartialOnlyByPipelineRaise ==
    \A w \in Worker, n \in 1..MaxBlocks :
        Durable(w, n) /\ block[w][n].ran < Stmts + 1
            => block[w][n].raised /\ branch[w] # "transaction"

\* put and put_writes return normally only if the block is durable, on the two
\* branches that wait for the server.  (On a connection-level pipeline a
\* refused write may return normally, see RefusalReported.)
NormalReturnMeansDurable ==
    \A w \in Worker : branch[w] # "pipe" =>
        \A n \in acked[w] : Durable(w, n)

\* Whatever a write block goes through, a refused guard included, it releases
\* PostgresSaver.lock: the next write of the worker is never blocked forever.
LockReleased == \A w \in Worker : lock[w] ~> ~lock[w]

\* A refusal reaches its worker by the time it closes the connection: it is
\* raised from the refused call, from a later one, or from the pipeline's
\* exit, unless the process is killed first.
RefusalReported ==
    \A w \in Worker :
        (\E n \in 1..MaxBlocks : Refused(w, n)) ~> told[w] \/ proc[w] \in {"killed", "gone"}

\* fence.py:17: "the atomicity comes from sharing the write's implicit
\* transaction".  Taken at its word, guard and write are one step with
\* respect to a claim, so no block of a superseded worker ever commits.
GuardAndWriteAtomic == \A w \in Worker : late[w] = 0

-----------------------------------------------------------------------------
(* The fence implements GuardedWrites.                                      *)

Contract == INSTANCE GuardedWrites WITH
    epoch <- fence,
    holding <- held,
    admitted <- [w \in Worker |-> Working(w) /\ First(w).guard = "passed"],
    durable <- {b \in Worker \X (1..MaxBlocks) : Durable(b[1], b[2])}

\* Every step of the saver, the server and the workers' deaths is a step of
\* the contract: a block is admitted while its worker is the owner, one at a
\* time, and only admitted blocks become durable.
ImplementsGuardedWrites == Contract!Spec
=============================================================================
