# Write ownership for LangGraph checkpoints: the TLA+ project

The repository shows what goes wrong when two workers run one LangGraph
thread, fences it with one table and one SQL statement, and proposes the
fence's contract as a conformance capability. This directory models that
program: the modules are translated from the Python source, TLC checks them on
small instances, and TLAPS proves the main results for every instance.

## 1. The system

| component | source | state | operations |
|---|---|---|---|
| fence row | `proof/fence.py` | `proof_fence(thread_id, owner, fence)` | `install_fence`, `claim` (compare-and-set), `read_fence`, `setup_database` |
| `FencedPostgresSaver` | `proof/fence.py`, probes in `proof/verification/` | `fence_value`, the lock, one connection, one open write block | `_cursor(pipeline=True)` in `put`, `put_writes`, `delete_thread`, on three branches |
| worker process | `proof/worker.py` | the saver, the run, its result file | claim (role B), run, freeze inside a model call, report |
| zombie proof | `proof/proof.py` | two workers, snapshots of the chain, `FAILURES` | spawn, SIGSTOP, takeover, thaw, kill on timeout, checks, verdict |
| message validity | `orphans` in `proof/fence.py`, `proof/provider_check.py` | none | pure functions of a message list |
| overwrite proof | `proof/overwrite.py` | control rows (`__resume__`, `__interrupt__`) of one checkpoint | two gated workers, upsert of control rows, a later worker |
| checkpoint storage | library; used in `proof/verification/` | checkpoints, blobs, writes | `DO NOTHING` / `DO UPDATE` by the channels of a batch |
| ownership contract | `upstream/.../ownership.py`, `capabilities.py` | owner handles | claim, write, barrier, `observe_rejection` |
| ownership clauses | `upstream/.../spec/test_write_ownership.py`, `tests/` | reference savers | 15 clauses, each against five savers |
| conformance runner | `upstream/.../validate.py`, `report.py` | report | skip, detect, run, level |
| patch installer | `upstream/.../apply.py` | seven files of a tree | copy, marker-idempotent patches |
| swallow-path study | `spike/q3_verify1_swallow_paths.py` | background futures | submit, drop or re-raise |

How they interact. `proof.py` installs the fence row, spawns worker A with
fence 1 and worker B with fence 2, and orders them with files and signals.
B claims (an autocommit `UPDATE ... WHERE fence = expected`), builds a saver on
the value it got, and runs. Every write block of a saver starts with
`GUARD_SQL` on the saver's own connection; the server decides it. The two
workers share nothing but the database. `ownership.py` states the contract
that such a saver has to meet, the clauses test it, `validate.py` runs them.

What is hard here: the guard and the commit of a block are two moments of a
server that serves other connections in between; in a pipeline the client
learns late, or from another call, what the server decided; a worker may be
frozen or killed between any two steps; claims race; a worker that was refused
may not notice. None of this is reached by the scripted scenario, which freezes
its worker inside a model call, never inside a write block.

What makes each component correct:

* fence row: one holder per value, a takeover supersedes exactly the value it
  was sent to supersede.
* write blocks: a superseded worker's blocks are refused, all of them but the
  one already admitted; what is durable is whole; a normal return means
  durable; the lock is released; a refusal is reported.
* worker and zombie proof: with the fence the chain does not fork, but for a late
  block, and the survivor's transcript stays well formed; without it the damage is as
  described.
* overwrite proof: the control row a later worker resumes on is the survivor's.
* contract and clauses: a saver passes the clauses iff it keeps both parts of
  the contract; an interrupt is no pass.
* swallow paths: a run that returns normally had no write refused, and where a
  refusal may get lost is known.
* runner and scripts: a report says FULL only if what was found and asked for passed; what
  was opened is closed, what was swapped is put back, whatever raised.
* installer: what it calls applied is whole; applying twice is applying once; a failure is visible or repaired
  by applying again.
* orchestrator: PROVEN is printed only of what was seen; no worker outlives the
  verdict.

## 2. Modules

| module | what it is |
|---|---|
| `FencedSaver` | the fence row, claims, and the write blocks of every worker with the server's side of each connection |
| `GuardedWrites` | the abstract contract: epochs of ownership, admission, at most one undecided write per writer, only admitted writes land |
| `FencedSaver_proof` | its inductive invariant and the safety theorems, what a write that returned has stored, and that `FencedSaver` implements `GuardedWrites` |
| `Takeover` | the scenario of `proof.py`: the checkpoint tables and the runs of several workers on one thread |
| `Overwrite` | the scenario of `overwrite.py`: control rows under the two conflict clauses, gated and free workers, the later worker |
| `Orchestrator` | the process that drives both: ready, thaw and result files, signals, timeouts, the verdict |
| `SwallowPaths` | the runtime's loops, their background futures, and the ways a refusal travels to the caller or is lost |
| `OwnershipSuite` | the ownership contract, its fifteen clauses, and savers that keep it or break it |
| `SuiteTree` | a source tree of the conformance suite, as far as registering a capability goes |
| `ApplyPatch` | the installer of the patch, on a `SuiteTree` that upstream goes on changing |
| `Conformance` | one validation run: lifespan, factory, clauses, callbacks, report |
| `Verdicts` | the scripts that make one validation run after the other; it composes `Conformance` |
| `Takeover_proof`, `Overwrite_proof`, `Orchestrator_proof`, `ApplyPatch_proof`, `Verdicts_proof`, `SwallowPaths_proof`, `OwnershipSuite_proof` | the inductive invariant of each of these modules, and its theorems |
| `MC...` | constants, symmetry and bounds for TLC, one module for each module that is run |

`FencedSaver` looks inside a write block and takes its statements as given;
`Takeover` and `Overwrite` take the block as one admission and one commit, which
is what `GuardedWrites` shows a block to be, and look at what the statements
write. `Orchestrator` takes the workers of both as processes that report or do
not. `OwnershipSuite` looks inside the clauses that `Conformance` counts, and
`ApplyPatch` makes the trees whose suites `Conformance` runs
(`HalfwayImports` says that it makes no others).

### FencedSaver

State and code:

* `fence` is the column of the thread's row, 0 before `install_fence`; `held[w]`
  is `FencedPostgresSaver.fence_value`, `cfg[w]` the fence in the worker's
  argument. One `Worker` has `cfg = 1` at most (the harness spawns one A);
  the others expect `cfg - 1` in the row, several of them possibly the same.
* `branch[w]` is the branch of `PostgresSaver._cursor`: `"pipe"` (a
  connection-level pipeline), `"pipeline"` (`conn.pipeline()` per write),
  `"transaction"` (`conn.transaction()`, the `supports_pipeline=False`
  fallback). `queued_write_commits.py` and `fence_pipeline_branches.py` measure
  all three.
* `lock`, `pc`, `begun` are the client: who holds `PostgresSaver.lock`, where it
  is in its block, how many blocks it has opened. Threads of one worker take
  turns under the lock, so one program counter is enough.
* `block[w][n]` is one write block: messages `sent` (the guard first), `ran` by
  the server, the guard's verdict, how the client closed it, whether an
  exception left the body, and its fate. `served` counts blocks the server has
  finished, `fetched` those whose results the client has read.
* `acked`, `told`, `late` are history: what returned normally, whether a refusal
  was raised to some caller, how many blocks landed after a takeover. No guard
  reads them.

Actions: `InstallFence` and `Claim` for the row; `Begin`, `SendGuard`,
`GuardAnswered`, `Unwind`, `SendStmt`, `Leave`, `BodyRaises`, `Finish` for a
block of the client (`_Guarded.__enter__`, body, `_Guarded.__exit__`); `Close`
and `Kill` for the process; `RunGuard`, `RunStmt`, `EndBlock`, `Disconnect` for
the server. The server works through what a connection has sent, in order, at
its own pace: on the two pipeline branches the client runs ahead of it, on the
transaction branch the client waits for every answer. A freeze is a client that
takes no step; nothing in `Spec` makes it take one.

External parts (psycopg's pipeline, Postgres's transactions) are modelled from
the way the repository uses and measures them: an error of a statement aborts
its block; a per-write pipeline and a transaction wait for the block's end
before `__exit__` returns; the sync of a connection-level pipeline reads what
has come back, so a refusal may be raised from a later block or from the exit
of the pipeline (`ownership.py:20-25` reports exactly this). Where a later block's guard
or statement brings it back, inside `__enter__` (`fence.py:98`) or in the body, the
step is `BodyRaises`: in either place the exception leaves what was sent to the Sync, and `Finish` says what was read.

Abstractions: one thread; the body's statements are counted, not interpreted;
row locks of the body's statements (which can only delay a block) are left
out; reads are left out, they change nothing.

### Takeover

* `chain` is table `checkpoints` (`chain()` of `proof.py`), each row with the
  line of its ancestors and, for a plain channel, the message list in its blob;
  `rows` is `checkpoint_writes` for channel `messages`. A task id is a function
  of its checkpoint, so a checkpoint has one row: the conflict key.
* `clock` makes the time-ordered checkpoint ids. An id is drawn when the
  checkpoint is made, before its write block, so ids and commits may be ordered
  differently.
* `fence`, `held`, `saver` are the fence column, the saver's `fence_value`, and
  the class of the saver `worker.py:73-76` picks.
* `phase[w]` is where a worker is: in a task (a model or a tool call), in
  `put_writes`, in `put`, before or after its run. `mem[w]` is its in-memory
  message list: it goes on with its own message whether the row was stored or
  not, as the library does.
* `block[w]` is its write block on the server: admitted by the guard, holding
  the row lock of an uncommitted insert, or skipping because of a committed row.
* `dropped` is history: the messages `DO NOTHING` discarded. The field `late` of
  a row or a checkpoint says that it landed after its writer was superseded.

`Claim` is role B's claim with the saver it selects; `Load` is
`invoke(None, config)` up to its first step, with the stored output of the
tip's task reused if there is one; `RunTask` is the task, and what the frozen
worker has in front of it; `Admit`, `Refuse`, `Insert`, `CommitWrites`,
`CommitPut` are the two write blocks of a super-step; `Kill` the harness.
`Transcript`, `Siblings`, `OrphanResults` and `UnansweredUses` are
`stored_msg_at`, `forks` and the two halves of `orphans`.

Abstractions: a super-step has one task, as the scripted run; the two blocks of
a step come one after the other, as the write tap records them
(`write_tap.py`); a refused block ends the run at once (in the code the next
block is refused as well before the run ends); each worker has a script long
enough; `Load` reads the thread in one step; the snapshots a `DeltaChannel`
takes every 50 steps are beyond the scenario's five.

### Overwrite

* `rows` holds the answers at the checkpoint of the interrupt, by (task, channel):
  the `NULL_TASK_ID` row of `Command(resume=...)`, the task's `__resume__`, its
  `__interrupt__`, and its output. `put_writes` is the library's choice of
  clause: DO UPDATE when every channel of a batch is special, DO NOTHING
  otherwise (`overwrite.py` quotes and logs both statements).
* `mem[w]` is the scratchpad a resumed task starts with. One stored answer means
  that the task stops at its second `interrupt()`, two that it ends.
* `pend[w]` are batches in the executor: they are admitted in any order, because
  `overwrite.py`'s gate stalls single writes and not the run.
* `scenario` is the deployment: the workers sent out, which have a gate, is the
  thread fenced, may workers be killed. `Thaw` opens the gate at stage 3,
  `StageOrder` and `LaterMayStart` are the script's order of stages.
* `acked` and `late` are history: who reported a pause, in order; how many blocks
  landed after a takeover.
* Left out: a worker that resumes a thread which is already finished writes its
  `NULL_TASK_ID` row at the finished checkpoint, not to `rows`. `Load` ends such a
  worker at once; the row, which no one reads, and the refusal a stale worker
  meets there are not in the model.

### Orchestrator

`pc` follows `run_scenario` and `overwrite.py`'s `scenario` line by line; `ready`, `thaw`,
`out` are the files, each of which exists before it has content; `A`, `B` are the
processes, `stopped` is SIGSTOP. What the two scripts do differently is said at
the action (`PollTimesOut`, `Checks`). `Crashes` may take a worker at any point
it runs at. `overlap` is history: was A thawed while B's process or session could
still write? The checks between the reports and the verdict are a choice: they hold or
they do not.

### SwallowPaths

A case of the study is a graph (super-steps of tasks), a runtime, a durability, a
trap (which writes a saver refuses, in which loop, by which exception) and an
interference. `futs[l]` are the futures of loop `l` in the order of submission,
each with the chain of exceptions it ended in; `kept[l]` are the writes that
durability `exit` holds back; `exc[l]` is what is leaving the loop. The script's S0 lists
the runtime's statements with their line numbers, and the actions are those:
`Commit`, `Fail`, `HandleError`, `HandlerWaitRaises`, `AfterTick`, `AwaitPut`,
`Suppress`, `ExecutorExit`; `EnterSubgraph` opens a loop of its own, `Interfere`
is Ctrl-C, a cancellation or an abandoned generator. The cases are the script's S1 to S13,
q_conformance.py's refusing saver, and what they leave out: every interference under every durability, the
fence in a subgraph's put beside a failing sibling, the error handler on the async runtime.

Under durability `sync` the loop waits for its put before the next super-step, so
that no put of that loop is in flight while its nodes run (the put of line 1122,
which "lands while n2 is still running", does not exist). One interference per
run; the script's alarms and 60 s limits are not modelled.

### OwnershipSuite

A clause is a sequence of operations (claim, put, writes, an observed stale
write, reads, barrier) on a thread of its own, run one after the other by the
runner's loop. A saver is a record: whom a claim supersedes, what becomes of a
stale write on either path, how the owner is told, what its barrier answers,
does it stop refusing after once. The repository's savers (Owned, Hostile, Silent, Deferred, the
fence-removed one of `verdict.py`) are five of the family, which has every
combination. `Interrupt` is a `CancelledError` or `KeyboardInterrupt` inside an operation.
`Accepts` asks every put of an owner for the id it stored; in the code clauses 3,
4, 5, 7, 11 and 14 do not take it at once and go on. Only the savers that drop quietly what their
current owner puts are told apart by that, and they fail clause 2 in either case.

### SuiteTree and ApplyPatch

A file is a record of blocks (an enum, a dict, an import list), a block a set of
names; a file cut short has none. `CopyOpens`/`CopyEnds` and
`WriteOpens`/`WriteEnds` are the two halves of `copyfile` and `write_text`, with a
kill between any two; `Raises` is the `SystemExit` of a pattern that is not
found; `Skips` the marker. Between runs a file is checked out, the tree is rebased
from `pristine/` onto `main-base/`, or an entry is lost in a conflict. A
re-run truncates and copies the three copied files again: only at its end it is
the no-op that `apply.py` calls it.

### Conformance and Verdicts

`pc` is the await `validate` is at; each of them may raise, up to `MaxFaults`
times: lifespan, factory, a clause by a cancellation, a callback, a teardown.
`counts` is the runner's, `results` the report, `shown` the capability the
progress output has open. `from_instance` is detection by comparison with the
base class's method. `Verdicts` runs `Conformance`'s steps lane by lane:
`verdict.py` (eight lanes, a class swapped for the last, the first exception
ends it), `q_conformance.py` (three lanes, `except Exception` around each), or a
single call by anybody. A capability has two clauses that pass or fail as the saver's record says; what the
ownership clauses do is `OwnershipSuite`'s.

### Runs

| run | instance | question and result |
|---|---|---|
| `zombie` | 3 workers on `pipe` (the branch with the most interleavings): one with 2 blocks, two rivals for its fence value, of whom the winner has 1 block; 1 statement | a takeover at any point between these blocks: one rival wins and no two workers hold the same value; at most one late block, refusals final, implements `GuardedWrites` |
| `batch` | 2 workers, all branches, 1 block each or 2 of the one that is superseded, 2 statements, fairness | kills, disconnects and client-side exceptions inside a block: no partial block but by a raise in a pipeline; a normal return means durable; the lock is released; a refusal is reported by the refused call, by the next block or by the pipeline's exit; type correctness |
| `atomic` | 2 workers, all branches, 1 block | the comment at `fence.py:17-18` read literally; violated, see below |
| `takeover` | 2 workers, 5 super-steps, with and without fence, delta and plain channel, fairness | the scenario, every order: under the fence what a worker reported is reachable from the tip; an orphaned result comes from a dropped write; finished threads are well formed; a takeover ends, whatever the old worker does; and as long as every write is fenced, what the run does to the tables is what `GuardedWrites` lets it do (`WritesAreGuarded`) |
| `trio` | 3 workers, 3 super-steps, fenced, claims that expect 1 or 2 | forks only at a late block, one late block per worker; an owner has in memory what is stored (`Inv`, with the types) |
| `lost_claim` | 3 workers, fenced, both claims expect 1 | is every write of a fenced thread fenced? violated, see below |
| `paths` | every case of the study, and the interferences and combinations it leaves out | a normal return means that nothing was refused (`Inv`); a refusal is lost in three ways only; `sync` stops the run before its next node; no write is made after the return |
| `overwrite` | the script with its gate, fenced or not; 3 free workers unfenced; 3 free workers fenced with kills | the script's outcome; an acknowledged answer stands in the row and in every checkpoint; the node finishes once, with answers that were given (`Inv`) |
| `ownership` | 1620 savers; 5 of them with an interrupt at any operation | keeping the contract and passing the clauses are the same, but for what a third claim would show; an owner that is never told fails what a hostile saver fails; an interrupt never passes (`Inv`) |
| `patch` | both bases, 3 runs, 2 changes of upstream, 3 sets of unmatched blocks | what is called applied is whole but for two losses; half-patched trees import; a second run writes no patched file; nothing of upstream is lost (`Inv`) |
| `lanes` | 6 suites, all lanes' savers and a broken one, 3 requests, 2 clauses, up to 3 faults | reports and verdicts are earned, the swapped class is put back, a lane that blew up hides none of the next; checkpointers live inside the lifespan and nothing stays open (`Inv`) |
| `verdict` | both scripts, fenced or not, fairness | PROVEN only of runs in which both workers ended by themselves, the zombie last and in error exactly under the fence; workers overlap only after a SIGKILL on record; the proof ends; nobody is left behind and it dies of four causes only (`Inv`) |

Why the bounds are enough: a late block needs one block admitted before and
one attempted after a takeover (two blocks); a partial block needs a statement
executed and one not executed (two statements, with the guard three messages);
a stale claim needs a value already passed, which the losing rival of `zombie` and the
third worker of `trio` expect. Only the worker that holds the first fence value is superseded
while it writes, so that only it has a second block: `TakersWriteOnce` in `zombie`, and
`SecondBlockIsAlone` in `batch`, where the second block is what a deferred refusal comes back
from, and what the successor writes does not bear on it. Both restrict only the
beginning of blocks, of which fairness asks nothing. For `FencedSaver` longer
chains of takeovers are the theorems' matter. Five
super-steps are the scripted run; three have a model call, a tool call and an
answer, enough for an orphaned tool result. `Overwrite`'s third worker is the one
whose answer arrives when the first two are decided, and two answers end its node. Three
runs of the patcher are one that is cut, one that repairs, one that should do
nothing; two changes of upstream are a checkout and a rebase. Three faults are
a clause's, a callback's in its wake, and a teardown's that takes its place. A clause of
the suite claims a thread twice at most, which is the exception in `PassMeansContract`.
Symmetry is used over workers (over
those of role B in `trio`), which the initial states and the actions treat
alike, in runs without liveness properties. Deadlock is checked in every run: the only terminal states
are those where every process, run or script has ended (`Done`).

Fairness is weak. In `FencedSaver`: a thread inside a write block, the
server, and the end of a run. The harness thaws or kills the worker it froze
(`proof.py:225-234`), a server answers, and a script of model responses ends.
Nothing forces a worker to claim, to write or to be killed. In `Takeover` the
worker sent to take over runs on, the one taken over from may stay frozen in its
model call for good, and a write block is finished by whoever is in it, thawed
or dead. In `Orchestrator` only the orchestrator's own steps are fair, its timeouts
among them, and the arrival of a SIGKILL: workers may hang anywhere. Every other run assumes
no fairness.

Each property has a mutant in the module, a plausible slip of the code (no
unwind, a guard that compares with `>=`, a claim that does not bump, a batch
stored by the wrong clause, a worker given up instead of killed, a class that is put back
on success only): TLC finds the property violated under it.

### What the scenario shows

Without the fence the model reproduces the repository's two tiers: the chain
forks, a finished branch becomes unreachable, and in a delta channel a tool
result is left without its tool use. The properties say what survives and when:
`OrphansExplained` holds in all deployments and names the only cause.
With the fence the chain may still fork at a block that was in flight during the
takeover, and only there (`OnlyLateBlocksFork`): the trace the window described
next leaves in the checkpoint tables. `SuccessIsReachable` and `OwnerSeesItsStore` are stated for threads into
which no late block landed, and `Protected` excludes deployments with an unfenced
worker, which is the second finding.

### The findings

**The guard's verdict.** `fence.py:17-18` says that the atomicity comes from sharing the write's
transaction. What the shared transaction gives is the atomicity of the *error*:
a failed guard takes the block down with it. The *verdict* of the guard is a
plain read at READ COMMITTED, without a lock on the fence row, so a claim may
commit between the guard and the block's COMMIT. Run `atomic` shows it:
A's guard passes, B claims, A's block commits. The saver still keeps the weaker
promise of `GuardedWrites`: one such block per superseded worker, and none
after it (`AtMostOneLateBlock`, proved).

**A lost claim.** `claim` returns `None` when its `UPDATE` matches no row
(`fence.py:65`), `worker.py` stores that in `cfg["fence"]`, and
`worker.py:73` reads `None` as "this deployment has no fence" and builds the
plain `PostgresSaver`. The docstring at `fence.py:69` has the fence cover every
write of thread state. Run `lost_claim` shows two workers sent to take over from
the same value: the one that loses the race writes the thread with no guard.
The harness spawns one B per thread, so its scripted scenario never gets there.

### What else the models show

Passing runs state these exactly, as the exceptions of their properties; they
are worth knowing.

* A refusal is dropped when another exception leaves the run first, when an
  unrelated failure was submitted before it, or when the async error handler raises
  what its own write raised (`DropsExplained`). The study says of durability
  `sync` that a fence in put survives a competing node error
  (`q3_verify1_swallow_paths.py:1086`). That holds for the loop that made the put: a
  put refused inside a subgraph is lost to a sibling node that raised first
  (`SyncPutStopsTheRun` asks for a trap on the run's own puts).
* Part 3 of `overwrite.py` concludes that the fence prevents the overwrite (line
  465), with a gate that stalls before the guard. A block admitted before the takeover
  replaces the survivor's answer by DO UPDATE all the same: `AnswerStands` excludes threads
  into which a late block landed.
* No clause of the suite claims a thread three times. A saver whose tokens
  alternate revives a dead handle and passes all fifteen (`PassMeansContract`).
* `observe_rejection` classifies BaseException and raises an `AssertionError`
  from it: a cancellation inside a stale write fails a clause and the run goes on,
  where `ownership.py:144` says "classifying, then re-raising". It never becomes a pass.
* `apply.py` takes one name as the mark of a whole file. An entry lost in a conflict
  stays lost on a re-run while another of the file is left, and an import line of
  the package that its pattern does not match is passed over in silence
  (`AppliedIsWhole` names both).
* `conformance_level` looks at detected capabilities: FULL is given to a saver
  that lacks a base capability, or was not asked for it; BASE to one that passes a
  single base capability.
* Under the fence the checks of both scripts do not look at whether B succeeded
  (`proof.py:439-471`, `overwrite.py:452-475`; without the fence they do, `proof.py:355`,
  `overwrite.py:449`), and `worker.py` keeps `claimed_fence` in the report of an error.
  A B that raises after its last commit leaves the rows that are checked, and the script prints
  PROVEN: `NoFalseProof` promises of B under the fence only that it ended with a whole report.
* `proof.py`'s `read_out` parses a result file that may have been cut off by its
  own SIGKILL, and `half_a` indexes the messages of a B that raised: both end the
  script before its verdict, with A still under SIGSTOP in the first case (`DiesOfWhatItRead` has all
  causes; a worker that only hangs is none).
* `verdict.py` prints what it expects beside what it got and asserts nothing; it
  overlays whole files on whatever version is installed (line 47).
* Wording that the code has left behind: `q_conformance.py:163` says that a saver
  strips `checkpoint_id`, which its `aput` does not; `tests/test_write_ownership.py:263`
  counts seven of fourteen clauses where eight of fifteen fail.

## 3. Proofs

Each component has an inductive invariant `IInv` in its proof module, which TLC
checked on small instances before it was proved. `Invariance` is always
`Spec => []IInv`; the other theorems are the properties the runs check, each for
every value of the constants that the module's named assumption allows.

| module | theorem: property | for every |
|---|---|---|
| `FencedSaver_proof` | `TypeCorrect`: `TypeOK`; `ClaimsAreUnique`: `OneHolderPerFence`; `ZombieLandsAtMostOne`: `AtMostOneLateBlock`; `RefusalSticks`: `RefusalIsFinal`; `PartialBlocksExplained`: `PartialOnlyByPipelineRaise`; `AdmissionFollowsTakeovers`: the action property `AdmittedOnlyToLatest`; `ReturnsAreDurable`: `NormalReturnMeansDurable`; `FenceImplementsContract`: `ImplementsGuardedWrites` | set of workers, subset of the branches, `Stmts`, `MaxFence`, `MaxBlocks` |
| `Takeover_proof` | `OwnerIsUpToDate`: `Inv`; `OnlyOneBlockLate`: `OnlyLateBlocksFork`; `SuccessIsKept`: `SuccessIsReachable`; `OrphansAreDrops`: `OrphansExplained`; `FinishedIsComplete`: `FinishedIsWellFormed`; `TakeoverKeepsTheContract`: the action property `WritesAreGuarded` | finite set of workers, odd number of super-steps, expected fence values; fenced or not, both channels |
| `Overwrite_proof` | `AnswerIsKept`: `AnswerStands`; `RunFinishesOnce`: `Inv`; `TheScriptComesOut`: `ScriptedOutcome` | finite set of workers, set of deployments (who has a gate, fenced or not, kills or none) |
| `Orchestrator_proof` | `ProofsAreTrue`: `NoFalseProof`; `ThawIsExclusive`: `TakeoverIsExclusive`; `EndsAreAccountedFor`: `Inv` | behaviour of the two workers, the files and the timeouts (the module has no constants but the two scripts) |
| `ApplyPatch_proof` | `UpstreamStays`: `Inv`; `AppliedMeansWhole`: `AppliedIsWhole`; `RerunChangesNothing`: the action property `RerunIsNoop`; `HalfwayTreesImport`: `HalfwayImports` | number of runs and of upstream's changes, set of trees to rebase onto |
| `SwallowPaths_proof` | `ReturnsAreClean`: `Inv`; `DropsAreExplained`: `DropsExplained`; `SyncStopsTheRun`: `SyncPutStopsTheRun`; `NothingAfterReturn`: the action property `QuietAfterReturn` | set of cases: any graph of tasks, trap, runtime, durability and interference |
| `Verdicts_proof` | `RunsAreTidy`: `Inv`; `ReportsTellTheTruth`: `ReportIsTruthful`; `TheClassIsBack`: `FenceIsRestored`; `NoLaneIsHidden`: `EveryLaneSpeaks`; `LinesAreEarned`: `VerdictsAreEarned` | set of suites, savers and requests, number of clauses and of faults |
| `OwnershipSuite_proof` | `InterruptsNeverPass`: `Inv`; `TheContractPasses`: `ContractPasses`; `PassingMeansTheContract`: `PassMeansContract`; `SilenceFails`: `SilenceIsNoEnforcement` | subset of the family of savers, any of them interruptible |

Assumptions. `BoundsAssumption`, `ScenarioAssumption`, `ScenariosAssumption`,
`ApplyAssumption`, `ConformanceAssumption`, `CasesAssumption` give the constants their types;
four say more. A graph begins with the START task, which writes its input and returns
(`CasesAssumption`). Takeover's number of steps is odd, because a run of model and tool calls ends
with the model's answer. A tree of upstream's has the blocks of `pristine/` and the
patch's name in none of them (`ApplyAssumption`). A suite's capabilities are an enum:
none comes twice (`ConformanceAssumption`). The savers under test are members of
`Family`, which has a member for every combination of a saver's choices (`SaversAssumption`).

### FencedSaver

None of the properties is inductive. `IInv` adds: a block is opened before it
is worked on (`Opened`); fence values come from the row alone, so nobody holds
more than the row has (`Grants`); a block that is not yet opened is fresh, only
the first unfinished block of a connection can have run anything, a refusal
means that the worker has lost the fence for good, and only admitted, closed,
fully executed blocks are durable (`BlockInv`); a worker writes only with a
grant, and once it was late or refused, none of its unfinished blocks is
admitted (`WorkerInv`). The last two are what `AtMostOneLateBlock` and
`RefusalIsFinal` rest on: a worker that lost the fence does not get it back,
because `fence` only grows and `held[w]` is set once.

The preservation proof goes by four kinds of step: a takeover (`GrantStep`), a
change of the client's open block (`ClientChange`), a change of the server's
first unfinished block (`ServerChange`), and steps that leave blocks alone
(`QuietStep`, `BeginStep`, `DisconnectStep`); `IInvStep` maps every action to
one of them.

The refinement sorts the steps again, by what `GuardedWrites` sees of them. Most
change neither the fence nor a verdict and stutter; a claim is a takeover; a
guard that passes is an admission, for which the worker must have no undecided
block, which is where `BlockInv` (only the first unfinished block of a connection
has run anything) is used; the commit of an admitted block is a landing; a
rollback or a lost session is a drop.

### Takeover

The invariant has three layers. *The store alone* (`ChainInv`, `PlaceInv`,
`MemoryInv`, `StoreInv`, `ExactInv`): ids are fresh when drawn, the line of a
checkpoint holds the rows its transcript is read from, what a worker has in memory
is what is stored or was dropped, and every message fits the one before it in
its list unless that one was dropped. This gives `OrphansExplained`, with no
fence at all. *The fence* (`FenceInv`, `LateInv`, `OwnerInv`): a worker that is not
superseded is the only one of its kind, so nobody writes under what it has read; a
superseded one can only finish the block it was admitted to. This gives the
four others. *The count* (`CountInv`): ids are drawn for a worker and a step, so
`Steps * Cardinality(Worker)` are enough, by the pigeonhole principle; without it the
bound on `clock` would be a restriction of the program and not a fact about it.

`TakeoverKeepsTheContract` links the two levels: `Takeover` takes a block as one admission
and one commit, and the theorem says that what its steps do to the tables is a step of
`GuardedWrites` or nothing, as `FenceImplementsContract` says it of the statements inside the block.
What has landed is read off the tables (`Landed`), so that a write landing twice, or a row that
goes, would be no step of the contract. It needs the invariant and `HeldInv`, that only a
fenced saver holds anything. It is an action property because a run stays
protected only until a claim is lost; its bound on blocks, two for each id that may be drawn,
is a fact and no restriction.

### Overwrite

Whoever goes on from a row has read it after it was written. Whoever read before
is *stale* by then (it holds less than the fence column), because the block
that wrote the row was still its owner's when it landed; and a stale worker's block can
only land late. `CalmInv` says that for the answer, for the task's output and for the end of
the run, as long as nothing landed late on a fenced thread; `RowsInv` says what holds with no
fence: answers are those of workers that were asked, the output's two are two
workers'.

`TheScriptComesOut` is about deployments of two workers of which A has the gate and none is
killed, which is its hypothesis. There the stages put all in order (`StagesInv`): A has
loaded before B starts and writes only when B is through, so that each row is a
function of the batches that went through (`ScriptRows`), and under the fence every batch of A's is
refused (`RefusalsInv`), in whatever order its executor sends them.

### Orchestrator

Each wait ends with its worker ended or with a failure on record (`Waiting`), a whole
report was written by a worker that then ended by itself, and past its reading a report is whole or
missing on record (`Reporting`); a
stopped worker is stopped between its freeze and its thaw (`Freezing`).

### ApplyPatch

A file is upstream's, patched, or open (`FilesInv`). A marker comes with all blocks of a
file at once, so where it is found, a name can be missing only where a
conflict's resolution dropped it or no pattern matches it (`IsMarked`); what a write under way
will make is the whole patch (`PendingInv`); a run goes past a file only with its
marker set (`ProgressInv`).

`HalfwayTreesImport` has the two trees the repository keeps as its hypothesis (`pristine`,
`main_base`), because what imports what is their content. Where any file is patched all
three new ones are copied, and the runner is patched after the capability it names, unless a
rebase came between (`HalfInv`): the order of the writes is what makes a cut tree import.

### SwallowPaths

The cases are a parameter of the theorems: they hold of graphs, traps and interferences that
nobody has listed. The subgraph's two bodies are the study's, and its tasks return.
What a future says is said once and stays (`WritesInv`); a put has the failures of the puts
before it (`Ordered`), so that the last one has them all. `PlaceInv` says what the executor's exit has
seen to: a loop that is done has no open future, and none that failed if nothing leaves it.
`SubgraphInv` takes that up one level: a subgraph that did not end well is still inside a
task, or what leaves the run is an exception that nobody swallows. These give
`ReturnMeansAccepted` and `QuietAfterReturn`. `CauseInv` traces what leaves a loop to the graph,
to the outside, or to a failed future, and says which one that may be; with `Ordered` it gives
`DropsExplained`. `SyncInv` has the past super-steps' puts accepted, and what a loop is left by
carries the failures of its puts.

### Conformance and Verdicts

The enum is gone through once, so what is said of a capability is said after its own
clauses and no later clause is its (`EnumInv`, `ReportInv`, where injectivity is used); an
exception that is on its way is never taken back, so a run that returns has come by the end
of the loop (`PhaseInv`); a clause counts once, or twice where a callback raised after
it (`CountInv`). `ScriptInv` has a line per lane behind the script. `LinesAreEarned` needs
what a capability's clauses did (`WorkInv`: while nothing raised, no clause of a saver that has it
fails and none of one that has not passes), which suite and saver the lane runs (`LaneInv`), and
what the enums of the two trees are, computed once. The proof treats
`Verdicts`' composed specification, so that the theorems hold of both scripts and of
anybody's call of `validate`.

### OwnershipSuite

Up to what a third claim of a thread would show, keeping the contract and passing the fifteen
clauses are the same for every member of `Family`, which the
run checks completely with the references interrupted, and the theorems for any of them. The
proof shows why. A claim is never refused, so the place in a clause fixes who holds the
thread (`ClaimsInv`); an owner that is let write has stored exactly what the clause wrote
(`OwnersWrite`), whatever else the saver does, until a stale write is tried. `StaleWrites` says what
that one leaves: nothing with a saver that keeps the contract, its rows without the fence, and with
a silent saver the clause is over. `Found` is what the clause knows of the saver when it
comes to the read that judges it: the stale put is there or puts are dropped, the stale
row is there or writes are dropped, a saver that refuses once has let the second put through.
`Verdicts` keeps what each passed clause has shown, and together these are the
contract (`PassMeansContract`); which of the fifteen show something new can be read off it (4, 5, 8, 11,
12 and 14: what the other nine ask follows). `ContractPasses` and `SilenceIsNoEnforcement` are the
other direction: which operations such a saver accepts. An interrupt has left the runner or
failed a clause (`Interrupts`).

The proof found one fault of the model: the cases of `WriteEnds` overlapped (a write that is
not checked, by a saver that raises), where TLC takes the first and a proof can take either. The
code's order is now in the definition.

### Model-checked only

The four liveness properties (`LockReleased`, `RefusalReported`, `TakeoverCompletes`,
`ProofEnds`): fairness and ENABLED are out of the prover's reach. Every safety property that
a passing run checks is also proved. `AdmittedOnlyToLatest` is proved and in no run, because
`ImplementsGuardedWrites`, which a run checks, contains it.

## 4. Not modelled, and why

Logging, transcripts, the layout of reports, connection strings; the HTTP call
of `provider_check.py`; the statement logs and mutation transcripts (data); the
one-shot probes that print measurements; the clauses of the eight upstream
capabilities (sequential tests of one saver: they pass or fail in `Conformance`);
`setup_database` (runs once, alone, before any worker, as its docstring
demands); a second `install_fence` on a live thread and a saver used for
another thread than its own, which no program of the repository does; the
`sys.modules` and `sys.path` surgery of `verdict.py`.

## 5. Plan

1. Modules: all of those planned are written, and all have their safety properties proved.
2. Left: the liveness of the four fair specifications by proof, once the prover takes
   ENABLED; a second `install_fence` (it would revive the guard of fence 1) and a saver of two
   threads (its guard tests the one it was built for), should a program of the repository
   come to use either.
