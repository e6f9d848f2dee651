---------------------------- MODULE SwallowPaths ----------------------------
(***************************************************************************)
(* What becomes of an exception that a saver raises from a write: the      *)
(* study of spike/q3_verify1_swallow_paths.py.  A graph run (a "loop")     *)
(* hands its saver writes to a background executor as futures; the futures *)
(* are looked at when the executor is left, or not at all.  A fence that   *)
(* refuses by raising is only as good as that path.                        *)
(*                                                                         *)
(* The runtime is a library.  Its steps are taken from the enumeration S0  *)
(* of the script and from the call sequences its cases record.             *)
(***************************************************************************)
EXTENDS Integers, Sequences, SequencesExt

CONSTANTS
    Cases       \* the set of cases (records, see Case) a run may be of

VARIABLES
    case,       \* the case at hand: graph, trap, durability, interference
    pc,         \* per loop: idle, run, await, leaving, exit, done
    step,       \* per loop: index of the super-step (1 is the START task)
    running,    \* per loop: the tasks of the super-step that are not through
    futs,       \* per loop: the saver writes submitted so far, in order
    kept,       \* per loop: writes of the super-step not submitted (exit mode)
    exc,        \* per loop: the chain of the exception that propagates, or <<>>
    ranLate     \* history: a node ran although an earlier put was refused

vars == <<case, pc, step, running, futs, kept, exc, ranLate>>

Outer == "outer"
Inner == "inner"
Loops == {Outer, Inner}

-----------------------------------------------------------------------------
(* Graphs: a sequence of super-steps, each a set of tasks.                  *)

T(name, does) == [name |-> name, does |-> does]
Ok(names) == {T(n, "ok") : n \in names}
Task == [name : STRING, does : {"ok", "boom", "interrupt", "keyboard", "drain", "handled", "sub"}]
START == Ok({"start"})

Linear == <<START, Ok({"n1"}), Ok({"n2"}), Ok({"n3"})>>
Race(does) == <<START, Ok({"n1"}), Ok({"good"}) \union {T("bad", does)}, Ok({"join"})>>
Fanout == <<START, Ok({"n1"}), Ok({"good", "other"}), Ok({"join"})>>
Drain == <<START, {T("n1", "drain")}, Ok({"n2"})>>
Handled == <<START, {T("failing", "handled")}, Ok({"after"})>>
Subgraph == <<START, Ok({"o1"}), {T("sub", "sub")}, Ok({"o2"})>>
SubgraphRace == <<START, Ok({"o1"}), {T("sub", "sub"), T("bad", "boom")}, Ok({"join"})>>

SubgraphBody == IF case.graph = SubgraphRace THEN <<START, Ok({"i1"})>>
                ELSE <<START, Ok({"i1"}), Ok({"i2"})>>

Graph(l) == IF l = Inner THEN SubgraphBody ELSE case.graph

\* What may run in a super-step: its tasks, and the handler of one that failed.
Handler == T("handler", "handler")
Tasks(l) == Graph(l)[step[l]] \union {Handler : t \in {u \in Graph(l)[step[l]] : u.does = "handled"}}

-----------------------------------------------------------------------------
(* Cases.  A trap refuses the calls of one method that its predicate picks: *)
(* puts by their step, put_writes by their task, in the loops it looks at.  *)

Trap(method, picks, loops) == [method |-> method, picks |-> picks, loops |-> loops]
always == [tasks |-> {"start", "n1", "n2", "n3", "good", "bad", "join", "i1", "i2", "error"}, from |-> -1]
writes_of(names) == [tasks |-> names, from |-> 99]
reject_error_write == writes_of({"error"})
put_from_step(k) == [tasks |-> {}, from |-> k]

AnyLoop == {Outer}
ns_nonempty == {Inner}

Case(graph, runtime, durability, trap, env) ==
    [graph |-> graph, runtime |-> runtime, durability |-> durability, trap |-> trap,
     raises |-> "stale", once |-> FALSE, env |-> env]

Runtimes == {"sync", "async"}
MidRun == {"sync", "async"}         \* durabilities that write while the run goes on
Durabilities == MidRun \union {"exit"}

GoodWrite == Trap("put_writes", writes_of({"good"}), AnyLoop)
N1Write == Trap("put_writes", writes_of({"n1"}), AnyLoop)
AnyPut == Trap("put", always, AnyLoop)

S1 == {Case(Race("boom"), r, d, t, "none") : r \in Runtimes, d \in Durabilities, t \in {GoodWrite, AnyPut}}
S1b == {Case(Race("interrupt"), "sync", d, GoodWrite, "none") : d \in MidRun}
S2 == {Case(Race("boom"), "sync", "exit", AnyPut, "none")}
S3 == {[Case(Fanout, r, d, Trap("put_writes", writes_of({"good", "other"}), AnyLoop), "none")
            EXCEPT !.raises = o] : r \in Runtimes, d \in MidRun, o \in {"stale1st", "stale2nd"}}
S4 == {[Case(Linear, "sync", d, N1Write, "none") EXCEPT !.once = TRUE] : d \in MidRun}
        \union {[Case(Linear, "sync", "sync", AnyPut, "none") EXCEPT !.once = TRUE, !.raises = "sibling"]}
S5 == {Case(Race("keyboard"), "sync", d, GoodWrite, "none") : d \in MidRun}
        \union {Case(Linear, "async", d, N1Write, "cancel") : d \in MidRun}
        \union {Case(Drain, "sync", d, N1Write, "none") : d \in MidRun}
S6 == {Case(Linear, r, d, N1Write, "abandon") : r \in Runtimes, d \in MidRun}
S7 == {Case(Handled, "sync", d, Trap("put_writes", reject_error_write, AnyLoop), "none") : d \in MidRun}
S8 == {Case(Subgraph, "sync", d, Trap(m, always, ns_nonempty), "none") :
            d \in Durabilities, m \in {"put_writes", "put"}}
S8b == {Case(SubgraphRace, "sync", d, Trap("put_writes", always, ns_nonempty), "none") : d \in MidRun}
S10 == {Case(Linear, "async", d, N1Write, "cancel") : d \in MidRun}
S11 == {Case(Linear, "sync", d, N1Write, "sigint") : d \in MidRun}
S12 == {Case(Race("boom"), "sync", d, Trap("put", put_from_step(1), AnyLoop), "none") : d \in MidRun}
S13 == {Case(Linear, "sync", "sync", Trap("put", put_from_step(1), AnyLoop), "abandon"),
        Case(Linear, "sync", "sync", Trap("put", put_from_step(2), AnyLoop), "sigint")}
\* RefusingSaver of q_conformance.py: from its second put on.
run_raising == {Case(SubSeq(Linear, 1, 3), "async", "async", Trap("put", put_from_step(0), AnyLoop), "none")}

\* Any graph will do, if it begins with the START task.
ASSUME CasesAssumption ==
    \A c \in Cases :
        /\ c.graph \in Seq(SUBSET Task) /\ c.graph # <<>> /\ c.graph[1] = START
        /\ c.runtime \in Runtimes /\ c.durability \in Durabilities
        /\ c.trap.loops \subseteq Loops /\ c.once \in BOOLEAN
        /\ c.raises \in {"stale", "sibling", "stale1st", "stale2nd"}
        /\ c.env \in {"none", "sigint", "cancel", "abandon"}

-----------------------------------------------------------------------------
Exceptions == {"StaleOwner", "SiblingBoom", "NodeBoom", "KeyboardInterrupt",
               "CancelledError", "GeneratorExit", "GraphInterrupt", "GraphDrained"}

Put(k) == [method |-> "put", step |-> k, task |-> "", through |-> FALSE,
           refused |-> FALSE, chain |-> <<>>]
PutWrites(n) == [method |-> "put_writes", step |-> 0, task |-> n, through |-> FALSE,
                 refused |-> FALSE, chain |-> <<>>]

TypeOK ==
    /\ case \in Cases
    /\ pc \in [Loops -> {"idle", "run", "await", "leaving", "exit", "done"}]
    /\ \A l \in Loops :
        /\ step[l] \in 1..Len(Graph(l))
        /\ running[l] \subseteq Tasks(l)
        /\ exc[l] \in Seq(Exceptions)
        /\ kept[l] # <<>> => case.durability = "exit"
    /\ ranLate \in BOOLEAN

\* Under durability "exit" a write waits in the super-step's buffer; it is
\* handed to the executor otherwise.
submit(l, w) ==
    IF case.durability = "exit"
    THEN kept' = [kept EXCEPT ![l] = Append(@, w)] /\ UNCHANGED futs
    ELSE futs' = [futs EXCEPT ![l] = Append(@, w)] /\ UNCHANGED kept

Puts(l) == {i \in DOMAIN futs[l] : futs[l][i].method = "put"}
Failed(l) == {i \in DOMAIN futs[l] : futs[l][i].through /\ futs[l][i].chain # <<>>}
ErrorWrites(l) == {i \in DOMAIN futs[l] : futs[l][i].task = "error"}
FirstOf(S) == CHOOSE i \in S : \A j \in S : i <= j
LastOf(S) == CHOOSE i \in S : \A j \in S : j <= i

\* has_stale: the refusal can be recovered from the exception.
has_stale(chain) == "StaleOwner" \in Range(chain)

Rejected == UNION {{l} \X {i \in DOMAIN futs[l] : futs[l][i].refused} : l \in Loops}

Init ==
    /\ case \in Cases
    /\ pc = [l \in Loops |-> IF l = Outer THEN "run" ELSE "idle"]
    /\ step = [l \in Loops |-> 1]
    /\ running = [l \in Loops |-> START]
    /\ futs = [l \in Loops |-> IF l = Outer /\ case.durability # "exit" THEN <<Put(-1)>> ELSE <<>>]
    /\ kept = [l \in Loops |-> <<>>]
    /\ exc = [l \in Loops |-> <<>>]
    /\ ranLate = FALSE

-----------------------------------------------------------------------------
(* The saver.  A put waits for the put before it and runs whatever became   *)
(* of that one; its exception has the earlier one as its context, and when  *)
(* it does not raise itself, the earlier one goes through.                  *)

Refuses(l, w) ==
    /\ w.method = case.trap.method
    /\ l \in case.trap.loops
    /\ w.task \in case.trap.picks.tasks \/ (w.method = "put" /\ w.step >= case.trap.picks.from)
    /\ case.once => Rejected = {}

ExcFactory ==
    CASE case.raises = "stale"    -> "StaleOwner"
      [] case.raises = "sibling"  -> "SiblingBoom"
      [] case.raises = "stale1st" -> IF Rejected = {} THEN "StaleOwner" ELSE "SiblingBoom"
      [] case.raises = "stale2nd" -> IF Rejected = {} THEN "SiblingBoom" ELSE "StaleOwner"

Resolve(l, i) ==
    LET w    == futs[l][i]
        prev == {j \in Puts(l) : w.method = "put" /\ j < i}
        ctx  == IF prev = {} THEN <<>> ELSE futs[l][LastOf(prev)].chain
        own  == IF Refuses(l, w) THEN <<ExcFactory>> ELSE <<>>
    IN  /\ ~w.through
        /\ \A j \in prev : futs[l][j].through
        /\ futs' = [futs EXCEPT ![l][i] = [w EXCEPT !.through = TRUE, !.refused = own # <<>>,
                                                    !.chain = own \o ctx]]
        /\ UNCHANGED <<case, pc, step, running, kept, exc, ranLate>>

-----------------------------------------------------------------------------
(* The loop.                                                                *)

NoteRun(l, t) ==
    ranLate' = (ranLate \/ (t.name # "start" /\ \E i \in Puts(l) : futs[l][i].refused))

\* A task returns: its output is a put_writes, submitted and not awaited.
Commit(l, t) ==
    /\ pc[l] = "run"
    /\ t \in running[l]
    /\ \/ t.does \in {"ok", "drain"}
       \/ t.does = "sub" /\ pc[Inner] = "done" /\ exc[Inner] = <<>>
       \/ t.does = "handler" /\ \A i \in ErrorWrites(l) :
                                    futs[l][i].through /\ (case.runtime = "async" => i \notin Failed(l))
    /\ running' = [running EXCEPT ![l] = @ \ {t}]
    /\ submit(l, PutWrites(t.name))
    /\ NoteRun(l, t)
    /\ UNCHANGED <<case, pc, step, exc>>

Raises(l, t) ==
    CASE t.does = "boom"      -> <<"NodeBoom">>
      [] t.does = "keyboard"  -> <<"KeyboardInterrupt">>
      [] t.does = "interrupt" -> IF running[l] = {t} THEN <<"GraphInterrupt">> ELSE <<>>
      [] t.does = "sub"       -> IF pc[Inner] = "done" THEN exc[Inner] ELSE <<>>
      [] OTHER                -> <<>>

\* A task raises: the error (or the interrupt) is written as well, and the
\* exception leaves the loop.  An interrupt waits for its siblings.
Fail(l, t) ==
    /\ pc[l] = "run"
    /\ t \in running[l]
    /\ Raises(l, t) # <<>>
    /\ exc' = [exc EXCEPT ![l] = Raises(l, t)]
    /\ submit(l, PutWrites("error"))
    /\ pc' = [pc EXCEPT ![l] = "leaving"]
    /\ NoteRun(l, t)
    /\ UNCHANGED <<case, step, running>>

\* schedule_error_handler: the error's write is submitted and waited for.
HandleError(l, t) ==
    /\ pc[l] = "run"
    /\ t \in running[l]
    /\ t.does = "handled"
    /\ running' = [running EXCEPT ![l] = (@ \ {t}) \union {Handler}]
    /\ submit(l, PutWrites("error"))
    /\ NoteRun(l, t)
    /\ UNCHANGED <<case, pc, step, exc>>

\* ... which on the async runtime (gather) raises what the write raised.
HandlerWaitRaises(l, t) ==
    /\ case.runtime = "async"
    /\ pc[l] = "run"
    /\ t \in running[l]
    /\ t.does = "handler"
    /\ \E i \in ErrorWrites(l) \cap Failed(l) : exc' = [exc EXCEPT ![l] = futs[l][i].chain]
    /\ pc' = [pc EXCEPT ![l] = "leaving"]
    /\ UNCHANGED <<case, step, running, futs, kept, ranLate>>

\* A subgraph is a loop of its own, inside a task of the outer one.
EnterSubgraph ==
    /\ pc[Outer] = "run"
    /\ pc[Inner] = "idle"
    /\ \E t \in running[Outer] : t.does = "sub"
    /\ pc' = [pc EXCEPT ![Inner] = "run"]
    /\ futs' = [futs EXCEPT ![Inner] = IF case.durability = "exit" THEN <<>> ELSE <<Put(-1)>>]
    /\ UNCHANGED <<case, step, running, kept, exc, ranLate>>

Drained(l) == \E t \in Graph(l)[step[l]] : t.does = "drain"
LastStep(l) == step[l] = Len(Graph(l)) \/ Drained(l)

NextStep(l) ==
    IF LastStep(l)
    THEN pc' = [pc EXCEPT ![l] = "leaving"] /\ UNCHANGED <<step, running>>
    ELSE /\ pc' = [pc EXCEPT ![l] = "run"]
         /\ step' = [step EXCEPT ![l] = @ + 1]
         /\ running' = [running EXCEPT ![l] = Graph(l)[step[l] + 1]]

\* after_tick: the super-step's checkpoint is put.  Only durability "sync"
\* waits for it.
AfterTick(l) ==
    /\ pc[l] = "run"
    /\ running[l] = {}
    /\ IF case.durability = "sync"
       THEN pc' = [pc EXCEPT ![l] = "await"] /\ UNCHANGED <<step, running>>
       ELSE NextStep(l)
    /\ IF case.durability = "exit"
       THEN kept' = [kept EXCEPT ![l] = <<>>] /\ UNCHANGED futs
       ELSE futs' = [futs EXCEPT ![l] = Append(@, Put(step[l] - 1))] /\ UNCHANGED kept
    /\ UNCHANGED <<case, exc, ranLate>>

\* Mutant: the put is waited for, its exception is not raised.
AwaitPut_Waits(l) ==
    /\ pc[l] = "await"
    /\ futs[l][LastOf(Puts(l))].through
    /\ NextStep(l)
    /\ UNCHANGED <<case, exc, futs, kept, ranLate>>

AwaitPut(l) ==
    LET w == futs[l][LastOf(Puts(l))]
    IN  /\ pc[l] = "await"
        /\ w.through
        /\ IF w.chain = <<>>
           THEN NextStep(l) /\ UNCHANGED exc
           ELSE /\ exc' = [exc EXCEPT ![l] = w.chain]
                /\ pc' = [pc EXCEPT ![l] = "leaving"]
                /\ UNCHANGED <<step, running>>
        /\ UNCHANGED <<case, futs, kept, ranLate>>

\* An exception from outside: Ctrl-C in the main thread, a cancelled task, or
\* a caller that drops the generator, at the yield before a super-step, when
\* it has been given a chunk.
Interfere ==
    /\ case.env # "none"
    /\ pc[Outer] \in {"run", "await"}
    /\ case.env = "abandon" => pc[Outer] = "run" /\ step[Outer] > 2 /\ running[Outer] = Graph(Outer)[step[Outer]]
    /\ exc' = [exc EXCEPT ![Outer] = CASE case.env = "sigint" -> <<"KeyboardInterrupt">>
                                       [] case.env = "cancel" -> <<"CancelledError">>
                                       [] case.env = "abandon" -> <<"GeneratorExit">>]
    /\ pc' = [pc EXCEPT ![Outer] = "leaving"]
    /\ UNCHANGED <<case, step, running, futs, kept, ranLate>>

\* _suppress_interrupt, the inner exit: under durability "exit" the outermost
\* loop writes now, whatever propagates; a top-level interrupt is swallowed.
Suppress(l) ==
    /\ pc[l] = "leaving"
    /\ futs' = IF case.durability = "exit" /\ l = Outer
               THEN [futs EXCEPT ![l] = <<Put(step[l] - (IF exc[l] = <<>> THEN 1 ELSE 2))>> \o kept[l]]
               ELSE futs
    /\ exc' = [exc EXCEPT ![l] = IF @ = <<"GraphInterrupt">> /\ l = Outer THEN <<>> ELSE @]
    /\ pc' = [pc EXCEPT ![l] = "exit"]
    /\ UNCHANGED <<case, step, running, kept, ranLate>>

\* Mutants: only puts are looked at; the last failure wins; tasks still running
\* are not waited for.
LeaveExecutor(l, chain) ==
    /\ pc[l] = "exit"
    /\ \A i \in DOMAIN futs[l] : futs[l][i].through
    /\ exc' = [exc EXCEPT ![l] = IF @ = <<>> THEN chain ELSE @]
    /\ pc' = [pc EXCEPT ![l] = "done"]
    /\ UNCHANGED <<case, step, running, futs, kept, ranLate>>

ExecutorExit_PutsOnly(l) ==
    /\ l = Outer => pc[Inner] \in {"idle", "done"}
    /\ LeaveExecutor(l, IF Failed(l) \cap Puts(l) = {} THEN <<>>
                        ELSE futs[l][FirstOf(Failed(l) \cap Puts(l))].chain)

ExecutorExit_LastWins(l) ==
    /\ l = Outer => pc[Inner] \in {"idle", "done"}
    /\ LeaveExecutor(l, IF Failed(l) = {} THEN <<>> ELSE futs[l][LastOf(Failed(l))].chain)

ExecutorExit_NoWait(l) ==
    LeaveExecutor(l, IF Failed(l) = {} THEN <<>> ELSE futs[l][FirstOf(Failed(l))].chain)

\* The executor's exit: it waits for all its futures, and looks at them only
\* when nothing propagates; then the first one that failed, in the order of
\* submission, is raised.  GraphDrained is raised after that.
ExecutorExit(l) ==
    /\ pc[l] = "exit"
    /\ \A i \in DOMAIN futs[l] : futs[l][i].through
    /\ l = Outer => pc[Inner] \in {"idle", "done"}
    /\ exc' = [exc EXCEPT ![l] =
                  IF @ # <<>> THEN @
                  ELSE IF Failed(l) # {} THEN futs[l][FirstOf(Failed(l))].chain
                  ELSE IF Drained(l) THEN <<"GraphDrained">> ELSE <<>>]
    /\ pc' = [pc EXCEPT ![l] = "done"]
    /\ UNCHANGED <<case, step, running, futs, kept, ranLate>>

Over == pc[Outer] = "done"

Done == Over /\ UNCHANGED vars

LoopStep(l) ==
    \/ \E t \in running[l] : Commit(l, t) \/ Fail(l, t) \/ HandleError(l, t) \/ HandlerWaitRaises(l, t)
    \/ AfterTick(l)
    \/ AwaitPut(l)
    \/ Suppress(l)
    \/ ExecutorExit(l)

Next ==
    \/ \E l \in Loops : \E i \in DOMAIN futs[l] : Resolve(l, i)
    \/ \E l \in Loops : LoopStep(l)
    \/ EnterSubgraph
    \/ Interfere
    \/ Done

Spec == Init /\ [][Next]_vars

-----------------------------------------------------------------------------
\* classify: what the caller can tell of a refusal.  An abandoned generator
\* raises nothing.
Caller == IF exc[Outer] = <<"GeneratorExit">> THEN <<>> ELSE exc[Outer]

Stale == {r \in Rejected : Head(futs[r[1]][r[2]].chain) = "StaleOwner"}

Verdict ==
    IF Rejected = {} THEN "FENCE-NEVER-CONSULTED"
    ELSE IF has_stale(Caller) THEN "SURFACED"
    ELSE IF Stale = {} THEN "NO-RETRY" ELSE "DROPPED-SILENT"

-----------------------------------------------------------------------------
\* Types, and: a run that returns normally to a caller who waited for it had no write
\* refused, on any durability, runtime or level of nesting.
ReturnMeansAccepted ==
    Over /\ exc[Outer] = <<>> => Rejected = {}

Inv == TypeOK /\ ReturnMeansAccepted

\* A refusal gets lost in three ways only: another exception was leaving the run
\* when the executor was left (drop sites 1, 2 and 5); an unrelated failure of an
\* earlier submitted write is raised in its place; or the async error handler
\* raises what its own write raised.  A pause and a drain lose nothing.
DropsExplained ==
    Over /\ Verdict = "DROPPED-SILENT" =>
        \/ Head(exc[Outer]) \in {"NodeBoom", "KeyboardInterrupt", "CancelledError", "GeneratorExit"}
        \/ \E l \in Loops : \E i \in Failed(l) :
                /\ exc[Outer] = futs[l][i].chain
                /\ \/ ~\E j \in Failed(l) : j < i /\ has_stale(futs[l][j].chain)
                   \/ case.runtime = "async" /\ i \in ErrorWrites(l)

\* Under durability "sync" a put is waited for before the next super-step: no
\* node of a loop runs once a put of that loop was refused, and (without an
\* exception from outside) the refusal reaches the caller.
SyncPutStopsTheRun ==
    case.durability = "sync" =>
        /\ ~ranLate
        /\ Over /\ case.env = "none" /\ case.trap.method = "put" /\ case.trap.loops = AnyLoop
             => Verdict # "DROPPED-SILENT"

\* Once the run has returned, no saver write is made for it: the executor's
\* exit waits for the nested loops' writes as well as for its own.
QuietAfterReturn == [][Over => UNCHANGED futs]_vars

=============================================================================
