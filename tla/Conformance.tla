----------------------------- MODULE Conformance -----------------------------
(***************************************************************************)
(* One validation run of the conformance suite: validate() of validate.py, *)
(* with the two context managers of initializer.py it nests, the runner    *)
(* loop of each capability, the progress callbacks and the report.         *)
(*                                                                         *)
(* What is awaited may raise: the lifespan, the factory, its teardown, a   *)
(* clause (by a cancellation, which is no Exception), a callback.          *)
(***************************************************************************)
EXTENDS SuiteTree, FiniteSets

CONSTANTS
    Suites,         \* suites, as SuiteTree makes them
    Registrations,  \* registered checkpointers: methods, what is skipped, what is broken
    Requests,       \* values of the argument capabilities
    Clauses,        \* clauses of each capability
    MaxFaults       \* bound on clauses that fail and calls that raise

\* The members of an enum come one after the other, and each of them once.
ASSUME ConformanceAssumption ==
    /\ \A s \in Suites : s.caps \in Seq(Range(s.caps)) /\ IsInjective(s.caps)
    /\ Clauses \in Nat \ {0} /\ MaxFaults \in Nat

VARIABLES
    suite, registered, requested,
    pc,        \* the await validate is at
    i,         \* its place in the enum
    lifespan,  \* "none", "open" or "closed"
    saver,     \* the same, of the capability's checkpointer
    counts,    \* the runner's passed and failed
    results,   \* the report
    shown,     \* capability announced and not ended, on the progress output
    raised,    \* what is on its way up: "none", "value", "lifespan", "factory", ...
    dirty,     \* history: capabilities with a clause that failed, or was not counted
    used,      \* history: capabilities a checkpointer was made for
    faults

vars == <<suite, registered, requested, pc, i, lifespan, saver, counts, results, shown, raised, dirty, used, faults>>

All == {"all"}  \* capabilities=None
Caps == Range(suite.caps)
Cap == suite.caps[i]

Zero == [run |-> 0, passed |-> 0, failed |-> 0]
Result(detected, passed, n) == [detected |-> detected, passed |-> passed, counts |-> n]

TypeOK ==
    /\ pc \in {"start", "enter", "loop", "detect", "run", "judge", "close", "leave", "done"}
    /\ i \in 1..(Len(suite.caps) + 1)
    /\ pc \in {"detect", "run", "judge", "close"} => saver = "open"
    /\ pc = "detect" => counts = Zero
    /\ counts.run \in 0..Clauses /\ counts.passed + counts.failed \in counts.run..(counts.run + faults)
    /\ DOMAIN results \subseteq Caps
    /\ raised \in {"none", "value", "lifespan", "factory", "clause", "callback", "teardown"}

Init ==
    /\ suite \in Suites /\ registered \in Registrations /\ requested \in Requests
    /\ pc = "start" /\ i = 1
    /\ lifespan = "none" /\ saver = "none"
    /\ counts = Zero
    /\ results = [c \in {} |-> Result(FALSE, "skipped", Zero)]
    /\ shown = "none" /\ raised = "none"
    /\ dirty = {} /\ used = {} /\ faults = 0

setup == <<suite, registered, requested>>

\* A call raises instead of returning.
Fault(what) == faults < MaxFaults /\ faults' = faults + 1 /\ raised' = what

-----------------------------------------------------------------------------
\* Capability(c) of an unknown name raises before anything is entered.
caps_to_test ==
    /\ pc = "start"
    /\ IF requested = All \/ requested \subseteq Caps
       THEN pc' = "enter" /\ UNCHANGED raised
       ELSE pc' = "done" /\ raised' = "value"
    /\ UNCHANGED <<setup, i, lifespan, saver, counts, results, shown, dirty, used, faults>>

enter_lifespan ==
    /\ pc = "enter"
    /\ \/ lifespan' = "open" /\ pc' = "loop" /\ UNCHANGED <<raised, faults>>
       \* The generator has ended: its second __anext__ stops at once.
       \/ Fault("lifespan") /\ lifespan' = "closed" /\ pc' = "done"
    /\ UNCHANGED <<setup, i, saver, counts, results, shown, dirty, used>>

Asked(c) == (requested = All \/ c \in requested) /\ c \notin registered.skip

Report(c, r) == results' = [x \in DOMAIN results \union {c} |-> IF x = c THEN r ELSE results[x]]

NotAsked ==
    /\ pc = "loop" /\ i <= Len(suite.caps) /\ ~Asked(Cap)
    /\ \/ Report(Cap, Result(FALSE, "skipped", Zero)) /\ i' = i + 1 /\ UNCHANGED <<pc, raised, faults>>
       \/ Fault("callback") /\ pc' = "leave" /\ UNCHANGED <<i, results>>
    /\ UNCHANGED <<setup, lifespan, saver, counts, shown, dirty, used>>

create ==
    /\ pc = "loop" /\ i <= Len(suite.caps) /\ Asked(Cap)
    /\ \/ saver' = "open" /\ used' = used \union {Cap} /\ pc' = "detect" /\ UNCHANGED <<raised, faults>>
       \/ Fault("factory") /\ pc' = "leave" /\ UNCHANGED <<saver, used>>
    /\ counts' = Zero
    /\ UNCHANGED <<setup, i, lifespan, results, shown, dirty>>

\* Methods of BaseCheckpointSaver, whose defaults raise NotImplementedError.
BaseMethods == Range(main_Capability)
Base(c) == IF c \in BaseMethods THEN "base" ELSE "none"
Impl(c) == IF c \in registered.methods THEN "own" ELSE Base(c)

_is_overridden(c) == IF Base(c) = "none" \/ Impl(c) = "none" THEN Impl(c) # "none" ELSE Impl(c) # Base(c)

from_instance == {c \in suite.methods : _is_overridden(c)}

\* Found missing, found without a runner, or announced and run.
Detect ==
    /\ pc = "detect"
    /\ \/ /\ Cap \notin from_instance
          /\ Report(Cap, Result(FALSE, "skipped", Zero)) /\ pc' = "close"
          /\ UNCHANGED <<shown, raised, faults>>
       \/ /\ Cap \in from_instance /\ Cap \notin suite.runners
          /\ Report(Cap, Result(TRUE, "skipped", Zero)) /\ pc' = "close"
          /\ UNCHANGED <<shown, raised, faults>>
       \/ /\ Cap \in from_instance /\ Cap \in suite.runners
          /\ shown' = Cap /\ pc' = "run"
          /\ UNCHANGED <<results, raised, faults>>
       \/ /\ Cap \notin from_instance \/ Cap \in suite.runners
          /\ Fault("callback") /\ pc' = "close"
          /\ UNCHANGED <<shown, results>>
    /\ UNCHANGED <<setup, i, lifespan, saver, counts, dirty, used>>

Works(c) == c \in registered.methods \ registered.broken

\* A clause passes, and its callback may raise: the exception is taken for the
\* clause's, which is then counted twice.  The clauses of a method that is not
\* there, or is broken, fail.
ClausePasses ==
    /\ pc = "run" /\ counts.run < Clauses /\ Works(Cap)
    /\ \/ counts' = [counts EXCEPT !.run = @ + 1, !.passed = @ + 1] /\ UNCHANGED <<dirty, faults>>
       \/ /\ faults < MaxFaults /\ faults' = faults + 1
          /\ counts' = [run |-> counts.run + 1, passed |-> counts.passed + 1, failed |-> counts.failed + 1]
          /\ dirty' = dirty \union {Cap}
    /\ UNCHANGED <<setup, pc, i, lifespan, saver, results, shown, raised, used>>

ClauseFails ==
    /\ pc = "run" /\ counts.run < Clauses
    /\ ~Works(Cap) \/ faults < MaxFaults
    /\ faults' = IF Works(Cap) THEN faults + 1 ELSE faults
    /\ counts' = [counts EXCEPT !.run = @ + 1, !.failed = @ + 1]
    /\ dirty' = dirty \union {Cap}
    /\ UNCHANGED <<setup, pc, i, lifespan, saver, results, shown, raised, used>>

\* A cancellation in a clause, or a callback that raises in the except branch.
RunnerRaises ==
    /\ pc = "run" /\ counts.run < Clauses
    /\ \E what \in {"clause", "callback"} : Fault(what)
    /\ pc' = "close" /\ dirty' = dirty \union {Cap}
    /\ UNCHANGED <<setup, i, lifespan, saver, counts, results, shown, used>>

RunnerReturns ==
    /\ pc = "run" /\ counts.run >= Clauses
    /\ \/ shown' = "none" /\ pc' = "judge" /\ UNCHANGED <<raised, faults>>
       \/ Fault("callback") /\ pc' = "close" /\ UNCHANGED shown
    /\ UNCHANGED <<setup, i, lifespan, saver, counts, results, dirty, used>>

Judge ==
    /\ pc = "judge"
    /\ Report(Cap, Result(TRUE, IF counts.failed = 0 THEN "passed" ELSE "failed", counts))
    /\ pc' = "close"
    /\ UNCHANGED <<setup, i, lifespan, saver, counts, shown, raised, dirty, used, faults>>

\* Mutant: an exception leaves the generator suspended.
create_finally_OnReturn ==
    /\ pc = "close"
    /\ saver' = IF raised = "none" THEN "closed" ELSE saver
    /\ IF raised = "none" THEN pc' = "loop" /\ i' = i + 1 ELSE pc' = "leave" /\ UNCHANGED i
    /\ UNCHANGED <<setup, lifespan, counts, results, shown, raised, dirty, used, faults>>

\* The generator is resumed whatever happened in between; its own exception takes
\* the place of the one on its way.
create_finally ==
    /\ pc = "close"
    /\ saver' = "closed"
    /\ \/ /\ IF raised = "none" THEN pc' = "loop" /\ i' = i + 1 ELSE pc' = "leave" /\ UNCHANGED i
          /\ UNCHANGED <<raised, faults>>
       \/ Fault("teardown") /\ pc' = "leave" /\ UNCHANGED i
    /\ UNCHANGED <<setup, lifespan, counts, results, shown, dirty, used>>

enter_lifespan_finally ==
    /\ pc = "leave" \/ (pc = "loop" /\ i > Len(suite.caps))
    /\ lifespan' = "closed" /\ pc' = "done"
    /\ \/ UNCHANGED <<raised, faults>>
       \/ Fault("teardown")
    /\ UNCHANGED <<setup, i, saver, counts, results, shown, dirty, used>>

Done == pc = "done" /\ UNCHANGED vars

Step ==
    \/ caps_to_test \/ enter_lifespan \/ NotAsked \/ create \/ Detect
    \/ ClausePasses \/ ClauseFails \/ RunnerRaises \/ RunnerReturns \/ Judge
    \/ create_finally \/ enter_lifespan_finally

Next == Step \/ Done

Spec == Init /\ [][Next]_vars

-----------------------------------------------------------------------------
(* The report's operations.                                                 *)

Returned == pc = "done" /\ raised = "none"

Passed(c) == c \in DOMAIN results /\ results[c].passed = "passed"

passed_all_base == \A c \in BASE_CAPABILITIES : Passed(c)

\* Mutant: only a failure counts against a saver.
passed_all_NoFailure == \A c \in DOMAIN results : results[c].detected => results[c].passed # "failed"
passed_all == \A c \in DOMAIN results : results[c].detected => Passed(c)

conformance_level ==
    IF passed_all THEN "FULL"
    ELSE IF passed_all_base THEN "BASE+PARTIAL"
    ELSE IF \E c \in BASE_CAPABILITIES : Passed(c) THEN "BASE" ELSE "NONE"

\* The numbers print_report gives beside the level.
tally ==
    LET detected == {c \in DOMAIN results : results[c].detected}
    IN  [total |-> Cardinality(detected), passed |-> Cardinality({c \in detected : Passed(c)})]

-----------------------------------------------------------------------------
\* A checkpointer lives within the lifespan: it is made after the database is and
\* is gone before it is dropped, and there is never a second one.
SaversInsideLifespan ==
    /\ saver = "open" => lifespan = "open"
    /\ pc \in {"loop", "leave"} => saver # "open"

\* However the run ends, by a return or by an exception from any of the five
\* places, nothing it opened stays open.
NothingLeftOpen == pc = "done" => saver # "open" /\ lifespan # "open"

\* On the output a capability that was announced is ended before the next is, and
\* before the report.
ProgressIsClosed == (pc = "loop" \/ Returned) => shown = "none"

\* A report that is returned has an entry for every capability, and "passed" only
\* where a checkpointer of its own was made and no clause failed, nor a callback
\* in the runner.  Nothing is detected that the saver does not define, and FULL is
\* earned: what the saver defines and was asked for has passed, in a tree that was
\* patched half-way too.
ReportIsTruthful ==
    Returned =>
        /\ DOMAIN results = Caps
        /\ \A c \in Caps :
             /\ Passed(c) => c \in used /\ c \notin dirty /\ results[c].counts = [run |-> Clauses, passed |-> Clauses, failed |-> 0]
             /\ results[c].detected => c \in registered.methods
        /\ conformance_level = "FULL" =>
             /\ \A c \in Caps \intersect suite.methods \intersect registered.methods : Asked(c) => Passed(c)
             /\ tally.passed = tally.total
=============================================================================
