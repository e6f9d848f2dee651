---------------------------- MODULE Verdicts_proof ----------------------------
(***************************************************************************)
(* Proofs about Conformance and the scripts of Verdicts: for any suite,    *)
(* saver and request, any number of clauses in a capability, and wherever  *)
(* a run raises.                                                           *)
(*                                                                         *)
(* The argument: the enum is gone through once, so what is said of a       *)
(* capability is said after its clauses have run and no later clause is    *)
(* its own; an exception that is on its way is never taken back, so a run  *)
(* that returns has come by the end of the loop.                           *)
(***************************************************************************)
EXTENDS Verdicts, SequenceTheorems, TLAPS

-----------------------------------------------------------------------------
(* The inductive invariant of one validation run.                           *)

Num == Len(suite.caps)
Full == [run |-> Clauses, passed |-> Clauses, failed |-> 0]
Holding == {"detect", "run", "judge", "close"}  \* the generator of the capability is suspended
Unwinding == {"close", "leave", "done"}

SuiteInv ==
    /\ suite.caps \in Seq(Caps) /\ Num \in Nat
    /\ \A j, k \in 1..Num : suite.caps[j] = suite.caps[k] => j = k

\* Where the run is, what is open there, and whether an exception is on its way.
PhaseInv ==
    /\ pc \in {"start", "enter", "loop", "detect", "run", "judge", "close", "leave", "done"}
    /\ raised \in {"none", "value", "lifespan", "factory", "clause", "callback", "teardown"}
    /\ i \in 1..(Num + 1)
    /\ raised # "none" => pc \in Unwinding
    /\ pc = "leave" => raised # "none"
    /\ pc = "done" /\ raised = "none" => i = Num + 1
    /\ pc \in Holding => i <= Num

OpenInv ==
    /\ saver = "open" => pc \in Holding
    /\ pc \in {"detect", "run", "judge", "close"} => saver = "open"
    /\ lifespan = "open" => pc \in Holding \union {"loop", "leave"}
    /\ pc \in Holding \union {"loop", "leave"} => lifespan = "open"
    /\ shown # "none" => pc = "run" \/ raised # "none"

\* A clause counts once, or twice where a callback raised.
CountInv ==
    /\ counts \in [run : Nat, passed : Nat, failed : Nat] /\ faults \in Nat
    /\ counts.run <= Clauses /\ counts.passed <= counts.run
    /\ counts.run <= counts.passed + counts.failed
    /\ counts.passed + counts.failed <= counts.run + faults
    /\ pc = "detect" => counts = Zero
    /\ pc = "judge" => counts.run = Clauses
    /\ pc \in {"run", "judge"} /\ Cap \in dirty => counts.failed > 0

\* The capabilities gone past, and the one at hand when it has been dealt with.
Past(k) == k < i \/ (k = i /\ pc \in Unwinding)

EnumInv ==
    /\ \A c \in DOMAIN results : \E k \in 1..Num : suite.caps[k] = c /\ Past(k)
    /\ \A c \in dirty : \E k \in 1..Num : suite.caps[k] = c /\ (Past(k) \/ (k = i /\ pc \in {"run", "judge"}))
    /\ \A k \in 1..Num : k < i \/ (k = i /\ pc = "close" /\ raised = "none") => suite.caps[k] \in DOMAIN results

\* What the report says of a capability.
EntryInv(c) ==
    /\ Passed(c) => c \in used /\ c \notin dirty /\ results[c].counts = Full
    /\ results[c].detected => c \in registered.methods
    /\ Asked(c) /\ c \in from_instance => results[c].detected

ReportInv ==
    /\ \A c \in DOMAIN results : EntryInv(c)
    /\ pc \in {"detect", "run", "judge"} => Cap \in used /\ Asked(Cap)
    /\ pc \in {"run", "judge"} => Cap \in from_instance

RunInv == SuiteInv /\ PhaseInv /\ OpenInv /\ CountInv /\ EnumInv /\ ReportInv

\* The script: a lane that is behind it has its line.
ScriptInv ==
    /\ script \in {"verdict", "q_conformance", "validate"}
    /\ lane \in 1..(Len(Lanes) + 1)
    /\ verdicts \in Seq({"FULL", "BASE+PARTIAL", "BASE", "NONE", "NOT DETECTED", "PASS", "FAIL", "SKIPPED", "BLEW UP"})
    /\ Len(verdicts) <= lane - 1
    /\ fence \in {"original", "removed"} /\ left \in BOOLEAN
    /\ fence = "removed" => lane = FenceRemoved
    /\ left => Ended
    /\ ~left => Len(verdicts) = lane - 1 \/ (script = "verdict" /\ Ended /\ Len(verdicts) = 5)

IInv == RunInv /\ ScriptInv

-----------------------------------------------------------------------------
(* One validation run.                                                      *)

LEMMA SuitesAreEnums ==
    ASSUME suite \in Suites
    PROVE  SuiteInv
<1>1. suite.caps \in Seq(Range(suite.caps)) /\ IsInjective(suite.caps)
    BY ConformanceAssumption
<1>2. Num \in Nat /\ DOMAIN suite.caps = 1..Num
    BY <1>1, LenProperties DEF Num
<1> QED
    BY <1>1, <1>2 DEF SuiteInv, Caps, IsInjective

LEMMA SuiteStays == ASSUME SuiteInv, suite' = suite PROVE SuiteInv'
    BY DEF SuiteInv, Num, Caps, Range

LEMMA StepKeepsTheSuite == ASSUME Step PROVE UNCHANGED <<suite, registered, requested>>
<1>1. CASE caps_to_test
    BY <1>1 DEF caps_to_test, setup
<1>2. CASE enter_lifespan
    BY <1>2 DEF enter_lifespan, setup
<1>3. CASE NotAsked
    BY <1>3 DEF NotAsked, setup
<1>4. CASE create
    BY <1>4 DEF create, setup
<1>5. CASE Detect
    BY <1>5 DEF Detect, setup
<1>6. CASE ClausePasses
    BY <1>6 DEF ClausePasses, setup
<1>7. CASE ClauseFails
    BY <1>7 DEF ClauseFails, setup
<1>8. CASE RunnerRaises
    BY <1>8 DEF RunnerRaises, setup
<1>9. CASE RunnerReturns
    BY <1>9 DEF RunnerReturns, setup
<1>10. CASE Judge
    BY <1>10 DEF Judge, setup
<1>11. CASE create_finally
    BY <1>11 DEF create_finally, setup
<1>12. CASE enter_lifespan_finally
    BY <1>12 DEF enter_lifespan_finally, setup
<1> QED
    BY <1>1, <1>2, <1>3, <1>4, <1>5, <1>6, <1>7, <1>8, <1>9, <1>10, <1>11, <1>12 DEF Step

LEMMA StepKeepsPhase == ASSUME SuiteInv, PhaseInv, Step PROVE PhaseInv'
<1>0. /\ suite' = suite /\ Num' = Num /\ Num \in Nat
    BY StepKeepsTheSuite DEF SuiteInv, Num
<1>1. CASE caps_to_test
    BY <1>1, <1>0 DEF caps_to_test, PhaseInv, Fault, Holding, Unwinding, Num
<1>2. CASE enter_lifespan
    BY <1>2, <1>0 DEF enter_lifespan, PhaseInv, Fault, Holding, Unwinding, Num
<1>3. CASE NotAsked
    <2>1. /\ pc = "loop" /\ i <= Num /\ i \in 1..(Num + 1) /\ raised = "none"
          /\ \/ i' = i + 1 /\ pc' = pc /\ raised' = raised
             \/ raised' = "callback" /\ pc' = "leave" /\ i' = i
        BY <1>3 DEF NotAsked, PhaseInv, Fault, Unwinding, Num
    <2>2. i' \in 1..(Num + 1)
        BY <2>1, <1>0
    <2> QED BY <2>1, <2>2, <1>0 DEF PhaseInv, Holding, Unwinding
<1>4. CASE create
    BY <1>4, <1>0 DEF create, PhaseInv, Fault, Holding, Unwinding, Num
<1>5. CASE Detect
    BY <1>5, <1>0 DEF Detect, PhaseInv, Fault, Holding, Unwinding, Num
<1>6. CASE ClausePasses
    BY <1>6, <1>0 DEF ClausePasses, PhaseInv, Fault, Holding, Unwinding, Num
<1>7. CASE ClauseFails
    BY <1>7, <1>0 DEF ClauseFails, PhaseInv, Fault, Holding, Unwinding, Num
<1>8. CASE RunnerRaises
    BY <1>8, <1>0 DEF RunnerRaises, PhaseInv, Fault, Holding, Unwinding, Num
<1>9. CASE RunnerReturns
    BY <1>9, <1>0 DEF RunnerReturns, PhaseInv, Fault, Holding, Unwinding, Num
<1>10. CASE Judge
    BY <1>10, <1>0 DEF Judge, PhaseInv, Fault, Holding, Unwinding, Num
<1>11. CASE create_finally
    BY <1>11, <1>0 DEF create_finally, PhaseInv, Fault, Holding, Unwinding, Num
<1>12. CASE enter_lifespan_finally
    BY <1>12, <1>0 DEF enter_lifespan_finally, PhaseInv, Fault, Holding, Unwinding, Num
<1> QED
    BY <1>1, <1>2, <1>3, <1>4, <1>5, <1>6, <1>7, <1>8, <1>9, <1>10, <1>11, <1>12 DEF Step

LEMMA StepKeepsOpen == ASSUME SuiteInv, PhaseInv, OpenInv, Step PROVE OpenInv'
<1>0. Num \in Nat
    BY DEF SuiteInv
<1>1. CASE caps_to_test
    BY <1>1, <1>0 DEF caps_to_test, PhaseInv, OpenInv, Fault, Holding, Unwinding, Num
<1>2. CASE enter_lifespan
    BY <1>2, <1>0 DEF enter_lifespan, PhaseInv, OpenInv, Fault, Holding, Unwinding, Num
<1>3. CASE NotAsked
    BY <1>3, <1>0 DEF NotAsked, PhaseInv, OpenInv, Fault, Holding, Unwinding, Num
<1>4. CASE create
    BY <1>4, <1>0 DEF create, PhaseInv, OpenInv, Fault, Holding, Unwinding, Num
<1>5. CASE Detect
    BY <1>5, <1>0 DEF Detect, PhaseInv, OpenInv, Fault, Holding, Unwinding, Num
<1>6. CASE ClausePasses
    BY <1>6, <1>0 DEF ClausePasses, PhaseInv, OpenInv, Fault, Holding, Unwinding, Num
<1>7. CASE ClauseFails
    BY <1>7, <1>0 DEF ClauseFails, PhaseInv, OpenInv, Fault, Holding, Unwinding, Num
<1>8. CASE RunnerRaises
    BY <1>8, <1>0 DEF RunnerRaises, PhaseInv, OpenInv, Fault, Holding, Unwinding, Num
<1>9. CASE RunnerReturns
    BY <1>9, <1>0 DEF RunnerReturns, PhaseInv, OpenInv, Fault, Holding, Unwinding, Num
<1>10. CASE Judge
    BY <1>10, <1>0 DEF Judge, PhaseInv, OpenInv, Fault, Holding, Unwinding, Num
<1>11. CASE create_finally
    BY <1>11, <1>0 DEF create_finally, PhaseInv, OpenInv, Fault, Holding, Unwinding, Num
<1>12. CASE enter_lifespan_finally
    BY <1>12, <1>0 DEF enter_lifespan_finally, PhaseInv, OpenInv, Fault, Holding, Unwinding, Num
<1> QED
    BY <1>1, <1>2, <1>3, <1>4, <1>5, <1>6, <1>7, <1>8, <1>9, <1>10, <1>11, <1>12 DEF Step

\* A clause is counted as run, and as one of the two or as both.
LEMMA CountOfAClause ==
    ASSUME CountInv, NEW p \in {0, 1}, NEW f \in {0, 1}, p + f >= 1, counts.run < Clauses,
           counts' = [run |-> counts.run + 1, passed |-> counts.passed + p, failed |-> counts.failed + f],
           faults' = faults + 1 \/ (faults' = faults /\ p + f = 1)
    PROVE  /\ counts' \in [run : Nat, passed : Nat, failed : Nat] /\ faults' \in Nat
           /\ counts'.run <= Clauses /\ counts'.passed <= counts'.run
           /\ counts'.run <= counts'.passed + counts'.failed
           /\ counts'.passed + counts'.failed <= counts'.run + faults'
           /\ f = 1 => counts'.failed > 0
           /\ counts.failed > 0 => counts'.failed > 0
<1>1. PICK r, a, b : r = counts.run /\ a = counts.passed /\ b = counts.failed
    OBVIOUS
<1>2. PICK n : n = faults
    OBVIOUS
<1>3. /\ r \in Nat /\ a \in Nat /\ b \in Nat /\ n \in Nat
      /\ r <= Clauses /\ a <= r /\ r <= a + b /\ a + b <= r + n
    BY <1>1, <1>2 DEF CountInv
<1>4. counts'.run = r + 1 /\ counts'.passed = a + p /\ counts'.failed = b + f
    BY <1>1
<1>5. faults' \in Nat /\ (a + p) + (b + f) <= (r + 1) + faults'
    BY <1>2, <1>3
<1>6. r + 1 \in Nat /\ a + p \in Nat /\ b + f \in Nat
    BY <1>3
<1>7. counts' \in [run : Nat, passed : Nat, failed : Nat]
    BY <1>1, <1>6
<1>8. r + 1 <= Clauses /\ a + p <= r + 1 /\ r + 1 <= (a + p) + (b + f)
    <2>1. r < Clauses /\ Clauses \in Nat
        BY <1>1, ConformanceAssumption
    <2>2. r + 1 <= Clauses
        BY <2>1, <1>3
    <2>3. a + p <= r + 1
        BY <1>3
    <2>4. r + 1 <= (a + p) + (b + f)
        BY <1>3
    <2> QED BY <2>2, <2>3, <2>4
<1>9. (f = 1 => b + f > 0) /\ (b > 0 => b + f > 0)
    BY <1>3
<1> QED
    BY <1>1, <1>4, <1>5, <1>7, <1>8, <1>9

LEMMA ZeroCounts ==
    /\ Zero \in [run : Nat, passed : Nat, failed : Nat]
    /\ Zero.run = 0 /\ Zero.passed = 0 /\ Zero.failed = 0
    BY DEF Zero

\* Where no clause is counted.
LEMMA CountStays ==
    ASSUME CountInv, counts' = counts, faults' = faults \/ faults' = faults + 1,
           pc' = "detect" => counts = Zero, pc' = "judge" => counts.run = Clauses,
           pc' \in {"run", "judge"} /\ Cap' \in dirty' => counts.failed > 0
    PROVE  CountInv'
<1>1. PICK n : n = faults /\ n \in Nat
    BY DEF CountInv
<1>2. PICK c : c = counts.passed + counts.failed /\ c <= counts.run + n /\ counts.run \in Nat
    BY <1>1 DEF CountInv
<1>3. c \in Nat
    BY <1>2 DEF CountInv
<1>4. faults' \in Nat /\ c <= counts.run + faults'
    BY <1>1, <1>2, <1>3
<1> QED
    BY <1>2, <1>4 DEF CountInv, Zero

LEMMA ReportAdds ==
    ASSUME NEW c, NEW r, Report(c, r)
    PROVE  /\ DOMAIN results' = DOMAIN results \union {c} /\ results'[c] = r
           /\ \A x \in DOMAIN results \ {c} : results'[x] = results[x]
    BY DEF Report

\* What is at hand was not at hand before.
LEMMA CapIsFresh ==
    ASSUME SuiteInv, PhaseInv, EnumInv, pc \in {"detect", "run", "judge"}
    PROVE  /\ i \in 1..Num /\ Cap \notin DOMAIN results
           /\ pc = "detect" => Cap \notin dirty
<1>1. i \in 1..Num /\ Num \in Nat
    BY DEF PhaseInv, SuiteInv, Holding
<1>2. \A k \in 1..Num : suite.caps[k] = suite.caps[i] => k = i
    BY <1>1 DEF SuiteInv
<1>3. \A k \in 1..Num : Past(k) => k # i
    BY <1>1 DEF Past, Unwinding
<1>4. Cap \notin DOMAIN results
    BY <1>2, <1>3 DEF EnumInv, Cap
<1>5. pc = "detect" => Cap \notin dirty
    BY <1>2, <1>3 DEF EnumInv, Cap
<1> QED
    BY <1>1, <1>4, <1>5

LEMMA PastStays ==
    ASSUME PhaseInv, NEW k \in 1..Num, Past(k),
           i' = i + 1 \/ (i' = i /\ (pc \in Unwinding => pc' \in Unwinding))
    PROVE  Past(k)'
<1>1. i \in Nat /\ k \in Nat
    BY DEF PhaseInv
<1> QED
    BY <1>1 DEF Past, Unwinding

LEMMA StepKeepsCount == ASSUME SuiteInv, PhaseInv, EnumInv, CountInv, Step PROVE CountInv'
<1>0. suite' = suite
    BY StepKeepsTheSuite
<1>1. CASE caps_to_test
    BY <1>1, CountStays DEF caps_to_test, Fault
<1>2. CASE enter_lifespan
    BY <1>2, CountStays DEF enter_lifespan, Fault
<1>3. CASE NotAsked
    BY <1>3, CountStays DEF NotAsked, Fault
<1>4. CASE create
    <2>1. counts' = Zero /\ pc' # "run" /\ pc' # "judge" /\ (faults' = faults \/ faults' = faults + 1)
        BY <1>4 DEF create, Fault
    <2>2. faults' \in Nat /\ Clauses \in Nat
        BY <2>1, ConformanceAssumption DEF CountInv
    <2>3. PICK n : n = faults'
        OBVIOUS
    <2>4. n \in Nat /\ 0 <= n /\ 0 <= Clauses
        BY <2>2, <2>3
    <2>5. counts'.run = 0 /\ counts'.passed = 0 /\ counts'.failed = 0
        BY <2>1, ZeroCounts
    <2>6. counts'.passed + counts'.failed <= counts'.run + faults'
        <3>1. 0 + 0 <= 0 + n
            BY <2>4
        <3> QED BY <2>3, <2>5, <3>1, Zenon
    <2>7. counts'.run <= Clauses /\ counts'.passed <= counts'.run /\ counts'.run <= counts'.passed + counts'.failed
        BY <2>4, <2>5
    <2>8. pc' \notin {"run", "judge"} /\ counts' \in [run : Nat, passed : Nat, failed : Nat] /\ Zero' = Zero
        BY <2>1, ZeroCounts DEF Zero
    <2> QED BY <2>1, <2>2, <2>6, <2>7, <2>8 DEF CountInv
<1>5. CASE Detect
    <2>1. Cap \notin dirty /\ counts = Zero
        BY <1>5, CapIsFresh DEF Detect, CountInv
    <2>2. counts' = counts /\ dirty' = dirty /\ Cap' = Cap /\ pc' \in {"run", "close"}
        BY <1>5, <1>0 DEF Detect, Cap
    <2>3. faults' = faults \/ faults' = faults + 1
        BY <1>5 DEF Detect, Fault
    <2> QED BY <2>1, <2>2, <2>3, CountStays
<1>6. CASE ClausePasses
    <2>1. /\ pc = "run" /\ counts.run < Clauses /\ pc' = pc /\ Cap' = Cap
          /\ counts \in [run : Nat, passed : Nat, failed : Nat]
        BY <1>6, <1>0 DEF ClausePasses, CountInv, Cap
    <2>2. Cap \in dirty => counts.failed > 0
        BY <2>1 DEF CountInv
    <2>3. CASE UNCHANGED <<dirty, faults>>
        <3>0. faults' = faults /\ faults \in Nat /\ dirty' = dirty
            BY <2>3 DEF CountInv
        <3>1. faults' # faults + 1
            BY <3>0
        <3>2. counts' = [run |-> counts.run + 1, passed |-> counts.passed + 1, failed |-> counts.failed]
            BY <1>6, <2>1, <3>1 DEF ClausePasses
        <3>3. counts.failed + 0 = counts.failed
            BY <2>1
        <3>4. counts' = [run |-> counts.run + 1, passed |-> counts.passed + 1, failed |-> counts.failed + 0]
            BY <3>2, <3>3
        <3> QED BY <2>1, <2>2, <3>0, <3>4, CountOfAClause DEF CountInv
    <2>4. CASE faults' = faults + 1
        <3>1. counts' = [run |-> counts.run + 1, passed |-> counts.passed + 1, failed |-> counts.failed + 1]
            BY <1>6, <2>4 DEF ClausePasses, CountInv
        <3> QED BY <2>1, <2>4, <3>1, CountOfAClause DEF CountInv
    <2> QED BY <1>6, <2>3, <2>4 DEF ClausePasses
<1>7. CASE ClauseFails
    <2>1. /\ pc = "run" /\ counts.run < Clauses /\ pc' = pc
          /\ counts \in [run : Nat, passed : Nat, failed : Nat]
          /\ faults' = faults + 1 \/ faults' = faults
          /\ counts' = [counts EXCEPT !.run = @ + 1, !.failed = @ + 1]
        <3>1. faults' = faults + 1 \/ faults' = faults
            BY <1>7 DEF ClauseFails
        <3> QED BY <1>7, <3>1 DEF ClauseFails, CountInv
    <2>2. counts' = [run |-> counts.run + 1, passed |-> counts.passed, failed |-> counts.failed + 1]
        BY <2>1
    <2>3. counts.passed + 0 = counts.passed
        BY <2>1
    <2>4. counts' = [run |-> counts.run + 1, passed |-> counts.passed + 0, failed |-> counts.failed + 1]
        BY <2>2, <2>3
    <2>5. 0 + 1 >= 1 /\ 0 + 1 = 1
        OBVIOUS
    <2>6. /\ counts' \in [run : Nat, passed : Nat, failed : Nat] /\ faults' \in Nat
          /\ counts'.run <= Clauses /\ counts'.passed <= counts'.run
          /\ counts'.run <= counts'.passed + counts'.failed
          /\ counts'.passed + counts'.failed <= counts'.run + faults'
          /\ counts'.failed > 0
        BY <2>1, <2>4, <2>5, CountOfAClause
    <2> QED BY <2>1, <2>6 DEF CountInv
<1>8. CASE RunnerRaises
    BY <1>8, CountStays DEF RunnerRaises, Fault
<1>9. CASE RunnerReturns
    <2>1. counts.run >= Clauses /\ counts.run <= Clauses /\ counts.run \in Nat /\ Clauses \in Nat
        BY <1>9, ConformanceAssumption DEF RunnerReturns, CountInv
    <2>2. counts.run = Clauses
        BY <2>1
    <2>3. counts' = counts /\ dirty' = dirty /\ Cap' = Cap /\ pc = "run" /\ pc' \in {"judge", "close"}
        BY <1>9, <1>0 DEF RunnerReturns, Cap
    <2>4. Cap \in dirty => counts.failed > 0
        BY <2>3 DEF CountInv
    <2>5. faults' = faults \/ faults' = faults + 1
        BY <1>9 DEF RunnerReturns, Fault
    <2> QED BY <2>2, <2>3, <2>4, <2>5, CountStays
<1>10. CASE Judge
    BY <1>10, CountStays DEF Judge, Fault
<1>11. CASE create_finally
    BY <1>11, CountStays DEF create_finally, Fault
<1>12. CASE enter_lifespan_finally
    BY <1>12, CountStays DEF enter_lifespan_finally, Fault
<1> QED
    BY <1>1, <1>2, <1>3, <1>4, <1>5, <1>6, <1>7, <1>8, <1>9, <1>10, <1>11, <1>12 DEF Step

\* Where nothing is reported and no clause fails.
LEMMA EnumStays ==
    ASSUME SuiteInv, PhaseInv, EnumInv, suite' = suite, results' = results, dirty' = dirty,
           i' = i + 1 \/ (i' = i /\ (pc \in Unwinding => pc' \in Unwinding)),
           pc \in {"run", "judge"} => i' = i /\ pc' \in {"run", "judge"} \union Unwinding,
           \A k \in 1..Num : k < i' \/ (k = i' /\ pc' = "close" /\ raised' = "none")
                                => k < i \/ (k = i /\ pc = "close" /\ raised = "none")
    PROVE  EnumInv'
<1>1. Num' = Num
    BY DEF Num
<1>2. \A k \in 1..Num : Past(k) => Past(k)'
    BY PastStays
<1>3. \A k \in 1..Num : k = i /\ pc \in {"run", "judge"} => Past(k)' \/ (k = i' /\ pc' \in {"run", "judge"})
    BY DEF Past
<1>4. \A c \in DOMAIN results' : \E k \in 1..Num : suite'.caps[k] = c /\ Past(k)'
    BY <1>2 DEF EnumInv
<1>5. \A c \in dirty' : \E k \in 1..Num : suite'.caps[k] = c /\ (Past(k)' \/ (k = i' /\ pc' \in {"run", "judge"}))
    BY <1>2, <1>3 DEF EnumInv
<1>6. \A k \in 1..Num : k < i' \/ (k = i' /\ pc' = "close" /\ raised' = "none") => suite'.caps[k] \in DOMAIN results'
    BY DEF EnumInv
<1> QED
    BY <1>1, <1>4, <1>5, <1>6 DEF EnumInv

\* Where the capability at hand is reported: it is past, and is the only new one.
LEMMA EnumReports ==
    ASSUME SuiteInv, PhaseInv, EnumInv, suite' = suite, dirty' = dirty, i \in 1..Num, pc # "close",
           DOMAIN results' = DOMAIN results \union {Cap},
           (i' = i + 1 /\ pc = "loop" /\ pc' = "loop") \/ (i' = i /\ pc' = "close")
    PROVE  EnumInv'
<1>1. Num' = Num /\ i \in Nat /\ Cap = suite.caps[i]
    BY DEF Num, Cap
<1>2. \A k \in 1..Num : Past(k) => Past(k)'
    <2>1. i' = i + 1 \/ (i' = i /\ pc' \in Unwinding)
        BY DEF Unwinding
    <2> QED BY <2>1, PastStays
<1>3. \A k \in 1..Num : k = i => Past(k)'
    BY <1>1 DEF Past, Unwinding
<1>4. ASSUME NEW c \in DOMAIN results' PROVE \E k \in 1..Num : suite'.caps[k] = c /\ Past(k)'
    <2>1. CASE c \in DOMAIN results
        BY <2>1, <1>2 DEF EnumInv
    <2>2. CASE c = Cap
        BY <2>2, <1>1, <1>3
    <2> QED BY <2>1, <2>2
<1>5. ASSUME NEW c \in dirty' PROVE \E k \in 1..Num : suite'.caps[k] = c /\ Past(k)'
    BY <1>2, <1>3 DEF EnumInv
<1>6. ASSUME NEW k \in 1..Num, k < i' \/ (k = i' /\ pc' = "close" /\ raised' = "none")
      PROVE  suite'.caps[k] \in DOMAIN results'
    <2>1. k < i \/ k = i
        BY <1>1, <1>6
    <2>2. k < i => suite.caps[k] \in DOMAIN results
        BY DEF EnumInv
    <2> QED BY <2>1, <2>2, <1>1
<1> QED
    BY <1>1, <1>4, <1>5, <1>6 DEF EnumInv

\* Where a clause of the capability at hand does not pass.
LEMMA EnumDirties ==
    ASSUME SuiteInv, PhaseInv, EnumInv, suite' = suite, results' = results, dirty' = dirty \union {Cap},
           i' = i, pc = "run", pc' = "run" \/ (pc' = "close" /\ raised' # "none")
    PROVE  EnumInv'
<1>1. Num' = Num /\ i \in 1..Num /\ Cap = suite.caps[i]
    BY DEF Num, Cap, PhaseInv, SuiteInv, Holding
<1>2. \A k \in 1..Num : Past(k) => Past(k)'
    <2>1. pc \notin Unwinding
        BY DEF Unwinding
    <2> QED BY <2>1, PastStays
<1>3. \A k \in 1..Num : k = i => Past(k)' \/ (k = i' /\ pc' \in {"run", "judge"})
    BY DEF Past, Unwinding
<1>4. \A c \in DOMAIN results' : \E k \in 1..Num : suite'.caps[k] = c /\ Past(k)'
    BY <1>2 DEF EnumInv
<1>5. ASSUME NEW c \in dirty'
      PROVE  \E k \in 1..Num : suite'.caps[k] = c /\ (Past(k)' \/ (k = i' /\ pc' \in {"run", "judge"}))
    <2>1. CASE c \in dirty
        BY <2>1, <1>2, <1>3 DEF EnumInv
    <2>2. CASE c = Cap
        BY <2>2, <1>1, <1>3
    <2> QED BY <2>1, <2>2
<1>6. \A k \in 1..Num : k < i' \/ (k = i' /\ pc' = "close" /\ raised' = "none") => suite'.caps[k] \in DOMAIN results'
    BY DEF EnumInv
<1> QED
    BY <1>1, <1>4, <1>5, <1>6 DEF EnumInv

LEMMA StepKeepsEnum == ASSUME SuiteInv, PhaseInv, EnumInv, Step PROVE EnumInv'
<1>0. suite' = suite /\ Num \in Nat /\ i \in 1..(Num + 1)
    BY StepKeepsTheSuite DEF SuiteInv, PhaseInv
<1>1. CASE caps_to_test
    <2>1. results' = results /\ dirty' = dirty /\ i' = i /\ pc \notin {"close", "run", "judge"}
          /\ (pc \in Unwinding => pc' \in Unwinding) /\ (pc' # "close" \/ raised' # "none")
        BY <1>1 DEF caps_to_test, Fault, Unwinding
    <2> QED BY <2>1, <1>0, EnumStays
<1>2. CASE enter_lifespan
    <2>1. results' = results /\ dirty' = dirty /\ i' = i /\ pc \notin {"close", "run", "judge"}
          /\ (pc \in Unwinding => pc' \in Unwinding) /\ (pc' # "close" \/ raised' # "none")
        BY <1>2 DEF enter_lifespan, Fault, Unwinding
    <2> QED BY <2>1, <1>0, EnumStays
<1>3. CASE NotAsked
    <2>1. /\ pc = "loop" /\ i \in 1..Num /\ dirty' = dirty
          /\ \/ DOMAIN results' = DOMAIN results \union {Cap} /\ i' = i + 1 /\ pc' = pc
             \/ raised' # "none" /\ pc' = "leave" /\ i' = i /\ results' = results
        <3>1. pc = "loop" /\ i \in 1..Num /\ dirty' = dirty
            BY <1>3, <1>0 DEF NotAsked, Num
        <3>2. CASE Report(Cap, Result(FALSE, "skipped", Zero)) /\ i' = i + 1 /\ pc' = pc
            BY <3>1, <3>2, ReportAdds
        <3>3. CASE Fault("callback") /\ pc' = "leave" /\ i' = i /\ results' = results
            BY <3>1, <3>3 DEF Fault
        <3> QED BY <1>3, <3>2, <3>3 DEF NotAsked
    <2>2. CASE DOMAIN results' = DOMAIN results \union {Cap} /\ i' = i + 1 /\ pc' = pc
        BY <2>1, <2>2, <1>0, EnumReports
    <2>3. CASE raised' # "none" /\ pc' = "leave" /\ i' = i /\ results' = results
        BY <2>1, <2>3, <1>0, EnumStays DEF Unwinding
    <2> QED BY <2>1, <2>2, <2>3
<1>4. CASE create
    <2>1. results' = results /\ dirty' = dirty /\ i' = i /\ pc \notin {"close", "run", "judge"}
          /\ (pc \in Unwinding => pc' \in Unwinding) /\ (pc' # "close" \/ raised' # "none")
        BY <1>4 DEF create, Fault, Unwinding
    <2> QED BY <2>1, <1>0, EnumStays
<1>5. CASE Detect
    <2>1. /\ pc = "detect" /\ i \in 1..Num /\ dirty' = dirty /\ i' = i
          /\ \/ DOMAIN results' = DOMAIN results \union {Cap} /\ pc' = "close"
             \/ results' = results /\ (pc' = "run" \/ (pc' = "close" /\ raised' # "none"))
        <3>1. pc = "detect" /\ i \in 1..Num /\ dirty' = dirty /\ i' = i
            BY <1>5, <1>0 DEF Detect, PhaseInv, Holding
        <3>2. CASE \E d \in BOOLEAN : Report(Cap, Result(d, "skipped", Zero)) /\ pc' = "close"
            BY <3>1, <3>2, ReportAdds
        <3>3. CASE results' = results /\ (pc' = "run" \/ (pc' = "close" /\ Fault("callback")))
            BY <3>1, <3>3 DEF Fault
        <3> QED BY <1>5, <3>2, <3>3 DEF Detect
    <2>2. CASE DOMAIN results' = DOMAIN results \union {Cap} /\ pc' = "close"
        BY <2>1, <2>2, <1>0, EnumReports
    <2>3. CASE results' = results /\ (pc' = "run" \/ (pc' = "close" /\ raised' # "none"))
        BY <2>1, <2>3, <1>0, EnumStays DEF Unwinding
    <2> QED BY <2>1, <2>2, <2>3
<1>6. CASE ClausePasses
    <2>1. /\ pc = "run" /\ pc' = pc /\ i' = i /\ results' = results
          /\ dirty' = dirty \/ dirty' = dirty \union {Cap}
        BY <1>6 DEF ClausePasses
    <2>2. CASE dirty' = dirty
        BY <2>1, <2>2, <1>0, EnumStays DEF Unwinding
    <2>3. CASE dirty' = dirty \union {Cap}
        BY <2>1, <2>3, <1>0, EnumDirties
    <2> QED BY <2>1, <2>2, <2>3
<1>7. CASE ClauseFails
    BY <1>7, <1>0, EnumDirties DEF ClauseFails
<1>8. CASE RunnerRaises
    BY <1>8, <1>0, EnumDirties DEF RunnerRaises, Fault
<1>9. CASE RunnerReturns
    <2>1. /\ pc = "run" /\ dirty' = dirty /\ i' = i /\ results' = results
          /\ pc' = "judge" \/ (pc' = "close" /\ raised' # "none")
        BY <1>9 DEF RunnerReturns, Fault
    <2> QED BY <2>1, <1>0, EnumStays DEF Unwinding
<1>10. CASE Judge
    <2>1. /\ pc = "judge" /\ i \in 1..Num /\ dirty' = dirty /\ i' = i /\ pc' = "close"
          /\ DOMAIN results' = DOMAIN results \union {Cap}
        BY <1>10, <1>0 DEF Judge, Report, PhaseInv, Holding
    <2> QED BY <2>1, <1>0, EnumReports
<1>11. CASE create_finally
    <2>1. /\ pc = "close" /\ dirty' = dirty /\ results' = results
          /\ \/ raised = "none" /\ pc' = "loop" /\ i' = i + 1
             \/ pc' = "leave" /\ i' = i
        BY <1>11 DEF create_finally
    <2>2. i' = i + 1 \/ (i' = i /\ (pc \in Unwinding => pc' \in Unwinding))
        BY <2>1 DEF Unwinding
    <2>3. \A k \in 1..Num : k < i' \/ (k = i' /\ pc' = "close" /\ raised' = "none")
                               => k < i \/ (k = i /\ pc = "close" /\ raised = "none")
        BY <2>1, <1>0
    <2> QED BY <2>1, <2>2, <2>3, <1>0, EnumStays
<1>12. CASE enter_lifespan_finally
    <2>1. results' = results /\ dirty' = dirty /\ i' = i /\ pc \notin {"close", "run", "judge"}
          /\ (pc \in Unwinding => pc' \in Unwinding) /\ (pc' # "close" \/ raised' # "none")
        BY <1>12 DEF enter_lifespan_finally, Fault, Unwinding
    <2> QED BY <2>1, <1>0, EnumStays
<1> QED
    BY <1>1, <1>2, <1>3, <1>4, <1>5, <1>6, <1>7, <1>8, <1>9, <1>10, <1>11, <1>12 DEF Step

\* What the saver defines, and only that, is found in it.
LEMMA FoundIsDefined ==
    /\ from_instance \subseteq registered.methods
    /\ suite.methods \intersect registered.methods \subseteq from_instance
<1>1. \A c : c \in registered.methods => Impl(c) = "own"
    BY DEF Impl
<1>2. \A c : c \notin registered.methods => Impl(c) = Base(c)
    BY DEF Impl
<1>3. \A c : Base(c) # "own"
    BY DEF Base
<1> QED
    BY <1>1, <1>2, <1>3 DEF from_instance, _is_overridden

LEMMA SetupStays ==
    ASSUME UNCHANGED <<suite, registered, requested>>
    PROVE  from_instance' = from_instance /\ \A c : Asked(c)' <=> Asked(c)
<1>1. \A c : Impl(c)' = Impl(c) /\ Base(c)' = Base(c)
    BY DEF Impl, Base, BaseMethods
<1> QED
    BY <1>1 DEF from_instance, _is_overridden, Asked

LEMMA EntryStays ==
    ASSUME NEW c \in DOMAIN results, EntryInv(c), c \in DOMAIN results', results'[c] = results[c],
           c \in used => c \in used', c \in dirty' => c \in dirty, UNCHANGED <<suite, registered, requested>>
    PROVE  EntryInv(c)'
    BY SetupStays DEF EntryInv, Passed, Full

\* A capability that is skipped, whether it is there or not.
LEMMA EntrySkipped ==
    ASSUME NEW c \in DOMAIN results', NEW d \in BOOLEAN, results'[c] = Result(d, "skipped", Zero),
           UNCHANGED <<suite, registered, requested>>,
           d => c \in from_instance, Asked(c) /\ c \in from_instance => d
    PROVE  EntryInv(c)'
<1>1. results'[c].passed = "skipped" /\ results'[c].detected = d
    BY DEF Result
<1>2. d => c \in registered'.methods
    BY FoundIsDefined
<1> QED
    BY <1>1, <1>2, SetupStays DEF EntryInv, Passed

\* A result takes the place of none: the other entries are as they were.
LEMMA OthersStay ==
    ASSUME ReportInv, NEW x, NEW r, Report(x, r), used' = used, dirty' = dirty,
           UNCHANGED <<suite, registered, requested>>, EntryInv(x)'
    PROVE  \A c \in DOMAIN results' : EntryInv(c)'
<1>1. DOMAIN results' = DOMAIN results \union {x} /\ \A c \in DOMAIN results \ {x} : results'[c] = results[c]
    BY ReportAdds
<1>2. ASSUME NEW c \in DOMAIN results \ {x} PROVE EntryInv(c)'
    BY <1>1, EntryStays DEF ReportInv
<1> QED
    BY <1>1, <1>2

\* A clause is no matter of the entries there are.
LEMMA ClauseKeepsReport ==
    ASSUME SuiteInv, PhaseInv, EnumInv, ReportInv, UNCHANGED <<suite, registered, requested>>,
           pc = "run", pc' \in {"run", "judge", "close"}, i' = i, results' = results, used' = used,
           dirty' = dirty \/ dirty' = dirty \union {Cap}
    PROVE  ReportInv'
<1>1. Cap \notin DOMAIN results /\ Cap' = Cap
    BY CapIsFresh DEF Cap
<1>2. \A c \in DOMAIN results' : EntryInv(c)'
    BY <1>1, EntryStays DEF ReportInv
<1>3. Cap' \in used' /\ Asked(Cap)' /\ Cap' \in from_instance'
    BY <1>1, SetupStays DEF ReportInv, Asked
<1> QED
    BY <1>2, <1>3 DEF ReportInv

LEMMA StepKeepsReport ==
    ASSUME SuiteInv, PhaseInv, CountInv, EnumInv, ReportInv, Step
    PROVE  ReportInv'
<1>0. UNCHANGED <<suite, registered, requested>>
    BY StepKeepsTheSuite
<1> PICK x : x = Cap
    OBVIOUS
<1>1. CASE caps_to_test
    <2>1. /\ results' = results /\ dirty' = dirty /\ used \subseteq used'
        BY <1>1 DEF caps_to_test
    <2>2. \A c \in DOMAIN results' : EntryInv(c)'
        BY <2>1, <1>0, EntryStays DEF ReportInv
    <2>3. pc' \notin {"detect", "run", "judge"}
        BY <1>1 DEF caps_to_test
    <2> QED BY <2>2, <2>3 DEF ReportInv
<1>2. CASE enter_lifespan
    <2>1. /\ results' = results /\ dirty' = dirty /\ used \subseteq used'
        BY <1>2 DEF enter_lifespan
    <2>2. \A c \in DOMAIN results' : EntryInv(c)'
        BY <2>1, <1>0, EntryStays DEF ReportInv
    <2>3. pc' \notin {"detect", "run", "judge"}
        BY <1>2 DEF enter_lifespan
    <2> QED BY <2>2, <2>3 DEF ReportInv
<1>3. CASE NotAsked
    <2>1. pc = "loop" /\ used' = used /\ dirty' = dirty /\ ~Asked(x) /\ pc' \in {"loop", "leave"}
        BY <1>3 DEF NotAsked
    <2>2. CASE Report(x, Result(FALSE, "skipped", Zero))
        <3>1. x \in DOMAIN results' /\ results'[x] = Result(FALSE, "skipped", Zero)
            BY <2>2, ReportAdds
        <3>2. EntryInv(x)'
            BY <3>1, <2>1, <1>0, EntrySkipped
        <3>3. \A c \in DOMAIN results' : EntryInv(c)'
            BY <3>2, <2>1, <2>2, <1>0, OthersStay
        <3> QED BY <3>3, <2>1 DEF ReportInv
    <2>3. CASE results' = results
        <3>1. \A c \in DOMAIN results' : EntryInv(c)'
            BY <2>1, <2>3, <1>0, EntryStays DEF ReportInv
        <3> QED BY <3>1, <2>1 DEF ReportInv
    <2> QED BY <1>3, <2>2, <2>3 DEF NotAsked
<1>4. CASE create
    <2>1. /\ results' = results /\ dirty' = dirty /\ used \subseteq used'
          /\ Asked(Cap) /\ Cap' = Cap /\ pc' \in {"detect", "leave"}
          /\ pc' = "detect" => Cap \in used'
        BY <1>4, <1>0 DEF create, Cap
    <2>2. \A c \in DOMAIN results' : EntryInv(c)'
        BY <2>1, <1>0, EntryStays DEF ReportInv
    <2>3. pc' = "detect" => Cap' \in used' /\ Asked(Cap)'
        BY <2>1, <1>0 DEF Asked
    <2> QED BY <2>1, <2>2, <2>3 DEF ReportInv
<1>5. CASE Detect
    <2>1. /\ pc = "detect" /\ used' = used /\ dirty' = dirty /\ Cap' = x /\ pc' \in {"run", "close"}
          /\ pc' = "run" => x \in from_instance /\ results' = results
          /\ x \in used /\ Asked(x)
        BY <1>5, <1>0 DEF Detect, Cap, ReportInv
    <2>2. pc' = "run" => Cap' \in used' /\ Asked(Cap)' /\ Cap' \in from_instance'
        BY <2>1, <1>0, SetupStays DEF Asked
    <2>3. CASE \E d \in BOOLEAN : (d <=> x \in from_instance) /\ Report(x, Result(d, "skipped", Zero))
        <3>1. PICK d \in BOOLEAN : (d <=> x \in from_instance) /\ Report(x, Result(d, "skipped", Zero))
            BY <2>3
        <3>2. x \in DOMAIN results' /\ results'[x] = Result(d, "skipped", Zero)
            BY <3>1, ReportAdds
        <3>3. EntryInv(x)'
            BY <3>1, <3>2, <1>0, EntrySkipped
        <3>4. \A c \in DOMAIN results' : EntryInv(c)'
            BY <3>1, <3>3, <2>1, <1>0, OthersStay
        <3> QED BY <3>4, <2>1, <2>2 DEF ReportInv
    <2>4. CASE results' = results
        <3>1. \A c \in DOMAIN results' : EntryInv(c)'
            BY <2>1, <2>4, <1>0, EntryStays DEF ReportInv
        <3> QED BY <3>1, <2>1, <2>2 DEF ReportInv
    <2> QED BY <1>5, <2>3, <2>4 DEF Detect
<1>6. CASE ClausePasses
    BY <1>6, <1>0, ClauseKeepsReport DEF ClausePasses
<1>7. CASE ClauseFails
    BY <1>7, <1>0, ClauseKeepsReport DEF ClauseFails
<1>8. CASE RunnerRaises
    BY <1>8, <1>0, ClauseKeepsReport DEF RunnerRaises
<1>9. CASE RunnerReturns
    <2>1. pc = "run" /\ pc' \in {"judge", "close"} /\ i' = i /\ results' = results /\ used' = used /\ dirty' = dirty
        BY <1>9 DEF RunnerReturns
    <2> QED BY <2>1, <1>0, ClauseKeepsReport
<1>10. CASE Judge
    <2>1. /\ pc = "judge" /\ pc' = "close" /\ used' = used /\ dirty' = dirty
          /\ Report(x, Result(TRUE, IF counts.failed = 0 THEN "passed" ELSE "failed", counts))
          /\ x \in used /\ x \in from_instance
          /\ counts.run = Clauses /\ (x \in dirty => counts.failed > 0)
        BY <1>10 DEF Judge, ReportInv, CountInv
    <2>2. /\ x \in DOMAIN results'
          /\ results'[x] = Result(TRUE, IF counts.failed = 0 THEN "passed" ELSE "failed", counts)
        <3>1. PICK r : r = Result(TRUE, IF counts.failed = 0 THEN "passed" ELSE "failed", counts)
            OBVIOUS
        <3>2. Report(x, r)
            BY <2>1, <3>1
        <3>3. x \in DOMAIN results' /\ results'[x] = r
            BY <3>2, ReportAdds
        <3> QED BY <3>1, <3>3
    <2>3. /\ results'[x].detected = TRUE /\ results'[x].counts = counts
          /\ results'[x].passed = "passed" => counts.failed = 0
        BY <2>2 DEF Result
    <2>4. counts.failed = 0 => x \notin dirty /\ counts = Full
        <3>1. ASSUME counts.failed = 0 PROVE x \notin dirty /\ counts.passed = Clauses
            <4>1. PICK a : a = counts.passed
                OBVIOUS
            <4>2. a \in Nat /\ a <= Clauses /\ Clauses <= a + 0 /\ Clauses \in Nat
                BY <2>1, <3>1, <4>1, ConformanceAssumption DEF CountInv
            <4>3. a = Clauses
                BY <4>2
            <4> QED BY <2>1, <3>1, <4>1, <4>3
        <3>2. counts = [run |-> counts.run, passed |-> counts.passed, failed |-> counts.failed]
            BY DEF CountInv
        <3> QED BY <3>1, <3>2, <2>1 DEF Full
    <2>5. ASSUME Passed(x)' PROVE x \in used' /\ x \notin dirty' /\ results'[x].counts = Full
        <3>1. counts.failed = 0
            BY <2>3, <2>5 DEF Passed
        <3>2. results'[x].counts = counts
            BY <2>3
        <3> QED BY <3>1, <3>2, <2>1, <2>4
    <2>6. EntryInv(x)'
        <3>1. Full' = Full
            BY DEF Full
        <3>2. x \in registered'.methods
            BY <2>1, <1>0, FoundIsDefined
        <3> QED BY <2>3, <2>5, <3>1, <3>2 DEF EntryInv
    <2>7. \A c \in DOMAIN results' : EntryInv(c)'
        BY <2>1, <2>6, <1>0, OthersStay
    <2> QED BY <2>1, <2>7 DEF ReportInv
<1>11. CASE create_finally
    <2>1. /\ results' = results /\ dirty' = dirty /\ used \subseteq used'
        BY <1>11 DEF create_finally
    <2>2. \A c \in DOMAIN results' : EntryInv(c)'
        BY <2>1, <1>0, EntryStays DEF ReportInv
    <2>3. pc' \notin {"detect", "run", "judge"}
        BY <1>11 DEF create_finally
    <2> QED BY <2>2, <2>3 DEF ReportInv
<1>12. CASE enter_lifespan_finally
    <2>1. /\ results' = results /\ dirty' = dirty /\ used \subseteq used'
        BY <1>12 DEF enter_lifespan_finally
    <2>2. \A c \in DOMAIN results' : EntryInv(c)'
        BY <2>1, <1>0, EntryStays DEF ReportInv
    <2>3. pc' \notin {"detect", "run", "judge"}
        BY <1>12 DEF enter_lifespan_finally
    <2> QED BY <2>2, <2>3 DEF ReportInv
<1> QED
    BY <1>1, <1>2, <1>3, <1>4, <1>5, <1>6, <1>7, <1>8, <1>9, <1>10, <1>11, <1>12 DEF Step

LEMMA StepKeepsRun == ASSUME RunInv, Step PROVE RunInv'
<1>1. SuiteInv'
    BY StepKeepsTheSuite, SuiteStays DEF RunInv
<1>2. PhaseInv' /\ OpenInv'
    BY StepKeepsPhase, StepKeepsOpen DEF RunInv
<1>3. CountInv' /\ EnumInv'
    BY StepKeepsCount, StepKeepsEnum DEF RunInv
<1>4. ReportInv'
    BY StepKeepsReport DEF RunInv
<1> QED
    BY <1>1, <1>2, <1>3, <1>4 DEF RunInv

\* A run that has not begun.
Unbegun ==
    /\ pc = "start" /\ i = 1 /\ lifespan = "none" /\ saver = "none"
    /\ counts = Zero /\ DOMAIN results = {}
    /\ shown = "none" /\ raised = "none" /\ dirty = {}

LEMMA ItBegins == SuiteInv /\ Unbegun /\ faults \in Nat => RunInv
<1> SUFFICES ASSUME SuiteInv, Unbegun, faults \in Nat PROVE RunInv
    OBVIOUS
<1>1. PhaseInv
    BY DEF PhaseInv, Unbegun, SuiteInv, Holding, Unwinding
<1>2. OpenInv
    BY DEF OpenInv, Unbegun, Holding
<1>3. CountInv
    <2>1. PICK n : n = faults
        OBVIOUS
    <2>2. 0 <= 0 + 0 /\ 0 + 0 <= 0 + n /\ 0 <= Clauses
        BY <2>1, ConformanceAssumption
    <2>3. counts.run <= Clauses /\ counts.passed <= counts.run
        BY <2>2, ZeroCounts DEF Unbegun
    <2>4. counts.run <= counts.passed + counts.failed /\ counts.passed + counts.failed <= counts.run + faults
        BY <2>1, <2>2, ZeroCounts, Zenon DEF Unbegun
    <2> QED BY <2>3, <2>4, ZeroCounts DEF CountInv, Unbegun
<1>4. EnumInv
    BY DEF EnumInv, Unbegun
<1>5. ReportInv
    BY DEF ReportInv, Unbegun
<1> QED
    BY <1>1, <1>2, <1>3, <1>4, <1>5 DEF RunInv

LEMMA AnotherBegins == ASSUME RunInv, NEW l, Fresh(l) PROVE RunInv'
<1>1. suite' = suite /\ faults' = faults /\ Unbegun'
    BY DEF Fresh, Unbegun, Zero
<1>2. SuiteInv' /\ faults' \in Nat
    BY <1>1, SuiteStays DEF RunInv, CountInv
<1>3. (SuiteInv /\ Unbegun /\ faults \in Nat => RunInv)'
    BY ItBegins, PTL
<1> QED
    BY <1>1, <1>2, <1>3

LEMMA RunStays == ASSUME RunInv, UNCHANGED vars PROVE RunInv'
<1>1. UNCHANGED <<suite, registered, requested, pc, i, lifespan, saver, counts, results, shown, raised, dirty, used, faults>>
    BY DEF vars
<1>2. SuiteInv' /\ Num' = Num /\ Cap' = Cap /\ Zero' = Zero
    BY <1>1, SuiteStays DEF RunInv, Num, Cap, Zero
<1>3. PhaseInv'
    BY <1>1, <1>2 DEF RunInv, PhaseInv, Holding, Unwinding
<1>4. OpenInv'
    BY <1>1 DEF RunInv, OpenInv, Holding
<1>5. CountInv'
    BY <1>1, <1>2 DEF RunInv, CountInv
<1>6. EnumInv'
    BY <1>1, <1>2 DEF RunInv, EnumInv, Past, Unwinding
<1>7. ReportInv'
    <2>1. \A c \in DOMAIN results' : EntryInv(c)'
        BY <1>1, EntryStays DEF RunInv, ReportInv
    <2> QED BY <2>1, <1>1, <1>2, SetupStays DEF RunInv, ReportInv
<1> QED
    BY <1>2, <1>3, <1>4, <1>5, <1>6, <1>7 DEF RunInv

-----------------------------------------------------------------------------
(* The scripts.                                                             *)

LEMMA LanesOf ==
    /\ script = "verdict" => Len(Lanes) = 8
    /\ script = "q_conformance" => Len(Lanes) = 3
    /\ script = "validate" => Len(Lanes) = 1
<1>1. Len(verdict) = 8 /\ Len(q_conformance) = 3 /\ Len(validate) = 1
    BY DEF verdict, q_conformance, validate
<1> QED
    BY <1>1 DEF Lanes

LEMMA LanesAreFew == ASSUME ScriptInv PROVE Len(Lanes) \in Nat
<1>1. script \in {"verdict", "q_conformance", "validate"}
    BY DEF ScriptInv
<1>2. Len(Lanes) = 8 \/ Len(Lanes) = 3 \/ Len(Lanes) = 1
    BY <1>1, LanesOf
<1> QED
    BY <1>2

LEMMA NoLaneComes == ASSUME ScriptInv, script' = script PROVE Len(Lanes)' = Len(Lanes)
<1>1. /\ (script = "verdict" => Len(Lanes) = 8)'
      /\ (script = "q_conformance" => Len(Lanes) = 3)'
      /\ (script = "validate" => Len(Lanes) = 1)'
    BY LanesOf, PTL
<1> QED
    BY <1>1, LanesOf DEF ScriptInv

Lines == {"FULL", "BASE+PARTIAL", "BASE", "NONE", "NOT DETECTED", "PASS", "FAIL", "SKIPPED", "BLEW UP"}

LEMMA LineIsOne == _verdict \in Lines
<1>1. conformance_level \in Lines
    BY DEF conformance_level, Lines
<1> QED
    BY <1>1 DEF _verdict, Lines

LEMMA AtTheStart == ASSUME sInit PROVE IInv
<1>1. /\ suite \in Suites /\ Unbegun /\ faults = 0
      /\ script \in {"verdict", "q_conformance", "validate"}
      /\ lane = 1 /\ verdicts = <<>> /\ fence = "original" /\ left = FALSE
    BY DEF sInit, Init, Unbegun
<1>2. RunInv
    BY <1>1, SuitesAreEnums, ItBegins
<1>3. Len(Lanes) \in Nat
    BY <1>1, LanesOf
<1>4. verdicts \in Seq(Lines) /\ Len(verdicts) = 0
    BY <1>1
<1>5. ScriptInv
    <2>1. lane \in 1..(Len(Lanes) + 1) /\ Len(verdicts) <= lane - 1 /\ Len(verdicts) = lane - 1
        BY <1>1, <1>3, <1>4
    <2> QED BY <1>1, <1>4, <2>1 DEF ScriptInv, Lines
<1> QED
    BY <1>2, <1>5 DEF IInv

\* A lane that is behind the script has left a line.
LEMMA GoesOn ==
    ASSUME ScriptInv, ~Ended, NEW line \in Lines, verdicts' = Append(verdicts, line), Goes,
           script' = script, left' = left
    PROVE  ScriptInv'
<1>1. PICK n : n = Len(Lanes)
    OBVIOUS
<1>2. n \in Nat /\ Len(Lanes)' = n
    <2>1. Len(Lanes) \in Nat
        BY LanesAreFew
    <2>2. Len(Lanes)' = Len(Lanes)
        BY NoLaneComes
    <2> QED BY <1>1, <2>1, <2>2
<1>3. lane \in 1..n /\ ~left /\ lane' = lane + 1
    <2>1. lane \in 1..(n + 1) /\ ~(lane > n) /\ lane' = lane + 1
        BY <1>1 DEF ScriptInv, Ended, Goes
    <2>2. ~left
        BY DEF ScriptInv
    <2>3. lane \in 1..n
        BY <2>1, <1>2
    <2> QED BY <2>1, <2>2, <2>3
<1>4. verdicts \in Seq(Lines) /\ Len(verdicts) = lane - 1
    BY <1>3 DEF ScriptInv, Lines, Ended
<1>5. verdicts' \in Seq(Lines) /\ Len(verdicts') = lane' - 1
    BY <1>3, <1>4, AppendProperties
<1>6. fence' \in {"original", "removed"} /\ (fence' = "removed" => lane' = FenceRemoved)
    BY DEF Goes, FenceRemoved
<1>7. lane' \in 1..(n + 1) /\ Len(verdicts') <= lane' - 1
    BY <1>2, <1>3, <1>5
<1> QED
    BY <1>2, <1>3, <1>5, <1>6, <1>7 DEF ScriptInv, Lines, Ended, FenceRemoved

LEMMA ScriptStays ==
    ASSUME ScriptInv, UNCHANGED scriptVars
    PROVE  ScriptInv'
<1>1. /\ script' = script /\ lane' = lane /\ verdicts' = verdicts /\ fence' = fence /\ left' = left
      /\ Len(Lanes)' = Len(Lanes)
    BY NoLaneComes DEF scriptVars
<1> QED
    BY <1>1 DEF ScriptInv, Ended, FenceRemoved

LEMMA EveryStepKeepsIt == ASSUME IInv, [sNext]_allVars PROVE IInv'
<1>1. CASE Validate
    <2>1. RunInv'
        BY <1>1, StepKeepsRun DEF IInv, Validate
    <2>2. ScriptInv'
        BY <1>1, ScriptStays DEF IInv, Validate
    <2> QED BY <2>1, <2>2 DEF IInv
<1>2. CASE Prints
    <2>1. ScriptInv'
        BY <1>2, LineIsOne, GoesOn DEF Prints, IInv
    <2>2. RunInv'
        BY <1>2, AnotherBegins, RunStays DEF Prints, Goes, IInv
    <2> QED BY <2>1, <2>2 DEF IInv
<1>3. CASE Raised /\ Caught(raised)
    <2>1. "BLEW UP" \in Lines
        BY DEF Lines
    <2>2. ScriptInv'
        BY <1>3, <2>1, GoesOn DEF Raised, Caught, IInv
    <2>3. RunInv'
        BY <1>3, AnotherBegins, RunStays DEF Raised, Caught, Goes, IInv
    <2> QED BY <2>2, <2>3 DEF IInv
<1>4. CASE (Raised /\ Leaves) \/ SkipsPostgres
    <2>1. PICK n : n = Len(Lanes)
        OBVIOUS
    <2>2. /\ UNCHANGED vars /\ script' = script /\ verdicts' = verdicts /\ ~Ended /\ lane' = n + 1
          /\ \/ left' = TRUE /\ fence' = "original"
             \/ left' = left /\ fence' = fence /\ script = "verdict" /\ lane = 6
        BY <1>4, <2>1 DEF Raised, Leaves, SkipsPostgres
    <2>3. n \in Nat /\ Len(Lanes)' = n
        <3>1. Len(Lanes) \in Nat
            BY LanesAreFew DEF IInv
        <3>2. Len(Lanes)' = Len(Lanes)
            BY <2>2, NoLaneComes DEF IInv
        <3> QED BY <2>1, <3>1, <3>2
    <2>4. /\ ~left /\ lane \in 1..n /\ Len(verdicts) = lane - 1
        <3>1. lane \in 1..(n + 1) /\ ~(lane > n)
            BY <2>1, <2>2 DEF IInv, ScriptInv, Ended
        <3>2. ~left /\ Len(verdicts) = lane - 1
            BY <2>2 DEF IInv, ScriptInv
        <3> QED BY <2>3, <3>1, <3>2
    <2>5. lane' \in 1..(n + 1) /\ Len(verdicts) <= lane' - 1 /\ lane' > n
        BY <2>2, <2>3, <2>4
    <2>6. /\ fence' \in {"original", "removed"} /\ left' \in BOOLEAN
          /\ fence' # "removed"
        <3>1. fence \in {"original", "removed"} /\ left \in BOOLEAN /\ (fence = "removed" => lane = 8)
            BY DEF IInv, ScriptInv, FenceRemoved
        <3>2. fence' \in {"original", "removed"} /\ fence' # "removed"
            BY <2>2, <3>1
        <3>3. left' = TRUE \/ left' = left
            BY <2>2
        <3> QED BY <3>1, <3>2, <3>3
    <2>7. ~left' => script = "verdict" /\ Len(verdicts) = 5
        BY <2>2, <2>4
    <2>8. ScriptInv'
        <3>1. Ended'
            BY <2>3, <2>5 DEF Ended
        <3> QED BY <2>2, <2>3, <2>5, <2>6, <2>7, <3>1 DEF IInv, ScriptInv
    <2>9. RunInv'
        BY <2>2, RunStays DEF IInv
    <2> QED BY <2>8, <2>9 DEF IInv
<1>5. CASE sDone \/ UNCHANGED allVars
    <2>1. UNCHANGED vars /\ UNCHANGED scriptVars
        BY <1>5 DEF sDone, allVars
    <2> QED BY <2>1, RunStays, ScriptStays DEF IInv
<1> QED
    BY <1>1, <1>2, <1>3, <1>4, <1>5 DEF sNext, ScriptStep, Raised

-----------------------------------------------------------------------------
(* What a line of a script is worth.                                        *)

\* What the report says of a capability, of a saver that has it and of one whose
\* clauses fail.
Told(c) ==
    /\ Passed(c) => Works(c)
    /\ results[c].detected /\ c \in suite.runners /\ faults = 0
          => results[c].passed = IF Works(c) THEN "passed" ELSE "failed"

WorkInv ==
    /\ faults = 0 => raised \in {"none", "value"}
    /\ raised = "value" => requested # All /\ ~(requested \subseteq Caps)
    /\ pc \in {"run", "judge"} =>
          /\ Works(Cap) /\ faults = 0 => counts.failed = 0
          /\ ~Works(Cap) => counts.passed = 0
    /\ \A c \in DOMAIN results : Told(c)

\* The scripts' own runs.
LaneInv ==
    /\ script = "verdict" => suite = patched
    /\ script = "q_conformance" => suite = upstream
    /\ script # "validate" /\ ~Ended => registered = Lanes[lane].saver /\ requested = Lanes[lane].request

EarnInv == WorkInv /\ LaneInv /\ VerdictsAreEarned

LEMMA FaultsGrow == ASSUME Step PROVE faults' = faults \/ faults' = faults + 1
    BY DEF Step, caps_to_test, enter_lifespan, NotAsked, create, Detect, ClausePasses, ClauseFails,
           RunnerRaises, RunnerReturns, Judge, create_finally, enter_lifespan_finally, Fault

LEMMA WorksStays == ASSUME UNCHANGED <<suite, registered>> PROVE Caps' = Caps /\ \A c : Works(c)' <=> Works(c)
    BY DEF Works, Caps

LEMMA ToldStays ==
    ASSUME faults \in Nat, faults' = faults \/ faults' = faults + 1, UNCHANGED <<suite, registered>>,
           NEW c \in DOMAIN results, Told(c), c \in DOMAIN results', results'[c] = results[c]
    PROVE  Told(c)'
<1>1. faults' = 0 => faults = 0
    OBVIOUS
<1>2. Passed(c)' <=> Passed(c)
    BY DEF Passed
<1> QED
    BY <1>1, <1>2, WorksStays DEF Told

\* A capability that is skipped, because nobody asked, or it is not there, or
\* there is no runner.
LEMMA ToldOfSkipped ==
    ASSUME NEW c \in DOMAIN results', NEW d, results'[c] = Result(d, "skipped", Zero), ~d \/ c \notin suite'.runners
    PROVE  Told(c)'
<1>1. results'[c].passed = "skipped" /\ results'[c].detected = d
    BY DEF Result
<1> QED
    BY <1>1 DEF Told, Passed

\* What is reported takes no other's place.
LEMMA OthersTold ==
    ASSUME WorkInv, faults \in Nat, faults' = faults \/ faults' = faults + 1, UNCHANGED <<suite, registered>>,
           NEW x, NEW r, Report(x, r), Told(x)'
    PROVE  \A c \in DOMAIN results' : Told(c)'
<1>1. DOMAIN results' = DOMAIN results \union {x} /\ \A c \in DOMAIN results \ {x} : results'[c] = results[c]
    BY ReportAdds
<1>2. ASSUME NEW c \in DOMAIN results \ {x} PROVE Told(c)'
    BY <1>1, ToldStays DEF WorkInv
<1> QED
    BY <1>1, <1>2

LEMMA AllTold ==
    ASSUME WorkInv, faults \in Nat, faults' = faults \/ faults' = faults + 1, UNCHANGED <<suite, registered>>,
           results' = results
    PROVE  \A c \in DOMAIN results' : Told(c)'
    BY ToldStays DEF WorkInv

\* What is to be shown of a step.
LEMMA WorkGoesOn ==
    ASSUME WorkInv, faults \in Nat, UNCHANGED <<suite, registered, requested>>,
           (faults' = faults /\ raised' = raised) \/ (faults' = faults + 1 /\ (raised' = raised \/ raised' # "value")),
           pc' \in {"run", "judge"} =>
              /\ Works(Cap)' /\ faults' = 0 => counts'.failed = 0
              /\ ~Works(Cap)' => counts'.passed = 0,
           \A c \in DOMAIN results' : Told(c)'
    PROVE  WorkInv'
<1>1. faults' = 0 => faults' = faults /\ raised' = raised
    OBVIOUS
<1>2. faults' = 0 => raised' \in {"none", "value"}
    BY <1>1 DEF WorkInv
<1>3. raised' = "value" => requested' # All /\ ~(requested' \subseteq Caps')
    BY WorksStays DEF WorkInv
<1> QED
    BY <1>2, <1>3 DEF WorkInv, All

LEMMA StepKeepsWork == ASSUME RunInv, WorkInv, Step PROVE WorkInv'
<1>0. /\ UNCHANGED <<suite, registered, requested>>
      /\ faults \in Nat /\ (faults' = faults \/ faults' = faults + 1)
      /\ counts \in [run : Nat, passed : Nat, failed : Nat]
    BY StepKeepsTheSuite, FaultsGrow DEF RunInv, CountInv
<1> PICK x : x = Cap
    OBVIOUS
<1>1. CASE caps_to_test
    <2>1. /\ results' = results /\ faults' = faults /\ pc' \notin {"run", "judge"} /\ raised = "none"
          /\ \/ raised' = raised
             \/ requested # All /\ ~(requested \subseteq Caps) /\ raised' = "value"
        BY <1>1 DEF caps_to_test, RunInv, PhaseInv, Unwinding
    <2>2. \A c \in DOMAIN results' : Told(c)'
        BY <2>1, <1>0, AllTold
    <2>3. faults' = 0 => raised' \in {"none", "value"}
        BY <2>1
    <2>4. raised' = "value" => requested' # All /\ ~(requested' \subseteq Caps')
        BY <2>1, <1>0, WorksStays
    <2> QED BY <2>1, <2>2, <2>3, <2>4 DEF WorkInv, All
<1>2. CASE enter_lifespan
    <2>1. /\ results' = results /\ pc' \notin {"run", "judge"}
          /\ (faults' = faults /\ raised' = raised) \/ (faults' = faults + 1 /\ raised' # "value")
        BY <1>2 DEF enter_lifespan, Fault
    <2> QED BY <2>1, <1>0, AllTold, WorkGoesOn
<1>3. CASE NotAsked
    <2>1. /\ pc' \notin {"run", "judge"}
          /\ \/ faults' = faults /\ raised' = raised /\ Report(x, Result(FALSE, "skipped", Zero))
             \/ faults' = faults + 1 /\ raised' # "value" /\ results' = results
        BY <1>3 DEF NotAsked, Fault
    <2>2. CASE faults' = faults /\ raised' = raised /\ Report(x, Result(FALSE, "skipped", Zero))
        <3>1. x \in DOMAIN results' /\ results'[x] = Result(FALSE, "skipped", Zero)
            BY <2>2, ReportAdds
        <3>2. Told(x)'
            BY <3>1, ToldOfSkipped
        <3>3. \A c \in DOMAIN results' : Told(c)'
            BY <2>2, <3>2, <1>0, OthersTold
        <3> QED BY <3>3, <2>1, <2>2, <1>0, WorkGoesOn
    <2>3. CASE faults' = faults + 1 /\ raised' # "value" /\ results' = results
        BY <2>1, <2>3, <1>0, AllTold, WorkGoesOn
    <2> QED BY <2>1, <2>2, <2>3
<1>4. CASE create
    <2>1. /\ results' = results /\ pc' \notin {"run", "judge"}
          /\ (faults' = faults /\ raised' = raised) \/ (faults' = faults + 1 /\ raised' # "value")
        BY <1>4 DEF create, Fault
    <2> QED BY <2>1, <1>0, AllTold, WorkGoesOn
<1>5. CASE Detect
    <2>1. /\ counts' = counts /\ counts.failed = 0 /\ counts.passed = 0
          /\ pc' \in {"run", "close"}
          /\ (faults' = faults /\ raised' = raised) \/ (faults' = faults + 1 /\ raised' # "value")
        BY <1>5, ZeroCounts DEF Detect, Fault, RunInv, CountInv
    <2>2. \/ \E d \in BOOLEAN : (~d \/ x \notin suite.runners) /\ Report(x, Result(d, "skipped", Zero))
          \/ results' = results
        <3>1. \/ Report(x, Result(FALSE, "skipped", Zero))
              \/ x \notin suite.runners /\ Report(x, Result(TRUE, "skipped", Zero))
              \/ results' = results
            BY <1>5 DEF Detect
        <3> QED BY <3>1
    <2>3. CASE \E d \in BOOLEAN : (~d \/ x \notin suite.runners) /\ Report(x, Result(d, "skipped", Zero))
        <3>1. PICK d \in BOOLEAN : (~d \/ x \notin suite.runners) /\ Report(x, Result(d, "skipped", Zero))
            BY <2>3
        <3>2. x \in DOMAIN results' /\ results'[x] = Result(d, "skipped", Zero)
            <4>1. PICK r : r = Result(d, "skipped", Zero) /\ Report(x, r)
                BY <3>1, Zenon
            <4>2. x \in DOMAIN results' /\ results'[x] = r
                BY <4>1, ReportAdds
            <4> QED BY <4>1, <4>2, Zenon
        <3>3. Told(x)'
            BY <3>1, <3>2, <1>0, ToldOfSkipped
        <3>4. \A c \in DOMAIN results' : Told(c)'
            BY <3>1, <3>3, <1>0, OthersTold
        <3> QED BY <3>4, <2>1, <1>0, WorkGoesOn
    <2>4. CASE results' = results
        BY <2>1, <2>4, <1>0, AllTold, WorkGoesOn
    <2> QED BY <2>2, <2>3, <2>4
<1>6. CASE ClausePasses
    <2>1. /\ pc = "run" /\ Works(x) /\ Cap' = x /\ results' = results /\ raised' = raised
        BY <1>6, <1>0 DEF ClausePasses, Cap
    <2>2. faults' = 0 => faults' = faults /\ counts'.failed = counts.failed
        <3>1. ~(faults' = 0 /\ faults' = faults + 1)
            BY <1>0
        <3>2. \/ counts' = [counts EXCEPT !.run = @ + 1, !.passed = @ + 1] /\ faults' = faults
              \/ faults' = faults + 1
            BY <1>6 DEF ClausePasses
        <3>3. counts' = [counts EXCEPT !.run = @ + 1, !.passed = @ + 1] => counts'.failed = counts.failed
            BY <1>0
        <3> QED BY <3>1, <3>2, <3>3
    <2>3. faults' = 0 => counts'.failed = 0
        BY <2>1, <2>2 DEF WorkInv
    <2>4. Works(Cap)'
        BY <2>1, <1>0, WorksStays DEF Works
    <2>5. \A c \in DOMAIN results' : Told(c)'
        BY <2>1, <1>0, AllTold
    <2> QED BY <2>1, <2>3, <2>4, <2>5, <1>0, WorkGoesOn
<1>7. CASE ClauseFails
    <2>1. /\ pc = "run" /\ Cap' = x /\ results' = results /\ raised' = raised
          /\ faults' = IF Works(x) THEN faults + 1 ELSE faults
          /\ counts' = [counts EXCEPT !.run = @ + 1, !.failed = @ + 1]
        BY <1>7, <1>0 DEF ClauseFails, Cap
    <2>2. ~Works(x) => counts'.passed = 0
        BY <2>1, <1>0 DEF WorkInv
    <2>3. Works(x) => faults' # 0
        BY <2>1, <1>0
    <2>4. Works(Cap)' <=> Works(x)
        BY <2>1, <1>0, WorksStays DEF Works
    <2>5. \A c \in DOMAIN results' : Told(c)'
        BY <2>1, <1>0, AllTold
    <2> QED BY <2>1, <2>2, <2>3, <2>4, <2>5, <1>0, WorkGoesOn
<1>8. CASE RunnerRaises
    <2>1. /\ results' = results /\ pc' \notin {"run", "judge"}
          /\ faults' = faults + 1 /\ raised' # "value"
        BY <1>8 DEF RunnerRaises, Fault
    <2> QED BY <2>1, <1>0, AllTold, WorkGoesOn
<1>9. CASE RunnerReturns
    <2>1. /\ results' = results /\ pc = "run" /\ counts' = counts /\ Cap' = x
          /\ (faults' = faults /\ raised' = raised) \/ (faults' = faults + 1 /\ raised' # "value")
        BY <1>9, <1>0 DEF RunnerReturns, Fault, Cap
    <2>2. Works(Cap)' <=> Works(x)
        BY <2>1, <1>0, WorksStays DEF Works
    <2>3. faults' = 0 => faults = 0
        BY <1>0
    <2>4. /\ Works(Cap)' /\ faults' = 0 => counts'.failed = 0
          /\ ~Works(Cap)' => counts'.passed = 0
        BY <2>1, <2>2, <2>3 DEF WorkInv
    <2>5. \A c \in DOMAIN results' : Told(c)'
        BY <2>1, <1>0, AllTold
    <2> QED BY <2>1, <2>4, <2>5, <1>0, WorkGoesOn
<1>10. CASE Judge
    <2>1. /\ pc = "judge" /\ pc' = "close" /\ faults' = faults /\ raised' = raised
          /\ Report(x, Result(TRUE, IF counts.failed = 0 THEN "passed" ELSE "failed", counts))
        BY <1>10 DEF Judge
    <2>2. PICK r : /\ r = Result(TRUE, IF counts.failed = 0 THEN "passed" ELSE "failed", counts)
                   /\ Report(x, r) /\ x \in DOMAIN results' /\ results'[x] = r
        BY <2>1, ReportAdds
    <2>3. results'[x].passed = IF counts.failed = 0 THEN "passed" ELSE "failed"
        BY <2>2 DEF Result
    <2>4. ~Works(x) => counts.failed # 0
        <3>1. ASSUME ~Works(x), counts.failed = 0 PROVE FALSE
            <4>1. counts.passed = 0
                BY <3>1, <2>1 DEF WorkInv
            <4>2. counts.run = Clauses /\ Clauses \in Nat \ {0} /\ counts.run <= counts.passed + counts.failed
                BY <2>1, ConformanceAssumption DEF RunInv, CountInv
            <4> QED BY <4>1, <4>2, <3>1
        <3> QED BY <3>1
    <2>5. Works(x) /\ faults = 0 => counts.failed = 0
        BY <2>1 DEF WorkInv
    <2>6. Told(x)'
        <3>1. Works(x)' <=> Works(x)
            BY <1>0, WorksStays
        <3> QED BY <2>1, <2>2, <2>3, <2>4, <2>5, <3>1 DEF Told, Passed
    <2>7. \A c \in DOMAIN results' : Told(c)'
        BY <2>2, <2>6, <1>0, OthersTold
    <2> QED BY <2>1, <2>7, <1>0, WorkGoesOn
<1>11. CASE create_finally
    <2>1. /\ results' = results /\ pc' \notin {"run", "judge"}
          /\ (faults' = faults /\ raised' = raised) \/ (faults' = faults + 1 /\ raised' # "value")
        BY <1>11 DEF create_finally, Fault
    <2> QED BY <2>1, <1>0, AllTold, WorkGoesOn
<1>12. CASE enter_lifespan_finally
    <2>1. /\ results' = results /\ pc' \notin {"run", "judge"}
          /\ (faults' = faults /\ raised' = raised) \/ (faults' = faults + 1 /\ raised' # "value")
        BY <1>12 DEF enter_lifespan_finally, Fault
    <2> QED BY <2>1, <1>0, AllTold, WorkGoesOn
<1> QED
    BY <1>1, <1>2, <1>3, <1>4, <1>5, <1>6, <1>7, <1>8, <1>9, <1>10, <1>11, <1>12 DEF Step

LEMMA WorkOfAFreshRun == ASSUME raised = "none", pc = "start", DOMAIN results = {} PROVE WorkInv
    BY DEF WorkInv

LEMMA AnotherWorks == ASSUME NEW l, Fresh(l) PROVE WorkInv'
<1>1. raised' = "none" /\ pc' = "start" /\ DOMAIN results' = {}
    BY DEF Fresh
<1>2. (raised = "none" /\ pc = "start" /\ DOMAIN results = {} => WorkInv)'
    BY WorkOfAFreshRun, PTL
<1> QED
    BY <1>1, <1>2

LEMMA WorkStays == ASSUME RunInv, WorkInv, UNCHANGED vars PROVE WorkInv'
<1>1. UNCHANGED <<suite, registered, requested, pc, counts, results, raised, faults>> /\ Cap' = Cap
    BY DEF vars, Cap
<1>2. faults \in Nat
    BY DEF RunInv, CountInv
<1>3. \A c \in DOMAIN results' : Told(c)'
    BY <1>1, <1>2, AllTold
<1>4. Works(Cap)' <=> Works(Cap)
    BY <1>1 DEF Works
<1> QED
    BY <1>1, <1>2, <1>3, <1>4, WorkGoesOn DEF WorkInv

\* The suites of the two scripts.
LEMMA TheirSuites ==
    /\ WO \in Range(patched.caps) /\ WO \in patched.methods /\ WO \in patched.runners
    /\ Range(upstream.caps) = upstream.runners
<1>1. \A e \in Enums : Range(EnumOf(Range(e))) = Range(e)
    BY DEF EnumOf
<1>2. Range(Append(pristine_Capability, WO)) = Range(pristine_Capability) \union {WO}
    <2> DEFINE S == {"put", "put_writes", "get_tuple", "list", "delete_thread", "delete_for_runs",
                     "copy_thread", "prune", WO}
    <2>1. pristine_Capability \in Seq(S) /\ WO \in S
        BY DEF pristine_Capability
    <2> HIDE DEF S
    <2>2. PICK p : p = pristine_Capability /\ p \in Seq(S)
        BY <2>1
    <2>3. /\ DOMAIN p = 1..Len(p) /\ Len(p) \in Nat
          /\ Append(p, WO) \in Seq(S) /\ Len(Append(p, WO)) = Len(p) + 1
          /\ \A k \in 1..Len(p) : Append(p, WO)[k] = p[k]
          /\ Append(p, WO)[Len(p) + 1] = WO
        BY <2>1, <2>2, AppendProperties, LenProperties
    <2>4. DOMAIN Append(p, WO) = 1..(Len(p) + 1)
        BY <2>3, LenProperties
    <2>5. \A k \in 1..(Len(p) + 1) : k \in 1..Len(p) \/ k = Len(p) + 1
        BY <2>3
    <2>6. Len(p) + 1 \in 1..(Len(p) + 1) /\ 1..Len(p) \subseteq 1..(Len(p) + 1)
        BY <2>3
    <2> QED BY <2>2, <2>3, <2>4, <2>5, <2>6 DEF Range
<1>3. Append(pristine_Capability, WO) \in Enums /\ main_Capability \in Enums
    BY DEF Enums
<1>4. /\ patched.caps = EnumOf(Range(pristine_Capability) \union {WO})
      /\ patched.methods = Range(pristine_Capability) \union {WO}
      /\ patched.runners = Range(pristine_Capability) \union {WO}
    BY DEF patched, SuiteOf, tree, Tree, capabilities_py, validate_py
<1>5. upstream.caps = EnumOf(Range(main_Capability)) /\ upstream.runners = Range(main_Capability)
    BY DEF upstream, SuiteOf, main_base, Tree, capabilities_py, validate_py
<1> QED
    BY <1>1, <1>2, <1>3, <1>4, <1>5

\* The lanes of the two scripts.
LEMMA TheirLanes ==
    /\ script = "verdict" => \A l \in 1..8 :
          Lanes[l].saver.skip = {} /\ (Lanes[l].request = {WO} \/ Lanes[l].request = All)
    /\ script = "q_conformance" => \A l \in 1..3 :
          Lanes[l].saver = [methods |-> Memory, skip |-> {}, broken |-> {}] /\ Lanes[l].request = All
<1>1. ASSUME NEW l \in 1..8
      PROVE  verdict[l].saver.skip = {} /\ (verdict[l].request = {WO} \/ verdict[l].request = All)
    <2>1. l = 1 \/ l = 2 \/ l = 3 \/ l = 4 \/ l = 5 \/ l = 6 \/ l = 7 \/ l = 8
        OBVIOUS
    <2> QED BY <2>1 DEF verdict, Owns, Lane
<1>2. ASSUME NEW l \in 1..3
      PROVE  /\ q_conformance[l].saver = [methods |-> Memory, skip |-> {}, broken |-> {}]
             /\ q_conformance[l].request = All
    <2>1. l = 1 \/ l = 2 \/ l = 3
        OBVIOUS
    <2> QED BY <2>1 DEF q_conformance, Lane
<1> QED
    BY <1>1, <1>2 DEF Lanes

\* What a line says of its lane.
Earned(l, line) ==
    /\ line = "PASS" => Conforms(l)
    /\ line = "NOT DETECTED" => WO \notin Lanes[l].saver.methods
    /\ faults = 0 => line = IF script = "q_conformance" THEN "FULL"
                            ELSE IF Conforms(l) THEN "PASS"
                            ELSE IF WO \in Lanes[l].saver.methods THEN "FAIL" ELSE "NOT DETECTED"

LEMMA EarnedLines == VerdictsAreEarned <=> (script # "validate" => \A l \in DOMAIN verdicts : Earned(l, verdicts[l]))
    BY DEF VerdictsAreEarned, Earned

LEMMA LanesStay == ASSUME script # "validate", script' = script, ScriptInv PROVE Lanes' = Lanes
    BY DEF Lanes, ScriptInv, verdict, q_conformance, Owns, Lane, All, Memory

LEMMA EarnedStays ==
    ASSUME ScriptInv, script # "validate", script' = script, faults \in Nat, faults' = faults \/ faults' = faults + 1,
           NEW l, NEW line, Earned(l, line)
    PROVE  Earned(l, line)'
<1>1. Lanes' = Lanes
    BY LanesStay
<1>2. faults' = 0 => faults = 0
    OBVIOUS
<1>3. Conforms(l)' <=> Conforms(l)
    BY <1>1 DEF Conforms
<1> QED
    BY <1>1, <1>2, <1>3 DEF Earned

\* The lane that runs.
LEMMA AtItsLane ==
    ASSUME IInv, LaneInv, script # "validate", ~Ended
    PROVE  /\ registered = Lanes[lane].saver /\ requested = Lanes[lane].request
           /\ Len(verdicts) = lane - 1 /\ lane \in Nat /\ verdicts \in Seq(Lines)
           /\ script = "verdict" => lane \in 1..8
           /\ script = "q_conformance" => lane \in 1..3
<1>1. registered = Lanes[lane].saver /\ requested = Lanes[lane].request
    BY DEF LaneInv
<1>2. PICK n : n = Len(Lanes)
    OBVIOUS
<1>3. n \in Nat /\ lane \in 1..(n + 1) /\ ~(lane > n)
    BY <1>2, LanesAreFew DEF IInv, ScriptInv, Ended
<1>4. lane \in 1..n
    BY <1>3
<1>5. (script = "verdict" => n = 8) /\ (script = "q_conformance" => n = 3)
    BY <1>2, LanesOf
<1>6. Len(verdicts) = lane - 1 /\ verdicts \in Seq(Lines)
    BY DEF IInv, ScriptInv, Ended, Lines
<1> QED
    BY <1>1, <1>4, <1>5, <1>6

LEMMA IInvTellsTheTruth == ASSUME IInv PROVE ReportIsTruthful
<1>1. SUFFICES ASSUME Returned
               PROVE  /\ DOMAIN results = Caps
                      /\ \A c \in Caps :
                           /\ Passed(c) => /\ c \in used /\ c \notin dirty
                                          /\ results[c].counts = [run |-> Clauses, passed |-> Clauses, failed |-> 0]
                           /\ results[c].detected => c \in registered.methods
                      /\ conformance_level = "FULL" =>
                           /\ \A c \in Caps \intersect suite.methods \intersect registered.methods :
                                  Asked(c) => Passed(c)
                           /\ tally.passed = tally.total
    BY DEF ReportIsTruthful
<1>2. DOMAIN results = Caps
    <2>1. i = Num + 1 /\ Num \in Nat
        BY <1>1 DEF Returned, IInv, RunInv, PhaseInv, SuiteInv
    <2>2. Caps = Range(suite.caps) /\ DOMAIN suite.caps = 1..Num
        BY LenProperties DEF IInv, RunInv, SuiteInv, Caps, Num
    <2>3. \A k \in 1..Num : k < i
        BY <2>1
    <2>4. \A k \in 1..Num : suite.caps[k] \in DOMAIN results
        BY <2>3 DEF IInv, RunInv, EnumInv
    <2>5. \A c \in DOMAIN results : \E k \in 1..Num : suite.caps[k] = c
        BY DEF IInv, RunInv, EnumInv
    <2> QED BY <2>2, <2>4, <2>5 DEF Range
<1>3. \A c \in Caps : EntryInv(c)
    BY <1>2 DEF IInv, RunInv, ReportInv
<1>4. ASSUME conformance_level = "FULL"
      PROVE  /\ \A c \in Caps \intersect suite.methods \intersect registered.methods : Asked(c) => Passed(c)
             /\ tally.passed = tally.total
    <2>1. \A c \in DOMAIN results : results[c].detected => Passed(c)
        BY <1>4 DEF conformance_level, passed_all
    <2>2. ASSUME NEW c \in Caps \intersect suite.methods \intersect registered.methods, Asked(c)
          PROVE  Passed(c)
        <3>1. c \in from_instance
            BY FoundIsDefined
        <3>2. results[c].detected
            BY <1>3, <2>2, <3>1 DEF EntryInv
        <3> QED BY <1>2, <2>1, <3>2
    <2>3. {c \in DOMAIN results : results[c].detected}
            = {c \in {d \in DOMAIN results : results[d].detected} : Passed(c)}
        BY <2>1
    <2>4. tally.passed = tally.total
        BY <2>3 DEF tally
    <2> QED BY <2>2, <2>4
<1> QED BY <1>2, <1>3, <1>4 DEF EntryInv, Full

\* A report that was returned has an entry for every capability.
LEMMA ReturnedOfAll ==
    ASSUME IInv, Returned
    PROVE  DOMAIN results = Caps
<1>1. ReportIsTruthful
    BY IInvTellsTheTruth
<1> QED
    BY <1>1 DEF ReportIsTruthful

LEMMA VerdictIsEarned ==
    ASSUME IInv, WorkInv, LaneInv, script = "verdict", ~Ended, Returned
    PROVE  Earned(lane, _verdict)
<1>1. /\ registered = Lanes[lane].saver /\ requested = Lanes[lane].request /\ lane \in 1..8 /\ suite = patched
    BY AtItsLane DEF LaneInv
<1>2. WO \in Caps /\ WO \in suite.methods /\ WO \in suite.runners
    BY <1>1, TheirSuites DEF Caps
<1>3. Asked(WO)
    BY <1>1, TheirLanes DEF Asked
<1>4. WO \in DOMAIN results
    BY <1>2, ReturnedOfAll
<1>5. EntryInv(WO) /\ Told(WO)
    BY <1>4 DEF IInv, RunInv, ReportInv, WorkInv
<1>6. WO \in registered.methods <=> results[WO].detected
    <2>1. WO \in registered.methods => WO \in from_instance
        BY <1>2, FoundIsDefined
    <2> QED BY <1>3, <1>5, <2>1 DEF EntryInv
<1>7. Conforms(lane) <=> Works(WO)
    BY <1>1 DEF Conforms, Works
<1>8. Works(WO) => WO \in registered.methods
    BY DEF Works
<1>9. CASE ~results[WO].detected
    <2>1. _verdict = "NOT DETECTED"
        BY <1>9 DEF _verdict
    <2> QED BY <1>1, <1>6, <1>7, <1>8, <1>9, <2>1 DEF Earned
<1>10. CASE results[WO].detected
    <2>1. _verdict = IF Passed(WO) THEN "PASS" ELSE IF results[WO].passed = "failed" THEN "FAIL" ELSE "SKIPPED"
        BY <1>10 DEF _verdict
    <2>2. Passed(WO) <=> results[WO].passed = "passed"
        BY <1>4 DEF Passed
    <2>3. Passed(WO) => Works(WO)
        BY <1>5 DEF Told
    <2>4. faults = 0 => results[WO].passed = IF Works(WO) THEN "passed" ELSE "failed"
        BY <1>2, <1>5, <1>10 DEF Told
    <2>5. _verdict # "NOT DETECTED" /\ (_verdict = "PASS" => Conforms(lane))
        BY <2>1, <2>3, <1>7
    <2>6. faults = 0 => _verdict = IF Conforms(lane) THEN "PASS" ELSE "FAIL"
        BY <2>1, <2>2, <2>4, <1>7
    <2> QED BY <1>1, <1>6, <1>10, <2>5, <2>6 DEF Earned
<1> QED
    BY <1>9, <1>10

LEMMA LevelIsEarned ==
    ASSUME IInv, WorkInv, LaneInv, script = "q_conformance", ~Ended, Returned
    PROVE  Earned(lane, _verdict)
<1>1. /\ registered = [methods |-> Memory, skip |-> {}, broken |-> {}]
      /\ Caps = suite.runners
    BY AtItsLane, TheirLanes, TheirSuites DEF LaneInv, Caps
<1>2. _verdict = conformance_level /\ conformance_level \in {"FULL", "BASE+PARTIAL", "BASE", "NONE"}
    BY DEF _verdict, conformance_level
<1>3. ASSUME faults = 0 PROVE conformance_level = "FULL"
    <2>1. ASSUME NEW c \in DOMAIN results, results[c].detected PROVE Passed(c)
        <3>1. c \in registered.methods /\ c \in suite.runners /\ Told(c)
            BY <2>1, <1>1, ReturnedOfAll DEF IInv, RunInv, ReportInv, EntryInv, WorkInv
        <3>2. Works(c)
            BY <3>1, <1>1 DEF Works
        <3> QED BY <3>1, <3>2, <2>1, <1>3 DEF Told, Passed
    <2> QED BY <2>1 DEF conformance_level, passed_all
<1> QED
    BY <1>2, <1>3 DEF Earned

\* A lane that blew up did so by accident: nothing it asks for is unknown.
LEMMA BlewUpByAccident ==
    ASSUME IInv, WorkInv, LaneInv, script = "q_conformance", ~Ended, raised # "none"
    PROVE  Earned(lane, "BLEW UP")
<1>1. requested = All
    BY AtItsLane, TheirLanes
<1>2. faults # 0
    BY <1>1 DEF WorkInv
<1> QED
    BY <1>2 DEF Earned

\* One more line.
LEMMA OneMoreLine ==
    ASSUME IInv, LaneInv, VerdictsAreEarned, script # "validate", script' = script, ~Ended,
           faults' = faults, NEW line \in Lines, Earned(lane, line), verdicts' = Append(verdicts, line)
    PROVE  VerdictsAreEarned'
<1>1. Len(verdicts) = lane - 1 /\ lane \in Nat /\ verdicts \in Seq(Lines) /\ faults \in Nat /\ ScriptInv
    BY AtItsLane DEF IInv, RunInv, CountInv
<1>2. /\ verdicts' \in Seq(Lines) /\ Len(verdicts') = Len(verdicts) + 1
      /\ \A l \in 1..Len(verdicts) : verdicts'[l] = verdicts[l]
      /\ verdicts'[Len(verdicts) + 1] = line
    BY <1>1, AppendProperties
<1>3. DOMAIN verdicts' = 1..Len(verdicts') /\ DOMAIN verdicts = 1..Len(verdicts) /\ Len(verdicts) \in Nat
    BY <1>1, <1>2, LenProperties
<1>4. ASSUME NEW l \in DOMAIN verdicts' PROVE Earned(l, verdicts'[l])
    <2>1. l \in 1..Len(verdicts) \/ (l = Len(verdicts) + 1 /\ l = lane)
        BY <1>1, <1>2, <1>3
    <2>2. CASE l \in 1..Len(verdicts)
        BY <2>2, <1>2, <1>3, EarnedLines
    <2>3. CASE l = Len(verdicts) + 1 /\ l = lane
        BY <2>3, <1>2
    <2> QED BY <2>1, <2>2, <2>3
<1>5. ASSUME NEW l \in DOMAIN verdicts', NEW v, v = verdicts'[l] PROVE Earned(l, v)'
    BY <1>1, <1>4, <1>5, EarnedStays
<1>6. (script # "validate" => \A l \in DOMAIN verdicts : Earned(l, verdicts[l]))'
    BY <1>5
<1>7. (VerdictsAreEarned <=> (script # "validate" => \A l \in DOMAIN verdicts : Earned(l, verdicts[l])))'
    BY EarnedLines, PTL
<1> QED
    BY <1>6, <1>7

\* Where no line is printed.
LEMMA NoMoreLines ==
    ASSUME IInv, VerdictsAreEarned, UNCHANGED <<script, verdicts>>, faults' = faults \/ faults' = faults + 1
    PROVE  VerdictsAreEarned'
<1>1. faults \in Nat /\ ScriptInv
    BY DEF IInv, RunInv, CountInv
<1>2. ASSUME script # "validate", NEW l \in DOMAIN verdicts, NEW v, v = verdicts[l] PROVE Earned(l, v)'
    BY <1>1, <1>2, EarnedLines, EarnedStays
<1>3. (script # "validate" => \A l \in DOMAIN verdicts : Earned(l, verdicts[l]))'
    BY <1>2
<1>4. (VerdictsAreEarned <=> (script # "validate" => \A l \in DOMAIN verdicts : Earned(l, verdicts[l])))'
    BY EarnedLines, PTL
<1> QED
    BY <1>3, <1>4

\* The next lane is the script's.
LEMMA LaneGoes ==
    ASSUME IInv, LaneInv, Goes, script' = script, ~Ended
    PROVE  LaneInv'
<1>1. suite' = suite
    BY DEF Goes, Fresh, vars
<1>2. ASSUME script # "validate", ~Ended' PROVE registered' = Lanes'[lane'].saver /\ requested' = Lanes'[lane'].request
    <2>1. Lanes' = Lanes /\ Len(Lanes)' = Len(Lanes)
        BY <1>2, LanesStay, NoLaneComes DEF IInv
    <2>2. lane' = lane + 1 /\ ~(lane' > Len(Lanes))
        BY <1>2, <2>1 DEF Goes, Ended
    <2>3. PICK n : n = Len(Lanes) /\ n \in Nat
        BY LanesAreFew DEF IInv
    <2>4. lane \in Nat
        BY <1>2, AtItsLane
    <2>5. lane < Len(Lanes)
        BY <2>2, <2>3, <2>4
    <2> QED BY <2>1, <2>2, <2>5 DEF Goes, Fresh
<1> QED
    BY <1>1, <1>2 DEF LaneInv

LEMMA LaneStays ==
    ASSUME IInv, LaneInv, UNCHANGED <<suite, registered, requested, script>>, lane' = lane \/ Ended'
    PROVE  LaneInv'
<1>1. script # "validate" => Lanes' = Lanes /\ Len(Lanes)' = Len(Lanes)
    BY LanesStay, NoLaneComes DEF IInv
<1> QED
    BY <1>1 DEF LaneInv, Ended

LEMMA EarnedAtTheStart == ASSUME sInit PROVE EarnInv
<1>1. WorkInv
    BY WorkOfAFreshRun DEF sInit, Init
<1>2. LaneInv
    BY DEF sInit, LaneInv
<1>3. VerdictsAreEarned
    <2>1. verdicts = <<>> /\ DOMAIN <<>> = {}
        BY DEF sInit
    <2> QED BY <2>1, EarnedLines
<1> QED
    BY <1>1, <1>2, <1>3 DEF EarnInv

LEMMA EveryLineIsEarned == ASSUME IInv, EarnInv, [sNext]_allVars PROVE EarnInv'
<1>1. CASE Validate
    <2>1. Step /\ UNCHANGED scriptVars
        BY <1>1 DEF Validate
    <2>2. WorkInv'
        BY <2>1, StepKeepsWork DEF IInv, EarnInv
    <2>3. LaneInv'
        BY <2>1, StepKeepsTheSuite, LaneStays DEF EarnInv, scriptVars
    <2>4. VerdictsAreEarned'
        BY <2>1, FaultsGrow, NoMoreLines DEF EarnInv, scriptVars
    <2> QED BY <2>2, <2>3, <2>4 DEF EarnInv
<1>2. CASE Prints \/ (Raised /\ Caught(raised))
    <2>1. PICK line : /\ line = (IF raised = "none" THEN _verdict ELSE "BLEW UP")
                      /\ line \in Lines /\ verdicts' = Append(verdicts, line)
                      /\ ~Ended /\ Goes /\ script' = script
                      /\ script \in {"verdict", "q_conformance", "validate"}
                      /\ raised = "none" => Returned
                      /\ raised # "none" => script = "q_conformance"
        <3>1. "BLEW UP" \in Lines
            BY DEF Lines
        <3>2. CASE Prints
            BY <3>2, LineIsOne DEF Prints, Returned, IInv, ScriptInv
        <3>3. CASE Raised /\ Caught(raised)
            BY <3>1, <3>3 DEF Raised, Caught, IInv, ScriptInv
        <3> QED BY <1>2, <3>2, <3>3
    <2>2. script # "validate" => Earned(lane, line)
        BY <2>1, VerdictIsEarned, LevelIsEarned, BlewUpByAccident DEF EarnInv
    <2>3. WorkInv'
        BY <2>1, AnotherWorks, WorkStays DEF Goes, IInv, EarnInv
    <2>4. LaneInv'
        BY <2>1, LaneGoes DEF EarnInv
    <2>5. faults' = faults
        BY <2>1 DEF Goes, Fresh, vars
    <2>6. VerdictsAreEarned'
        <3>1. CASE script = "validate"
            BY <3>1, <2>1 DEF VerdictsAreEarned
        <3>2. CASE script # "validate"
            BY <3>2, <2>1, <2>2, <2>5, OneMoreLine DEF EarnInv
        <3> QED BY <3>1, <3>2
    <2> QED BY <2>3, <2>4, <2>6 DEF EarnInv
<1>3. CASE (Raised /\ Leaves) \/ SkipsPostgres
    <2>1. UNCHANGED vars /\ UNCHANGED <<script, verdicts>> /\ lane' = Len(Lanes) + 1
        BY <1>3 DEF Raised, Leaves, SkipsPostgres
    <2>2. UNCHANGED <<suite, registered, requested, faults>>
        BY <2>1 DEF vars
    <2>3. Ended'
        <3>1. PICK n : n = Len(Lanes) /\ n \in Nat /\ Len(Lanes)' = n
            BY <2>1, LanesAreFew, NoLaneComes DEF IInv
        <3>2. n + 1 > n
            BY <3>1
        <3> QED BY <2>1, <3>1, <3>2 DEF Ended
    <2> QED BY <2>1, <2>2, <2>3, WorkStays, LaneStays, NoMoreLines DEF EarnInv, IInv
<1>4. CASE sDone \/ UNCHANGED allVars
    <2>1. UNCHANGED vars /\ UNCHANGED <<script, verdicts, lane>>
        BY <1>4 DEF sDone, allVars, scriptVars
    <2>2. UNCHANGED <<suite, registered, requested, faults>>
        BY <2>1 DEF vars
    <2> QED BY <2>1, <2>2, WorkStays, LaneStays, NoMoreLines DEF EarnInv, IInv
<1> QED
    BY <1>1, <1>2, <1>3, <1>4 DEF sNext, ScriptStep, Raised

-----------------------------------------------------------------------------
(* The theorems.                                                            *)

\* The inductive invariant holds of both scripts and of anybody's run.
THEOREM Invariance == sSpec => []IInv
<1>1. sInit => IInv
    BY AtTheStart
<1>2. IInv /\ [sNext]_allVars => IInv'
    BY EveryStepKeepsIt
<1> QED
    BY <1>1, <1>2, PTL DEF sSpec

\* Every validation run, in whatever lane and however it ends, makes and drops
\* its checkpointers inside the lifespan, closes what it opened and ends what it
\* announced.
THEOREM RunsAreTidy == sSpec => []Inv
<1>1. ASSUME IInv PROVE Inv
    <2>1. TypeOK
        <3>1. Caps = Range(suite.caps) /\ DOMAIN suite.caps = 1..Num
            BY <1>1, LenProperties DEF IInv, RunInv, SuiteInv, Caps, Num
        <3>2. DOMAIN results \subseteq Caps
            BY <1>1, <3>1 DEF IInv, RunInv, EnumInv, Range
        <3>3. PICK c : c = counts.passed + counts.failed /\ counts.run <= c /\ c <= counts.run + faults
            BY <1>1 DEF IInv, RunInv, CountInv
        <3>4. counts.run \in Nat /\ counts.run <= Clauses /\ faults \in Nat /\ c \in Nat
            BY <1>1, <3>3 DEF IInv, RunInv, CountInv
        <3>5. counts.run \in 0..Clauses /\ c \in counts.run..(counts.run + faults)
            BY <3>3, <3>4, ConformanceAssumption
        <3>6. PhaseInv /\ OpenInv /\ (pc = "detect" => counts = Zero)
            BY <1>1 DEF IInv, RunInv, CountInv
        <3> QED BY <3>2, <3>3, <3>5, <3>6 DEF TypeOK, PhaseInv, OpenInv, Num
    <2>2. sTypeOK
        BY <1>1, <2>1 DEF sTypeOK, IInv, ScriptInv
    <2>3. SaversInsideLifespan /\ NothingLeftOpen
        BY <1>1 DEF IInv, RunInv, OpenInv, Holding, SaversInsideLifespan, NothingLeftOpen
    <2>4. ProgressIsClosed
        BY <1>1 DEF IInv, RunInv, OpenInv, PhaseInv, Unwinding, ProgressIsClosed, Returned
    <2> QED BY <2>2, <2>3, <2>4 DEF Inv
<1> QED
    BY <1>1, Invariance, PTL

\* A report that is returned tells the truth of any saver: what it calls passed
\* has run all of its clauses and none failed, what it calls detected the saver
\* defines, and FULL leaves out nothing that was asked for, in a tree that was
\* patched half-way too.
THEOREM ReportsTellTheTruth == sSpec => []ReportIsTruthful
<1>1. IInv => ReportIsTruthful
    BY IInvTellsTheTruth
<1> QED
    BY <1>1, Invariance, PTL

\* verdict.py has the class out during its last lane and at no other time: however
\* that lane ends, the class is back.
THEOREM TheClassIsBack == sSpec => []FenceIsRestored
<1>1. IInv => FenceIsRestored
    BY DEF IInv, ScriptInv, FenceIsRestored
<1> QED
    BY <1>1, Invariance, PTL

\* A script that was not left by an exception has said something of every lane,
\* or of every lane of the half there was a database for.
THEOREM NoLaneIsHidden == sSpec => []EveryLaneSpeaks
<1>1. ASSUME IInv PROVE EveryLaneSpeaks
    <2>1. SUFFICES ASSUME Ended, ~left, Len(verdicts) = lane - 1
                   PROVE  Len(verdicts) = Len(Lanes)
        BY <1>1 DEF EveryLaneSpeaks, IInv, ScriptInv
    <2>2. Len(Lanes) \in Nat
        BY <1>1, LanesAreFew DEF IInv
    <2>3. lane = Len(Lanes) + 1
        <3>1. lane \in 1..(Len(Lanes) + 1) /\ lane > Len(Lanes)
            BY <1>1, <2>1 DEF IInv, ScriptInv, Ended
        <3> QED BY <2>2, <3>1
    <2> QED BY <2>1, <2>2, <2>3
<1> QED
    BY <1>1, Invariance, PTL

\* What the two scripts print is earned, for any number of clauses and wherever a
\* run raises: PASS is printed of the savers of verdict.py that conform and of no
\* other, NOT DETECTED of those that lack the method, FULL of what q_conformance.py
\* runs; and where nothing failed by accident the line is the one expected.
THEOREM LinesAreEarned == sSpec => []VerdictsAreEarned
<1>1. sInit => EarnInv
    BY EarnedAtTheStart
<1>2. IInv /\ EarnInv /\ [sNext]_allVars => EarnInv'
    BY EveryLineIsEarned
<1>3. EarnInv => VerdictsAreEarned
    BY DEF EarnInv
<1> QED
    BY <1>1, <1>2, <1>3, Invariance, PTL DEF sSpec
=============================================================================
