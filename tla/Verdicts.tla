------------------------------ MODULE Verdicts ------------------------------
(***************************************************************************)
(* The two scripts that run the suite lane by lane and print what it says: *)
(* verdict.py, which stops at the first exception and swaps a class for    *)
(* its last lane, and spike/q_conformance.py, which catches Exception      *)
(* around every lane.  A lane is one validation run of Conformance.  A     *)
(* third "script" is a single validate() of any saver, in any suite.       *)
(***************************************************************************)
EXTENDS Conformance

VARIABLES
    script,   \* "verdict", "q_conformance" or "validate"
    lane,     \* the lane that runs; one more than there are when the script has ended
    verdicts, \* what was printed, lane by lane
    fence,    \* verdict.py: is mod.FencedAsyncPostgresSaver the original?
    left      \* did an exception leave the script?

scriptVars == <<script, lane, verdicts, fence, left>>
allVars == <<vars, scriptVars>>

Memory == BASE_CAPABILITIES \union {"delta_channel_history"}
Lane(methods, broken, request, half) ==
    [saver |-> [methods |-> methods, skip |-> {}, broken |-> broken], request |-> request, half |-> half]
Owns(broken, half) == Lane(Memory \union {WO}, broken, {WO}, half)

\* Reference, hostile, silent, deferred; plain, of which the whole suite is asked;
\* then the fenced saver, the published one advertising, and the fence removed.
verdict ==
    << Owns({}, "memory"), Owns({WO}, "memory"), Owns({WO}, "memory"), Owns({}, "memory"),
       Lane(Memory, {}, All, "memory"),
       Owns({}, "postgres"), Owns({WO}, "postgres"), Owns({WO}, "postgres") >>
FenceRemoved == 8

\* run_memory, run_postgres, run_hostile
q_conformance == << Lane(Memory, {}, All, "memory"), Lane(Memory, {}, All, "postgres"), Lane(Memory, {}, All, "memory") >>

\* Anybody's call.
validate == << [saver |-> registered, request |-> requested] >>

Lanes == CASE script = "verdict" -> verdict [] script = "q_conformance" -> q_conformance [] OTHER -> validate
Ended == lane > Len(Lanes)

\* A new validation run.
Fresh(l) ==
    /\ registered' = Lanes[l].saver /\ requested' = Lanes[l].request
    /\ pc' = "start" /\ i' = 1
    /\ lifespan' = "none" /\ saver' = "none"
    /\ counts' = Zero /\ results' = [c \in {} |-> Result(FALSE, "skipped", Zero)]
    /\ shown' = "none" /\ raised' = "none"
    /\ dirty' = {} /\ used' = {}
    /\ UNCHANGED <<suite, faults>>

sTypeOK ==
    /\ TypeOK
    /\ lane \in 1..(Len(Lanes) + 1)
    /\ Len(verdicts) <= lane - 1
    /\ fence \in {"original", "removed"} /\ left \in BOOLEAN

sInit ==
    /\ Init
    /\ script \in {"verdict", "q_conformance", "validate"}
    /\ script = "verdict" => suite = patched
    /\ script = "q_conformance" => suite = upstream
    /\ lane = 1 /\ registered = Lanes[1].saver /\ requested = Lanes[1].request
    /\ verdicts = <<>> /\ fence = "original" /\ left = FALSE

\* Mutant: the level of the run is taken for the capability's result.
_verdict_Level == IF script # "verdict" THEN conformance_level ELSE IF passed_all THEN "PASS" ELSE "FAIL"

\* _verdict, of the capability; the other callers print the level.
_verdict ==
    IF script # "verdict" THEN conformance_level
    ELSE IF ~results[WO].detected THEN "NOT DETECTED"
    ELSE IF Passed(WO) THEN "PASS" ELSE IF results[WO].passed = "failed" THEN "FAIL" ELSE "SKIPPED"

Validate == ~Ended /\ Step /\ UNCHANGED scriptVars

\* The next lane, before which verdict.py takes the class out for its last one.
Goes ==
    /\ lane' = lane + 1
    /\ fence' = IF script = "verdict" /\ lane' = FenceRemoved THEN "removed" ELSE "original"
    /\ IF lane < Len(Lanes) THEN Fresh(lane + 1) ELSE UNCHANGED vars

Prints ==
    /\ ~Ended /\ Returned
    /\ verdicts' = Append(verdicts, _verdict)
    /\ Goes
    /\ UNCHANGED <<script, left>>

\* Mutant: nothing is printed.
Caught_Silent(what) ==
    /\ script = "q_conformance" /\ what # "clause"
    /\ Goes
    /\ UNCHANGED <<script, verdicts, left>>

\* "BLEW UP": except Exception, which a cancellation is not.
Caught(what) ==
    /\ script = "q_conformance" /\ what # "clause"
    /\ verdicts' = Append(verdicts, "BLEW UP")
    /\ Goes
    /\ UNCHANGED <<script, left>>

\* Mutant: the class is put back when the lane returns only.
Leaves_Swapped ==
    /\ lane' = Len(Lanes) + 1 /\ left' = TRUE
    /\ UNCHANGED <<vars, script, verdicts, fence>>

\* The exception leaves the script, past the finally that restores the class.
Leaves ==
    /\ lane' = Len(Lanes) + 1 /\ left' = TRUE
    /\ fence' = "original"
    /\ UNCHANGED <<vars, script, verdicts>>

Raised ==
    /\ ~Ended /\ pc = "done" /\ raised # "none"
    /\ Caught(raised) \/ ((script # "q_conformance" \/ raised = "clause") /\ Leaves)

\* durable_agents cannot be imported, or there is no database: the half is skipped.
SkipsPostgres ==
    /\ script = "verdict" /\ ~Ended /\ pc = "start" /\ lane = 6
    /\ lane' = Len(Lanes) + 1
    /\ UNCHANGED <<vars, script, verdicts, fence, left>>

sDone == Ended /\ UNCHANGED allVars

ScriptStep == Validate \/ Prints \/ Raised \/ SkipsPostgres

sNext == ScriptStep \/ sDone

sSpec == sInit /\ [][sNext]_allVars

-----------------------------------------------------------------------------
Conforms(l) == WO \in Lanes[l].saver.methods \ Lanes[l].saver.broken

\* Types, and of every run in every lane: checkpointers live inside the lifespan,
\* nothing stays open when it ends, and its output is closed.
Inv == sTypeOK /\ SaversInsideLifespan /\ NothingLeftOpen /\ ProgressIsClosed

\* The class is out during the last lane and at no other time, and in particular
\* not after the script, however the lane ended.
FenceIsRestored == fence = "removed" => lane = FenceRemoved

\* PASS is printed of savers that conform and FULL of ones that keep the base; and
\* when nothing raised or failed by accident every line is what is expected.
VerdictsAreEarned ==
    script # "validate" => \A l \in DOMAIN verdicts :
        /\ verdicts[l] = "PASS" => Conforms(l)
        /\ verdicts[l] = "NOT DETECTED" => WO \notin Lanes[l].saver.methods
        /\ faults = 0 => verdicts[l] = IF script = "q_conformance" THEN "FULL"
                                       ELSE IF Conforms(l) THEN "PASS"
                                       ELSE IF WO \in Lanes[l].saver.methods THEN "FAIL" ELSE "NOT DETECTED"

\* A lane that failed does not hide the later ones: a script that was not left has
\* a line for every lane, or verdict.py for every lane of the first half.
EveryLaneSpeaks ==
    Ended /\ ~left => Len(verdicts) = Len(Lanes) \/ (script = "verdict" /\ Len(verdicts) = 5)

=============================================================================
