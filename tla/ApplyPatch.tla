----------------------------- MODULE ApplyPatch -----------------------------
(***************************************************************************)
(* The patch installer, apply.py: three files copied, four patched, one    *)
(* after the other and none of them atomically, into a tree that upstream  *)
(* goes on changing between the runs.                                      *)
(***************************************************************************)
EXTENDS SuiteTree

CONSTANTS
    Bases,      \* trees the first run may be started on
    Hiddens,    \* sets of <<file, block>> that the patterns may fail to find
    MaxRuns,    \* bound on the runs of the script
    MaxRebases  \* bound on upstream's changes

\* A tree of upstream's: the same files and blocks, and no name of the patch.
ASSUME ApplyAssumption ==
    /\ \A t \in Bases :
         /\ t = [f \in Files |-> [b \in DOMAIN pristine[f] |-> t[f][b]]]
         /\ \A f \in Files : \A b \in DOMAIN t[f] : WO \notin t[f][b]
    /\ MaxRuns \in Nat /\ MaxRebases \in Nat

VARIABLES
    files,    \* the four patched files
    copies,   \* the three copied ones: "absent", "torn" or "whole"
    pc,       \* the place in main
    pending,  \* what write_text is about to write, Torn between the writes
    outcome,  \* "idle", "running", "applied", "raised" or "killed"
    hidden,   \* blocks upstream writes in a way the patterns do not find
    base,     \* history: upstream's content of each file
    dropped,  \* history: <<file, block>> that lost the patch's entry since it was written
    settled,  \* history: has a run been through since the last rebase?
    runs, rebases

vars == <<files, copies, pc, pending, outcome, hidden, base, dropped, settled, runs, rebases>>

Copies == {"ownership", "spec", "tests"}
CopyOrder == <<"ownership", "spec", "tests">>
\* Mutant: the runner is registered before the capability.
PatchOrder_Swapped == <<"validate", "capabilities", "spec_init", "package_init">>
PatchOrder == <<"capabilities", "validate", "spec_init", "package_init">>

TypeOK ==
    /\ \A f \in Files : files[f] = Torn \/ DOMAIN files[f] = DOMAIN base[f]
    /\ copies \in [Copies -> {"absent", "torn", "whole"}]
    /\ pc \in 1..8
    /\ outcome \in {"idle", "running", "applied", "raised", "killed"}
    /\ \A d \in dropped : \E f \in Files : \E b \in DOMAIN base[f] : d = <<f, b>>
    /\ settled \in BOOLEAN /\ runs \in 0..MaxRuns /\ rebases \in 0..MaxRebases

Init ==
    /\ base \in Bases /\ files = base /\ hidden \in Hiddens
    /\ copies = [c \in Copies |-> "absent"]
    /\ pc = 1 /\ pending = Torn /\ outcome = "idle" /\ dropped = {}
    /\ settled = FALSE /\ runs = 0 /\ rebases = 0

-----------------------------------------------------------------------------
Start ==
    /\ outcome # "running" /\ runs < MaxRuns
    /\ outcome' = "running" /\ pc' = 1 /\ runs' = runs + 1
    /\ UNCHANGED <<files, copies, pending, hidden, base, dropped, settled, rebases>>

\* shutil.copyfile: the destination is opened, and so emptied, then written.
CopyOpens ==
    /\ outcome = "running" /\ pc <= 3 /\ copies[CopyOrder[pc]] # "torn"
    /\ copies' = [copies EXCEPT ![CopyOrder[pc]] = "torn"]
    /\ UNCHANGED <<files, pc, pending, outcome, hidden, base, dropped, settled, runs, rebases>>

CopyEnds ==
    /\ outcome = "running" /\ pc <= 3 /\ copies[CopyOrder[pc]] = "torn"
    /\ copies' = [copies EXCEPT ![CopyOrder[pc]] = "whole"]
    /\ pc' = pc + 1
    /\ UNCHANGED <<files, pending, outcome, hidden, base, dropped, settled, runs, rebases>>

\* The file to patch, and whether a name of the patch occurs anywhere in it.
Subject == PatchOrder[pc - 3]
\* Mutant: a file is patched again.
Marked_Never(s) == FALSE
Marked(s) == \E b \in DOMAIN s : WO \in s[b]

\* The blocks that must be found; the package's import line is only replaced.
Required(f) == {b \in DOMAIN base[f] : ~(f = "package_init" /\ b = "imports")}

\* A block that is not found, and is not missed.
Unmatched == {h \in hidden : h = <<"package_init", "imports">>}

\* Mutant: the file is taken from tree/, as verdict.py overlays it.
_append_to_block_Overlay(f) == tree[f]
_append_to_block(f) ==
    [b \in DOMAIN files[f] |-> IF <<f, b>> \in hidden THEN files[f][b] ELSE files[f][b] \union {WO}]

Skips ==
    /\ outcome = "running" /\ pc \in 4..7 /\ pending = Torn
    /\ Marked(files[Subject])
    /\ pc' = pc + 1
    /\ UNCHANGED <<files, copies, pending, outcome, hidden, base, dropped, settled, runs, rebases>>

\* Mutant: what can be found is patched.
Locates_Any(f) == files[f] # Torn
Locates(f) == files[f] # Torn /\ \A b \in Required(f) : <<f, b>> \notin hidden

\* SystemExit, or the ValueError of an end that is not found.
Raises ==
    /\ outcome = "running" /\ pc \in 4..7 /\ pending = Torn
    /\ ~Marked(files[Subject]) /\ ~Locates(Subject)
    /\ outcome' = "raised"
    /\ UNCHANGED <<files, copies, pc, pending, hidden, base, dropped, settled, runs, rebases>>

WriteOpens ==
    /\ outcome = "running" /\ pc \in 4..7 /\ pending = Torn
    /\ ~Marked(files[Subject]) /\ Locates(Subject)
    /\ pending' = _append_to_block(Subject)
    /\ files' = [files EXCEPT ![Subject] = Torn]
    /\ dropped' = {d \in dropped : d[1] # Subject}
    /\ UNCHANGED <<copies, pc, outcome, hidden, base, settled, runs, rebases>>

WriteEnds ==
    /\ outcome = "running" /\ pc \in 4..7 /\ pending # Torn
    /\ files' = [files EXCEPT ![Subject] = pending]
    /\ pending' = Torn
    /\ pc' = pc + 1
    /\ UNCHANGED <<copies, outcome, hidden, base, dropped, settled, runs, rebases>>

Finishes ==
    /\ outcome = "running" /\ pc = 8
    /\ outcome' = "applied" /\ settled' = TRUE
    /\ UNCHANGED <<files, copies, pc, pending, hidden, base, dropped, runs, rebases>>

\* The process is killed; a file it had opened stays empty.
Killed ==
    /\ outcome = "running"
    /\ outcome' = "killed" /\ pending' = Torn
    /\ UNCHANGED <<files, copies, pc, hidden, base, dropped, settled, runs, rebases>>

-----------------------------------------------------------------------------
(* Between two runs: git, and the people who use it (outside src/).         *)

\* A file is checked out of upstream, at either of its revisions.
Checkout(f, t) ==
    /\ outcome # "running" /\ rebases < MaxRebases
    /\ \A g \in Files \ {f} : base[g] = t[g]
    /\ files' = [files EXCEPT ![f] = t[f]]
    /\ base' = [base EXCEPT ![f] = t[f]]
    /\ dropped' = {d \in dropped : d[1] # f}
    /\ settled' = FALSE /\ rebases' = rebases + 1
    /\ UNCHANGED <<copies, pc, pending, outcome, hidden, runs>>

\* The patched tree is rebased onto main and the conflicts are resolved well.
Rebase ==
    /\ outcome = "applied" /\ settled /\ rebases < MaxRebases
    /\ base = pristine
    /\ base' = main_base
    /\ files' = [f \in Files |-> [b \in DOMAIN files[f] |-> files[f][b] \union main_base[f][b]]]
    /\ settled' = FALSE /\ rebases' = rebases + 1
    /\ UNCHANGED <<copies, pc, pending, outcome, hidden, dropped, runs>>

\* "a hand resolution silently drops an entry"
Drop(f, b) ==
    /\ outcome = "applied" /\ settled /\ rebases < MaxRebases
    /\ WO \in files[f][b]
    /\ files' = [files EXCEPT ![f][b] = @ \ {WO}]
    /\ dropped' = dropped \union {<<f, b>>}
    /\ settled' = FALSE /\ rebases' = rebases + 1
    /\ UNCHANGED <<copies, pc, pending, outcome, hidden, base, runs>>

Done == outcome # "running" /\ UNCHANGED vars

Next ==
    \/ Start \/ CopyOpens \/ CopyEnds \/ Skips \/ Raises \/ WriteOpens \/ WriteEnds \/ Finishes \/ Killed
    \/ \E f \in Files, t \in {pristine, main_base} : Checkout(f, t)
    \/ Rebase
    \/ \E f \in Files : \E b \in DOMAIN files[f] : Drop(f, b)
    \/ Done

Spec == Init /\ [][Next]_vars

-----------------------------------------------------------------------------
\* "applied" is printed of a tree that has the whole capability, however many
\* runs before were killed or raised half-way, and of none with a file cut short.
\* Two losses go unnoticed: an entry that a conflict's resolution dropped while
\* another of the file stayed, and an import line no pattern matches.
AppliedIsWhole ==
    outcome = "applied" /\ settled =>
        /\ \A c \in Copies : copies[c] = "whole"
        /\ \A f \in Files :
             /\ DOMAIN files[f] = DOMAIN base[f] /\ WO \in UNION Range(files[f])
             /\ \A b \in DOMAIN base[f] :
                    files[f][b] = base[f][b] \union (IF <<f, b>> \in dropped \union Unmatched THEN {} ELSE {WO})

\* No capability of upstream's is lost, at any point of any run.
UpstreamIsKept == \A f \in Files : files[f] # Torn => \A b \in DOMAIN base[f] : base[f][b] \subseteq files[f][b]

Inv == TypeOK /\ UpstreamIsKept

\* The order of the files: while upstream stands still, a tree with no file cut
\* short imports at every point of every run, and the suite it makes is one of
\* those the runner is checked with.
HalfwayImports ==
    (rebases = 0 \/ settled) /\ dropped = {} /\ (\A f \in Files : files[f] # Torn) /\ (\A c \in Copies : copies[c] # "torn")
        => /\ Imports(files, copies["ownership"] = "whole", copies["spec"] = "whole")
           /\ SuiteOf(files) \in SuitesMade

\* "running twice is a no-op": once a run has been through, no later run writes
\* a patched file until upstream changes.
RerunIsNoop == [][settled /\ settled' => UNCHANGED files]_vars
=============================================================================
