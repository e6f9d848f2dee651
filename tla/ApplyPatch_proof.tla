--------------------------- MODULE ApplyPatch_proof ---------------------------
(***************************************************************************)
(* Proofs about ApplyPatch, for any number of runs and of upstream's       *)
(* changes, whatever blocks the patterns miss, and on any tree of          *)
(* upstream's.                                                             *)
(*                                                                         *)
(* The argument: a file is upstream's, or patched, or open, and an open    *)
(* file is found again torn or with its marker in place.  A marker is set  *)
(* with all the blocks of a file at once, so where the marker is, a name   *)
(* can be missing only where a later resolution dropped it or where its    *)
(* pattern never matched; a run goes past a file only with its marker set. *)
(***************************************************************************)
EXTENDS ApplyPatch, SequenceTheorems, TLAPS

Blocks(f) == DOMAIN pristine[f]

\* A file of the right blocks, which is more than that it has such a domain.
IsFile(f, s) == s = [b \in Blocks(f) |-> s[b]]

\* The inductive invariant.  Each file is upstream's, with or without the name;
\* once the name is anywhere in it, it is missing only where it was lost.
IsUpstream(f) == IsFile(f, base[f]) /\ \A b \in Blocks(f) : WO \notin base[f][b]

IsPatched(f) ==
    files[f] # Torn =>
        /\ IsFile(f, files[f])
        /\ \A b \in Blocks(f) : files[f][b] = base[f][b] \/ files[f][b] = base[f][b] \union {WO}

IsMarked(f) ==
    Marked(files[f]) => \A b \in Blocks(f) : WO \in files[f][b] <=> <<f, b>> \notin dropped \union Unmatched

FileInv(f) == IsUpstream(f) /\ IsPatched(f) /\ IsMarked(f)

FilesInv ==
    /\ base = [f \in Files |-> base[f]] /\ files = [f \in Files |-> files[f]]
    /\ \A f \in Files : FileInv(f)

\* A write under way is of the file that is open, and patches all of it.
PendingInv ==
    pending # Torn =>
        /\ outcome = "running" /\ pc \in 4..7
        /\ files[Subject] = Torn
        /\ pending = [b \in Blocks(Subject) |->
                         base[Subject][b] \union (IF <<Subject, b>> \in Unmatched THEN {} ELSE {WO})]
        /\ \A d \in dropped : d[1] # Subject

\* What a run has been through is done.
CopiesDone ==
    /\ outcome = "running" => \A j \in 1..3 : j < pc => copies[CopyOrder[j]] = "whole"
    /\ outcome = "applied" => \A c \in Copies : copies[c] = "whole"

PatchesDone ==
    /\ outcome = "running" => \A j \in 1..4 : j + 3 < pc => Marked(files[PatchOrder[j]])
    /\ settled => \A f \in Files : Marked(files[f])

ProgressInv == CopiesDone /\ PatchesDone

IInv == TypeOK /\ FilesInv /\ PendingInv /\ ProgressInv

-----------------------------------------------------------------------------
(* The trees and the orders.                                                *)

AnImport == <<"package_init", "imports">>

\* Every file has a block that no pattern may miss.
LEMMA TheBlocks ==
    /\ Blocks("capabilities") = {"Capability", "EXTENDED_CAPABILITIES", "METHOD_MAP"}
    /\ Blocks("validate") = {"imports", "RUNNERS"}
    /\ Blocks("spec_init") = {"imports", "all"}
    /\ Blocks("package_init") = {"imports", "all"}
<1>1. /\ pristine.capabilities = capabilities_py(Range(pristine_Capability))
      /\ pristine.validate = validate_py(Range(pristine_Capability))
      /\ pristine.spec_init = spec_init_py(Range(pristine_Capability))
      /\ pristine.package_init = package_init_py({"checkpointer_test", "validate"})
    BY DEF pristine, Tree
<1> QED
    BY <1>1 DEF Blocks, capabilities_py, validate_py, spec_init_py, package_init_py

LEMMA FilesHaveBlocks ==
    \A f \in Files : \E b \in Blocks(f) : <<f, b>> # AnImport
<1>1. "all" # "imports" /\ \A f, b : <<f, b>> = AnImport => f = "package_init" /\ b = "imports"
    BY DEF AnImport
<1>2. /\ "METHOD_MAP" \in Blocks("capabilities") /\ "RUNNERS" \in Blocks("validate")
      /\ "all" \in Blocks("spec_init") /\ "all" \in Blocks("package_init")
    BY TheBlocks
<1>3. \A f \in Files : f # "package_init" => \E b \in Blocks(f) : <<f, b>> # AnImport
    BY <1>1, <1>2 DEF Files
<1>4. \E b \in Blocks("package_init") : <<"package_init", b>> # AnImport
    BY <1>1, <1>2
<1> QED
    BY <1>3, <1>4

\* A tree of upstream's has the patch's name nowhere.
IsTree(t) ==
    /\ t = [f \in Files |-> t[f]]
    /\ \A f \in Files : IsFile(f, t[f]) /\ \A b \in Blocks(f) : WO \notin t[f][b]

LEMMA CapabilityNames ==
    /\ WO \notin Range(pristine_Capability) /\ WO \notin Range(main_Capability)
    /\ Range(pristine_Capability) \subseteq Range(main_Capability)
<1> DEFINE P == pristine_Capability
           M == main_Capability
           S == {"put", "put_writes", "get_tuple", "list", "delete_thread", "delete_for_runs",
                 "copy_thread", "prune", "delta_channel_history"}
<1>1. /\ P \in Seq(S) /\ Len(P) = 8 /\ "delta_channel_history" \in S
      /\ \A i \in 1..8 : P[i] # WO
    <2>1. P \in Seq(S) /\ Len(P) = 8
        BY DEF pristine_Capability
    <2>2. /\ P[1] # WO /\ P[2] # WO /\ P[3] # WO /\ P[4] # WO
          /\ P[5] # WO /\ P[6] # WO /\ P[7] # WO /\ P[8] # WO
        BY DEF pristine_Capability, WO
    <2>3. \A i \in 1..8 : i = 1 \/ i = 2 \/ i = 3 \/ i = 4 \/ i = 5 \/ i = 6 \/ i = 7 \/ i = 8
        OBVIOUS
    <2>4. "delta_channel_history" \in S
        OBVIOUS
    <2> HIDE DEF P, S
    <2> QED BY <2>1, <2>2, <2>3, <2>4
<1>2. M = Append(P, "delta_channel_history")
    BY DEF main_Capability
<1> HIDE DEF P, M, S
<1>3. /\ Len(M) = 9 /\ \A i \in 1..8 : M[i] = P[i]
      /\ M[9] = "delta_channel_history" /\ M \in Seq(S)
    <2> DEFINE d == "delta_channel_history"
    <2>1. P \in Seq(S) /\ d \in S /\ M = Append(P, d)
        BY <1>1, <1>2
    <2> HIDE DEF d
    <2>2. /\ Append(P, d) \in Seq(S) /\ Len(Append(P, d)) = Len(P) + 1 /\ Append(P, d)[Len(P) + 1] = d
          /\ \A i \in 1..Len(P) : Append(P, d)[i] = P[i]
        BY <2>1, AppendProperties
    <2>3. 8 + 1 = 9
        OBVIOUS
    <2> QED BY <2>1, <2>2, <2>3, <1>1 DEF d
<1>4. DOMAIN P = 1..8 /\ DOMAIN M = 1..9
    BY <1>1, <1>3, LenProperties
<1>5. \A i \in 1..9 : M[i] # WO
    <2>1. \A i \in 1..9 : i \in 1..8 \/ i = 9
        OBVIOUS
    <2> QED BY <2>1, <1>1, <1>3 DEF WO
<1>6. \A i \in DOMAIN P : i \in DOMAIN M /\ M[i] = P[i]
    BY <1>3, <1>4
<1> QED
    BY <1>1, <1>4, <1>5, <1>6 DEF Range, P, M

LEMMA UpstreamTrees == IsTree(pristine) /\ IsTree(main_base)
<1> DEFINE N == {"checkpointer_test", "validate"}
<1>1. SUFFICES ASSUME NEW C, WO \notin C
               PROVE  IsTree(Tree(capabilities_py(C), validate_py(C), spec_init_py(C), package_init_py(N)))
    BY <1>1, CapabilityNames DEF pristine, main_base
<1> DEFINE T == Tree(capabilities_py(C), validate_py(C), spec_init_py(C), package_init_py(N))
<1>2. /\ T.capabilities = capabilities_py(C) /\ T.validate = validate_py(C)
      /\ T.spec_init = spec_init_py(C) /\ T.package_init = package_init_py(N)
      /\ T = [f \in Files |-> T[f]]
    BY DEF Tree, Files
<1> HIDE DEF T
<1>3. WO \notin N
    BY DEF WO
<1>4. /\ IsFile("capabilities", capabilities_py(C)) /\ IsFile("validate", validate_py(C))
      /\ IsFile("spec_init", spec_init_py(C)) /\ IsFile("package_init", package_init_py(N))
    BY TheBlocks DEF IsFile, capabilities_py, validate_py, spec_init_py, package_init_py
<1>5. /\ \A b \in Blocks("capabilities") : WO \notin capabilities_py(C)[b]
      /\ \A b \in Blocks("validate") : WO \notin validate_py(C)[b]
      /\ \A b \in Blocks("spec_init") : WO \notin spec_init_py(C)[b]
      /\ \A b \in Blocks("package_init") : WO \notin package_init_py(N)[b]
    BY TheBlocks, <1>1, <1>3 DEF capabilities_py, validate_py, spec_init_py, package_init_py
<1>6. \A f \in Files : IsFile(f, T[f]) /\ \A b \in Blocks(f) : WO \notin T[f][b]
    BY <1>2, <1>4, <1>5 DEF Files
<1> QED
    BY <1>2, <1>6 DEF IsTree, T

LEMMA BaseTrees == ASSUME NEW t \in Bases PROVE IsTree(t)
<1>1. t = [f \in Files |-> [b \in Blocks(f) |-> t[f][b]]]
    BY ApplyAssumption DEF Blocks
<1>2. \A f \in Files : t[f] = [b \in Blocks(f) |-> t[f][b]]
    BY <1>1
<1>3. \A f \in Files : \A b \in Blocks(f) : WO \notin t[f][b]
    BY <1>2, ApplyAssumption
<1>4. t = [f \in Files |-> t[f]]
    BY <1>1
<1> QED
    BY <1>2, <1>3, <1>4 DEF IsTree, IsFile

LEMMA MainAddsOnly == \A f \in Files : \A b \in Blocks(f) : pristine[f][b] \subseteq main_base[f][b]
<1> DEFINE P == Range(pristine_Capability)
           M == Range(main_Capability)
           N == {"checkpointer_test", "validate"}
<1>1. /\ pristine.capabilities = capabilities_py(P) /\ main_base.capabilities = capabilities_py(M)
      /\ pristine.validate = validate_py(P) /\ main_base.validate = validate_py(M)
      /\ pristine.spec_init = spec_init_py(P) /\ main_base.spec_init = spec_init_py(M)
      /\ pristine.package_init = package_init_py(N) /\ main_base.package_init = package_init_py(N)
    BY DEF pristine, main_base, Tree
<1>2. P \subseteq M
    BY CapabilityNames
<1> HIDE DEF P, M, N
<1>3. /\ \A b \in Blocks("capabilities") : capabilities_py(P)[b] \subseteq capabilities_py(M)[b]
      /\ \A b \in Blocks("validate") : validate_py(P)[b] \subseteq validate_py(M)[b]
      /\ \A b \in Blocks("spec_init") : spec_init_py(P)[b] \subseteq spec_init_py(M)[b]
    BY TheBlocks, <1>2 DEF capabilities_py, validate_py, spec_init_py
<1> QED
    BY <1>1, <1>3 DEF Files

\* Each file is copied or patched once.
LEMMA Orders ==
    /\ \A j \in 1..3 : CopyOrder[j] \in Copies
    /\ \A i, j \in 1..3 : CopyOrder[i] = CopyOrder[j] => i = j
    /\ \A c \in Copies : \E j \in 1..3 : c = CopyOrder[j]
    /\ \A j \in 1..4 : PatchOrder[j] \in Files
    /\ \A i, j \in 1..4 : PatchOrder[i] = PatchOrder[j] => i = j
    /\ \A f \in Files : \E j \in 1..4 : f = PatchOrder[j]
<1>1. /\ CopyOrder[1] = "ownership" /\ CopyOrder[2] = "spec" /\ CopyOrder[3] = "tests"
      /\ PatchOrder[1] = "capabilities" /\ PatchOrder[2] = "validate"
      /\ PatchOrder[3] = "spec_init" /\ PatchOrder[4] = "package_init"
    BY DEF CopyOrder, PatchOrder
<1>2. (\A j \in 1..3 : j = 1 \/ j = 2 \/ j = 3) /\ (\A j \in 1..4 : j = 1 \/ j = 2 \/ j = 3 \/ j = 4)
    OBVIOUS
<1> QED
    BY <1>1, <1>2 DEF Copies, Files

LEMMA TornIsBare == DOMAIN Torn = {} /\ ~Marked(Torn)
    BY DEF Torn, Marked

LEMMA FilesAreNotTorn == ASSUME NEW f \in Files, NEW s, IsFile(f, s) PROVE s # Torn /\ DOMAIN s = Blocks(f)
    BY TornIsBare, FilesHaveBlocks DEF IsFile

-----------------------------------------------------------------------------
(* Each step keeps the invariant.                                           *)

LEMMA SubjectIsAFile ==
    ASSUME TypeOK, pc \in 4..7
    PROVE  /\ pc - 3 \in 1..4 /\ Subject \in Files
           /\ \A j \in 1..4 : j + 3 < pc => PatchOrder[j] \in Files \ {Subject}
<1>1. pc - 3 \in 1..4 /\ \A j \in 1..4 : j + 3 < pc => j # pc - 3
    OBVIOUS
<1> QED
    BY <1>1, Orders DEF Subject

LEMMA FilesStay ==
    ASSUME FilesInv, UNCHANGED <<files, base, dropped, hidden>>
    PROVE  FilesInv'
    BY DEF FilesInv, FileInv, IsUpstream, IsPatched, IsMarked, IsFile, Blocks, Marked, Unmatched

LEMMA AtTheStart == ASSUME Init PROVE IInv
<1>1. /\ base \in Bases /\ files = base /\ copies = [c \in Copies |-> "absent"]
      /\ pc = 1 /\ pending = Torn /\ outcome = "idle" /\ dropped = {}
      /\ settled = FALSE /\ runs = 0 /\ rebases = 0
    BY DEF Init
<1>2. IsTree(base)
    BY <1>1, BaseTrees
<1>3. \A f \in Files : DOMAIN base[f] = Blocks(f) /\ ~Marked(base[f])
    BY <1>2, FilesAreNotTorn DEF IsTree, Marked
<1>4. FilesInv
    BY <1>1, <1>2, <1>3 DEF FilesInv, FileInv, IsUpstream, IsPatched, IsMarked, IsTree
<1>5. TypeOK
    <2>1. pc \in 1..8 /\ runs \in 0..MaxRuns /\ rebases \in 0..MaxRebases
        BY <1>1, ApplyAssumption
    <2> QED BY <1>1, <2>1 DEF TypeOK
<1>6. PendingInv /\ ProgressInv
    BY <1>1 DEF PendingInv, ProgressInv, CopiesDone, PatchesDone
<1> QED
    BY <1>4, <1>5, <1>6 DEF IInv

LEMMA StartKeepsIt == ASSUME IInv, Start PROVE IInv'
<1>1. /\ outcome # "running" /\ runs < MaxRuns
      /\ outcome' = "running" /\ pc' = 1 /\ runs' = runs + 1
      /\ files' = files /\ copies' = copies /\ pending' = pending /\ hidden' = hidden
      /\ base' = base /\ dropped' = dropped /\ settled' = settled /\ rebases' = rebases
    BY DEF Start
<1>2. pending' = Torn
    BY <1>1 DEF IInv, PendingInv
<1>3. FilesInv'
    BY <1>1, FilesStay DEF IInv
<1>4. TypeOK'
    <2>1. runs' \in 0..MaxRuns /\ pc' \in 1..8
        BY <1>1, ApplyAssumption DEF IInv, TypeOK
    <2> QED BY <1>1, <2>1 DEF IInv, TypeOK
<1>5. PendingInv'
    BY <1>2 DEF PendingInv
<1>6. ProgressInv'
    <2>1. CopiesDone'
        BY <1>1 DEF CopiesDone
    <2>2. PatchesDone'
        BY <1>1 DEF IInv, ProgressInv, PatchesDone, Marked
    <2> QED BY <2>1, <2>2 DEF ProgressInv
<1> QED
    BY <1>3, <1>4, <1>5, <1>6 DEF IInv

\* A copy under way is one that the run is at.
LEMMA CopyOpensKeepsIt == ASSUME IInv, CopyOpens PROVE IInv'
<1>1. /\ outcome = "running" /\ pc <= 3
      /\ copies' = [copies EXCEPT ![CopyOrder[pc]] = "torn"]
      /\ files' = files /\ pc' = pc /\ pending' = pending /\ outcome' = outcome /\ hidden' = hidden
      /\ base' = base /\ dropped' = dropped /\ settled' = settled /\ runs' = runs /\ rebases' = rebases
    BY DEF CopyOpens
<1>2. pc \in 1..3 /\ copies \in [Copies -> {"absent", "torn", "whole"}]
    BY <1>1 DEF IInv, TypeOK
<1>3. FilesInv'
    BY <1>1, FilesStay DEF IInv
<1>4. TypeOK'
    <2>1. copies' \in [Copies -> {"absent", "torn", "whole"}]
        BY <1>1, <1>2
    <2> QED BY <1>1, <2>1 DEF IInv, TypeOK
<1>5. PendingInv'
    <2>1. pending = Torn
        BY <1>2 DEF IInv, PendingInv
    <2> QED BY <1>1, <2>1 DEF PendingInv
<1>6. ProgressInv'
    <2>1. \A j \in 1..3 : j < pc => copies'[CopyOrder[j]] = "whole"
        <3>1. TAKE j \in 1..3
        <3>2. HAVE j < pc
        <3>3. CopyOrder[j] \in Copies \ {CopyOrder[pc]}
            BY <3>2, <1>2, Orders
        <3>4. copies[CopyOrder[j]] = "whole"
            BY <3>2, <1>1 DEF IInv, ProgressInv, CopiesDone
        <3> QED BY <3>3, <3>4, <1>1, <1>2
    <2>2. CopiesDone'
        BY <1>1, <2>1 DEF CopiesDone
    <2>3. PatchesDone'
        BY <1>1 DEF IInv, ProgressInv, PatchesDone, Marked
    <2> QED BY <2>2, <2>3 DEF ProgressInv
<1> QED
    BY <1>3, <1>4, <1>5, <1>6 DEF IInv

LEMMA CopyEndsKeepsIt == ASSUME IInv, CopyEnds PROVE IInv'
<1>1. /\ outcome = "running" /\ pc <= 3
      /\ copies' = [copies EXCEPT ![CopyOrder[pc]] = "whole"] /\ pc' = pc + 1
      /\ files' = files /\ pending' = pending /\ outcome' = outcome /\ hidden' = hidden
      /\ base' = base /\ dropped' = dropped /\ settled' = settled /\ runs' = runs /\ rebases' = rebases
    BY DEF CopyEnds
<1>2. pc \in 1..3 /\ copies \in [Copies -> {"absent", "torn", "whole"}]
    BY <1>1 DEF IInv, TypeOK
<1>3. FilesInv'
    BY <1>1, FilesStay DEF IInv
<1>4. TypeOK'
    <2>1. copies' \in [Copies -> {"absent", "torn", "whole"}]
        BY <1>1, <1>2
    <2>2. pc' \in 1..8
        BY <1>1, <1>2
    <2> QED BY <1>1, <2>1, <2>2 DEF IInv, TypeOK
<1>5. PendingInv'
    <2>1. pending = Torn
        BY <1>2 DEF IInv, PendingInv
    <2> QED BY <1>1, <2>1 DEF PendingInv
<1>6. ProgressInv'
    <2>1. \A j \in 1..3 : j < pc' => copies'[CopyOrder[j]] = "whole"
        <3>1. TAKE j \in 1..3
        <3>2. HAVE j < pc'
        <3>3. CopyOrder[j] \in Copies
            BY Orders
        <3>4. j # pc => copies[CopyOrder[j]] = "whole"
            BY <3>2, <1>1, <1>2 DEF IInv, ProgressInv, CopiesDone
        <3> QED BY <3>3, <3>4, <1>1, <1>2
    <2>2. CopiesDone'
        BY <1>1, <2>1 DEF CopiesDone
    <2>3. PatchesDone'
        <3>1. pc' = 2 \/ pc' = 3 \/ pc' = 4
            BY <1>1, <1>2
        <3>2. \A j \in 1..4 : ~(j + 3 < pc')
            BY <3>1
        <3> QED BY <1>1, <3>2 DEF IInv, ProgressInv, PatchesDone, Marked
    <2> QED BY <2>2, <2>3 DEF ProgressInv
<1> QED
    BY <1>3, <1>4, <1>5, <1>6 DEF IInv

LEMMA SkipsKeepsIt == ASSUME IInv, Skips PROVE IInv'
<1>1. /\ outcome = "running" /\ pc \in 4..7 /\ pending = Torn /\ Marked(files[Subject])
      /\ pc' = pc + 1
      /\ files' = files /\ copies' = copies /\ pending' = pending /\ outcome' = outcome /\ hidden' = hidden
      /\ base' = base /\ dropped' = dropped /\ settled' = settled /\ runs' = runs /\ rebases' = rebases
    BY DEF Skips
<1>2. FilesInv'
    BY <1>1, FilesStay DEF IInv
<1>3. TypeOK'
    <2>1. pc' \in 1..8
        BY <1>1
    <2> QED BY <1>1, <2>1 DEF IInv, TypeOK
<1>4. PendingInv'
    BY <1>1 DEF PendingInv
<1>5. ProgressInv'
    <2>1. CopiesDone'
        <3>1. \A j \in 1..3 : j < pc
            BY <1>1
        <3> QED BY <1>1, <3>1 DEF IInv, ProgressInv, CopiesDone
    <2>2. \A j \in 1..4 : j + 3 < pc' => Marked(files[PatchOrder[j]])
        <3>1. \A j \in 1..4 : j + 3 < pc' => j + 3 < pc \/ j = pc - 3
            BY <1>1
        <3> QED BY <1>1, <3>1 DEF IInv, ProgressInv, PatchesDone, Subject
    <2>3. PatchesDone'
        BY <1>1, <2>2 DEF IInv, ProgressInv, PatchesDone, Marked
    <2> QED BY <2>1, <2>3 DEF ProgressInv
<1> QED
    BY <1>2, <1>3, <1>4, <1>5 DEF IInv

LEMMA RaisesKeepsIt == ASSUME IInv, Raises PROVE IInv'
<1>1. /\ outcome' = "raised" /\ pending = Torn
      /\ files' = files /\ copies' = copies /\ pc' = pc /\ pending' = pending /\ hidden' = hidden
      /\ base' = base /\ dropped' = dropped /\ settled' = settled /\ runs' = runs /\ rebases' = rebases
    BY DEF Raises
<1>2. FilesInv'
    BY <1>1, FilesStay DEF IInv
<1>3. TypeOK'
    BY <1>1 DEF IInv, TypeOK
<1>4. PendingInv'
    BY <1>1 DEF PendingInv
<1>5. CopiesDone'
    BY <1>1 DEF CopiesDone
<1>6. PatchesDone'
    BY <1>1 DEF IInv, ProgressInv, PatchesDone, Marked
<1> QED
    BY <1>2, <1>3, <1>4, <1>5, <1>6 DEF IInv, ProgressInv

LEMMA KilledKeepsIt == ASSUME IInv, Killed PROVE IInv'
<1>1. /\ outcome' = "killed" /\ pending' = Torn
      /\ files' = files /\ copies' = copies /\ pc' = pc /\ hidden' = hidden
      /\ base' = base /\ dropped' = dropped /\ settled' = settled /\ runs' = runs /\ rebases' = rebases
    BY DEF Killed
<1>2. FilesInv'
    BY <1>1, FilesStay DEF IInv
<1>3. TypeOK'
    BY <1>1 DEF IInv, TypeOK
<1>4. PendingInv'
    BY <1>1 DEF PendingInv
<1>5. CopiesDone'
    BY <1>1 DEF CopiesDone
<1>6. PatchesDone'
    BY <1>1 DEF IInv, ProgressInv, PatchesDone, Marked
<1> QED
    BY <1>2, <1>3, <1>4, <1>5, <1>6 DEF IInv, ProgressInv

\* Whoever has come to the end has been past every file.
LEMMA FinishesKeepsIt == ASSUME IInv, Finishes PROVE IInv'
<1>1. /\ outcome = "running" /\ pc = 8 /\ outcome' = "applied" /\ settled' = TRUE
      /\ files' = files /\ copies' = copies /\ pc' = pc /\ pending' = pending /\ hidden' = hidden
      /\ base' = base /\ dropped' = dropped /\ runs' = runs /\ rebases' = rebases
    BY DEF Finishes
<1>2. pending = Torn
    BY <1>1 DEF IInv, PendingInv
<1>3. FilesInv'
    BY <1>1, FilesStay DEF IInv
<1>4. TypeOK'
    BY <1>1 DEF IInv, TypeOK
<1>5. PendingInv'
    BY <1>1, <1>2 DEF PendingInv
<1>6. \A j \in 1..3 : copies[CopyOrder[j]] = "whole"
    BY <1>1 DEF IInv, ProgressInv, CopiesDone
<1>7. \A j \in 1..4 : Marked(files[PatchOrder[j]])
    BY <1>1 DEF IInv, ProgressInv, PatchesDone
<1>8. CopiesDone'
    BY <1>1, <1>6, Orders DEF CopiesDone
<1>9. PatchesDone'
    BY <1>1, <1>7, Orders DEF PatchesDone, Marked
<1> QED
    BY <1>3, <1>4, <1>5, <1>8, <1>9 DEF IInv, ProgressInv

\* The other files are as they were.
LEMMA OneFileChanges ==
    ASSUME FilesInv, NEW f \in Files, NEW s, NEW t,
           files' = [files EXCEPT ![f] = s], base' = [base EXCEPT ![f] = t], hidden' = hidden,
           \A g \in Files \ {f} : \A b : <<g, b>> \in dropped' <=> <<g, b>> \in dropped
    PROVE  /\ base' = [g \in Files |-> base'[g]] /\ files' = [g \in Files |-> files'[g]]
           /\ base'[f] = t /\ files'[f] = s
           /\ \A g \in Files \ {f} : files'[g] = files[g] /\ base'[g] = base[g] /\ FileInv(g)'
<1>1. /\ base = [g \in Files |-> base[g]] /\ files = [g \in Files |-> files[g]]
    BY DEF FilesInv
<1>2. /\ base' = [g \in Files |-> IF g = f THEN t ELSE base[g]]
      /\ files' = [g \in Files |-> IF g = f THEN s ELSE files[g]]
    BY <1>1
<1>3. ASSUME NEW g \in Files \ {f} PROVE files'[g] = files[g] /\ base'[g] = base[g] /\ FileInv(g)'
    <2>1. files'[g] = files[g] /\ base'[g] = base[g] /\ FileInv(g)
        BY <1>2 DEF FilesInv
    <2>2. IsUpstream(g)'
        BY <2>1 DEF FileInv, IsUpstream, IsFile, Blocks
    <2>3. IsPatched(g)'
        BY <2>1 DEF FileInv, IsPatched, IsFile, Blocks
    <2>4. IsMarked(g)'
        <3>1. \A b : <<g, b>> \in dropped' <=> <<g, b>> \in dropped
            OBVIOUS
        <3>2. Unmatched' = Unmatched
            BY DEF Unmatched
        <3> QED BY <2>1, <3>1, <3>2 DEF FileInv, IsMarked, Marked, Blocks
    <2> QED BY <2>1, <2>2, <2>3, <2>4 DEF FileInv
<1> QED
    BY <1>2, <1>3

\* Only a file with none of the patch's names is opened, and only when whatever
\* must be found in it is found: all of it is patched.
LEMMA WriteOpensKeepsIt == ASSUME IInv, WriteOpens PROVE IInv'
<1>0. PICK f : f = Subject
    OBVIOUS
<1>1. /\ outcome = "running" /\ pc \in 4..7 /\ pending = Torn /\ ~Marked(files[f]) /\ Locates(f)
      /\ pending' = _append_to_block(f)
      /\ files' = [files EXCEPT ![f] = Torn]
      /\ dropped' = {d \in dropped : d[1] # f}
      /\ copies' = copies /\ pc' = pc /\ outcome' = outcome /\ hidden' = hidden
      /\ base' = base /\ settled' = settled /\ runs' = runs /\ rebases' = rebases
    BY <1>0 DEF WriteOpens
<1>2. f \in Files /\ \A j \in 1..4 : j + 3 < pc => PatchOrder[j] \in Files \ {f}
    BY <1>0, <1>1, SubjectIsAFile DEF IInv
<1>3. Subject' = f
    BY <1>0, <1>1 DEF Subject
<1>4. files[f] # Torn /\ \A b \in Required(f) : <<f, b>> \notin hidden
    BY <1>1 DEF Locates
<1>5. /\ IsFile(f, base[f]) /\ \A b \in Blocks(f) : WO \notin base[f][b]
      /\ IsFile(f, files[f])
      /\ \A b \in Blocks(f) : files[f][b] = base[f][b] \/ files[f][b] = base[f][b] \union {WO}
    BY <1>2, <1>4 DEF IInv, FilesInv, FileInv, IsUpstream, IsPatched
<1>6. DOMAIN files[f] = Blocks(f) /\ DOMAIN base[f] = Blocks(f)
    BY <1>2, <1>5, FilesAreNotTorn
<1>7. \A b \in Blocks(f) : files[f][b] = base[f][b]
    BY <1>1, <1>5, <1>6 DEF Marked
<1>8. \A b \in Blocks(f) : <<f, b>> \in hidden <=> <<f, b>> \in Unmatched
    BY <1>4, <1>6 DEF Required, Unmatched
<1>9. pending' = [b \in Blocks(f) |-> base[f][b] \union (IF <<f, b>> \in Unmatched THEN {} ELSE {WO})]
    BY <1>1, <1>6, <1>7, <1>8 DEF _append_to_block
<1>10. base' = [base EXCEPT ![f] = base[f]]
    BY <1>1, <1>2 DEF IInv, FilesInv
<1>11. \A g \in Files \ {f} : \A b : <<g, b>> \in dropped' <=> <<g, b>> \in dropped
    BY <1>1
<1>12. /\ base' = [g \in Files |-> base'[g]] /\ files' = [g \in Files |-> files'[g]]
       /\ files'[f] = Torn
       /\ \A g \in Files \ {f} : files'[g] = files[g] /\ FileInv(g)'
    BY <1>1, <1>2, <1>10, <1>11, OneFileChanges DEF IInv
<1>13. FilesInv'
    <2>1. IsUpstream(f)'
        BY <1>1, <1>5 DEF IsUpstream, IsFile, Blocks
    <2>2. IsPatched(f)' /\ IsMarked(f)'
        BY <1>12, TornIsBare DEF IsPatched, IsMarked, Torn, Marked
    <2>3. \A g \in Files : FileInv(g)'
        BY <2>1, <2>2, <1>12 DEF FileInv
    <2> QED BY <2>3, <1>12 DEF FilesInv
<1>14. TypeOK'
    <2>1. \A g \in Files : files'[g] = Torn \/ DOMAIN files'[g] = DOMAIN base'[g]
        BY <1>1, <1>12 DEF IInv, TypeOK
    <2>2. \A d \in dropped' : \E g \in Files : \E b \in DOMAIN base'[g] : d = <<g, b>>
        BY <1>1 DEF IInv, TypeOK
    <2> QED BY <1>1, <2>1, <2>2 DEF IInv, TypeOK
<1>15. PendingInv'
    <2>1. pending' = [b \in Blocks(f) |-> base'[f][b] \union (IF <<f, b>> \in Unmatched' THEN {} ELSE {WO})]
        BY <1>1, <1>9 DEF Unmatched
    <2>2. \A d \in dropped' : d[1] # f
        BY <1>1
    <2> QED BY <1>1, <1>3, <1>12, <2>1, <2>2 DEF PendingInv, Torn, Blocks
<1>16. ProgressInv'
    <2>1. CopiesDone'
        BY <1>1 DEF IInv, ProgressInv, CopiesDone
    <2>2. ~settled
        BY <1>1, <1>2 DEF IInv, ProgressInv, PatchesDone
    <2>3. \A j \in 1..4 : j + 3 < pc => Marked(files[PatchOrder[j]]) /\ files'[PatchOrder[j]] = files[PatchOrder[j]]
        BY <1>1, <1>2, <1>12 DEF IInv, ProgressInv, PatchesDone
    <2>4. PatchesDone'
        BY <1>1, <2>2, <2>3 DEF PatchesDone, Marked
    <2> QED BY <2>1, <2>4 DEF ProgressInv
<1> QED
    BY <1>13, <1>14, <1>15, <1>16 DEF IInv

LEMMA WriteEndsKeepsIt == ASSUME IInv, WriteEnds PROVE IInv'
<1>0. PICK f : f = Subject
    OBVIOUS
<1>1. /\ outcome = "running" /\ pc \in 4..7 /\ pending # Torn
      /\ files' = [files EXCEPT ![f] = pending]
      /\ pending' = Torn /\ pc' = pc + 1
      /\ copies' = copies /\ outcome' = outcome /\ hidden' = hidden /\ dropped' = dropped
      /\ base' = base /\ settled' = settled /\ runs' = runs /\ rebases' = rebases
    BY <1>0 DEF WriteEnds
<1>2. f \in Files /\ \A j \in 1..4 : j + 3 < pc => PatchOrder[j] \in Files \ {f}
    BY <1>0, <1>1, SubjectIsAFile DEF IInv
<1>3. /\ files[f] = Torn
      /\ pending = [b \in Blocks(f) |-> base[f][b] \union (IF <<f, b>> \in Unmatched THEN {} ELSE {WO})]
      /\ \A d \in dropped : d[1] # f
    BY <1>0, <1>1 DEF IInv, PendingInv
<1>4. PatchOrder[pc - 3] = f
    BY <1>0 DEF Subject
<1>5. IsFile(f, base[f]) /\ \A b \in Blocks(f) : WO \notin base[f][b]
    BY <1>2 DEF IInv, FilesInv, FileInv, IsUpstream
<1>6. base' = [base EXCEPT ![f] = base[f]]
    BY <1>1, <1>2 DEF IInv, FilesInv
<1>7. /\ base' = [g \in Files |-> base'[g]] /\ files' = [g \in Files |-> files'[g]]
      /\ files'[f] = pending
      /\ \A g \in Files \ {f} : files'[g] = files[g] /\ FileInv(g)'
    BY <1>1, <1>2, <1>6, OneFileChanges DEF IInv
<1>8. /\ DOMAIN pending = Blocks(f) /\ DOMAIN base[f] = Blocks(f)
      /\ \A b \in Blocks(f) : pending[b] = base[f][b] \union (IF <<f, b>> \in Unmatched THEN {} ELSE {WO})
    BY <1>2, <1>3, <1>5, FilesAreNotTorn
<1>9. \A b \in Blocks(f) : <<f, b>> \notin dropped
    BY <1>3
<1>10. Unmatched' = Unmatched
    BY <1>1 DEF Unmatched
<1>11. FilesInv'
    <2>1. IsUpstream(f)'
        BY <1>1, <1>5 DEF IsUpstream, IsFile, Blocks
    <2>2. IsFile(f, pending)
        BY <1>3, <1>8 DEF IsFile
    <2>3. \A b \in Blocks(f) : pending[b] = base[f][b] \/ pending[b] = base[f][b] \union {WO}
        BY <1>8
    <2>4. IsPatched(f)'
        BY <1>1, <1>7, <2>2, <2>3 DEF IsPatched, IsFile, Blocks
    <2>5. \A b \in Blocks(f) : WO \in pending[b] <=> <<f, b>> \notin dropped \union Unmatched
        BY <1>5, <1>8, <1>9
    <2>6. IsMarked(f)'
        BY <1>1, <1>7, <1>10, <2>5 DEF IsMarked, Blocks
    <2>7. \A g \in Files : FileInv(g)'
        BY <2>1, <2>4, <2>6, <1>7 DEF FileInv
    <2> QED BY <2>7, <1>7 DEF FilesInv
<1>12. TypeOK'
    <2>1. \A g \in Files : files'[g] = Torn \/ DOMAIN files'[g] = DOMAIN base'[g]
        BY <1>1, <1>7, <1>8 DEF IInv, TypeOK
    <2>2. pc' \in 1..8
        BY <1>1
    <2> QED BY <1>1, <2>1, <2>2 DEF IInv, TypeOK
<1>13. PendingInv'
    BY <1>1 DEF PendingInv, Torn
<1>14. Marked(files'[f])
    <2>1. PICK b \in Blocks(f) : <<f, b>> # AnImport
        BY <1>2, FilesHaveBlocks
    <2>2. <<f, b>> \notin Unmatched
        BY <2>1 DEF Unmatched, AnImport
    <2> QED BY <1>7, <1>8, <2>1, <2>2 DEF Marked
<1>15. ProgressInv'
    <2>1. CopiesDone'
        <3>1. \A j \in 1..3 : j < pc
            BY <1>1
        <3> QED BY <1>1, <3>1 DEF IInv, ProgressInv, CopiesDone
    <2>2. \A j \in 1..4 : j + 3 < pc' => Marked(files'[PatchOrder[j]])
        <3>1. \A j \in 1..4 : j + 3 < pc' => j + 3 < pc \/ j = pc - 3
            BY <1>1
        <3>2. \A j \in 1..4 : j + 3 < pc => Marked(files'[PatchOrder[j]])
            BY <1>1, <1>2, <1>7 DEF IInv, ProgressInv, PatchesDone
        <3> QED BY <1>4, <1>14, <3>1, <3>2
    <2>3. settled => \A g \in Files : Marked(files'[g])
        BY <1>7, <1>14 DEF IInv, ProgressInv, PatchesDone
    <2>4. PatchesDone'
        BY <1>1, <2>2, <2>3 DEF PatchesDone, Marked
    <2> QED BY <2>1, <2>4 DEF ProgressInv
<1> QED
    BY <1>11, <1>12, <1>13, <1>15 DEF IInv

\* Upstream's file replaces the one there is, and what was lost in that one.
LEMMA CheckoutKeepsIt ==
    ASSUME IInv, NEW f \in Files, NEW t \in {pristine, main_base}, Checkout(f, t)
    PROVE  IInv'
<1>1. /\ outcome # "running" /\ rebases < MaxRebases
      /\ files' = [files EXCEPT ![f] = t[f]]
      /\ base' = [base EXCEPT ![f] = t[f]]
      /\ dropped' = {d \in dropped : d[1] # f}
      /\ settled' = FALSE /\ rebases' = rebases + 1
      /\ copies' = copies /\ pc' = pc /\ pending' = pending /\ outcome' = outcome /\ hidden' = hidden
      /\ runs' = runs
    BY DEF Checkout
<1>2. IsTree(t)
    BY UpstreamTrees
<1>3. IsFile(f, t[f]) /\ \A b \in Blocks(f) : WO \notin t[f][b]
    BY <1>2 DEF IsTree
<1>4. DOMAIN t[f] = Blocks(f)
    BY <1>3, FilesAreNotTorn
<1>5. pending = Torn
    BY <1>1 DEF IInv, PendingInv
<1>6. \A g \in Files \ {f} : \A b : <<g, b>> \in dropped' <=> <<g, b>> \in dropped
    BY <1>1
<1>7. /\ base' = [g \in Files |-> base'[g]] /\ files' = [g \in Files |-> files'[g]]
      /\ base'[f] = t[f] /\ files'[f] = t[f]
      /\ \A g \in Files \ {f} : files'[g] = files[g] /\ base'[g] = base[g] /\ FileInv(g)'
    BY <1>1, <1>6, OneFileChanges DEF IInv
<1>8. FilesInv'
    <2>1. IsUpstream(f)'
        BY <1>3, <1>7 DEF IsUpstream, IsFile, Blocks
    <2>2. IsPatched(f)'
        BY <1>3, <1>7 DEF IsPatched, IsFile, Blocks
    <2>3. ~Marked(files'[f])
        BY <1>3, <1>4, <1>7 DEF Marked
    <2>4. IsMarked(f)'
        BY <2>3 DEF IsMarked, Marked
    <2>5. \A g \in Files : FileInv(g)'
        BY <2>1, <2>2, <2>4, <1>7 DEF FileInv
    <2> QED BY <2>5, <1>7 DEF FilesInv
<1>9. TypeOK'
    <2>1. \A g \in Files : files'[g] = Torn \/ DOMAIN files'[g] = DOMAIN base'[g]
        BY <1>7 DEF IInv, TypeOK
    <2>2. \A d \in dropped' : \E g \in Files : \E b \in DOMAIN base'[g] : d = <<g, b>>
        <3>1. TAKE d \in dropped'
        <3>2. d \in dropped /\ d[1] # f
            BY <1>1
        <3>3. PICK g \in Files : \E b \in DOMAIN base[g] : d = <<g, b>>
            BY <3>2 DEF IInv, TypeOK
        <3>4. g # f
            BY <3>2, <3>3
        <3> QED BY <3>3, <3>4, <1>7
    <2>3. rebases' \in 0..MaxRebases
        BY <1>1, ApplyAssumption DEF IInv, TypeOK
    <2> QED BY <1>1, <2>1, <2>2, <2>3 DEF IInv, TypeOK
<1>10. PendingInv'
    BY <1>1, <1>5 DEF PendingInv, Torn
<1>11. CopiesDone'
    BY <1>1 DEF IInv, ProgressInv, CopiesDone
<1>12. PatchesDone'
    BY <1>1 DEF PatchesDone
<1> QED
    BY <1>8, <1>9, <1>10, <1>11, <1>12 DEF IInv, ProgressInv

LEMMA RebaseKeepsIt == ASSUME IInv, Rebase PROVE IInv'
<1>1. /\ outcome = "applied" /\ settled /\ rebases < MaxRebases
      /\ base = pristine /\ base' = main_base
      /\ files' = [f \in Files |-> [b \in DOMAIN files[f] |-> files[f][b] \union main_base[f][b]]]
      /\ settled' = FALSE /\ rebases' = rebases + 1
      /\ copies' = copies /\ pc' = pc /\ pending' = pending /\ outcome' = outcome /\ hidden' = hidden
      /\ dropped' = dropped /\ runs' = runs
    BY DEF Rebase
<1>2. IsTree(main_base)
    BY UpstreamTrees
<1>3. \A f \in Files : Marked(files[f])
    BY <1>1 DEF IInv, ProgressInv, PatchesDone
<1>4. ASSUME NEW f \in Files
      PROVE  FileInv(f)' /\ DOMAIN files'[f] = Blocks(f) /\ DOMAIN base'[f] = Blocks(f) /\ DOMAIN base[f] = Blocks(f)
    <2>1. files[f] # Torn
        BY <1>3, TornIsBare
    <2>2. /\ IsFile(f, files[f])
          /\ \A b \in Blocks(f) : files[f][b] = base[f][b] \/ files[f][b] = base[f][b] \union {WO}
          /\ \A b \in Blocks(f) : WO \in files[f][b] <=> <<f, b>> \notin dropped \union Unmatched
          /\ IsFile(f, base[f]) /\ \A b \in Blocks(f) : WO \notin base[f][b]
        BY <2>1, <1>3 DEF IInv, FilesInv, FileInv, IsUpstream, IsPatched, IsMarked
    <2>3. IsFile(f, main_base[f]) /\ \A b \in Blocks(f) : WO \notin main_base[f][b]
        BY <1>2 DEF IsTree
    <2>4. DOMAIN files[f] = Blocks(f) /\ DOMAIN main_base[f] = Blocks(f) /\ DOMAIN base[f] = Blocks(f)
        BY <2>2, <2>3, FilesAreNotTorn
    <2>5. files'[f] = [b \in Blocks(f) |-> files[f][b] \union main_base[f][b]]
        BY <1>1, <2>4
    <2>6. \A b \in Blocks(f) : files'[f][b] = files[f][b] \union main_base[f][b]
        BY <2>5
    <2>7. \A b \in Blocks(f) : /\ base[f][b] \subseteq main_base[f][b]
                               /\ files[f][b] = base[f][b] \/ files[f][b] = base[f][b] \union {WO}
        BY <1>1, <2>2, MainAddsOnly
    <2>8. \A b \in Blocks(f) : files'[f][b] = base'[f][b] \/ files'[f][b] = base'[f][b] \union {WO}
        <3>1. TAKE b \in Blocks(f)
        <3>2. files'[f][b] = files[f][b] \union main_base[f][b] /\ base'[f][b] = main_base[f][b]
            BY <1>1, <2>6
        <3> QED BY <3>2, <2>7
    <2>9. \A b \in Blocks(f) : WO \in files'[f][b] <=> WO \in files[f][b]
        BY <2>3, <2>6
    <2>10. IsUpstream(f)'
        BY <1>1, <2>3 DEF IsUpstream, IsFile, Blocks
    <2>11. IsPatched(f)'
        BY <2>5, <2>6, <2>8 DEF IsPatched, IsFile, Blocks
    <2>12. Unmatched' = Unmatched
        BY <1>1 DEF Unmatched
    <2>13. IsMarked(f)'
        BY <1>1, <2>2, <2>9, <2>12 DEF IsMarked, Blocks
    <2> QED BY <1>1, <2>4, <2>5, <2>10, <2>11, <2>13 DEF FileInv
<1>5. FilesInv'
    BY <1>1, <1>2, <1>4 DEF FilesInv, IsTree
<1>6. TypeOK'
    <2>1. \A f \in Files : files'[f] = Torn \/ DOMAIN files'[f] = DOMAIN base'[f]
        BY <1>4
    <2>2. \A d \in dropped' : \E f \in Files : \E b \in DOMAIN base'[f] : d = <<f, b>>
        BY <1>1, <1>4 DEF IInv, TypeOK
    <2>3. rebases' \in 0..MaxRebases
        BY <1>1, ApplyAssumption DEF IInv, TypeOK
    <2> QED BY <1>1, <2>1, <2>2, <2>3 DEF IInv, TypeOK
<1>7. PendingInv'
    BY <1>1 DEF IInv, PendingInv, Torn
<1>8. CopiesDone'
    BY <1>1 DEF IInv, ProgressInv, CopiesDone
<1>9. PatchesDone'
    BY <1>1 DEF PatchesDone
<1> QED
    BY <1>5, <1>6, <1>7, <1>8, <1>9 DEF IInv, ProgressInv

\* An entry that was there is lost, and is known to be.
LEMMA DropKeepsIt ==
    ASSUME IInv, NEW f \in Files, NEW b \in DOMAIN files[f], Drop(f, b)
    PROVE  IInv'
<1>1. /\ outcome = "applied" /\ settled /\ rebases < MaxRebases /\ WO \in files[f][b]
      /\ files' = [files EXCEPT ![f][b] = @ \ {WO}]
      /\ dropped' = dropped \union {<<f, b>>}
      /\ settled' = FALSE /\ rebases' = rebases + 1
      /\ copies' = copies /\ pc' = pc /\ pending' = pending /\ outcome' = outcome /\ hidden' = hidden
      /\ base' = base /\ runs' = runs
    BY DEF Drop
<1>2. files[f] # Torn /\ Marked(files[f])
    BY <1>1, TornIsBare DEF Marked
<1>3. /\ IsFile(f, files[f])
      /\ \A c \in Blocks(f) : files[f][c] = base[f][c] \/ files[f][c] = base[f][c] \union {WO}
      /\ \A c \in Blocks(f) : WO \in files[f][c] <=> <<f, c>> \notin dropped \union Unmatched
      /\ IsFile(f, base[f]) /\ \A c \in Blocks(f) : WO \notin base[f][c]
    BY <1>2 DEF IInv, FilesInv, FileInv, IsUpstream, IsPatched, IsMarked
<1>4. DOMAIN files[f] = Blocks(f) /\ DOMAIN base[f] = Blocks(f)
    BY <1>3, FilesAreNotTorn
<1> DEFINE s == [c \in Blocks(f) |-> IF c = b THEN files[f][b] \ {WO} ELSE files[f][c]]
<1>5. files' = [files EXCEPT ![f] = s]
    BY <1>1, <1>3, <1>4 DEF IInv, FilesInv, IsFile
<1>6. /\ DOMAIN s = Blocks(f) /\ IsFile(f, s) /\ s[b] = files[f][b] \ {WO}
      /\ \A c \in Blocks(f) \ {b} : s[c] = files[f][c]
    BY <1>4 DEF IsFile
<1> HIDE DEF s
<1>7. base' = [base EXCEPT ![f] = base[f]]
    BY <1>1 DEF IInv, FilesInv
<1>8. \A g \in Files \ {f} : \A c : <<g, c>> \in dropped' <=> <<g, c>> \in dropped
    BY <1>1
<1>9. /\ base' = [g \in Files |-> base'[g]] /\ files' = [g \in Files |-> files'[g]]
      /\ files'[f] = s
      /\ \A g \in Files \ {f} : files'[g] = files[g] /\ FileInv(g)'
    BY <1>1, <1>5, <1>7, <1>8, OneFileChanges DEF IInv
<1>10. s[b] = base[f][b]
    BY <1>1, <1>3, <1>4, <1>6
<1>11. \A c \in Blocks(f) : s[c] = base[f][c] \/ s[c] = base[f][c] \union {WO}
    BY <1>3, <1>6, <1>10
<1>12. \A c \in Blocks(f) : WO \in s[c] <=> <<f, c>> \notin dropped' \union Unmatched
    <2>1. TAKE c \in Blocks(f)
    <2>2. CASE c = b
        BY <2>2, <1>1, <1>3, <1>10
    <2>3. CASE c # b
        BY <2>3, <1>1, <1>3, <1>6
    <2> QED BY <2>2, <2>3
<1>13. Unmatched' = Unmatched
    BY <1>1 DEF Unmatched
<1>14. FilesInv'
    <2>1. IsUpstream(f)'
        BY <1>1, <1>3 DEF IsUpstream, IsFile, Blocks
    <2>2. IsPatched(f)'
        BY <1>1, <1>6, <1>9, <1>11 DEF IsPatched, IsFile, Blocks
    <2>3. IsMarked(f)'
        BY <1>9, <1>12, <1>13 DEF IsMarked, Blocks
    <2>4. \A g \in Files : FileInv(g)'
        BY <2>1, <2>2, <2>3, <1>9 DEF FileInv
    <2> QED BY <2>4, <1>9 DEF FilesInv
<1>15. TypeOK'
    <2>1. \A g \in Files : files'[g] = Torn \/ DOMAIN files'[g] = DOMAIN base'[g]
        BY <1>1, <1>4, <1>6, <1>9 DEF IInv, TypeOK
    <2>2. \A d \in dropped' : \E g \in Files : \E c \in DOMAIN base'[g] : d = <<g, c>>
        BY <1>1, <1>4 DEF IInv, TypeOK
    <2>3. rebases' \in 0..MaxRebases
        BY <1>1, ApplyAssumption DEF IInv, TypeOK
    <2> QED BY <1>1, <2>1, <2>2, <2>3 DEF IInv, TypeOK
<1>16. PendingInv'
    BY <1>1 DEF IInv, PendingInv, Torn
<1>17. CopiesDone'
    BY <1>1 DEF IInv, ProgressInv, CopiesDone
<1>18. PatchesDone'
    BY <1>1 DEF PatchesDone
<1> QED
    BY <1>14, <1>15, <1>16, <1>17, <1>18 DEF IInv, ProgressInv

LEMMA NothingKeepsIt == ASSUME IInv, UNCHANGED vars PROVE IInv'
<1>1. /\ files' = files /\ copies' = copies /\ pc' = pc /\ pending' = pending /\ outcome' = outcome
      /\ hidden' = hidden /\ base' = base /\ dropped' = dropped /\ settled' = settled
      /\ runs' = runs /\ rebases' = rebases
    BY DEF vars
<1>2. FilesInv'
    BY <1>1, FilesStay DEF IInv
<1>3. TypeOK'
    BY <1>1 DEF IInv, TypeOK
<1>4. PendingInv'
    BY <1>1 DEF IInv, PendingInv, Torn, Subject, Unmatched, Blocks
<1>5. ProgressInv'
    BY <1>1 DEF IInv, ProgressInv, CopiesDone, PatchesDone, Marked
<1> QED
    BY <1>2, <1>3, <1>4, <1>5 DEF IInv

LEMMA EveryStepKeepsIt == ASSUME IInv, [Next]_vars PROVE IInv'
<1>1. CASE Start
    BY <1>1, StartKeepsIt
<1>2. CASE CopyOpens
    BY <1>2, CopyOpensKeepsIt
<1>3. CASE CopyEnds
    BY <1>3, CopyEndsKeepsIt
<1>4. CASE Skips
    BY <1>4, SkipsKeepsIt
<1>5. CASE Raises
    BY <1>5, RaisesKeepsIt
<1>6. CASE WriteOpens
    BY <1>6, WriteOpensKeepsIt
<1>7. CASE WriteEnds
    BY <1>7, WriteEndsKeepsIt
<1>8. CASE Finishes
    BY <1>8, FinishesKeepsIt
<1>9. CASE Killed
    BY <1>9, KilledKeepsIt
<1>10. CASE \E f \in Files, t \in {pristine, main_base} : Checkout(f, t)
    BY <1>10, CheckoutKeepsIt
<1>11. CASE Rebase
    BY <1>11, RebaseKeepsIt
<1>12. CASE \E f \in Files : \E b \in DOMAIN files[f] : Drop(f, b)
    BY <1>12, DropKeepsIt
<1>13. CASE Done \/ UNCHANGED vars
    BY <1>13, NothingKeepsIt DEF Done
<1> QED
    BY <1>1, <1>2, <1>3, <1>4, <1>5, <1>6, <1>7, <1>8, <1>9, <1>10, <1>11, <1>12, <1>13 DEF Next

-----------------------------------------------------------------------------
(* A tree that the patcher was stopped in.                                  *)

\* The base is one of upstream's two trees; where a file is patched all are copied,
\* and while upstream stands still the runner comes after its capability.
HalfInv ==
    /\ base \in {pristine, main_base}
    /\ (\E f \in Files : Marked(files[f])) => \A c \in Copies : copies[c] # "absent"
    /\ rebases = 0 /\ Marked(files["validate"]) => Marked(files["capabilities"])

LEMMA HalfAtTheStart == ASSUME Bases \subseteq {pristine, main_base}, Init PROVE HalfInv
<1>1. base \in Bases /\ files = base
    BY DEF Init
<1>2. IsTree(base)
    BY <1>1, BaseTrees
<1>3. \A f \in Files : ~Marked(files[f])
    BY <1>1, <1>2, FilesAreNotTorn DEF IsTree, Marked
<1>4. "validate" \in Files
    BY DEF Files
<1> QED
    BY <1>1, <1>3, <1>4 DEF HalfInv

\* Where no file is marked that was not, and no copy is taken away.
LEMMA HalfGoesOn ==
    ASSUME HalfInv, base' \in {pristine, main_base},
           \A f \in Files : Marked(files'[f]) => Marked(files[f]),
           \A c \in Copies : copies'[c] = "absent" => copies[c] = "absent",
           rebases' = 0 => rebases = 0 /\ (Marked(files["capabilities"]) => Marked(files'["capabilities"]))
    PROVE  HalfInv'
<1>1. Marked(files["validate"])' <=> Marked(files'["validate"])
    BY DEF Marked
<1>2. Marked(files["capabilities"])' <=> Marked(files'["capabilities"])
    BY DEF Marked
<1>3. \A f \in Files : Marked(files[f])' <=> Marked(files'[f])
    BY DEF Marked
<1>4. "validate" \in Files
    BY DEF Files
<1> QED
    BY <1>1, <1>2, <1>3, <1>4 DEF HalfInv

LEMMA WriteEndsInOrder == ASSUME IInv, HalfInv, WriteEnds PROVE HalfInv'
<1> DEFINE f == Subject
<1>1. /\ outcome = "running" /\ pc \in 4..7 /\ pending # Torn
      /\ files' = [files EXCEPT ![f] = pending]
      /\ copies' = copies /\ base' = base /\ rebases' = rebases
    BY DEF WriteEnds
<1>2. /\ files[f] = Torn /\ f \in Files
    BY <1>1, SubjectIsAFile DEF IInv, PendingInv
<1>3. files' = [g \in Files |-> IF g = f THEN pending ELSE files[g]]
    BY <1>1 DEF IInv, FilesInv
<1>4. ~Marked(files[f])
    BY <1>2, TornIsBare
<1>5. \A c \in Copies : copies'[c] # "absent"
    <2>1. \A j \in 1..3 : copies[CopyOrder[j]] = "whole"
        BY <1>1 DEF IInv, ProgressInv, CopiesDone
    <2> QED BY <1>1, <2>1, Orders
<1>6. f = "validate" => Marked(files["capabilities"])
    <2>1. PatchOrder[1] = "capabilities" /\ PatchOrder[2] = "validate"
        BY DEF PatchOrder
    <2>2. f = "validate" => pc - 3 = 2
        BY <1>1, <2>1, SubjectIsAFile, Orders DEF IInv, Subject
    <2>3. f = "validate" => 1 + 3 < pc
        BY <1>1, <2>2
    <2> QED BY <1>1, <2>1, <2>3 DEF IInv, ProgressInv, PatchesDone
<1> HIDE DEF f
<1>7. "validate" \in Files /\ "capabilities" \in Files
    BY DEF Files
<1>8. ASSUME rebases' = 0, Marked(files'["validate"]) PROVE Marked(files'["capabilities"])
    <2>1. Marked(files["capabilities"])
        BY <1>1, <1>3, <1>6, <1>7, <1>8 DEF HalfInv
    <2>2. f # "capabilities"
        BY <2>1, <1>4
    <2> QED BY <2>1, <2>2, <1>3, <1>7
<1>9. /\ Marked(files["validate"])' <=> Marked(files'["validate"])
      /\ Marked(files["capabilities"])' <=> Marked(files'["capabilities"])
    BY DEF Marked
<1> QED
    BY <1>1, <1>5, <1>8, <1>9 DEF HalfInv

LEMMA EveryStepInOrder == ASSUME IInv, HalfInv, [Next]_vars PROVE HalfInv'
<1>0. rebases \in Nat /\ base \in {pristine, main_base} /\ (rebases' = rebases + 1 => rebases' # 0)
    <2>1. rebases \in Nat
        BY ApplyAssumption DEF IInv, TypeOK
    <2> QED BY <2>1 DEF HalfInv
<1>1. CASE Start \/ Skips \/ Raises \/ Finishes \/ Killed \/ Done \/ UNCHANGED vars
    <2>1. files' = files /\ copies' = copies /\ base' = base /\ rebases' = rebases
        BY <1>1 DEF Start, Skips, Raises, Finishes, Killed, Done, vars
    <2> QED BY <2>1, <1>0, HalfGoesOn
<1>2. CASE CopyOpens \/ CopyEnds
    <2>1. /\ files' = files /\ base' = base /\ rebases' = rebases
          /\ \/ copies' = [copies EXCEPT ![CopyOrder[pc]] = "torn"]
             \/ copies' = [copies EXCEPT ![CopyOrder[pc]] = "whole"]
        BY <1>2 DEF CopyOpens, CopyEnds
    <2>2. copies \in [Copies -> {"absent", "torn", "whole"}]
        BY DEF IInv, TypeOK
    <2>3. \A c \in Copies : copies'[c] = "absent" => copies[c] = "absent"
        BY <2>1, <2>2
    <2> QED BY <2>1, <2>3, <1>0, HalfGoesOn
<1>3. CASE WriteOpens
    <2> DEFINE f == Subject
    <2>1. /\ pc \in 4..7 /\ ~Marked(files[f]) /\ files' = [files EXCEPT ![f] = Torn]
          /\ copies' = copies /\ base' = base /\ rebases' = rebases
        BY <1>3 DEF WriteOpens
    <2>2. files' = [g \in Files |-> IF g = f THEN Torn ELSE files[g]]
        BY <2>1 DEF IInv, FilesInv
    <2> HIDE DEF f
    <2>3. \A g \in Files : Marked(files'[g]) <=> Marked(files[g])
        BY <2>1, <2>2, TornIsBare
    <2>4. "capabilities" \in Files
        BY DEF Files
    <2> QED BY <2>1, <2>3, <2>4, <1>0, HalfGoesOn
<1>4. CASE WriteEnds
    BY <1>4, WriteEndsInOrder
<1>5. CASE \E f \in Files, t \in {pristine, main_base} : Checkout(f, t)
    <2>1. PICK f \in Files, t \in {pristine, main_base} : Checkout(f, t)
        BY <1>5
    <2>2. /\ \A g \in Files \ {f} : base[g] = t[g]
          /\ files' = [files EXCEPT ![f] = t[f]] /\ base' = [base EXCEPT ![f] = t[f]]
          /\ rebases' = rebases + 1 /\ copies' = copies
        BY <2>1 DEF Checkout
    <2>3. /\ IsTree(t) /\ base = [g \in Files |-> base[g]] /\ files = [g \in Files |-> files[g]]
        BY UpstreamTrees DEF IInv, FilesInv
    <2>4. base' = t
        <3>1. base' = [g \in Files |-> IF g = f THEN t[f] ELSE base[g]]
            BY <2>2, <2>3
        <3>2. base' = [g \in Files |-> t[g]]
            BY <3>1, <2>2
        <3> QED BY <3>2, <2>3 DEF IsTree
    <2>5. ~Marked(t[f])
        BY <2>3, FilesAreNotTorn DEF IsTree, Marked
    <2>6. \A g \in Files : Marked(files'[g]) => Marked(files[g])
        <3>1. files' = [g \in Files |-> IF g = f THEN t[f] ELSE files[g]]
            BY <2>2, <2>3
        <3> QED BY <3>1, <2>5
    <2> QED BY <2>1, <2>2, <2>4, <2>6, <1>0, HalfGoesOn
<1>6. CASE Rebase
    <2>1. settled /\ base' = main_base /\ rebases' = rebases + 1 /\ copies' = copies
        BY <1>6 DEF Rebase
    <2>2. \A f \in Files : Marked(files[f])
        BY <2>1 DEF IInv, ProgressInv, PatchesDone
    <2> QED BY <2>1, <2>2, <1>0, HalfGoesOn
<1>7. CASE \E f \in Files : \E b \in DOMAIN files[f] : Drop(f, b)
    <2>1. PICK f \in Files : \E b \in DOMAIN files[f] : Drop(f, b)
        BY <1>7
    <2>2. settled /\ base' = base /\ rebases' = rebases + 1 /\ copies' = copies
        BY <2>1 DEF Drop
    <2>3. \A g \in Files : Marked(files[g])
        BY <2>2 DEF IInv, ProgressInv, PatchesDone
    <2> QED BY <2>2, <2>3, <1>0, HalfGoesOn
<1> QED
    BY <1>1, <1>2, <1>3, <1>4, <1>5, <1>6, <1>7 DEF Next

\* A patched file has the name wherever a pattern matches, any other is upstream's.
LEMMA MarkedOrNot ==
    ASSUME IInv, dropped = {}, NEW f \in Files, files[f] # Torn
    PROVE  /\ ~Marked(files[f]) => files[f] = base[f]
           /\ Marked(files[f]) => \A b \in Blocks(f) :
                 <<f, b>> # AnImport => files[f][b] = base[f][b] \union {WO}
<1>1. /\ IsFile(f, files[f]) /\ IsFile(f, base[f])
      /\ \A b \in Blocks(f) : files[f][b] = base[f][b] \/ files[f][b] = base[f][b] \union {WO}
      /\ \A b \in Blocks(f) : WO \notin base[f][b]
      /\ Marked(files[f]) => \A b \in Blocks(f) : WO \in files[f][b] <=> <<f, b>> \notin Unmatched
    BY DEF IInv, FilesInv, FileInv, IsUpstream, IsPatched, IsMarked
<1>2. DOMAIN files[f] = Blocks(f)
    BY <1>1, FilesAreNotTorn
<1>3. ASSUME ~Marked(files[f]) PROVE files[f] = base[f]
    <2>1. \A b \in Blocks(f) : WO \notin files[f][b]
        BY <1>2, <1>3 DEF Marked
    <2>2. \A b \in Blocks(f) : files[f][b] = base[f][b]
        BY <1>1, <2>1
    <2>3. [b \in Blocks(f) |-> files[f][b]] = [b \in Blocks(f) |-> base[f][b]]
        BY <2>2
    <2> QED BY <2>3, <1>1 DEF IsFile
<1>4. ASSUME Marked(files[f]), NEW b \in Blocks(f), <<f, b>> # AnImport
      PROVE  files[f][b] = base[f][b] \union {WO}
    <2>1. WO \in files[f][b]
        BY <1>1, <1>4 DEF Unmatched, AnImport
    <2> QED BY <2>1, <1>1
<1> QED
    BY <1>3, <1>4

\* The enums are told apart by their names.
LEMMA NamesOfAppend ==
    ASSUME NEW S, NEW s \in Seq(S), NEW x
    PROVE  Range(Append(s, x)) = Range(s) \union {x}
<1> DEFINE T == S \union {x}
<1>1. s \in Seq(T) /\ x \in T
    <2>1. s \in [1..Len(s) -> S] /\ Len(s) \in Nat
        BY LenProperties
    <2>2. s \in [1..Len(s) -> T]
        BY <2>1
    <2> QED BY <2>1, <2>2, SeqDef
<1> HIDE DEF T
<1>2. /\ DOMAIN s = 1..Len(s) /\ Len(s) \in Nat
      /\ Append(s, x) \in Seq(T) /\ Len(Append(s, x)) = Len(s) + 1
      /\ \A k \in 1..Len(s) : Append(s, x)[k] = s[k]
      /\ Append(s, x)[Len(s) + 1] = x
    BY <1>1, AppendProperties, LenProperties
<1>3. DOMAIN Append(s, x) = 1..(Len(s) + 1)
    BY <1>2, LenProperties
<1>4. \A k \in 1..(Len(s) + 1) : k \in 1..Len(s) \/ k = Len(s) + 1
    BY <1>2
<1>5. Len(s) + 1 \in 1..(Len(s) + 1) /\ 1..Len(s) \subseteq 1..(Len(s) + 1)
    BY <1>2
<1> QED
    BY <1>2, <1>3, <1>4, <1>5 DEF Range

LEMMA TheEnums ==
    ASSUME NEW e \in {pristine_Capability, main_Capability}
    PROVE  /\ EnumOf(Range(e)) = e
           /\ EnumOf(Range(e) \union {WO}) = Append(e, WO)
<1> DEFINE P == pristine_Capability
           M == main_Capability
           d == "delta_channel_history"
           S == {"put", "put_writes", "get_tuple", "list", "delete_thread", "delete_for_runs",
                 "copy_thread", "prune", d}
<1>1. P \in Seq(S) /\ M \in Seq(S) /\ M = Append(P, d) /\ d # WO /\ d \notin Range(P)
    <2>1. P \in Seq(S) /\ Len(P) = 8
        BY DEF pristine_Capability
    <2>2. M = Append(P, d) /\ d \in S
        BY DEF main_Capability
    <2>3. M \in Seq(S)
        <3> HIDE DEF P, S, d, M
        <3> QED BY <2>1, <2>2, AppendProperties
    <2>4. /\ P[1] # d /\ P[2] # d /\ P[3] # d /\ P[4] # d
          /\ P[5] # d /\ P[6] # d /\ P[7] # d /\ P[8] # d
        BY DEF pristine_Capability
    <2>5. \A k \in 1..8 : k = 1 \/ k = 2 \/ k = 3 \/ k = 4 \/ k = 5 \/ k = 6 \/ k = 7 \/ k = 8
        OBVIOUS
    <2>6. DOMAIN P = 1..8
        <3> HIDE DEF P, S
        <3> QED BY <2>1, LenProperties
    <2>7. d # WO
        BY DEF WO
    <2> HIDE DEF P, S, d, M
    <2>8. d \notin Range(P)
        BY <2>4, <2>5, <2>6 DEF Range
    <2> QED BY <2>1, <2>2, <2>3, <2>7, <2>8
<1>2. WO \notin Range(P) /\ WO \notin Range(M)
    BY CapabilityNames
<1>3. Enums = {P, M, Append(P, WO), Append(M, WO)} /\ e \in {P, M}
    BY DEF Enums
<1> HIDE DEF P, M, d, S
<1>4. /\ Range(M) = Range(P) \union {d}
      /\ Range(Append(P, WO)) = Range(P) \union {WO}
      /\ Range(Append(M, WO)) = Range(P) \union {d, WO}
    <2>1. Range(M) = Range(P) \union {d}
        BY <1>1, NamesOfAppend
    <2>2. Range(Append(P, WO)) = Range(P) \union {WO}
        BY <1>1, NamesOfAppend
    <2>3. Range(Append(M, WO)) = Range(M) \union {WO}
        BY <1>1, NamesOfAppend
    <2> QED BY <2>1, <2>2, <2>3
<1>5. ASSUME NEW a \in Enums, NEW b \in Enums, Range(a) = Range(b) PROVE a = b
    <2>1. /\ d \notin Range(P) /\ d \in Range(M)
          /\ d \notin Range(Append(P, WO)) /\ d \in Range(Append(M, WO))
        BY <1>1, <1>4
    <2>2. /\ WO \notin Range(P) /\ WO \notin Range(M)
          /\ WO \in Range(Append(P, WO)) /\ WO \in Range(Append(M, WO))
        BY <1>2, <1>4
    <2>3. CASE a = P
        BY <2>1, <2>2, <2>3, <1>3, <1>5
    <2>4. CASE a = M
        BY <2>1, <2>2, <2>4, <1>3, <1>5
    <2>5. CASE a = Append(P, WO)
        BY <2>1, <2>2, <2>5, <1>3, <1>5
    <2>6. CASE a = Append(M, WO)
        BY <2>1, <2>2, <2>6, <1>3, <1>5
    <2> QED BY <2>3, <2>4, <2>5, <2>6, <1>3
<1>6. ASSUME NEW a \in Enums PROVE EnumOf(Range(a)) = a
    BY <1>5 DEF EnumOf
<1>7. Range(e) \union {WO} = Range(Append(e, WO))
    BY <1>3, <1>4
<1> QED
    BY <1>3, <1>6, <1>7

\* Upstream's trees.
LEMMA BasesOf ==
    ASSUME NEW t \in {pristine, main_base}
    PROVE  \E e \in {pristine_Capability, main_Capability} :
              /\ t.capabilities = capabilities_py(Range(e)) /\ t.validate = validate_py(Range(e))
              /\ t.spec_init = spec_init_py(Range(e))
<1>1. CASE t = pristine
    BY <1>1 DEF pristine, Tree
<1>2. CASE t = main_base
    BY <1>2 DEF main_base, Tree
<1> QED
    BY <1>1, <1>2

\* The names in the blocks of a tree whose capabilities.py and validate.py are each
\* patched or not, the second not before the first.
LEMMA SuiteOfAMixture ==
    ASSUME NEW e \in {pristine_Capability, main_Capability}, NEW t, NEW v \in BOOLEAN, NEW c \in BOOLEAN, v => c,
           t.capabilities.Capability = IF c THEN Range(e) \union {WO} ELSE Range(e),
           t.capabilities.METHOD_MAP = IF c THEN Range(e) \union {WO} ELSE Range(e),
           t.validate.RUNNERS = IF v THEN Range(e) \union {WO} ELSE Range(e)
    PROVE  SuiteOf(t) \in SuitesMade
<1> DEFINE N == Range(e)
           A == Append(e, WO)
           Plain == [caps |-> e, methods |-> N, runners |-> N]
           Patched == [caps |-> A, methods |-> N \union {WO}, runners |-> N \union {WO}]
           Half == [caps |-> A, methods |-> N \union {WO}, runners |-> N]
<1>1. EnumOf(N) = e /\ EnumOf(N \union {WO}) = A
    BY TheEnums
<1>2. WO \notin N
    BY CapabilityNames
<1>3. SuiteOf(t) = IF v THEN Patched ELSE IF c THEN Half ELSE Plain
    BY <1>1 DEF SuiteOf
<1>4. e = pristine_Capability => published = Plain /\ patched = Patched
    <2>1. published = [caps |-> EnumOf(Range(pristine_Capability)), methods |-> Range(pristine_Capability),
                       runners |-> Range(pristine_Capability)]
        BY DEF published, SuiteOf, pristine, Tree, capabilities_py, validate_py
    <2>2. patched = [caps |-> EnumOf(Range(pristine_Capability) \union {WO}),
                     methods |-> Range(pristine_Capability) \union {WO},
                     runners |-> Range(pristine_Capability) \union {WO}]
        BY DEF patched, SuiteOf, tree, Tree, capabilities_py, validate_py
    <2> QED BY <2>1, <2>2, <1>1
<1>5. e = main_Capability => upstream = Plain /\ patched_upstream = Patched
    <2>1. upstream = [caps |-> EnumOf(Range(main_Capability)), methods |-> Range(main_Capability),
                      runners |-> Range(main_Capability)]
        BY DEF upstream, SuiteOf, main_base, Tree, capabilities_py, validate_py
    <2>2. e = main_Capability => upstream = Plain
        BY <2>1, <1>1
    <2>3. ASSUME upstream = Plain PROVE patched_upstream = Patched
        <3> HIDE DEF N, A
        <3>1. patched_upstream = [Plain EXCEPT !.caps = Append(e, WO), !.methods = N \union {WO}, !.runners = N \union {WO}]
            BY <2>3 DEF patched_upstream
        <3>2. A = Append(e, WO)
            BY DEF A
        <3> QED BY <3>1, <3>2
    <2> QED BY <2>2, <2>3
<1>6. Halfway(Patched) = Half
    <2>1. (N \union {WO}) \ {WO} = N
        BY <1>2
    <2> HIDE DEF N, A
    <2>2. Halfway(Patched) = [caps |-> A, methods |-> N \union {WO}, runners |-> (N \union {WO}) \ {WO}]
        BY DEF Halfway
    <2> QED BY <2>1, <2>2
<1>7. {published, upstream, patched, patched_upstream, Halfway(patched), Halfway(patched_upstream)} = SuitesMade
    BY DEF SuitesMade
<1> HIDE DEF Plain, Patched, Half
<1>8. Plain \in SuitesMade /\ Patched \in SuitesMade /\ Halfway(Patched) \in SuitesMade
    BY <1>4, <1>5, <1>7
<1> QED
    BY <1>3, <1>6, <1>8

LEMMA HalfwayIsWhole == ASSUME IInv, HalfInv PROVE HalfwayImports
<1>1. SUFFICES ASSUME rebases = 0 \/ settled, dropped = {}, \A f \in Files : files[f] # Torn,
                      \A c \in Copies : copies[c] # "torn"
               PROVE  /\ Imports(files, copies["ownership"] = "whole", copies["spec"] = "whole")
                      /\ SuiteOf(files) \in SuitesMade
    BY DEF HalfwayImports
<1>2. PICK e \in {pristine_Capability, main_Capability} :
              /\ base.capabilities = capabilities_py(Range(e)) /\ base.validate = validate_py(Range(e))
              /\ base.spec_init = spec_init_py(Range(e))
    BY BasesOf DEF HalfInv
<1> DEFINE N == Range(e)
           V == N \union {WO}
           C(f) == Marked(files[f])
<1>3. /\ "capabilities" \in Files /\ "validate" \in Files /\ "spec_init" \in Files /\ "package_init" \in Files
    BY DEF Files
<1>4. \A f \in Files : /\ ~C(f) => files[f] = base[f]
                       /\ C(f) => \A b \in Blocks(f) : <<f, b>> # AnImport => files[f][b] = base[f][b] \union {WO}
    BY <1>1, MarkedOrNot
<1>5. C("validate") => C("capabilities")
    <2>1. settled => C("capabilities")
        BY <1>3 DEF IInv, ProgressInv, PatchesDone
    <2> QED BY <1>1, <2>1 DEF HalfInv
<1>6. \A f \in Files : C(f) => copies["ownership"] = "whole" /\ copies["spec"] = "whole"
    <2>1. "ownership" \in Copies /\ "spec" \in Copies
        BY DEF Copies
    <2>2. copies["ownership"] \in {"absent", "torn", "whole"} /\ copies["spec"] \in {"absent", "torn", "whole"}
        BY <2>1 DEF IInv, TypeOK
    <2> QED BY <2>1, <2>2, <1>1 DEF HalfInv
<1>7. \A f : f # "package_init" => \A b : <<f, b>> # AnImport
    BY DEF AnImport
<1>8. /\ base.capabilities.Capability = N /\ base.capabilities.METHOD_MAP = N
      /\ base.capabilities.EXTENDED_CAPABILITIES \subseteq N
      /\ base.validate.imports = N /\ base.validate.RUNNERS = N
      /\ base.spec_init.imports = N
    BY <1>2 DEF capabilities_py, validate_py, spec_init_py
<1>9. WO \notin N
    BY CapabilityNames
<1> HIDE DEF C, N
<1>10. /\ files.capabilities.Capability = IF C("capabilities") THEN V ELSE N
       /\ files.capabilities.METHOD_MAP = IF C("capabilities") THEN V ELSE N
       /\ files.capabilities.EXTENDED_CAPABILITIES \subseteq IF C("capabilities") THEN V ELSE N
    <2> DEFINE g == files["capabilities"]
    <2>1. CASE ~C("capabilities")
        BY <2>1, <1>3, <1>4, <1>8
    <2>2. CASE C("capabilities")
        <3>1. \A b \in Blocks("capabilities") : g[b] = base["capabilities"][b] \union {WO}
            BY <2>2, <1>3, <1>4, <1>7
        <3>2. /\ g["Capability"] = base["capabilities"]["Capability"] \union {WO}
              /\ g["METHOD_MAP"] = base["capabilities"]["METHOD_MAP"] \union {WO}
              /\ g["EXTENDED_CAPABILITIES"] = base["capabilities"]["EXTENDED_CAPABILITIES"] \union {WO}
            BY <3>1, TheBlocks
        <3> QED BY <3>2, <2>2, <1>8
    <2> QED BY <2>1, <2>2
<1>11. /\ files.validate.imports = IF C("validate") THEN V ELSE N
       /\ files.validate.RUNNERS = IF C("validate") THEN V ELSE N
    <2> DEFINE g == files["validate"]
    <2>1. CASE ~C("validate")
        BY <2>1, <1>3, <1>4, <1>8
    <2>2. CASE C("validate")
        <3>1. \A b \in Blocks("validate") : g[b] = base["validate"][b] \union {WO}
            BY <2>2, <1>3, <1>4, <1>7
        <3>2. /\ g["imports"] = base["validate"]["imports"] \union {WO}
              /\ g["RUNNERS"] = base["validate"]["RUNNERS"] \union {WO}
            BY <3>1, TheBlocks
        <3> QED BY <3>2, <2>2, <1>8
    <2> QED BY <2>1, <2>2
<1>12. WO \in files.spec_init.imports => C("spec_init")
    BY <1>3, <1>4, <1>8, <1>9
<1>13. WO \in files.package_init.imports => C("package_init")
    <2>1. "imports" \in Blocks("package_init") /\ DOMAIN files["package_init"] = Blocks("package_init")
        BY <1>1, <1>3, TheBlocks, FilesAreNotTorn DEF IInv, FilesInv, FileInv, IsPatched
    <2> QED BY <2>1 DEF C, Marked
<1>14. Imports(files, copies["ownership"] = "whole", copies["spec"] = "whole")
    <2>1. \A f \in Files : files[f] # Torn
        BY <1>1
    <2>2. files.capabilities.EXTENDED_CAPABILITIES \union files.capabilities.METHOD_MAP
            \subseteq files.capabilities.Capability
        BY <1>10
    <2>3. files.validate.RUNNERS \subseteq files.validate.imports \intersect files.capabilities.Capability
        BY <1>5, <1>10, <1>11
    <2>4. WO \in files.validate.imports \union files.spec_init.imports
            => copies["spec"] = "whole" /\ copies["ownership"] = "whole"
        BY <1>3, <1>6, <1>9, <1>11, <1>12
    <2>5. WO \in files.package_init.imports => copies["ownership"] = "whole"
        BY <1>3, <1>6, <1>13
    <2> QED BY <2>1, <2>2, <2>3, <2>4, <2>5 DEF Imports
<1>15. SuiteOf(files) \in SuitesMade
    <2>1. C("capabilities") \in BOOLEAN /\ C("validate") \in BOOLEAN
        BY DEF C, Marked
    <2> QED BY <2>1, <1>5, <1>10, <1>11, SuiteOfAMixture DEF N
<1> QED
    BY <1>14, <1>15

-----------------------------------------------------------------------------
(* The theorems.                                                            *)

\* The inductive invariant holds of every run of the installer: a file is
\* upstream's, patched or open, and what a run has been through is done.
THEOREM Invariance == Spec => []IInv
<1>1. Init => IInv
    BY AtTheStart
<1>2. IInv /\ [Next]_vars => IInv'
    BY EveryStepKeepsIt
<1> QED
    BY <1>1, <1>2, PTL DEF Spec

\* No capability of upstream's is lost, however often the installer is killed
\* while it has a file open, and whatever happens to the tree between two runs.
THEOREM UpstreamStays == Spec => []Inv
<1>1. ASSUME IInv PROVE UpstreamIsKept
    <2>1. SUFFICES ASSUME NEW f \in Files, files[f] # Torn, NEW b \in DOMAIN base[f]
                   PROVE  base[f][b] \subseteq files[f][b]
        BY DEF UpstreamIsKept
    <2>2. IsUpstream(f) /\ IsPatched(f)
        BY <1>1 DEF IInv, FilesInv, FileInv
    <2>3. b \in Blocks(f)
        BY <2>2, FilesAreNotTorn DEF IsUpstream
    <2> QED BY <2>1, <2>2, <2>3 DEF IsPatched
<1>2. IInv => Inv
    BY <1>1 DEF IInv, Inv
<1> QED
    BY <1>2, Invariance, PTL

\* "applied" is printed of a tree that has all of the capability, whatever came
\* before: apart from the entry that a conflict's resolution dropped and the
\* import line that no pattern matches, neither of which the installer notices.
THEOREM AppliedMeansWhole == Spec => []AppliedIsWhole
<1>1. ASSUME IInv PROVE AppliedIsWhole
    <2>1. SUFFICES ASSUME outcome = "applied", settled
                   PROVE  /\ \A c \in Copies : copies[c] = "whole"
                          /\ \A f \in Files :
                               /\ DOMAIN files[f] = DOMAIN base[f] /\ WO \in UNION Range(files[f])
                               /\ \A b \in DOMAIN base[f] :
                                    files[f][b] = base[f][b] \union
                                                  (IF <<f, b>> \in dropped \union Unmatched THEN {} ELSE {WO})
        BY DEF AppliedIsWhole
    <2>2. \A c \in Copies : copies[c] = "whole"
        BY <1>1, <2>1 DEF IInv, ProgressInv, CopiesDone
    <2>3. ASSUME NEW f \in Files
          PROVE  /\ DOMAIN files[f] = DOMAIN base[f] /\ WO \in UNION Range(files[f])
                 /\ \A b \in DOMAIN base[f] :
                      files[f][b] = base[f][b] \union
                                    (IF <<f, b>> \in dropped \union Unmatched THEN {} ELSE {WO})
        <3>1. Marked(files[f])
            BY <1>1, <2>1 DEF IInv, ProgressInv, PatchesDone
        <3>2. files[f] # Torn
            BY <3>1, TornIsBare
        <3>3. /\ IsFile(f, files[f])
              /\ \A b \in Blocks(f) : files[f][b] = base[f][b] \/ files[f][b] = base[f][b] \union {WO}
              /\ \A b \in Blocks(f) : WO \in files[f][b] <=> <<f, b>> \notin dropped \union Unmatched
              /\ IsFile(f, base[f]) /\ \A b \in Blocks(f) : WO \notin base[f][b]
            BY <1>1, <3>1, <3>2 DEF IInv, FilesInv, FileInv, IsUpstream, IsPatched, IsMarked
        <3>4. DOMAIN files[f] = Blocks(f) /\ DOMAIN base[f] = Blocks(f)
            BY <3>3, FilesAreNotTorn
        <3>5. WO \in UNION Range(files[f])
            BY <3>1 DEF Marked, Range
        <3>6. ASSUME NEW b \in DOMAIN base[f]
              PROVE  files[f][b] = base[f][b] \union
                                   (IF <<f, b>> \in dropped \union Unmatched THEN {} ELSE {WO})
            <4>1. CASE <<f, b>> \in dropped \union Unmatched
                BY <4>1, <3>3, <3>4
            <4>2. CASE <<f, b>> \notin dropped \union Unmatched
                BY <4>2, <3>3, <3>4
            <4> QED BY <4>1, <4>2
        <3> QED BY <3>4, <3>5, <3>6
    <2> QED BY <2>2, <2>3
<1> QED
    BY <1>1, Invariance, PTL

\* "running twice is a no-op": a run after one that went through opens no
\* patched file, since each of them has a name of the patch in it.
THEOREM RerunChangesNothing == Spec => RerunIsNoop
<1>1. ASSUME IInv, [Next]_vars, settled, settled' PROVE UNCHANGED files
    <2>1. ASSUME pc \in 4..7 PROVE Marked(files[Subject]) /\ files[Subject] # Torn
        BY <1>1, <2>1, SubjectIsAFile, TornIsBare DEF IInv, ProgressInv, PatchesDone
    <2>2. CASE WriteOpens
        BY <2>1, <2>2 DEF WriteOpens
    <2>3. CASE WriteEnds
        BY <2>1, <2>3, <1>1 DEF WriteEnds, IInv, PendingInv
    <2>4. CASE \/ \E f \in Files, t \in {pristine, main_base} : Checkout(f, t)
               \/ Rebase
               \/ \E f \in Files : \E b \in DOMAIN files[f] : Drop(f, b)
        BY <2>4, <1>1 DEF Checkout, Rebase, Drop
    <2>5. CASE Start \/ CopyOpens \/ CopyEnds \/ Skips \/ Raises \/ Finishes \/ Killed
        BY <2>5 DEF Start, CopyOpens, CopyEnds, Skips, Raises, Finishes, Killed
    <2>6. CASE Done \/ UNCHANGED vars
        BY <2>6 DEF Done, vars
    <2> QED BY <1>1, <2>2, <2>3, <2>4, <2>5, <2>6 DEF Next
<1>2. IInv /\ [Next]_vars => [settled /\ settled' => UNCHANGED files]_vars
    BY <1>1
<1> QED
    BY <1>2, Invariance, PTL DEF Spec, RerunIsNoop

\* The order of the files is one in which nothing is lost half-way: while upstream
\* stands still a tree of its own imports at every point of every run, whenever the
\* installer is killed, and its suite is one of those the runner is checked with.
THEOREM HalfwayTreesImport ==
    ASSUME Bases \subseteq {pristine, main_base}
    PROVE  Spec => []HalfwayImports
<1>1. ASSUME IInv, HalfInv PROVE HalfwayImports
    BY <1>1, HalfwayIsWhole
<1>2. Init => HalfInv
    BY HalfAtTheStart
<1>3. IInv /\ HalfInv /\ [Next]_vars => HalfInv'
    BY EveryStepInOrder
<1> QED
    BY <1>1, <1>2, <1>3, Invariance, PTL DEF Spec
=============================================================================
