--------------------------- MODULE GuardedWrites ---------------------------
(***************************************************************************)
(* What a server-side fence promises, without saying how: ownership of a    *)
(* thread passes from epoch to epoch, a write is admitted only while its    *)
(* writer is the current owner, one write of a writer is undecided at a     *)
(* time, and only an admitted write becomes durable.  A writer superseded   *)
(* between admission and commit may therefore still land that one write,    *)
(* and nothing after it.                                                    *)
(***************************************************************************)
EXTENDS Integers

CONSTANTS Worker, MaxBlocks

VARIABLES
    epoch,      \* the current ownership; 0 before the thread has an owner
    holding,    \* the ownership each worker was granted; 0 for none
    admitted,   \* the worker has an admitted, still undecided write
    durable     \* the durable writes, as <<worker, number>>

vars == <<epoch, holding, admitted, durable>>

Init ==
    /\ epoch = 0
    /\ holding = [w \in Worker |-> 0]
    /\ admitted = [w \in Worker |-> FALSE]
    /\ durable = {}

\* Ownership is granted afresh, superseding every earlier owner.
TakeOver(w) ==
    /\ holding[w] = 0
    /\ epoch' = epoch + 1
    /\ holding' = [holding EXCEPT ![w] = epoch']
    /\ UNCHANGED <<admitted, durable>>

Admit(w) ==
    /\ holding[w] = epoch /\ epoch # 0
    /\ ~admitted[w]
    /\ admitted' = [admitted EXCEPT ![w] = TRUE]
    /\ UNCHANGED <<epoch, holding, durable>>

Land(w) ==
    /\ admitted[w]
    /\ admitted' = [admitted EXCEPT ![w] = FALSE]
    /\ \E n \in 1..MaxBlocks : /\ <<w, n>> \notin durable
                               /\ durable' = durable \cup {<<w, n>>}
    /\ UNCHANGED <<epoch, holding>>

Drop(w) ==
    /\ admitted[w]
    /\ admitted' = [admitted EXCEPT ![w] = FALSE]
    /\ UNCHANGED <<epoch, holding, durable>>

Next == \E w \in Worker : TakeOver(w) \/ Admit(w) \/ Land(w) \/ Drop(w)

Spec == Init /\ [][Next]_vars
=============================================================================
