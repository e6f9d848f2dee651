--------------------------- MODULE MCFencedSaver ---------------------------
EXTENDS FencedSaver, TLC

WorkerSymmetry == Permutations(Worker)

\* Only the worker that is taken over from has a second block: the others are
\* never superseded at this bound on the fence value.
TakersWriteOnce == \A w \in Worker : cfg[w] # 1 => begun'[w] <= 1

ZombieSpec == Init /\ [][Next /\ TakersWriteOnce]_vars

\* It has one only beside workers that write nothing, whose branch is then all
\* the same: its refusals do not depend on what its successor writes.
SecondBlockIsAlone ==
    \A v, w \in Worker : v # w /\ begun'[w] > 1 => /\ cfg[w] = 1
                                                   /\ begun'[v] = 0
                                                   /\ branch[v] = branch[w]

\* Fairness does not ask of any worker to begin a block.
BatchSpec == Init /\ [][Next /\ SecondBlockIsAlone]_vars /\ Fairness
=============================================================================
