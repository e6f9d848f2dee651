SPECIFICATION ZombieSpec
CONSTANTS
    Worker = {w1, w2, w3}
    Branch = {"pipe"}
    Stmts = 1
    MaxFence = 2
    MaxBlocks = 2
SYMMETRY WorkerSymmetry
INVARIANTS
    OneHolderPerFence
    AtMostOneLateBlock
    RefusalIsFinal
PROPERTY ImplementsGuardedWrites
