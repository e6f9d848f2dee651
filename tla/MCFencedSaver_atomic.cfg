SPECIFICATION Spec
CONSTANTS
    Worker = {w1, w2}
    Branch = {"pipe", "pipeline", "transaction"}
    Stmts = 1
    MaxFence = 2
    MaxBlocks = 1
INVARIANT GuardAndWriteAtomic
