SPECIFICATION BatchSpec
CONSTANTS
    Worker = {w1, w2}
    Branch = {"pipe", "pipeline", "transaction"}
    Stmts = 2
    MaxFence = 2
    MaxBlocks = 2
INVARIANTS
    TypeOK
    PartialOnlyByPipelineRaise
    NormalReturnMeansDurable
PROPERTIES
    LockReleased
    RefusalReported
