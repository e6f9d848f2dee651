SPECIFICATION FairSpec
CONSTANTS
    a = a
    b = b
    c = c
    Starter = a
    Worker = {a, b}
    Fenced = {TRUE, FALSE}
    Channel = {"delta", "plain"}
    Expected = {1}
    Steps = 5
INVARIANTS
    SuccessIsReachable
    OrphansExplained
    FinishedIsWellFormed
PROPERTIES
    TakeoverCompletes
    WritesAreGuarded
