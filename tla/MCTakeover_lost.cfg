SPECIFICATION Spec
CONSTANTS
    a = a
    b = b
    c = c
    Starter = a
    Worker = {a, b, c}
    Fenced = {TRUE}
    Channel = {"delta"}
    Expected = {1}
    Steps = 1
INVARIANTS
    FenceCoversEveryWrite
