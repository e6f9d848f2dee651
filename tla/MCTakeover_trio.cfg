SPECIFICATION Spec
SYMMETRY TakersOver
CONSTANTS
    a = a
    b = b
    c = c
    Starter = a
    Worker = {a, b, c}
    Fenced = {TRUE}
    Channel = {"delta"}
    Expected = {1, 2}
    Steps = 3
INVARIANTS
    Inv
    OnlyLateBlocksFork
