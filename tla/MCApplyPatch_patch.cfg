SPECIFICATION Spec
CONSTANT Bases <- BothBases
CONSTANT Hiddens <- SomeHidden
CONSTANT MaxRuns = 3
CONSTANT MaxRebases = 2
INVARIANT Inv
INVARIANT HalfwayImports
INVARIANT AppliedIsWhole
PROPERTY RerunIsNoop
