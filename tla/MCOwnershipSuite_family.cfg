SPECIFICATION Spec
CONSTANT Savers <- Family
CONSTANT Interrupted <- References
INVARIANT Inv
INVARIANT ContractPasses
INVARIANT PassMeansContract
INVARIANT SilenceIsNoEnforcement
