SPECIFICATION FairSpec
CONSTANT Scripts <- Both
INVARIANT Inv
INVARIANT TakeoverIsExclusive
INVARIANT NoFalseProof
PROPERTY ProofEnds
