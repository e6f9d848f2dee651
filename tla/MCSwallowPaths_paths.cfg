SPECIFICATION Spec
CONSTANT Cases <- Wide
INVARIANT Inv
INVARIANT DropsExplained
INVARIANT SyncPutStopsTheRun
PROPERTY QuietAfterReturn
