SPECIFICATION FairSpec
CONSTANTS
    o1 = o1
    o2 = o2
    o3 = o3
    f1 = f1
    NoOp = NoOp
    NoReplica = NoReplica
    Ops <- MCOps
    Foreign <- MCForeign
    Kinds <- MCKinds
    MaxPending = 2
INVARIANTS ReadsAreNotPassed ParkedIsFenced CacheIsAcknowledged
PROPERTIES StoreIsAtomic OperationsEnd
CHECK_DEADLOCK FALSE
