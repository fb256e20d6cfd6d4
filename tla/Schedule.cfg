SPECIFICATION FairSpec
CONSTANTS
    r1 = r1
    r2 = r2
    NoRuntime = NoRuntime
    Runtimes <- MCRuntimes
    MaxRevision = 3
    MaxFaults = 1
INVARIANTS OneShotOnce QuiescentArmed
PROPERTIES NeverEarly DueServed
CHECK_DEADLOCK FALSE
