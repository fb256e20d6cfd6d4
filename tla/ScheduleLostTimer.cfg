SPECIFICATION Spec
CONSTANTS
    r1 = r1
    r2 = r2
    NoRuntime = NoRuntime
    Runtimes <- MCRuntimes
    MaxRevision = 3
    MaxFaults = 1
INVARIANT NoLostTimer
CHECK_DEADLOCK FALSE
