SPECIFICATION FairSpec
CONSTANTS
    r1 = r1
    r2 = r2
    NoRuntime = NoRuntime
    Runtimes <- MCRuntimes
    MaxSignals = 2
    MaxBatch = 1
    MaxGeneration = 1
    FaultySignals = 2
    MaxFaults = 0
CHECK_DEADLOCK FALSE
PROPERTIES
    OverflowIsServed
