SPECIFICATION Spec
CONSTANTS
    r1 = r1
    r2 = r2
    NoRuntime = NoRuntime
    Runtimes <- MCRuntimes
    MaxSignals = 1
    MaxBatch = 1
    MaxGeneration = 1
    FaultySignals = 1
    MaxFaults = 1
SYMMETRY RuntimeSymmetry
CHECK_DEADLOCK FALSE
PROPERTIES
    LostLeaseKeepsInput
