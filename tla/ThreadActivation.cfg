SPECIFICATION FairSpec
CONSTANTS
    r1 = r1
    r2 = r2
    NoRuntime = NoRuntime
    Runtimes <- MCRuntimes
    MaxSignals = 3
    MaxBatch = 1
    MaxGeneration = 2
    FaultySignals = 2
    MaxFaults = 2
CHECK_DEADLOCK FALSE
INVARIANTS
    TypeOK
    OutcomeOwned
    SingleFlight
    ClaimedIsHeld
    SteeringSurvivesCompletion
PROPERTIES
    FirstOutcomeStands
    PendingSettles
