SPECIFICATION FairSpec
CONSTANTS
    w1 = w1
    w2 = w2
    c1 = c1
    c2 = c2
    NoWorker = NoWorker
    Workers <- MCWorkers
    Commands <- MCCommands
    Gated <- MCGated
    MaxInFlight = 1
    MaxFaults = 1
PROPERTIES EdgeIsPhysicalCall CancelledBeforeClaimNeverActs CommandEnds
CHECK_DEADLOCK FALSE
