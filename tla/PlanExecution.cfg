SPECIFICATION FairSpec
CONSTANTS
    w1 = w1
    w2 = w2
    root = root
    b1 = b1
    b2 = b2
    kid = kid
    Workers <- MCWorkers
    Plans <- MCPlans
    Root = root
    Program <- MCProgram
    Branches <- MCBranches
    Catches <- MCCatches
    MaxSteps = 2
    MaxFaults = 1
CHECK_DEADLOCK FALSE
INVARIANTS
    RefillIsTheChildsOutcome
    NothingRunsAhead
    JoinIsABarrier
    GroupSettlesOnce
    CancellationIsFinal
PROPERTIES
    MachineOnlyAdvances
    NoProgramIsStranded
