SPECIFICATION Spec
CONSTANTS
    m1 = m1
    m2 = m2
    m3 = m3
    NoMember = NoMember
    MaxGeneration = 3
    Unset = Unset
    Members <- MCMembers
    RequiredSets <- MCRequiredSets
    Contracts <- MCContracts
INVARIANTS NoLostVerdict VerdictStandsOnRows OneBarrier CompletedParentWaited PromotedWaitEnds
CHECK_DEADLOCK FALSE
