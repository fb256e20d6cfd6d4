SPECIFICATION FairSpec
CONSTANTS
    j1 = j1
    w1 = w1
    w2 = w2
    Jobs <- MCJobs
    Workers <- MCWorkers
    MaxClaims = 2
    MaxRevision = 4
CHECK_DEADLOCK FALSE
PROPERTIES
    RequeueNeedsBoth
