SPECIFICATION FairSpec
CONSTANTS
    b1 = b1
    b2 = b2
    r1 = r1
    r2 = r2
    j1 = j1
    j2 = j2
    j3 = j3
    Builds <- OneBuild
    Replicas <- OneReplica
    Jobs <- TwoJobs
    MaxConcurrent = 2
    MaxRestarts = 1
    MaxRetries = 1
\* When all jobs have ended and the deliveries are settled nothing is left to do.
CHECK_DEADLOCK FALSE
PROPERTIES
    SlotsAreReturned
    DeliveriesEnd
