SPECIFICATION FairSpec
CONSTANTS
    b1 = b1
    b2 = b2
    r1 = r1
    r2 = r2
    w1 = w1
    w2 = w2
    nobody = nobody
    Nobody <- nobody
    Builds <- OneBuild
    Requests <- TwoRequests
    Workers <- OneWorker
    Procs <- AllProcs
    Cost = 2
    SignupGrant = 3
    MaxRetries = 1
    MaxCrashes = 1
\* A system whose builds are all deleted and whose queue is empty may stop.
CHECK_DEADLOCK FALSE
PROPERTIES
    RequestsEnd
    QueueDrains
