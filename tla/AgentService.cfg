SPECIFICATION Spec
CONSTANTS
    b1 = b1
    b2 = b2
    r1 = r1
    r2 = r2
    j1 = j1
    j2 = j2
    j3 = j3
    Builds <- OneBuild
    Replicas <- TwoReplicas
    Jobs <- TwoJobs
    MaxConcurrent = 1
    MaxRestarts = 1
    MaxRetries = 1
SYMMETRY Symmetry
\* When all jobs have ended and the deliveries are settled nothing is left to do.
CHECK_DEADLOCK FALSE
INVARIANTS
    TypeOK
    SlotsMatchJobs
    VerdictsAreTrue
    IInv
PROPERTIES
    VerdictIsFinal
