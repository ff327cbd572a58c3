SPECIFICATION FairPendingSpec
CONSTANTS
    Messages = {"m1", "m2"}
    QueueLimit = 2
    MaxRequests = 1
    MaxDrops = 1
\* A start that is over: nothing need happen any more.
CHECK_DEADLOCK FALSE
PROPERTIES
    QueuedAreDelivered
