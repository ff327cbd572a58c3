SPECIFICATION FairSpec
CONSTANTS
    Subjects <- LiveSubjects
    Messages = {"m1", "m2"}
    QueueLimit = 2
    MaxRequests = 2
    MaxDrops = 1
    Conversations = {"c1", "c2"}
    Script <- ShortScript
    CopyAfter = 1
    Home = "home"
    PageSize = 2
    MaxBreaks = 1
    MaxOpenings = 2
    Tabs = {"t1", "t2"}
    MaxTokens = 3
    MaxLate = 2
    Chats = {"c1", "c2"}
    Task = "task"
    NoPage = "none"
    MaxSends = 2
    Hits = {"h1", "h2", "h3"}
    Limit = 1
    Window = 4
    Delay = 1
    Skew = 0
    MaxClock = 5
    Names = {"p1", "p2"}
    NoName = "none"
    MaxProfiles = 2
    Requests = {"r1", "r2"}
    MaxStores = 4
    Talks = {"t1"}
    NoTalk = "none"
    Boxes = {"s1"}
    NoBox = "none"
    Lookups = {"l1", "l2"}
    MaxShared = 2
    MaxActive = 2
    MaxFaults = 4
\* A start that is over, a page that was left: nothing need happen any more.
CHECK_DEADLOCK FALSE
INVARIANTS
    RestartsAreCounted
PROPERTIES
    EarlyMessagesAreTried
    PageCatchesUp
    LoadingEnds
