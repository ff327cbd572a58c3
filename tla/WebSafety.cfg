SPECIFICATION Spec
CONSTANTS
    Subjects <- AllSubjects
    Messages = {"m1", "m2", "m3"}
    QueueLimit = 1
    MaxRequests = 2
    MaxDrops = 1
    Conversations = {"c1", "c2"}
    Script <- LongScript
    CopyAfter = 1
    Home = "home"
    PageSize = 3
    MaxBreaks = 1
    MaxOpenings = 2
    Tabs = {"t1", "t2"}
    MaxTokens = 3
    MaxLate = 2
    Chats = {"c1", "c2"}
    Task = "task"
    NoPage = "none"
    MaxSends = 2
    Hits = {"h1", "h2", "h3"}
    Limit = 1
    Window = 4
    Delay = 1
    Skew = 0
    MaxClock = 5
    Names = {"p1", "p2"}
    NoName = "none"
    MaxProfiles = 2
    Requests = {"r1", "r2"}
    MaxStores = 4
    Talks = {"t1", "t2"}
    NoTalk = "none"
    Boxes = {"s1"}
    NoBox = "none"
    Lookups = {}
    MaxShared = 2
    MaxActive = 2
    MaxFaults = 1
\* The bounds on what can go wrong and on what users do are reached.
CHECK_DEADLOCK FALSE
INVARIANTS
    WebTypesOK
    DeletedWereTried
    DeliveredOnce
    QueueOrderKept
    
    ChatIsRendering
    StoreIsChronological
    CookieUsable
    StoreBeforeBrand
    DraftsStayApart
    LimitIsKept
    ActiveProfileRuns
PROPERTIES
    ImplementsTranscript
    LastOneCleansUp
