SPECIFICATION OfficeSpec
CONSTANTS
    \* Stores
    Ids = {1, 2}
    Refs = {1, 2}
    Groups = {1, 2}
    LineEvents = {e1}
    TurnLimit = 2
    Retention = 1
    ClaimTTL = 1
    StoreDays = 2
    MaxWrites = 3
    \* DocSession
    Papers = {d1}
    SessionIds = {1, 2}
    OpIds = {1, 2}
    ChatCalls = {a, b}
    TTL = 1
    MaxHour = 2
    MaxPeople = 1
    MaxTaps = 4
    \* Proposals
    Supervisors = {v1}
    Clerks = {o1}
    TickRuns = {t1}
    Deadlines = {1}
    Window = 1
    LastDay = 1
    MaxDoings = 2
    \* PlanFiles
    Files = {1, 2}
    Rows = {1, 2, 3, 4}
    Wishes = {a, b}
    Makers = {a, b}
    Syncs = {y1}
    MaxBother = 4
    \* Notices
    Members = {a, b}
    Mails = {a, b}
    Notices = {1, 2}
    Desks = {a, b}
    MaxActs = 5
    \* FeedbackBox
    Items = {1, 2}
    Pens = {p1}
    PerTick = 1
    Statuses = {"new", "done"}
    MaxPlain = 2
    \* Surveys
    Guests = {a, b}
    Surveys = {1, 2}
    Callers = {a, b}
    MaxCalls = 6
    \* LineContent
    Workers = {a, b}
    Instances = {i1}
    MaxDeliveries = 2
    MaxEvents = 3
    MaxOld = 1
    \* Deferral
    SlotsPerDay = 5
    MaxDay = 1
SYMMETRY OfficeSymmetry
CHECK_DEADLOCK FALSE
INVARIANTS
    OfficeTypeOK
    DeferredToFirstFreeSlot
PROPERTIES
    
    StoresKeepPromise
    LedgerHolds
    
    FeedbackIsKept
    
    ContentIsTrue
