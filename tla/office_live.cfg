SPECIFICATION EndSpec
CONSTANTS
    \* CalendarSync
    CalEvents = {1}
    Entries = {1, 2}
    Values = {v1}
    AllDay = allday
    Private = individual
    Screens = {s1}
    Ticks = {t1}
    MaxHappenings = 2
    \* PlanFiles
    Files = {1, 2}
    Rows = {1, 2, 3, 4}
    Wishes = {q1, q2}
    Makers = {m1}
    Syncs = {y1}
    MaxBother = 3
    \* Proposals
    Supervisors = {v1}
    Clerks = {o1}
    TickRuns = {r1}
    Deadlines = {1}
    Window = 1
    LastDay = 1
    MaxDoings = 2
    \* FeedbackBox
    Items = {1, 2}
    Pens = {p1}
    PerTick = 1
    Statuses = {"new", "done"}
    MaxPlain = 1
    \* RichMenus
    Numbered = {1}
    Drawn = {}
    People = {n1}
    NoName = noname
    Committees = {"k1"}
    NoCommittee = none
    Seatings <- OneSeating
    Accounts = {l1}
    NoAccount = nobody
    Hands = {h1}
    MaxChores = 2
    \* Knowledge
    Drives = {f1}
    Images = {}
    Talks = {w1}
    Rounds = {n1}
    Batch = 1
    MaxEdits = 2
    MaxTrouble = 1
CHECK_DEADLOCK FALSE
PROPERTIES
    
    OfficeCatchesUp
