SPECIFICATION CalendarSpec
CONSTANTS
    \* CalendarSync
    CalEvents = {1, 2}
    Entries = {1, 2}
    Values = {a, b}
    AllDay = allday
    Private = individual
    Screens = {s1}
    Ticks = {t1}
    MaxHappenings = 3
    \* CalendarOps
    Asked = {1, 2}
    Planned = {1, 2}
    Taps = {a, b}
    OpTTL = 0
    MaxSlot = 1
    LastSlot = 2
    \* Lake
    Sayings = {w1}
    LookBack = 3
    Settle = 1
    ADay = 1
    Slack = 0
    MaxMissed = 1
    MaxFailures = 2
    MaxTime = 5
SYMMETRY Symmetry
CHECK_DEADLOCK FALSE
INVARIANTS
    CalendarTypeOK
    
    LakeIsTrue
PROPERTIES
    OnlyStaleCallsUndo
    ChatChangesOnce
