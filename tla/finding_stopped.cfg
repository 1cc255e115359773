SPECIFICATION PrSpec
CONSTANTS
    Supervisors = {v1}
    Clerks = {c1}
    TickRuns = {t1}
    Deadlines = {1}
    Window = 1
    LastDay = 1
    MaxDoings = 2
PROPERTIES
    HeldBackIsSentLater
CHECK_DEADLOCK FALSE
