CONSTANTS
    SlotsPerDay = 2
    Members = {1}
    Jobs <- MCJobs
    NoJob = NoJob
    Procs = {t1, a1, o1}
    SettingsDocs <- OnlyOn
    Flaky = {}
    MaxClock = 0
    MaxPush = 1
    MaxLost = 1
    Events = {1, 2}
    Forms <- BadForms
    Stages <- MCStages
    Before <- MCBefore
    Audience <- MCAttendees
    Officers = {1}
    Ticks = {t1}
    Admins = {a1}
    Ops = {o1}
    NoDeadline = NoDeadline
    MaxClose = 1
    MaxEdits = 0
    MaxCrash = 0
SPECIFICATION Spec
INVARIANTS
    DailyReminderLimit

    
