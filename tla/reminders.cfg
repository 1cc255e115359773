CONSTANTS
    SlotsPerDay = 2
    Members = {1, 2}
    Jobs <- MCJobs
    NoJob = NoJob
    Procs = {t1}
    SettingsDocs <- OnOff
    Flaky = {1}
    MaxClock = 4
    MaxPush = 3
    MaxLost = 1
    Events = {1}
    Forms <- TwoForms
    Stages <- MCStages
    Before <- MCBefore
    Audience <- MCAudience
    Officers = {1}
    Ticks = {t1}
    Admins = {}
    Ops = {}
    NoDeadline = NoDeadline
    MaxClose = 0
    MaxEdits = 1
    MaxCrash = 1
SPECIFICATION Spec
INVARIANTS
    RemindersOnRecord
    PlanIsAsFreshAsTheTick
    KillSwitchLeaksOneJob
PROPERTIES
    KeepsPromise
    LaterStagesOnly
    NoReminderAfterStart
