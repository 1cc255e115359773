------------------------------ MODULE Delivery ------------------------------
(* The delivery engine: execute_delivery (app/delivery.py) run by several      *)
(* server processes at once, with the decision of app/guardrails.py before     *)
(* every message, the LINE Push call of app/line_push.py and the delivery log  *)
(* in Firestore.  Who starts a job, and for whom, is left open here: the       *)
(* callers (Reminders and the other modules) say it.                           *)
(*                                                                             *)
(* A job keeps one log document per member: its id is job_id:member_id, and    *)
(* saving it again overwrites it.  Every step that reads or writes shared      *)
(* state, or calls LINE, is an action of its own.                              *)
EXTENDS Guardrails, FiniteSets

CONSTANTS
    Members,      \* member ids: naturals, in the order the documents are listed
    Jobs,         \* job ids
    NoJob,        \* no job is being executed
    Procs,        \* requests that may execute a job: ticks, admin calls
    SettingsDocs, \* the settings documents an administrator may save
    Flaky,        \* members whose push LINE may answer with an error
    MaxClock,     \* bound: the last slot of the observed period
    MaxPush,      \* bound: messages of one job to one member
    MaxLost       \* bound: messages of one job to one member left unlogged

ASSUME MembersAssumption == Members \subseteq Nat /\ Flaky \subseteq Members
ASSUME JobsAssumption == NoJob \notin Jobs
ASSUME ProcessesAssumption == IsFiniteSet(Procs)
ASSUME SettingsAssumption ==
    /\ SettingsDocs # {}
    /\ SettingsDocs \subseteq
         [kill_switch : BOOLEAN, quiet_hours : QuietHours, per_member_per_day : Nat]
ASSUME BoundsAssumption == MaxClock \in Nat /\ MaxPush \in Nat /\ MaxLost \in Nat

VARIABLES
    clock,      \* the current slot
    settings,   \* settings/global
    linked,     \* members whose document has a line_user_id
    jobStatus,  \* job document: "none", or its status
    log,        \* log[j][m]: the delivery log document of job j for member m
    run,        \* run[p]: the locals of the execute_delivery call of p
    delivered,  \* history: messages of job j that reached member m
    lost,       \* history: those whose sender died before it logged them
    leaked      \* history: jobs p pushed for since the switch was thrown

sharedVars == <<clock, settings, linked>>
historyVars == <<delivered, lost, leaked>>
dvars == <<clock, settings, linked, jobStatus, log, run, delivered, lost, leaked>>

Times == 0..MaxClock

Results == {"none", "ok", "blocked", "failed"}
NoLog == [result |-> "none", sent_at |-> 0]

Idle == [pc |-> "idle", job |-> NoJob, todo |-> {}, now |-> 0,
         settings |-> CHOOSE s \in SettingsDocs : TRUE]

LogEntry == [result : Results, sent_at : Times]
Locals == [pc : {"idle", "decide", "push", "accepted", "unlinked"},
           job : Jobs \cup {NoJob}, todo : SUBSET Members,
           now : Times, settings : SettingsDocs]

DTypeOK ==
    /\ clock \in Times
    /\ settings \in SettingsDocs
    /\ linked \subseteq Members
    /\ jobStatus \in [Jobs -> {"none", "queued", "sent", "halted"}]
    /\ log \in [Jobs -> [Members -> LogEntry]]
    /\ run \in [Procs -> Locals]
    /\ \A p \in Procs : run[p].pc # "idle" => run[p].job \in Jobs
    /\ delivered \in [Jobs -> [Members -> Nat]]
    /\ lost \in [Jobs -> [Members -> Nat]]
    /\ leaked \in [Procs -> SUBSET Jobs]

DInit ==
    /\ clock = 0
    /\ settings \in SettingsDocs
    /\ linked \in SUBSET Members
    /\ jobStatus = [j \in Jobs |-> "none"]
    /\ log = [j \in Jobs |-> [m \in Members |-> NoLog]]
    /\ run = [p \in Procs |-> Idle]
    /\ delivered = [j \in Jobs |-> [m \in Members |-> 0]]
    /\ lost = [j \in Jobs |-> [m \in Members |-> 0]]
    /\ leaked = [p \in Procs |-> {}]
-----------------------------------------------------------------------------
(* ok logs of the member stamped since the midnight before now, over all jobs *)
count_sends_today(m, now) ==
    Cardinality({j \in Jobs : /\ log[j][m].result = "ok"
                              /\ log[j][m].sent_at >= now - Tod(now)})

(* mutant: the limit is off by one *)
decide_send_off_by_one(m, now, set) ==
    /\ ~set.kill_switch
    /\ ~is_quiet_hours(Tod(now), set.quiet_hours)
    /\ count_sends_today(m, now) <= set.per_member_per_day

(* the settings are those the job read when it started *)
decide_send(m, now, set) ==
    /\ ~set.kill_switch
    /\ ~is_quiet_hours(Tod(now), set.quiet_hours)
    /\ count_sends_today(m, now) < set.per_member_per_day

IsNext(p, m) == m \in run[p].todo /\ \A n \in run[p].todo : m <= n

WriteLog(p, m, result) ==
    log' = [log EXCEPT ![run[p].job][m] = [result |-> result, sent_at |-> run[p].now]]

(* a caller saves its job document before executing it *)
SaveJob(j) == jobStatus' = [jobStatus EXCEPT ![j] = "queued"]

(* mutant: settings kept in the process from one job to the next *)
StartJobWithCachedSettings(p, j, targets, clean, now) ==
    /\ run[p].pc = "idle" /\ sanity_check_ok(targets, clean)
    /\ run' = [run EXCEPT ![p] = [pc |-> "decide", job |-> j, todo |-> targets,
                                  now |-> now, settings |-> run[p].settings]]
    /\ UNCHANGED <<jobStatus, log, sharedVars, historyVars>>

(* execute_delivery up to its loop: settings are read once; a batch that fails *)
(* the sanity check is halted as a whole                                       *)
StartJob(p, j, targets, clean, now) ==
    /\ run[p].pc = "idle"
    /\ IF sanity_check_ok(targets, clean)
       THEN /\ run' = [run EXCEPT ![p] = [pc |-> "decide", job |-> j, todo |-> targets,
                                          now |-> now, settings |-> settings]]
            /\ UNCHANGED jobStatus
       ELSE /\ jobStatus' = [jobStatus EXCEPT ![j] = "halted"]
            /\ UNCHANGED run
    /\ UNCHANGED <<log, sharedVars, historyVars>>

(* the next member is held back, and the log says so *)
Block(p) == \E m \in Members :
    /\ run[p].pc = "decide"
    /\ IsNext(p, m)
    /\ ~decide_send(m, run[p].now, run[p].settings)
    /\ WriteLog(p, m, "blocked")
    /\ run' = [run EXCEPT ![p].todo = @ \ {m}]
    /\ UNCHANGED <<jobStatus, sharedVars, historyVars>>

Allow(p) == \E m \in Members :
    /\ run[p].pc = "decide"
    /\ IsNext(p, m)
    /\ decide_send(m, run[p].now, run[p].settings)
    /\ run' = [run EXCEPT ![p].pc = "push"]
    /\ UNCHANGED <<jobStatus, log, sharedVars, historyVars>>

(* the sender finds no line_user_id and returns False *)
SkipUnlinked(p) == \E m \in Members \ linked :
    /\ run[p].pc = "push"
    /\ IsNext(p, m)
    /\ run' = [run EXCEPT ![p].pc = "unlinked"]
    /\ UNCHANGED <<jobStatus, log, sharedVars, historyVars>>

(* the message reaches the member's LINE *)
Reach(p, m) ==
    /\ delivered[run[p].job][m] < MaxPush
    /\ delivered' = [delivered EXCEPT ![run[p].job][m] = @ + 1]
    /\ leaked' = IF settings.kill_switch
                 THEN [leaked EXCEPT ![p] = @ \cup {run[p].job}] ELSE leaked

Push(p) == \E m \in linked :
    /\ run[p].pc = "push"
    /\ IsNext(p, m)
    /\ Reach(p, m)
    /\ run' = [run EXCEPT ![p].pc = "accepted"]
    /\ UNCHANGED <<jobStatus, log, lost, sharedVars>>

(* LINE answers with an error: the exception leaves sender, execute_delivery   *)
(* and the request                                                             *)
PushRefused(p) == \E m \in linked \cap Flaky :
    /\ run[p].pc = "push"
    /\ IsNext(p, m)
    /\ run' = [run EXCEPT ![p] = Idle]
    /\ UNCHANGED <<jobStatus, log, sharedVars, historyVars>>

(* the message got through but the answer did not: the same exception *)
PushTimedOut(p) == \E m \in linked \cap Flaky :
    /\ run[p].pc = "push"
    /\ IsNext(p, m)
    /\ lost[run[p].job][m] < MaxLost
    /\ Reach(p, m)
    /\ lost' = [lost EXCEPT ![run[p].job][m] = @ + 1]
    /\ run' = [run EXCEPT ![p] = Idle]
    /\ UNCHANGED <<jobStatus, log, sharedVars>>

(* mutant: only what went wrong is logged *)
WriteFailure(p) == \E m \in Members :
    /\ run[p].pc \in {"accepted", "unlinked"}
    /\ IsNext(p, m)
    /\ IF run[p].pc = "accepted" THEN UNCHANGED log ELSE WriteLog(p, m, "failed")
    /\ run' = [run EXCEPT ![p].pc = "decide", ![p].todo = @ \ {m}]
    /\ UNCHANGED <<jobStatus, sharedVars, historyVars>>

WriteResult(p) == \E m \in Members :
    /\ run[p].pc \in {"accepted", "unlinked"}
    /\ IsNext(p, m)
    /\ WriteLog(p, m, IF run[p].pc = "accepted" THEN "ok" ELSE "failed")
    /\ run' = [run EXCEPT ![p].pc = "decide", ![p].todo = @ \ {m}]
    /\ UNCHANGED <<jobStatus, sharedVars, historyVars>>

FinishJob(p) ==
    /\ run[p].pc = "decide"
    /\ run[p].todo = {}
    /\ jobStatus' = [jobStatus EXCEPT ![run[p].job] = "sent"]
    /\ run' = [run EXCEPT ![p] = Idle]
    /\ UNCHANGED <<log, sharedVars, historyVars>>

(* the instance dies, the request runs into its deadline, or a Firestore call  *)
(* raises: a message accepted by LINE stays without its log                    *)
Die(p) ==
    /\ run[p].pc # "idle"
    /\ IF run[p].pc = "accepted"
       THEN \E m \in Members :
              /\ IsNext(p, m)
              /\ lost[run[p].job][m] < MaxLost
              /\ lost' = [lost EXCEPT ![run[p].job][m] = @ + 1]
       ELSE UNCHANGED lost
    /\ run' = [run EXCEPT ![p] = Idle]
    /\ UNCHANGED <<jobStatus, log, delivered, leaked, sharedVars>>

(* PUT /settings replaces the whole document *)
PutSettings(s) ==
    /\ settings' = s
    /\ leaked' = IF s.kill_switch /\ ~settings.kill_switch
                 THEN [p \in Procs |-> {}] ELSE leaked
    /\ UNCHANGED <<clock, linked, jobStatus, log, run, delivered, lost>>

(* a member links a LINE account, or an upsert of the member document drops it *)
SetLinked(members) ==
    /\ linked' = members
    /\ UNCHANGED <<clock, settings, jobStatus, log, run, historyVars>>

Elapse ==
    /\ clock < MaxClock
    /\ clock' = clock + 1
    /\ UNCHANGED <<settings, linked, jobStatus, log, run, historyVars>>
-----------------------------------------------------------------------------
Continue(p) ==
    \/ Block(p) \/ Allow(p) \/ SkipUnlinked(p) \/ Push(p) \/ WriteResult(p) \/ FinishJob(p)

Abort(p) == PushRefused(p) \/ PushTimedOut(p) \/ Die(p)

(* any caller: any job, any targets, stamped with any time not in the future *)
AnyCaller(p) ==
    \E j \in Jobs, targets \in SUBSET Members, clean \in BOOLEAN, now \in 0..clock :
        StartJob(p, j, targets, clean, now)

AnySave == \E j \in Jobs : SaveJob(j) /\ UNCHANGED <<log, run, sharedVars, historyVars>>

DNext ==
    \/ \E p \in Procs : AnyCaller(p) \/ Continue(p) \/ Abort(p)
    \/ AnySave
    \/ \E s \in SettingsDocs : PutSettings(s)
    \/ \E members \in SUBSET Members : SetLinked(members)
    \/ Elapse

DSpec == DInit /\ [][DNext]_dvars
-----------------------------------------------------------------------------
(* An ok log is never a lie: the member it names did get a message of the job, *)
(* whatever processes run together, die or are refused (delivery.py: the log   *)
(* is written after the sender returned True).                                 *)
OkMeansDelivered == \A j \in Jobs, m \in Members :
    log[j][m].result = "ok" => delivered[j][m] > lost[j][m]

(* What the kill switch still lets through: once it is thrown, a process       *)
(* finishes pushing the one job whose settings it read before, and no other.   *)
KillSwitchLeaksOneJob == \A p \in Procs : \A i, j \in leaked[p] : i = j
=============================================================================
