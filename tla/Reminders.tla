------------------------------ MODULE Reminders ------------------------------
(* The attendance reminders: the hourly tick (main.tasks_tick) that plans the  *)
(* due stage of every open event (app/reminders.py) and executes the jobs, and *)
(* the two other requests that send about an event: closing it, which sends    *)
(* the summary to the officers (admin_api, summary.py), and the remind button  *)
(* of the LINE app (liff_api).  All of them go through the Delivery engine.    *)
(*                                                                             *)
(* Firestore gives single documents only: everything a request read may have   *)
(* changed before it acts on it, so reads and writes that the code separates   *)
(* are separate actions.                                                       *)
EXTENDS Delivery

CONSTANTS
    Events,      \* event ids: naturals, in the order the documents are listed
    Forms,       \* what an event document may say, status apart
    Stages,      \* the stages of the reminder policy, 1..n in the policy's order
    Before,      \* Before[s]: how many slots before the deadline s fires
    Audience,    \* Audience[s]: "all", "unanswered" or "attendees"
    Officers,    \* members with one of the roles of summary.OFFICER_ROLES
    Ticks,       \* scheduler requests
    Admins,      \* admin requests that close an event
    Ops,         \* requests of the remind button
    NoDeadline,  \* attendance_deadline is None
    MaxClose,    \* bound: times one event is closed
    MaxEdits,    \* bound: edits by administrators and answers by members
    MaxCrash     \* bound: deaths of requests

Statuses == {"draft", "open", "closed", "cancelled"}
Answers == {"unanswered", "present", "absent"}

ASSUME EventsAssumption == Events \subseteq Nat /\ Stages \subseteq Nat
ASSUME FormsAssumption ==
    /\ Forms # {}
    /\ Forms \subseteq [start : Nat, end : Nat, deadline : Nat \cup {NoDeadline},
                        policy : BOOLEAN, scope : SUBSET Members, clean : BOOLEAN]
ASSUME PolicyAssumption ==
    /\ Before \in [Stages -> Nat]
    /\ Audience \in [Stages -> {"all", "unanswered", "attendees"}]
    /\ Officers \subseteq Members
ASSUME ProcsAssumption ==
    /\ Procs = Ticks \cup Admins \cup Ops
    /\ Ticks \cap Admins = {} /\ Ticks \cap Ops = {} /\ Admins \cap Ops = {}

(* job ids are event:stage, event:summary, event:liff_<hour>, event:manual_<id> *)
stage_job_id(e, s) == <<e, "stage", s>>
SummaryJob(e) == <<e, "summary", 0>>
LiffJob(e, t) == <<e, "liff", t>>
ManualJob(e) == <<e, "manual", 0>>
EventJobs == {stage_job_id(e, s) : e \in Events, s \in Stages}
             \cup {SummaryJob(e) : e \in Events} \cup {ManualJob(e) : e \in Events}
             \cup {LiffJob(e, t) : e \in Events, t \in Times}

ASSUME EventJobsAssumption == EventJobs \subseteq Jobs

VARIABLES
    form,      \* form[e]: the event document
    status,    \* status[e]: its status
    active,    \* members whose status and member_type make them deliverable
    answer,    \* answer[e][m]: the attendance document
    phase,     \* phase[p]: how far request p has come
    began,     \* began[p]: the slot in which it began (the tick's now)
    listed,    \* listed[p]: the open events it read and has still to plan
    queue,     \* queue[p]: the jobs it has still to execute
    touched,   \* history: events saved since request p read the open ones
    replied,   \* history: <<event, member>> answers saved since then
    closes,    \* how often the event was closed
    edits,     \* edits so far
    crashes    \* deaths so far

eventVars == <<form, status, active, answer>>
requestVars == <<phase, began, listed, queue>>
sinceVars == <<touched, replied>>
boundVars == <<closes, edits, crashes>>
vars == <<dvars, eventVars, requestVars, sinceVars, boundVars>>

Listing == [event : Events, form : Forms]
Queued == [event : Events, job : Jobs, targets : SUBSET Members, clean : BOOLEAN]

RequestTypeOK ==
    /\ form \in [Events -> Forms]
    /\ status \in [Events -> Statuses]
    /\ active \subseteq Members
    /\ answer \in [Events -> [Members -> Answers]]
    /\ phase \in [Procs -> {"idle", "begun", "closing", "checked", "busy"}]
    /\ began \in [Procs -> Times]
    /\ listed \in [Procs -> SUBSET Listing]
    /\ queue \in [Procs -> SUBSET Queued]
    /\ touched \in [Procs -> SUBSET Events]
    /\ replied \in [Procs -> SUBSET (Events \X Members)]
    /\ closes \in [Events -> Nat]
    /\ edits \in Nat /\ crashes \in Nat

TypeOK == DTypeOK /\ RequestTypeOK

Init ==
    /\ DInit
    /\ form \in [Events -> Forms]
    /\ status \in [Events -> {"open", "cancelled"}]
    /\ active = Members
    /\ answer = [e \in Events |-> [m \in Members |-> "unanswered"]]
    /\ phase = [p \in Procs |-> "idle"]
    /\ began = [p \in Procs |-> 0]
    /\ listed = [p \in Procs |-> {}]
    /\ queue = [p \in Procs |-> {}]
    /\ touched = [p \in Procs |-> {}]
    /\ replied = [p \in Procs |-> {}]
    /\ closes = [e \in Events |-> 0]
    /\ edits = 0 /\ crashes = 0
-----------------------------------------------------------------------------
(* planning *)

Deliverable == active \cap linked

(* resolve_targets; what an event document says may be a copy read earlier *)
resolve_targets(f) == f.scope \cap Deliverable

unanswered_member_ids(e) ==
    {m \in resolve_targets(form[e]) : answer[e][m] = "unanswered"}

(* "unanswered" is computed from the event as it is now (aggregate reads it    *)
(* again), the others from the copy f the tick listed                          *)
resolve_audience(e, f, audience) ==
    CASE audience = "all" -> resolve_targets(f)
      [] audience = "unanswered" -> unanswered_member_ids(e)
      [] audience = "attendees" -> {m \in resolve_targets(f) : answer[e][m] = "present"}

fire_time(f, s) == (IF f.deadline = NoDeadline THEN f.start ELSE f.deadline) - Before[s]

due_stages(f, now) == {s \in Stages : fire_time(f, s) <= now}

(* r fires later than s, or is listed after it when both fire together *)
Later(r, s) == Before[r] < Before[s] \/ (Before[r] = Before[s] /\ r > s)

(* mutant: every stage that is due, as before the incident of 2026-10-21 *)
IsAnyDue(f, s, now) == s \in due_stages(f, now)

IsLatestDue(f, s, now) ==
    s \in due_stages(f, now) /\ \A r \in due_stages(f, now) : ~Later(r, s)

(* mutant: only what was sent today counts as sent *)
sent_today(j) == {m \in Members : log[j][m].result = "ok"
                                    /\ log[j][m].sent_at >= clock - Tod(clock)}

(* mutant: whoever has a log entry counts as sent *)
logged_member_ids(j) == {m \in Members : log[j][m].result # "none"}

sent_member_ids(j) == {m \in Members : log[j][m].result = "ok"}

(* the stage is planned for these members; nobody means no job *)
StageTargets(e, f, s) ==
    resolve_audience(e, f, Audience[s]) \ sent_member_ids(stage_job_id(e, s))

(* mutant: meetings that have begun are not left out *)
PlannableAlways(f, now) == f.policy /\ due_stages(f, now) # {}

Plannable(f, now) == f.policy /\ f.start > now /\ due_stages(f, now) # {}

FirstListed(p, l) == l \in listed[p] /\ \A k \in listed[p] : l.event <= k.event
FirstQueued(p, q) == q \in queue[p] /\ \A k \in queue[p] : q.event <= k.event

BeginTick(p) ==
    /\ phase[p] = "idle"
    /\ phase' = [phase EXCEPT ![p] = "begun"]
    /\ began' = [began EXCEPT ![p] = clock]
    /\ UNCHANGED <<dvars, eventVars, listed, queue, sinceVars, boundVars>>

(* mutant: events of any status are listed *)
ListAll(p) ==
    /\ p \in Ticks /\ phase[p] = "begun"
    /\ phase' = [phase EXCEPT ![p] = "busy"]
    /\ listed' = [listed EXCEPT ![p] = {[event |-> e, form |-> form[e]] : e \in Events}]
    /\ touched' = [touched EXCEPT ![p] = {}]
    /\ replied' = [replied EXCEPT ![p] = {}]
    /\ UNCHANGED <<dvars, eventVars, began, queue, boundVars>>

(* the open events are read in one query; the rest of the plan uses these copies *)
ListOpen(p) ==
    /\ p \in Ticks /\ phase[p] = "begun"
    /\ phase' = [phase EXCEPT ![p] = "busy"]
    /\ listed' = [listed EXCEPT ![p] =
                    {[event |-> e, form |-> form[e]] : e \in {x \in Events : status[x] = "open"}}]
    /\ touched' = [touched EXCEPT ![p] = {}]
    /\ replied' = [replied EXCEPT ![p] = {}]
    /\ UNCHANGED <<dvars, eventVars, began, queue, boundVars>>

PlanStage(p) == \E l \in listed[p], s \in Stages :
    LET targets == StageTargets(l.event, l.form, s) IN
    /\ p \in Ticks /\ FirstListed(p, l)
    /\ Plannable(l.form, began[p])
    /\ IsLatestDue(l.form, s, began[p])
    /\ targets # {}
    /\ SaveJob(stage_job_id(l.event, s))
    /\ queue' = [queue EXCEPT ![p] = @ \cup
                   {[event |-> l.event, job |-> stage_job_id(l.event, s), targets |-> targets,
                     clean |-> l.form.clean]}]
    /\ listed' = [listed EXCEPT ![p] = @ \ {l}]
    /\ UNCHANGED <<log, run, sharedVars, historyVars, eventVars, phase, began,
                   sinceVars, boundVars>>

(* no policy, already started, no stage due, or nobody left to remind *)
PlanNothing(p) == \E l \in listed[p] :
    /\ p \in Ticks /\ FirstListed(p, l)
    /\ Plannable(l.form, began[p]) =>
         \A s \in Stages : IsLatestDue(l.form, s, began[p]) =>
             StageTargets(l.event, l.form, s) = {}
    /\ listed' = [listed EXCEPT ![p] = @ \ {l}]
    /\ UNCHANGED <<dvars, eventVars, phase, began, queue, sinceVars, boundVars>>
-----------------------------------------------------------------------------
(* executing *)

(* the text of a reminder is built from the event as the tick reads it again   *)
Clean(p, q) == IF p \in Ticks THEN form[q.event].clean ELSE q.clean

(* mutant: the messages carry the start of the meeting instead of now *)
RunJobStampedWithStart(p) == \E q \in queue[p] :
    /\ phase[p] = "busy" /\ listed[p] = {}
    /\ FirstQueued(p, q)
    /\ StartJob(p, q.job, q.targets, Clean(p, q), form[q.event].start)
    /\ queue' = [queue EXCEPT ![p] = @ \ {q}]
    /\ UNCHANGED <<eventVars, phase, began, listed, sinceVars, boundVars>>

(* the tick stamps every message with the now it began with, the other         *)
(* requests take the time when they call execute_delivery                      *)
RunJob(p) == \E q \in queue[p] :
    /\ phase[p] = "busy" /\ listed[p] = {}
    /\ FirstQueued(p, q)
    /\ StartJob(p, q.job, q.targets, Clean(p, q), IF p \in Ticks THEN began[p] ELSE clock)
    /\ queue' = [queue EXCEPT ![p] = @ \ {q}]
    /\ UNCHANGED <<eventVars, phase, began, listed, sinceVars, boundVars>>

ContinueJob(p) ==
    /\ Continue(p)
    /\ UNCHANGED <<eventVars, requestVars, sinceVars, boundVars>>

EndRequest(p) ==
    /\ phase[p] = "busy" /\ listed[p] = {} /\ queue[p] = {} /\ run[p].pc = "idle"
    /\ phase' = [phase EXCEPT ![p] = "idle"]
    /\ began' = [began EXCEPT ![p] = 0]
    /\ UNCHANGED <<dvars, eventVars, listed, queue, sinceVars, boundVars>>

GiveUp(p) ==
    /\ phase' = [phase EXCEPT ![p] = "idle"]
    /\ began' = [began EXCEPT ![p] = 0]
    /\ listed' = [listed EXCEPT ![p] = {}]
    /\ queue' = [queue EXCEPT ![p] = {}]

(* nothing catches the exception of a push: the rest of the jobs is given up *)
AbortRequest(p) ==
    /\ PushRefused(p) \/ PushTimedOut(p)
    /\ GiveUp(p)
    /\ UNCHANGED <<eventVars, sinceVars, boundVars>>

Crash(p) ==
    /\ phase[p] # "idle" /\ crashes < MaxCrash
    /\ Die(p) \/ (run[p].pc = "idle" /\ UNCHANGED dvars)
    /\ GiveUp(p)
    /\ crashes' = crashes + 1
    /\ UNCHANGED <<eventVars, sinceVars, closes, edits>>
-----------------------------------------------------------------------------
(* the summary of a closed event, and the remind button *)

Touch(e) == touched' = [p \in Procs |-> touched[p] \cup {e}]

CloseEvent(p, e) ==
    /\ phase[p] = "idle" /\ closes[e] < MaxClose
    /\ status' = [status EXCEPT ![e] = "closed"]
    /\ Touch(e)
    /\ closes' = [closes EXCEPT ![e] = @ + 1]
    /\ phase' = [phase EXCEPT ![p] = "closing"]
    /\ began' = [began EXCEPT ![p] = clock]
    /\ listed' = [listed EXCEPT ![p] = {[event |-> e, form |-> form[e]]}]
    /\ UNCHANGED <<dvars, form, active, answer, queue, replied, edits, crashes>>

plan_summary_notification(p) == \E l \in listed[p] :
    /\ phase[p] = "closing"
    /\ SaveJob(SummaryJob(l.event))
    /\ queue' = [queue EXCEPT ![p] = {[event |-> l.event, job |-> SummaryJob(l.event),
                                       targets |-> Officers \cap Deliverable,
                                       clean |-> form[l.event].clean]}]
    /\ listed' = [listed EXCEPT ![p] = {}]
    /\ phase' = [phase EXCEPT ![p] = "busy"]
    /\ UNCHANGED <<log, run, sharedVars, historyVars, eventVars, began, sinceVars, boundVars>>

(* the checks of the button; one job per event and hour *)
CheckRemind(p, e) ==
    /\ phase[p] = "idle"
    /\ status[e] = "open" /\ form[e].end >= clock
    /\ ~is_quiet_hours(Tod(clock), settings.quiet_hours)
    /\ jobStatus[LiffJob(e, clock)] = "none"
    /\ unanswered_member_ids(e) # {}
    /\ phase' = [phase EXCEPT ![p] = "checked"]
    /\ began' = [began EXCEPT ![p] = clock]
    /\ queue' = [queue EXCEPT ![p] = {[event |-> e, job |-> LiffJob(e, clock),
                                       targets |-> unanswered_member_ids(e),
                                       clean |-> form[e].clean]}]
    /\ UNCHANGED <<dvars, eventVars, listed, sinceVars, boundVars>>

SaveRemind(p) == \E q \in queue[p] :
    /\ phase[p] = "checked"
    /\ SaveJob(q.job)
    /\ phase' = [phase EXCEPT ![p] = "busy"]
    /\ UNCHANGED <<log, run, sharedVars, historyVars, eventVars, began, listed, queue,
                   sinceVars, boundVars>>
-----------------------------------------------------------------------------
(* administrators and members *)

Edit == edits < MaxEdits /\ edits' = edits + 1

UpdateEvent(e) ==
    /\ \E f \in Forms : form' = [form EXCEPT ![e] = f]
    /\ \E s \in Statuses : status' = [status EXCEPT ![e] = s]
    /\ Edit /\ Touch(e)
    /\ UNCHANGED <<dvars, active, answer, requestVars, replied, closes, crashes>>

CancelEvent(e) ==
    /\ status[e] # "cancelled"
    /\ status' = [status EXCEPT ![e] = "cancelled"]
    /\ Edit /\ Touch(e)
    /\ UNCHANGED <<dvars, form, active, answer, requestVars, replied, closes, crashes>>

RestoreEvent(e) ==
    /\ status[e] = "cancelled"
    /\ \E s \in Statuses \ {"cancelled"} : status' = [status EXCEPT ![e] = s]
    /\ Edit /\ Touch(e)
    /\ UNCHANGED <<dvars, form, active, answer, requestVars, replied, closes, crashes>>

(* a member answers, or an administrator enters an answer *)
RecordAttendance(e, m) ==
    /\ \E a \in Answers : answer' = [answer EXCEPT ![e][m] = a]
    /\ replied' = [p \in Procs |-> replied[p] \cup {<<e, m>>}]
    /\ Edit
    /\ UNCHANGED <<dvars, form, status, active, requestVars, touched, closes, crashes>>

UpdateMember(m) ==
    /\ active' = IF m \in active THEN active \ {m} ELSE active \cup {m}
    /\ Edit
    /\ UNCHANGED <<dvars, form, status, answer, requestVars, sinceVars, closes, crashes>>

LinkMember(m) ==
    /\ SetLinked(IF m \in linked THEN linked \ {m} ELSE linked \cup {m})
    /\ Edit
    /\ UNCHANGED <<eventVars, requestVars, sinceVars, closes, crashes>>

SaveSettings ==
    /\ \E s \in SettingsDocs : PutSettings(s)
    /\ Edit
    /\ UNCHANGED <<eventVars, requestVars, sinceVars, closes, crashes>>

(* the job is saved, and that is all *)
manual_remind(e) ==
    /\ SaveJob(ManualJob(e))
    /\ Edit
    /\ UNCHANGED <<log, run, sharedVars, historyVars, eventVars, requestVars, sinceVars,
                   closes, crashes>>

(* a request lasts at most 300 seconds: it sees the slot change at most once *)
PassTime ==
    /\ \A p \in Procs : phase[p] # "idle" => began[p] = clock
    /\ Elapse
    /\ UNCHANGED <<eventVars, requestVars, sinceVars, boundVars>>
-----------------------------------------------------------------------------
Proceed(p) ==
    \/ ListOpen(p) \/ PlanStage(p) \/ PlanNothing(p) \/ RunJob(p) \/ ContinueJob(p)
    \/ EndRequest(p) \/ plan_summary_notification(p) \/ SaveRemind(p)

Environment ==
    \/ \E e \in Events : UpdateEvent(e) \/ CancelEvent(e) \/ RestoreEvent(e) \/ manual_remind(e)
    \/ \E e \in Events, m \in Members : RecordAttendance(e, m)
    \/ \E m \in Members : UpdateMember(m) \/ LinkMember(m)
    \/ SaveSettings
    \/ PassTime

Next ==
    \/ \E p \in Ticks : BeginTick(p)
    \/ \E p \in Admins, e \in Events : CloseEvent(p, e)
    \/ \E p \in Ops, e \in Events : CheckRemind(p, e)
    \/ \E p \in Procs : Proceed(p) \/ AbortRequest(p) \/ Crash(p)
    \/ Environment

Spec == Init /\ [][Next]_vars

(* The scheduler keeps calling the tick, a running request goes on, time goes by *)
Fairness ==
    /\ \A p \in Ticks : WF_vars(BeginTick(p))
    /\ \A p \in Procs : WF_vars(Proceed(p) \/ AbortRequest(p))
    /\ WF_vars(PassTime)

FairSpec == Spec /\ Fairness
-----------------------------------------------------------------------------
(* Safety *)

StageJobs == {stage_job_id(e, s) : e \in Events, s \in Stages}

(* plan_reminders leaves out the members whose stage is logged as sent, so a   *)
(* member gets a stage once; only a request that dies, or an answer of LINE    *)
(* that is lost, between the push and its log entry can make it twice.         *)
AtMostOnce == \A j \in StageJobs, m \in Members : delivered[j][m] <= 1 + lost[j][m]

(* The delivery log of the reminders can be trusted: a message that got through *)
(* and was not lost is on record as ok, or about to be, and nothing overwrites  *)
(* the record (log_id in delivery.py is job and member, saved with set).        *)
RemindersOnRecord == \A j \in StageJobs, m \in Members :
    delivered[j][m] > lost[j][m] =>
        \/ log[j][m].result = "ok"
        \/ \E p \in Procs : run[p].pc = "accepted" /\ run[p].job = j /\ IsNext(p, m)

(* A request acts on what it read, not on what holds now, but no further back  *)
(* than its own reading: a reminder still to be sent is for an event that is   *)
(* open or was saved since the tick listed it, and an "unanswered" one for a   *)
(* member who has not answered or did so since then.                           *)
StillDue(p, j, m) ==
    /\ status[j[1]] = "open" \/ j[1] \in touched[p]
    /\ Audience[j[3]] = "unanswered" =>
          answer[j[1]][m] = "unanswered" \/ <<j[1], m>> \in replied[p] \/ j[1] \in touched[p]
Awaits(p, j, m) ==
    \/ run[p].job = j /\ m \in run[p].todo
    \/ \E q \in queue[p] : q.job = j /\ m \in q.targets
PlanIsAsFreshAsTheTick == \A p \in Ticks, j \in StageJobs, m \in Members :
    Awaits(p, j, m) => StillDue(p, j, m)

(* Whatever is due at once is not sent at once: a member who got a stage that   *)
(* is still due, the deadline not having been moved since the tick read the     *)
(* event, gets no earlier one, however late he became a target                  *)
(* (reminders.py:117).                                                          *)
LaterStagesOnly == [][\A p \in Ticks, e \in Events, m \in Members, r, s \in Stages :
    /\ run[p].job = stage_job_id(e, s) /\ e \notin touched[p]
    /\ Later(r, s) /\ r \in due_stages(form[e], began[p])
    /\ delivered[stage_job_id(e, r)][m] > 0
    => delivered'[stage_job_id(e, s)][m] = delivered[stage_job_id(e, s)][m]]_vars

(* No reminder for a meeting that is over a slot ago or more: the tick drops   *)
(* events that have begun by its now, and does not outlive the next slot.      *)
NoReminderAfterStart == [][\A e \in Events, s \in Stages, m \in Members :
    delivered'[stage_job_id(e, s)][m] > delivered[stage_job_id(e, s)][m]
        => clock <= form[e].start]_vars

(* Whatever other requests send meanwhile, a day's reminders on record for a   *)
(* member are not more than per_member_per_day: the tick counts the ok logs    *)
(* before each message (guardrails.count_sends_today).                         *)
SettingsLimit == CHOOSE n \in {s.per_member_per_day : s \in SettingsDocs} :
                     \A s \in SettingsDocs : s.per_member_per_day <= n
DailyReminderLimit == \A m \in Members, d \in 0..Day(MaxClock) :
    Cardinality({j \in StageJobs : log[j][m].result = "ok" /\ Day(log[j][m].sent_at) = d})
        <= SettingsLimit

(* Every step of these requests is a step of the delivery engine, so what holds *)
(* of it for any caller holds here.                                             *)
ImplementsDelivery == DSpec

(* With one tick at a time the reminders keep ReminderPromise: a member gets a *)
(* stage again only after a message its tick did not live to log, and the ok   *)
(* log is final (reminders.sent_member_ids, delivery._log).                    *)
Keys == StageJobs \X Members
Promise == INSTANCE ReminderPromise WITH
    got <- [k \in Keys |-> delivered[k[1]][k[2]]],
    forgotten <- [k \in Keys |-> lost[k[1]][k[2]]],
    recorded <- {k \in Keys : log[k[1]][k[2]].result = "ok"}
KeepsPromise == Promise!PromiseSpec
-----------------------------------------------------------------------------
(* Liveness *)

Wanted(e, s, m) ==
    /\ status[e] = "open" /\ Plannable(form[e], clock) /\ IsLatestDue(form[e], s, clock)
    /\ form[e].clean
    /\ m \in resolve_audience(e, form[e], Audience[s])
    /\ ~settings.kill_switch /\ ~is_quiet_hours(Tod(clock), settings.quiet_hours)
    /\ log[stage_job_id(e, s)][m].result = "ok"
          \/ count_sends_today(m, clock) < settings.per_member_per_day

(* Whoever was held back (kill switch, quiet hours, daily limit, a dead tick)  *)
(* is reached by a later tick, as long as the event, the settings and the      *)
(* member leave it possible and LINE accepts the pushes.                       *)
EventuallyReminded == \A e \in Events, s \in Stages, m \in Members :
    <>[]Wanted(e, s, m) => <>(log[stage_job_id(e, s)][m].result = "ok")
-----------------------------------------------------------------------------
(* What the documents say and the code does not do (each is refuted by a run)  *)

(* mvp-design.md:225: an error of LINE is a delivery log with result "failed"  *)
RefusalIsLogged == [][\A p \in Procs, m \in Members :
    PushRefused(p) /\ IsNext(p, m) => log'[run[p].job][m].result = "failed"]_vars

(* admin_api.py:385: the job saved by the remind button is sent by a worker *)
ManualReminderIsRun == \A e \in Events :
    jobStatus[ManualJob(e)] = "queued" ~> jobStatus[ManualJob(e)] \in {"sent", "halted"}
=============================================================================
