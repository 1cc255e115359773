------------------------------ MODULE Proposals ------------------------------
(* One proposal of the ledger: the committee submits it, withdraws it and       *)
(* answers when it will submit; the senior executive director (SED) sets the    *)
(* deadline, approves and returns; the hourly tick copies the document into the *)
(* ledger, asks the supervisors of a late proposal for a date and tells the SED *)
(* what happened. Every operation reads the proposal, may wait for LINE, Google *)
(* or the model, and saves the whole of what it read.                           *)
(* One unit of time is a day; a deadline is the beginning of its day.           *)
EXTENDS Naturals, FiniteSets

CONSTANTS
    Supervisors,  \* whom a late proposal is asked of (_alert_targets)
    Clerks,       \* calls of screens and of LINE
    TickRuns,     \* calls of the scheduler
    Deadlines,    \* deadlines the SED sets
    Window,       \* DEADLINE_WINDOW
    LastDay,       \* bound of the clock
    MaxDoings     \* bound of what people do and of the failures, together

ASSUME ProposalsAssumption ==
    /\ Window \in Nat /\ LastDay \in Nat /\ MaxDoings \in Nat
    /\ Deadlines \subseteq 0 .. LastDay

VARIABLES
    prop,      \* the Proposal document
    stopped,   \* the kill switch of the settings
    desk,      \* desk[c]: locals of call c
    day,
    doings,
    sent,      \* history: notices that reached someone
    messed     \* history: notices whose record a death, an error or an older copy lost

notes == <<sent, messed>>
ledgervars == <<prop, stopped, desk, day, doings, notes>>

Calls == Clerks \cup TickRuns
Stages == {"entry", "submitted", "later"}   \* later: goyaku and what follows
Never == LastDay + 1
Numbers == 0 .. (IF MaxDoings > Never THEN MaxDoings ELSE Never)

(* a notice and what makes it one of its own: which submission, deadline or plan *)
Keys == {"submitted", "deadline", "overdue", "plan", "planned"} \X Numbers
NoKey == <<"none", 0>>

(* liff: the submission from LINE that the history ends with, 0 if it ends with  *)
(* anything else. plan: the last of submit_plans. notices holds the notified_at  *)
(* of all plans, too.                                                            *)
NewProp == [stage |-> "entry", liff |-> 0, approval |-> "pending", status |-> "open",
            due |-> Never, setAt |-> 0, plan |-> [id |-> 0, date |-> 0], notices |-> {}]
Free == [pc |-> "idle", task |-> "none", copy |-> NewProp, key |-> NoKey, todo |-> {},
         quiet |-> FALSE, now |-> 0]

PropDocs == [stage : Stages, liff : Numbers, approval : {"pending", "approved", "returned"},
             status : {"open", "closed"}, due : 0 .. Never, setAt : 0 .. Never,
             plan : [id : Numbers, date : Numbers], notices : SUBSET Keys]
TickTasks == {"none", "sync", "alerts", "plans", "subs", "due"}
ClerkLocals == [pc : {"idle", "review", "list", "sync", "ask", "warn", "tell", "note"},
               task : TickTasks, copy : PropDocs, key : Keys \cup {NoKey},
               todo : SUBSET Supervisors, quiet : BOOLEAN, now : 0 .. LastDay]

(* Type invariant: the proposal, the calls' locals and the histories have their  *)
(* types; a call that tells something knows what.                                *)
PrTypeOK ==
    /\ prop \in PropDocs /\ desk \in [Calls -> ClerkLocals]
    /\ \A c \in Calls : desk[c].pc \in {"ask", "warn", "note"} =>
         /\ desk[c].key \in Keys
         /\ desk[c].key[1] \in {"submitted", "planned"} => desk[c].key[2] # 0
    /\ stopped \in BOOLEAN /\ day \in 0 .. LastDay /\ doings \in 0 .. MaxDoings
    /\ sent \cup messed \subseteq Keys

PrInit ==
    /\ \E d \in Deadlines \cup {Never} : prop = [NewProp EXCEPT !.due = d]
    /\ stopped = FALSE
    /\ desk = [c \in Calls |-> Free]
    /\ day = 0 /\ doings = 0
    /\ sent = {} /\ messed = {}
-----------------------------------------------------------------------------
(* What there is to tell of a proposal.                                          *)

UnlessNoted(p, key) == IF key \in p.notices THEN NoKey ELSE key

(* _submit_key *)
SubmitKey(p) ==
    IF p.stage = "submitted" /\ p.liff # 0 THEN UnlessNoted(p, <<"submitted", p.liff>>) ELSE NoKey

(* mutant: the record of what was sent is not looked at *)
DeadlineKeyAgain(p, now) ==
    IF p.due <= now /\ now <= p.due + Window THEN <<"deadline", p.due>> ELSE NoKey

(* _due_for_deadline_notice *)
DeadlineKey(p, now) ==
    IF p.due <= now /\ now <= p.due + Window THEN UnlessNoted(p, <<"deadline", p.due>>) ELSE NoKey

(* overdue_key: the deadline was set before it passed, and no answer is awaited *)
OverdueKey(p, now) ==
    IF p.stage # "entry" \/ p.due > now \/ p.setAt >= p.due THEN NoKey
    ELSE IF p.plan.id = 0 THEN UnlessNoted(p, <<"overdue", p.due>>)
    ELSE IF now > p.plan.date THEN UnlessNoted(p, <<"plan", p.plan.date>>)
    ELSE NoKey

(* _notify_plan: notified_at of the last plan *)
PlanKey(p) == IF p.plan.id # 0 THEN UnlessNoted(p, <<"planned", p.plan.id>>) ELSE NoKey

KeyFor(task, p, now) ==
    CASE task = "alerts" -> OverdueKey(p, now)
      [] task = "plans"  -> PlanKey(p)
      [] task = "subs"   -> SubmitKey(p)
      [] task = "due"    -> DeadlineKey(p, now)
-----------------------------------------------------------------------------
Sits(c, pc) == desk[c].pc = pc
Doing == doings < MaxDoings /\ doings' = doings + 1
Goes(c, change) == desk' = [desk EXCEPT ![c] = change]

(* the tasks of a tick in turn: proposal_sync.sync, then proposal_submit.process *)
After == [sync |-> "alerts", alerts |-> "plans", plans |-> "subs", subs |-> "due", due |-> "none"]

Next(c) ==
    IF c \in Clerks \/ After[desk[c].task] = "none" THEN Goes(c, Free)
    ELSE Goes(c, [Free EXCEPT !.pc = "list", !.task = After[desk[c].task],
                              !.quiet = desk[c].quiet, !.now = desk[c].now])

(* an error ends the call of a clerk and process, but of the alerts only one *)
Breaks(c) == IF desk[c].task = "alerts" THEN Next(c) ELSE Goes(c, Free)

SaveCopy(p) == prop' = p /\ messed' = messed \cup (prop.notices \ p.notices)

UnchangedNotes == UNCHANGED notes
UnchangedScene == UNCHANGED <<stopped, day>>
-----------------------------------------------------------------------------
(* The committee: submit, withdraw and the date picked for a plan. *)

(* the saved proposal goes on to be told of; quiet hours or not *)
SaveAndTell(c, p, task) == \E quiet \in BOOLEAN :
    /\ Sits(c, "idle") /\ Doing
    /\ prop' = p
    /\ Goes(c, [Free EXCEPT !.pc = "tell", !.task = task, !.copy = p, !.quiet = quiet,
                            !.now = day, !.key = KeyFor(task, p, day)])
    /\ UnchangedNotes /\ UnchangedScene

ProposalSubmit(c) ==
    /\ prop.status = "open" /\ prop.stage = "entry"
    /\ SaveAndTell(c, [prop EXCEPT !.stage = "submitted", !.liff = doings + 1,
                          !.approval = IF @ = "returned" THEN "pending" ELSE @], "subs")

AnswerPlan(c) == \E date \in day .. LastDay :
    /\ prop.status = "open" /\ prop.stage = "entry"
    /\ SaveAndTell(c, [prop EXCEPT !.plan = [id |-> doings + 1, date |-> date]], "plans")

(* A request that reads and saves the proposal without waiting for anyone. *)
Edits(p) ==
    /\ \E c \in Clerks : Sits(c, "idle")
    /\ Doing
    /\ prop' = p
    /\ UNCHANGED <<desk, notes>> /\ UnchangedScene

ProposalWithdraw ==
    /\ prop.status = "open" /\ prop.stage = "submitted"
    /\ Edits([prop EXCEPT !.stage = "entry", !.liff = 0])

(* update_proposal *)
SetDeadline == \E d \in Deadlines \cup {Never} :
    /\ d # prop.due
    /\ Edits([prop EXCEPT !.due = d, !.setAt = day])

Approve == Edits(
    IF prop.stage = "submitted" THEN [prop EXCEPT !.approval = "approved", !.stage = "later", !.liff = 0]
    ELSE [prop EXCEPT !.approval = "approved"])

Return == Edits([prop EXCEPT !.approval = "returned", !.stage = "entry", !.liff = 0])

SetStage == \E stage \in Stages : Edits([prop EXCEPT !.stage = stage, !.liff = 0])

(* llm_review waits for the model between reading and saving. *)
ReviewBegins(c) ==
    /\ Sits(c, "idle") /\ Doing
    /\ Goes(c, [Free EXCEPT !.pc = "review", !.copy = prop])
    /\ UNCHANGED <<prop, notes>> /\ UnchangedScene

ReviewEnds(c) ==
    /\ Sits(c, "review")
    /\ SaveCopy(desk[c].copy)
    /\ Goes(c, Free)
    /\ UNCHANGED <<doings, sent>> /\ UnchangedScene
-----------------------------------------------------------------------------
(* The tick. Its `now` and so its quiet hours are those of its beginning. *)

TickBegins(t, quiet) ==
    /\ Sits(t, "idle")
    /\ Goes(t, [Free EXCEPT !.pc = "list", !.task = "sync", !.quiet = quiet, !.now = day])
    /\ UNCHANGED <<prop, doings, notes>> /\ UnchangedScene

(* sync lists the documents and the proposals: if the document is not as it was  *)
(* read last, the copy made now is saved when the document was read              *)
SyncLists(t) ==
    /\ Sits(t, "list") /\ desk[t].task = "sync"
    /\ \/ /\ prop.status = "open"
          /\ Next(t) /\ UNCHANGED doings
       \/ /\ Goes(t, [desk[t] EXCEPT !.pc = "sync", !.copy = [prop EXCEPT !.status = "open"]])
          /\ Doing
       \/ /\ prop.status = "open"      \* the document is not found
          /\ Goes(t, [desk[t] EXCEPT !.pc = "sync", !.copy = [prop EXCEPT !.status = "closed"]])
          /\ Doing
       \/ /\ prop.status = "closed"    \* and still not
          /\ Next(t) /\ UNCHANGED doings
    /\ UNCHANGED <<prop, notes>> /\ UnchangedScene

SyncSaves(t) ==
    /\ Sits(t, "sync")
    /\ \/ SaveCopy(desk[t].copy) /\ UNCHANGED doings
       \/ Doing /\ UNCHANGED <<prop, messed>>   \* Google fails: sync gives up
    /\ Next(t)
    /\ UNCHANGED sent /\ UnchangedScene

(* a task of process lists the open proposals and looks whether there is anything *)
(* to tell                                                                        *)
TaskLists(t) ==
    /\ Sits(t, "list") /\ desk[t].task # "sync"
    /\ LET task == desk[t].task
           key == KeyFor(task, prop, desk[t].now)
           alert == task = "alerts"
       IN  IF prop.status = "open" /\ key # NoKey /\ ~(alert /\ desk[t].quiet)
           THEN Goes(t, [desk[t] EXCEPT !.pc = IF alert THEN "ask" ELSE "tell", !.copy = prop,
                            !.key = key, !.todo = IF alert THEN Supervisors ELSE {}])
           ELSE Next(t)
    /\ UNCHANGED <<prop, doings, notes>> /\ UnchangedScene

(* whoever is left is asked; then it is noted *)
Asking(t, rest) ==
    Goes(t, [desk[t] EXCEPT !.todo = rest, !.pc = IF rest = {} THEN "note" ELSE "ask"])

(* _push_one. Guardrails, LINE or the member may stand in the way; an error of   *)
(* LINE counts as not reached, though the message may have arrived.              *)
Ask(t) == \E m \in desk[t].todo :
    /\ Sits(t, "ask")
    /\ \/ /\ ~stopped
          /\ sent' = sent \cup {desk[t].key}
          /\ Asking(t, desk[t].todo \ {m})
          /\ UNCHANGED doings
       \/ /\ IF stopped THEN UNCHANGED <<doings, sent>>
             ELSE Doing /\ sent' \in {sent, sent \cup {desk[t].key}}
          /\ Goes(t, [desk[t] EXCEPT !.pc = "warn", !.todo = @ \ {m}])
    /\ UNCHANGED <<prop, messed>> /\ UnchangedScene

(* the SED is told to speak with the one who was not reached; if that raises,    *)
(* nothing is recorded                                                           *)
Warn(t) ==
    /\ Sits(t, "warn")
    /\ \/ Asking(t, desk[t].todo) /\ UNCHANGED <<doings, messed>>
       \/ Breaks(t) /\ Doing /\ messed' = messed \cup {desk[t].key}
    /\ UNCHANGED <<prop, sent>> /\ UnchangedScene

(* notify_sed: nothing is sent in the quiet hours and there is nothing to note *)
TellLater(c) ==
    /\ Sits(c, "tell") /\ desk[c].quiet
    /\ Next(c)
    /\ UNCHANGED <<prop, doings, notes>> /\ UnchangedScene

(* and else it is noted, whether anyone was reached or not *)
Tell(c) ==
    /\ Sits(c, "tell") /\ ~desk[c].quiet
    /\ \/ ~stopped /\ sent' = sent \cup {desk[c].key} /\ UNCHANGED doings
       \/ stopped /\ UNCHANGED <<doings, sent>>
       \/ Doing /\ UNCHANGED sent    \* rate limited, not linked, no SED
    /\ Goes(c, [desk[c] EXCEPT !.pc = "note"])
    /\ UNCHANGED <<prop, messed>> /\ UnchangedScene

(* LINE raises: the message may have arrived *)
TellFails(c) ==
    /\ Sits(c, "tell") /\ ~desk[c].quiet /\ ~stopped
    /\ Doing
    /\ sent' \in {sent, sent \cup {desk[c].key}}
    /\ messed' = messed \cup {desk[c].key}
    /\ Breaks(c)
    /\ UNCHANGED prop /\ UnchangedScene

Note(c) ==
    /\ Sits(c, "note")
    /\ SaveCopy([desk[c].copy EXCEPT !.notices = @ \cup {desk[c].key}])
    /\ Next(c)
    /\ UNCHANGED <<doings, sent>> /\ UnchangedScene
-----------------------------------------------------------------------------
(* a call ends where it is; what it had sent is not noted *)
Dies(c) ==
    /\ ~Sits(c, "idle") /\ Doing
    /\ Goes(c, Free)
    /\ messed' = messed \cup ({desk[c].key} \ {NoKey})
    /\ UNCHANGED <<prop, sent>> /\ UnchangedScene

Switch == Doing /\ stopped' = ~stopped /\ UNCHANGED <<prop, desk, day, notes>>

DayEnds == day < LastDay /\ day' = day + 1 /\ UNCHANGED <<prop, stopped, desk, doings, notes>>

GoesOn(c) ==
    \/ TellLater(c) \/ Tell(c) \/ TellFails(c) \/ Note(c)
    \/ c \in TickRuns /\ (SyncLists(c) \/ SyncSaves(c) \/ TaskLists(c) \/ Ask(c) \/ Warn(c))

PrNext ==
    \/ \E c \in Clerks : ProposalSubmit(c) \/ AnswerPlan(c) \/ ReviewBegins(c) \/ ReviewEnds(c)
    \/ ProposalWithdraw \/ SetDeadline \/ Approve \/ Return \/ SetStage
    \/ \E t \in TickRuns, quiet \in BOOLEAN : TickBegins(t, quiet)
    \/ \E c \in Calls : GoesOn(c) \/ Dies(c)
    \/ Switch \/ DayEnds

PrSpec == PrInit /\ [][PrNext]_ledgervars
-----------------------------------------------------------------------------
(* A notice is what was recorded before it was sent again: no call takes up a    *)
(* notice that has reached someone, unless the call that sent it is still at it, *)
(* died or met an error of LINE, or a copy read before was saved over its record *)
(* (proposal_submit: notices, and the copies that llm_review and sync save).     *)
NoticesAreTakenUpOnce == [][\A c \in Calls :
    LET key == desk'[c].key IN
    (desk[c].key = NoKey /\ key \in sent) =>
        key \in messed \/ \E d \in Calls \ {c} : desk[d].key = key]_ledgervars

(* A submission from LINE waits for a new answer of the SED, whatever copies of  *)
(* the proposal are saved late (proposal_submit.py:129-131 and approve, return). *)
ReturnedWaitsAgain ==
    prop.stage = "submitted" /\ prop.liff # 0 => prop.approval # "returned"

(* In the end, when nobody does anything anymore, there is nothing left to tell: *)
(* what an error, the quiet hours or a death kept back, a later tick sends.      *)
EverythingIsToldInTheEnd ==
    <>[](prop.status = "open" => \A task \in {"alerts", "plans", "subs", "due"} :
             KeyFor(task, prop, day) = NoKey)

(* The kill switch holds a notice back, it does not use it up: what meets it is  *)
(* not noted as sent (sed_notice.py:23: "False while stopped",                   *)
(* proposal_submit.py:338: "stopped: the next tick sends it again").             *)
HeldBackIsSentLater == [][\A c \in Calls :
    stopped /\ desk[c].pc = "tell" => desk'[c].pc # "note"]_ledgervars
=============================================================================
