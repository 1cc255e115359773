----------------------------- MODULE CalendarOps -----------------------------
(* Changes of the schedule asked for in the chat: a text becomes a question     *)
(* (PendingCalendarOp, "yes" / "no"), the answer is looked up, marked, and then *)
(* carried out on the event as it is by then. Two taps of one button, and       *)
(* several questions about one event, may be under way together.                *)
(* What push_event does with the event is the matter of CalendarSync.           *)
EXTENDS Integers

CONSTANTS
    Asked,      \* questions: naturals, taken in turn
    Planned,    \* events: naturals, taken in turn
    Taps,       \* calls that handle a tap of a button
    OpTTL,      \* OP_TTL
    LastSlot,   \* bound of the times of events
    MaxSlot     \* bound of the clock

ASSUME OpsAssumption ==
    /\ Asked \subseteq Nat /\ Planned \subseteq Nat
    /\ {OpTTL, LastSlot, MaxSlot} \subseteq Nat /\ LastSlot >= 1

VARIABLES
    event,     \* event[e]: the event document
    op,        \* op[q]: the PendingCalendarOp document
    tap,       \* tap[t]: locals of call t
    slot,      \* the time
    carried,   \* history: carried[q], how often q was carried out
    raced,     \* history: questions that two taps found pending
    overtaken  \* history: events changed between a question about them and its answer

opsvars == <<event, op, tap, slot, carried, raced, overtaken>>

Slots == 0 .. LastSlot
Unsaid == -1   \* None: a time the text does not tell
Times == Slots \cup {Unsaid}
Ends == Nat \cup {Unsaid}   \* an end drawn along with its start may lie behind LastSlot

Events == [status : {"none", "live", "cancelled"}, start : Slots, end : Ends, version : Nat]
Ops == [status : {"none", "pending", "done", "declined", "expired"},
        action : {"none", "create", "update", "cancel"}, e : Planned \cup {0},
        start : Times, end : Ends, expires : Nat, version : Nat]

(* a question names what it is about *)
NamesItsMatter(o) == /\ o.action = "create" => o.start \in Slots
                     /\ o.action \in {"update", "cancel"} => o.e \in Planned

(* what the schedule may hold before *)
Scheduled == {[status |-> "live", start |-> 1, end |-> end, version |-> 0] : end \in {2, Unsaid}}
NoEvent == [status |-> "none", start |-> 0, end |-> Unsaid, version |-> 0]
NoOp == [status |-> "none", action |-> "none", e |-> 0, start |-> Unsaid, end |-> Unsaid,
         expires |-> 0, version |-> 0]
NoTap == [pc |-> "idle", q |-> 0, copy |-> NoOp, now |-> 0]

(* Type invariant: documents and locals have their types; a question that stands *)
(* names what it is about.                                                       *)
CoTypeOK ==
    /\ event \in [Planned -> Events]
    /\ op \in [Asked -> Ops] /\ \A q \in Asked : NamesItsMatter(op[q])
    /\ tap \in [Taps -> [pc : {"idle", "found", "apply"}, q : Asked \cup {0}, copy : Ops, now : Nat]]
    /\ \A t \in Taps : tap[t].pc # "idle" => tap[t].q \in Asked /\ NamesItsMatter(tap[t].copy)
    /\ slot \in Nat
    /\ carried \in [Asked -> Nat] /\ raced \subseteq Asked /\ overtaken \subseteq Planned

CoInit ==
    /\ event \in {[e \in Planned |-> IF e = 1 THEN ev ELSE NoEvent] : ev \in Scheduled}
    /\ op = [q \in Asked |-> NoOp]
    /\ tap = [t \in Taps |-> NoTap]
    /\ slot = 0
    /\ carried = [q \in Asked |-> 0] /\ raced = {} /\ overtaken = {}
-----------------------------------------------------------------------------
(* try_calendar_intent: what the model read in the text becomes a question. *)

IsNewOp(q) == op[q].status = "none" /\ \A r \in Asked : r < q => op[r].status # "none"
IsFree(e) == event[e].status = "none" /\ \A d \in Planned : d < e => event[d].status # "none"

NewOp(q, changes) ==
    /\ IsNewOp(q)
    /\ op' = [op EXCEPT ![q] = [changes EXCEPT !.status = "pending", !.expires = slot + OpTTL]]
    /\ UNCHANGED <<event, tap, slot, carried, raced, overtaken>>

(* _plan_create: an end that does not come after the start is left out *)
PlanCreate(q) == \E start \in slot .. LastSlot, end \in Times :
    NewOp(q, [NoOp EXCEPT !.action = "create", !.start = start,
                 !.end = IF end > start THEN end ELSE Unsaid])

(* _plan_update: the times that differ are the changes; if only the start moves, *)
(* the end moves with it; an end before the start is refused                     *)
PlanUpdate(q) == \E e \in Planned, start, end \in Times :
    LET ev == event[e]
        moves == start \notin {Unsaid, ev.start}
        ends == end \notin {Unsaid, ev.end}
        drawn == moves /\ ~ends /\ ev.end # Unsaid
        newEnd == IF drawn THEN start + (ev.end - ev.start)
                  ELSE IF ends THEN end ELSE ev.end
    IN  /\ ev.status = "live" /\ (moves \/ ends)
        /\ (~ends /\ ev.end = Unsaid) \/ newEnd > (IF moves THEN start ELSE ev.start)
        /\ NewOp(q, [NoOp EXCEPT !.action = "update", !.e = e, !.start = start,
                        !.end = IF drawn THEN newEnd ELSE end, !.version = ev.version])

PlanCancel(q) == \E e \in Planned :
    /\ event[e].status = "live"
    /\ NewOp(q, [NoOp EXCEPT !.action = "cancel", !.e = e, !.version = event[e].version])
-----------------------------------------------------------------------------
(* handle_calendar_postback: the question is read, then marked, then carried    *)
(* out. The one who asked answers; others are turned away.                      *)

(* mutant: it is not looked whether the question was answered before *)
FindAnyOp(t) == \E q \in Asked :
    /\ tap[t].pc = "idle" /\ op[q].status # "none"
    /\ tap' = [tap EXCEPT ![t] = [pc |-> "found", q |-> q, copy |-> op[q], now |-> slot]]
    /\ UNCHANGED <<event, op, slot, carried, raced, overtaken>>

FindOp(t) == \E q \in Asked :
    /\ tap[t].pc = "idle" /\ op[q].status = "pending"
    /\ tap' = [tap EXCEPT ![t] = [pc |-> "found", q |-> q, copy |-> op[q], now |-> slot]]
    /\ raced' = IF \E u \in Taps : tap[u].pc = "found" /\ tap[u].q = q THEN raced \cup {q} ELSE raced
    /\ UNCHANGED <<event, op, slot, carried, overtaken>>

(* saves the copy with its new status; only "done" goes on *)
Marks(t, status) ==
    /\ tap[t].pc = "found"
    /\ op' = [op EXCEPT ![tap[t].q] = [tap[t].copy EXCEPT !.status = status]]
    /\ tap' = [tap EXCEPT ![t] = IF status = "done" THEN [@ EXCEPT !.pc = "apply"] ELSE NoTap]
    /\ UNCHANGED <<event, slot, carried, raced, overtaken>>

ExpireOp(t) == tap[t].now > tap[t].copy.expires /\ Marks(t, "expired")
DeclineOp(t) == tap[t].now <= tap[t].copy.expires /\ Marks(t, "declined")

ConfirmOp(t) == tap[t].now <= tap[t].copy.expires /\ Marks(t, "done")

SaveEvent(t, e, ev) ==
    /\ event' = [event EXCEPT ![e] = [ev EXCEPT !.version = event[e].version + 1]]
    /\ carried' = [carried EXCEPT ![tap[t].q] = @ + 1]

(* _apply: all the times of the question are set, whatever the event is by now *)
Apply(t) ==
    LET o == tap[t].copy IN
    /\ tap[t].pc = "apply"
    /\ \/ /\ o.action = "create"
          /\ \E e \in Planned : IsFree(e) /\ SaveEvent(t, e,
                [NoEvent EXCEPT !.status = "live", !.start = o.start, !.end = o.end])
          /\ UNCHANGED overtaken
       \/ /\ o.action # "create" /\ event[o.e].status = "cancelled"
          /\ UNCHANGED <<event, carried, overtaken>>
       \/ /\ o.action = "update" /\ event[o.e].status = "live"
          /\ SaveEvent(t, o.e, [event[o.e] EXCEPT
                !.start = IF o.start = Unsaid THEN @ ELSE o.start,
                !.end = IF o.end = Unsaid THEN @ ELSE o.end])
          /\ overtaken' = IF o.version # event[o.e].version THEN overtaken \cup {o.e} ELSE overtaken
       \/ /\ o.action = "cancel" /\ event[o.e].status = "live"
          /\ SaveEvent(t, o.e, [event[o.e] EXCEPT !.status = "cancelled"])
          /\ UNCHANGED overtaken
    /\ tap' = [tap EXCEPT ![t] = NoTap]
    /\ UNCHANGED <<op, slot, raced>>

(* the process ends between the mark and the event *)
TapDies(t) ==
    /\ tap[t].pc # "idle"
    /\ tap' = [tap EXCEPT ![t] = NoTap]
    /\ UNCHANGED <<event, op, slot, carried, raced, overtaken>>

NextSlot == slot < MaxSlot /\ slot' = slot + 1
            /\ UNCHANGED <<event, op, tap, carried, raced, overtaken>>

CoNext ==
    \/ \E q \in Asked : PlanCreate(q) \/ PlanUpdate(q) \/ PlanCancel(q)
    \/ \E t \in Taps : FindOp(t) \/ ExpireOp(t) \/ DeclineOp(t) \/ ConfirmOp(t) \/ Apply(t) \/ TapDies(t)
    \/ NextSlot

CoSpec == CoInit /\ [][CoNext]_opsvars
-----------------------------------------------------------------------------
(* One "yes" changes the schedule once, however often the button is tapped; only *)
(* two taps that both find the question pending can carry it out twice           *)
(* (calendar_intent.py:372: "marked first, so that a double tap does not apply   *)
(* twice").                                                                      *)
CarriedOutOnce == \A q \in Asked : carried[q] <= 1 \/ q \in raced

(* No event ends before it begins, but if an answer was carried out on an event  *)
(* that had changed since the question: the times are compared only when the     *)
(* question is made (calendar_intent.py:213, :329).                              *)
EndsAfterItBegins == \A e \in Planned :
    event[e].end = Unsaid \/ event[e].end > event[e].start \/ e \in overtaken

(* What was answered stays answered: a question that was declined or has expired *)
(* is not carried out afterwards, however the taps overlap, unless they raced.   *)
AnswerStands == [][\A q \in Asked :
    (op[q].status \notin {"none", "pending"} /\ q \notin raced) => op'[q] = op[q]]_opsvars

(* A question in the chat is answered once, is carried out once at most, and *)
(* leaves no event that ends before it begins, but for the races each part   *)
(* names.                                                                    *)
ChatChangesOnce == [](CarriedOutOnce /\ EndsAfterItBegins) /\ AnswerStands
=============================================================================
