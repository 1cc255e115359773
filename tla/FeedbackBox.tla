------------------------------ MODULE FeedbackBox ------------------------------
(* The feedback box: members submit feedback; every tick lets the model classify *)
(* the newest items that are not classified yet, and tells the SED of those he   *)
(* was not told of; the SED sets a status. Tick and SED save whole copies of an  *)
(* item, which they read earlier.                                                *)
EXTENDS Naturals, FiniteSets

CONSTANTS
    Items,          \* feedback ids: naturals, the greater the newer
    Pens,           \* calls of the status screen
    Statuses,       \* new, in_progress, done, declined
    PerTick,        \* TRIAGE_PER_TICK
    MaxPlain        \* bound of the early ticks and the failures together

ASSUME StatusesAssumption == "new" \in Statuses /\ "none" \notin Statuses

VARIABLES
    box,        \* box[i]: the Feedback document
    tick,       \* locals of the tick: the items it classifies, then those it tells of
    pen,        \* pen[p]: locals of a call of set_status
    plain,
    heard,      \* history: heard[i]: messages the SED got about i
    overdone    \* history: items whose mark "told" was set back, or not set after the push

fbvars == <<box, tick, pen, plain, heard, overdone>>

NoItem == [status |-> "none", triage |-> FALSE, failed |-> FALSE, told |-> FALSE]
TickAtRest == [pc |-> "idle", todo |-> {}, copy |-> [i \in Items |-> NoItem]]
NoPen == [i |-> 0, copy |-> NoItem]

(* only an item that is not classified bears the mark of a failure *)
ItemDocs == {doc \in [status : {"none"} \cup Statuses, triage : BOOLEAN, failed : BOOLEAN, told : BOOLEAN] :
                (doc.triage => ~doc.failed) /\ (doc.status = "none" => doc = NoItem)}

(* Type invariant: documents and locals have their types, and what a call has a   *)
(* copy of to save is an item that is there.                                      *)
FbTypeOK ==
    /\ box \in [Items -> ItemDocs]
    /\ tick \in [pc : {"idle", "triage", "push", "mark"}, todo : SUBSET Items, copy : [Items -> ItemDocs]]
    /\ \A i \in tick.todo : tick.copy[i].status # "none"
    /\ pen \in [Pens -> [i : Items \cup {0}, copy : ItemDocs]]
    /\ \A p \in Pens : pen[p] # NoPen => pen[p].i \in Items /\ pen[p].copy.status # "none"
    /\ heard \in [Items -> Nat] /\ overdone \subseteq Items

FbInit ==
    /\ box = [i \in Items |-> NoItem]
    /\ tick = TickAtRest /\ pen = [p \in Pens |-> NoPen]
    /\ plain = 0
    /\ heard = [i \in Items |-> 0] /\ overdone = {}
-----------------------------------------------------------------------------
Bounded == plain < MaxPlain /\ plain' = plain + 1
In(i) == box[i].status # "none"
Busy(pc, S) == [pc |-> pc, todo |-> S, copy |-> [i \in Items |-> IF i \in S THEN box[i] ELSE NoItem]]
NewestOf(S) == {i \in S : Cardinality({k \in S : k > i}) < PerTick}

(* The save of a whole copy, and what it sets back. *)
SaveItem(i, copy) ==
    /\ box' = [box EXCEPT ![i] = copy]
    /\ overdone' = overdone \cup
         (IF ~copy.told /\ box[i].told THEN {i} ELSE {})

(* submit, or save_unanswered *)
Submit(i) ==
    /\ ~In(i) /\ \A k \in Items : k < i => In(k)
    /\ box' = [box EXCEPT ![i].status = "new"]
    /\ UNCHANGED <<tick, pen, plain, heard, overdone>>
-----------------------------------------------------------------------------

(* _needs_triage: a failure waits for an hour; the next tick is early when it    *)
(* comes before that. *)
NeedsTriage(i, early) == In(i) /\ ~box[i].triage /\ ~(early /\ box[i].failed)

ListForTriage(early) ==
    /\ tick.pc = "idle" /\ (early => Bounded) /\ (~early => UNCHANGED plain)
    /\ tick' = Busy("triage", NewestOf({i \in Items : NeedsTriage(i, early)}))
    /\ UNCHANGED <<box, pen, heard, overdone>>

(* _triage: the model answers, or not, and the copy is saved *)
Triage(i, ok) ==
    /\ tick.pc = "triage" /\ i \in tick.todo
    /\ SaveItem(i, [tick.copy[i] EXCEPT !.triage = ok, !.failed = ~ok])
    /\ tick' = [tick EXCEPT !.todo = @ \ {i}, !.copy[i] = NoItem]
    /\ UNCHANGED <<pen, plain, heard>>

(* the second list_feedback of process *)
ListUntold ==
    /\ tick.pc = "triage" /\ tick.todo = {}
    /\ LET untold == {i \in Items : In(i) /\ ~box[i].told} IN
       tick' = IF untold = {} THEN TickAtRest ELSE Busy("push", untold)
    /\ UNCHANGED <<box, pen, plain, heard, overdone>>

(* notify_sed answers True, also when it has nobody to send to *)
Notified(got) ==
    /\ tick.pc = "push"
    /\ tick' = [tick EXCEPT !.pc = "mark"]
    /\ heard' = [i \in Items |-> IF got /\ i \in tick.todo THEN heard[i] + 1 ELSE heard[i]]
    /\ UNCHANGED <<box, pen, plain, overdone>>

(* quiet hours, or the delivery is halted or put off: the next tick tries again *)
NotNow ==
    /\ tick.pc = "push" /\ tick' = TickAtRest
    /\ UNCHANGED <<box, pen, plain, heard, overdone>>

(* mutant: saved as the item was when it was submitted *)
MarkOldCopy(i) ==
    /\ tick.pc = "mark" /\ i \in tick.todo
    /\ SaveItem(i, [tick.copy[i] EXCEPT !.triage = FALSE, !.status = "new"])
    /\ tick' = IF tick.todo = {i} THEN TickAtRest ELSE [tick EXCEPT !.todo = @ \ {i}, !.copy[i] = NoItem]
    /\ UNCHANGED <<pen, plain, heard>>

MarkTold(i) ==
    /\ tick.pc = "mark" /\ i \in tick.todo
    /\ SaveItem(i, [tick.copy[i] EXCEPT !.told = TRUE])
    /\ tick' = IF tick.todo = {i} THEN TickAtRest ELSE [tick EXCEPT !.todo = @ \ {i}, !.copy[i] = NoItem]
    /\ UNCHANGED <<pen, plain, heard>>

(* An exception ends process, the tick goes on without; after the push, the items *)
(* not marked yet will be told of again. *)
TickFails ==
    /\ tick.pc # "idle" /\ Bounded
    /\ tick' = TickAtRest
    /\ overdone' = overdone \cup (IF tick.pc = "mark" THEN tick.todo ELSE {})
    /\ UNCHANGED <<box, pen, heard>>
-----------------------------------------------------------------------------
ReadItem(p, i) ==
    /\ pen[p] = NoPen /\ In(i) /\ Bounded
    /\ pen' = [pen EXCEPT ![p] = [i |-> i, copy |-> box[i]]]
    /\ UNCHANGED <<box, tick, heard, overdone>>

(* set_status *)
SetStatus(p) == \E s \in Statuses :
    /\ pen[p] # NoPen
    /\ SaveItem(pen[p].i, [pen[p].copy EXCEPT !.status = s])
    /\ pen' = [pen EXCEPT ![p] = NoPen]
    /\ UNCHANGED <<tick, plain, heard>>

OnTick ==
    \/ ListUntold \/ NotNow
    \/ \E got \in BOOLEAN : Notified(got)
    \/ \E i \in Items : MarkTold(i) \/ \E ok \in BOOLEAN : Triage(i, ok)

FbNext ==
    \/ OnTick \/ TickFails
    \/ \E early \in BOOLEAN : ListForTriage(early)
    \/ \E i \in Items : Submit(i) \/ \E p \in Pens : ReadItem(p, i)
    \/ \E p \in Pens : SetStatus(p)

FbSpec == FbInit /\ [][FbNext]_fbvars

(* The tick comes every hour and goes on; the model does not fail for ever with   *)
(* one item, and it is not always night.                                          *)
FbFairness ==
    /\ WF_fbvars(OnTick) /\ WF_fbvars(ListForTriage(FALSE))
    /\ \A i \in Items : SF_fbvars(Triage(i, TRUE))
    /\ SF_fbvars(Notified(TRUE))
    /\ \A p \in Pens : WF_fbvars(SetStatus(p))
-----------------------------------------------------------------------------
(* The SED is told of an item once; again only after a call that died between    *)
(* the message and its mark, or after a status saved from a copy without the     *)
(* mark (feedback_box.py:165-171, :215).                                         *)
ToldOnce == \A i \in Items : heard[i] > 1 => i \in overdone

(* A status is changed by the SED only, or by a tick back to what it was when    *)
(* the tick read the item (feedback_box.py:136, :170).                           *)
StatusSetStays == [][\A i \in Items :
    In(i) /\ box'[i].status # box[i].status =>
        \/ \E p \in Pens : pen[p].i = i /\ pen'[p] = NoPen
        \/ tick.copy[i].status = box'[i].status]_fbvars

(* Every item is classified and told of in the end, however many come at once    *)
(* and whatever the saves of others take back (feedback_box.py:174-183).         *)
EveryItemIsSeen == \A i \in Items :
    /\ [](In(i) => <>box[i].triage)
    /\ [](In(i) => <>box[i].told)

(* The tick and the SED do not undo each other's work, but by the copies     *)
(* each part names.                                                          *)
FeedbackIsKept == []ToldOnce /\ StatusSetStays
=============================================================================
