----------------------------- MODULE CalendarSync -----------------------------
(* Events of the system and entries of the Google calendar, two masters of one *)
(* thing: calendar_sync.push_event carries an event to the calendar right after *)
(* it was saved, the tick brings the calendar's changes in (calendar_import)   *)
(* and then pushes what is still pending. The calendar's users edit, delete,   *)
(* add and copy entries meanwhile.                                             *)
(*                                                                             *)
(* A call reads an event, calls Google, and saves its whole copy afterwards;   *)
(* calls of the screens and of the tick overlap.                               *)
EXTENDS Naturals, FiniteSets

CONSTANTS
    CalEvents,     \* event ids: naturals from 1, taken in turn
    Entries,       \* calendar entries: naturals from 1, taken in turn
    Values,        \* title, times and place of an event, as one
    AllDay,        \* the value of an entry that lasts all day
    Private,       \* and of an entry of the kind that is not imported
    Screens, Ticks,
    MaxHappenings  \* bound of the edits, the users' steps and the failures together

ASSUME CalendarAssumption ==
    /\ CalEvents \subseteq Nat \ {0} /\ Entries \subseteq Nat \ {0}
    /\ {AllDay, Private} \cap Values = {}
    /\ Screens \cap Ticks = {}
    /\ MaxHappenings \in Nat

VARIABLES
    doc,      \* doc[e]: the event document
    cal,      \* cal[x]: the calendar entry
    token,    \* sync_token: all changes up to then were listed; 0 if there is none
    work,     \* work[p]: locals of call p
    clock,    \* even: the time of the last change of anything; odd: between two
    orphans,  \* history: pushed entries whose link was not saved, or was overwritten
    doubled,  \* history: events that two entries named
    unseen,   \* history: entries whose deletion was not listed, or was passed over
    adrift,   \* history: events set apart from their entry by a call that died, or by a
              \* copy saved that was behind, or cancelled ones that a pull called
              \* synced without deleting their entry
    behind,   \* history: <<p, e>>: call p's copy of e is from before another's save
    happened

histories == <<orphans, doubled, unseen, adrift, behind>>
calvars == <<doc, cal, token, work, clock, histories, happened>>

CalCalls == Screens \cup Ticks
Contents == Values \cup {AllDay, Private}

(* etag and updated of an entry are one: both are new with every change *)
Docs == [status : {"none", "live", "cancelled"}, value : Contents, link : Entries \cup {0},
         etag : Nat, sync : {"pending", "synced", "error"}, updated : Nat,
         meet : Entries \cup {0}, rec : BOOLEAN]
EntryDocs == [state : {"unused", "live", "deleted"}, event : CalEvents \cup {0},
              value : Contents, etag : Nat, meet : {"none", "on", "rec"}]

NoDoc == [status |-> "none", value |-> AllDay, link |-> 0, etag |-> 0,
          sync |-> "pending", updated |-> 0, meet |-> 0, rec |-> FALSE]
Unused == [state |-> "unused", event |-> 0, value |-> AllDay, etag |-> 0, meet |-> "none"]
Resting == [pc |-> "idle", e |-> 0, copy |-> NoDoc, items |-> {}, next |-> 0, todo |-> {},
            from |-> 0, now |-> 0]

CallLocals == [
    pc : {"idle", "push", "mark", "items"}, e : CalEvents \cup {0}, copy : Docs,
    items : SUBSET [x : Entries, entry : EntryDocs], next : Nat,
    todo : SUBSET [e : CalEvents, copy : Docs], from : Entries \cup {0}, now : Nat]

(* Type invariant: documents, entries and the calls' locals have their types. *)
CalTypeOK ==
    /\ doc \in [CalEvents -> Docs] /\ cal \in [Entries -> EntryDocs]
    /\ token \in Nat /\ clock \in Nat
    /\ work \in [CalCalls -> CallLocals]
    /\ \A p \in CalCalls : work[p].pc \in {"push", "mark"} => work[p].e \in CalEvents
    /\ doubled \cup adrift \subseteq CalEvents /\ orphans \cup unseen \subseteq Entries
    /\ behind \subseteq CalCalls \X CalEvents /\ happened \in 0..MaxHappenings

CalInit ==
    /\ doc = [e \in CalEvents |-> NoDoc] /\ cal = [x \in Entries |-> Unused]
    /\ token = 0 /\ clock = 2
    /\ work = [p \in CalCalls |-> Resting]
    /\ orphans = {} /\ doubled = {} /\ unseen = {}
    /\ adrift = {} /\ behind = {}
    /\ happened = 0
-----------------------------------------------------------------------------
Is(p, pc) == work[p].pc = pc
Advance == clock' = clock + 2

IsNewEvent(e) == doc[e].status = "none" /\ \A d \in CalEvents : d < e => doc[d].status # "none"
IsNewEntry(x) == cal[x].state = "unused" /\ \A y \in Entries : y < x => cal[y].state # "unused"

LinkedTo(x) == {e \in CalEvents : doc[e].link = x}

(* the copies of e that others have are from before call p saves e *)
Holds(p, e) == work[p].e = e \/ \E d \in work[p].todo : d.e = e
NowBehind(p, e) == (behind \ {<<p, e>>}) \cup {<<q, e>> : q \in {r \in CalCalls \ {p} : Holds(r, e)}}

Happens == happened < MaxHappenings /\ happened' = happened + 1
-----------------------------------------------------------------------------
(* Screens and LINE (admin_api, calendar_intent, schedule_poll.decide): the    *)
(* event is saved, then pushed. Reading and saving it are two calls of         *)
(* Firestore in a row and one step here; what takes long is the push.          *)

SaveAndPush(p, e, d) ==
    /\ Is(p, "idle") /\ Happens
    /\ doc' = [doc EXCEPT ![e] = d]
    /\ work' = [work EXCEPT ![p].pc = "push", ![p].e = e, ![p].copy = d]
    /\ Advance
    /\ behind' = NowBehind(p, e)
    /\ UNCHANGED <<cal, token, orphans, doubled, unseen, adrift>>

CreateEvent(p) == \E e \in CalEvents, v \in Values :
    /\ IsNewEvent(e)
    /\ SaveAndPush(p, e, [NoDoc EXCEPT !.status = "live", !.value = v, !.updated = clock + 2])

UpdateEvent(p) == \E e \in CalEvents, v \in Values :
    /\ doc[e].status # "none" /\ doc[e].value # v
    /\ SaveAndPush(p, e, [doc[e] EXCEPT !.value = v, !.updated = clock + 2])

CancelEvent(p) == \E e \in CalEvents :
    /\ doc[e].status = "live"
    /\ SaveAndPush(p, e, [doc[e] EXCEPT !.status = "cancelled", !.updated = clock + 2])

RestoreEvent(p) == \E e \in CalEvents :
    /\ doc[e].status = "cancelled"
    /\ SaveAndPush(p, e, [doc[e] EXCEPT !.status = "live", !.updated = clock + 2])

SyncEvent(p) == \E e \in CalEvents :
    /\ Is(p, "idle") /\ Happens
    /\ doc[e].status # "none"
    /\ work' = [work EXCEPT ![p].pc = "push", ![p].e = e, ![p].copy = doc[e]]
    /\ UNCHANGED <<doc, cal, token, clock, histories>>

(* update_event with fields the calendar does not show: no push, and the event *)
(* is newer than what a user may have changed in the calendar before           *)
UpdateOther(p) == \E e \in CalEvents :
    /\ Is(p, "idle") /\ Happens
    /\ doc[e].status # "none"
    /\ doc' = [doc EXCEPT ![e].updated = clock + 2]
    /\ Advance
    /\ behind' = NowBehind(p, e)
    /\ UNCHANGED <<cal, token, work, orphans, doubled, unseen, adrift>>
-----------------------------------------------------------------------------
(* push_event *)

(* what the call saves after a success *)
Marked(p, d) == work' = [work EXCEPT
    ![p].pc = "mark", ![p].copy = [d EXCEPT !.sync = "synced"], ![p].from = work[p].copy.link]

(* cancelled: delete_event if there is a link, an entry that is gone is fine *)
PushDelete(p) ==
    LET d == work[p].copy
        x == d.link
    IN  /\ Is(p, "push") /\ d.status = "cancelled"
        /\ IF x # 0 /\ cal[x].state = "live"
           THEN cal' = [cal EXCEPT ![x].state = "deleted", ![x].etag = clock + 2] /\ Advance
           ELSE UNCHANGED <<cal, clock>>
        /\ Marked(p, [d EXCEPT !.link = 0, !.etag = 0, !.meet = 0, !.rec = FALSE])
        /\ UNCHANGED <<doc, token, histories, happened>>

(* _with_meet: the response names the meeting, unless Google is still making   *)
(* it; recording is switched on unless it is known to be on for this meeting   *)
WithMeet(p, d, x, etag, known, auto) ==
    LET linked == [d EXCEPT !.link = x, !.etag = etag]
    IN  Marked(p, IF known THEN [linked EXCEPT !.meet = x, !.rec = auto] ELSE linked)

(* Google answers with the entry as it is now; a change gives it a new etag *)
Answered(p, d, x, entry) == \E known, records \in BOOLEAN :
    LET isOn == (d.rec /\ d.meet = x) \/ records
        kept == IF records THEN [entry EXCEPT !.meet = "rec"] ELSE entry
        etag == IF kept = cal[x] THEN kept.etag ELSE clock + 2
    IN  /\ entry.meet = "none" => ~known
        /\ records => known
        /\ cal' = [cal EXCEPT ![x] = [kept EXCEPT !.etag = etag]]
        /\ clock' = IF kept = cal[x] THEN clock ELSE clock + 2
        /\ WithMeet(p, d, x, etag, known, isOn)
        /\ IF entry.meet # "none" /\ ~(known /\ isOn) THEN Happens ELSE UNCHANGED happened
        /\ UNCHANGED <<doc, token, histories>>

PushPatch(p) ==
    LET d == work[p].copy
        x == d.link
    IN  /\ Is(p, "push") /\ d.status = "live" /\ x # 0 /\ cal[x].state = "live"
        /\ Answered(p, d, x, [cal[x] EXCEPT
             !.value = d.value, !.event = work[p].e,
             !.meet = IF @ = "none" /\ d.meet = 0 THEN "on" ELSE @])

(* no link, or the patch was answered 404 or 410: a new entry, a new meeting *)
PushInsert(p) == \E x \in Entries :
    LET d == work[p].copy
    IN  /\ Is(p, "push") /\ d.status = "live"
        /\ d.link # 0 => cal[d.link].state = "deleted"
        /\ IsNewEntry(x)
        /\ Answered(p, d, x, [state |-> "live", event |-> work[p].e, value |-> d.value,
                              etag |-> 0, meet |-> "on"])

(* the call to Google fails, or its answer is lost *)
PushFails(p) ==
    LET d == work[p].copy
        x == d.link
    IN  /\ Is(p, "push")
        /\ work' = [work EXCEPT ![p].pc = "mark", ![p].copy.sync = "error", ![p].from = x]
        /\ \/ UNCHANGED <<cal, clock, orphans>>
           \/ /\ d.status = "live" /\ x # 0 /\ cal[x].state = "live"
              /\ cal' = [cal EXCEPT ![x].value = d.value, ![x].event = work[p].e, ![x].etag = clock + 2,
                   ![x].meet = IF @ = "none" /\ d.meet = 0 THEN "on" ELSE @]
              /\ Advance /\ UNCHANGED orphans
           \/ /\ d.status = "cancelled" /\ x # 0 /\ cal[x].state = "live"
              /\ cal' = [cal EXCEPT ![x].state = "deleted", ![x].etag = clock + 2]
              /\ Advance /\ UNCHANGED orphans
           \/ /\ d.status = "live" /\ (x # 0 => cal[x].state = "deleted")
              /\ \E y \in Entries :
                   /\ IsNewEntry(y)
                   /\ cal' = [cal EXCEPT ![y] = [state |-> "live", event |-> work[p].e,
                        value |-> d.value, etag |-> clock + 2, meet |-> "on"]]
                   /\ orphans' = orphans \cup {y}
              /\ Advance
        /\ Happens
        /\ UNCHANGED <<doc, token, doubled, unseen, adrift, behind>>

(* retry_pending: the events are listed once; one call pushes its copies in turn *)
Unsynced(e) == doc[e].status # "none" /\ doc[e].sync # "synced"
LacksMeet(e) == doc[e].status = "live" /\ ~(doc[e].meet # 0 /\ doc[e].rec)
Pending == {[e |-> e, copy |-> doc[e]] : e \in {d \in CalEvents : Unsynced(d) \/ LacksMeet(d)}}

RetryNext(p, todo) ==
    IF todo = {} THEN work' = [work EXCEPT ![p] = Resting]
    ELSE \E d \in todo : work' = [work EXCEPT
           ![p] = [Resting EXCEPT !.pc = "push", !.e = d.e, !.copy = d.copy, !.todo = todo \ {d}]]

(* the whole copy is saved, whatever became of the event meanwhile *)
Mark(p) ==
    LET e == work[p].e
        d == work[p].copy
    IN  /\ Is(p, "mark")
        /\ doc' = [doc EXCEPT ![e] = d]
        /\ orphans' = (orphans \cup ({doc[e].link} \ {0, work[p].from})) \ {d.link}
        /\ doubled' = doubled \cup
             IF d.link = 0 THEN {}
             ELSE IF LinkedTo(d.link) \ {e} # {} THEN LinkedTo(d.link) \cup {e}
             ELSE IF doc[e].link \notin {0, d.link} THEN {e} ELSE {}
        /\ adrift' = IF <<p, e>> \in behind THEN adrift \cup {e} ELSE adrift \ {e}
        /\ IF work[p].next = 0 THEN RetryNext(p, work[p].todo)
           ELSE work' = [work EXCEPT ![p].e = 0, ![p].copy = NoDoc, ![p].from = 0, ![p].pc = "items"]
        /\ behind' = NowBehind(p, e)
        /\ UNCHANGED <<cal, token, clock, unseen, happened>>
-----------------------------------------------------------------------------
(* pull_changes *)

Listed(p, xs) == work' = [work EXCEPT
    ![p].pc = "items", ![p].now = clock + 1, ![p].next = clock,
    ![p].items = {[x |-> x, entry |-> cal[x]] : x \in xs}]

(* what changed since the token, deletions among it *)
Fetch(p) ==
    /\ Is(p, "idle") /\ token # 0
    /\ Listed(p, {x \in Entries : cal[x].etag > token})
    /\ UNCHANGED <<doc, cal, token, clock, histories, happened>>

(* no token, or it has expired (410): all entries there are *)
FetchAll(p) ==
    /\ Is(p, "idle")
    /\ IF token # 0 THEN Happens ELSE UNCHANGED happened
    /\ Listed(p, {x \in Entries : cal[x].state = "live"})
    /\ unseen' = unseen \cup {x \in Entries : cal[x].state = "deleted" /\ cal[x].etag > token}
    /\ UNCHANGED <<doc, cal, token, clock, orphans, doubled, adrift, behind>>

Applied(p, i) == work' = [work EXCEPT ![p].items = @ \ {i}]

(* _find_linked: by the id the entry carries, if that event has no other entry, *)
(* else by the entry's own id                                                  *)
FindLinked(i) ==
    LET e == i.entry.event
    IN  IF e # 0 /\ doc[e].status # "none" /\ doc[e].link \in {0, i.x} THEN {e}
        ELSE LinkedTo(i.x)

(* mutant: the status is the calendar's word *)
ApplyDeletedStatus(p) == \E i \in work[p].items : \E e \in LinkedTo(i.x) :
    /\ Is(p, "items") /\ i.entry.state = "deleted"
    /\ doc' = [doc EXCEPT ![e].status = "deleted", ![e].link = 0]
    /\ Applied(p, i)
    /\ UNCHANGED <<cal, token, clock, histories, happened>>

(* the event stays, cancelled; an entry nobody has is passed over *)
ApplyDeleted(p) == \E i \in work[p].items :
    /\ Is(p, "items") /\ i.entry.state = "deleted"
    /\ unseen' = IF LinkedTo(i.x) = {} THEN unseen \cup {i.x} ELSE unseen
    /\ IF LinkedTo(i.x) = {} THEN UNCHANGED <<doc, behind>>
       ELSE \E e \in LinkedTo(i.x) :
              /\ doc' = [doc EXCEPT ![e].status = "cancelled", ![e].link = 0, ![e].etag = 0,
                                    ![e].sync = "synced", ![e].updated = work[p].now]
              /\ behind' = NowBehind(p, e)
    /\ Applied(p, i)
    /\ UNCHANGED <<cal, token, clock, orphans, doubled, adrift, happened>>

(* mutant: the calendar always wins *)
CalendarWins(p) == \E i \in work[p].items : \E e \in FindLinked(i) :
    /\ Is(p, "items") /\ i.entry.state = "live" /\ i.entry.value # AllDay
    /\ i.entry.etag # doc[e].etag
    /\ doc' = [doc EXCEPT ![e].value = i.entry.value, ![e].link = i.x,
                          ![e].etag = i.entry.etag, ![e].sync = "synced",
                          ![e].updated = i.entry.etag]
    /\ orphans' = orphans \ {i.x}
    /\ adrift' = IF doc[e].status = "live" THEN adrift \ {e} ELSE adrift \cup {e}
    /\ behind' = NowBehind(p, e)
    /\ Applied(p, i)
    /\ UNCHANGED <<cal, token, clock, doubled, unseen, happened>>

ApplyNewer(p) == \E i \in work[p].items : \E e \in FindLinked(i) :
    /\ Is(p, "items") /\ i.entry.state = "live" /\ i.entry.value # AllDay
    /\ i.entry.etag # doc[e].etag
    /\ doc[e].updated <= i.entry.etag
    /\ doc' = [doc EXCEPT ![e].value = i.entry.value, ![e].link = i.x,
                          ![e].etag = i.entry.etag, ![e].sync = "synced",
                          ![e].updated = i.entry.etag]
    /\ orphans' = orphans \ {i.x}
    /\ adrift' = IF doc[e].status = "live" THEN adrift \ {e} ELSE adrift \cup {e}
    /\ behind' = NowBehind(p, e)
    /\ Applied(p, i)
    /\ UNCHANGED <<cal, token, clock, doubled, unseen, happened>>

(* the event is newer: the entry is overwritten *)
PushBack(p) == \E i \in work[p].items : \E e \in FindLinked(i) :
    /\ Is(p, "items") /\ i.entry.state = "live" /\ i.entry.value # AllDay
    /\ i.entry.etag # doc[e].etag
    /\ doc[e].updated > i.entry.etag
    /\ work' = [work EXCEPT ![p].items = @ \ {i}, ![p].pc = "push",
                  ![p].e = e, ![p].copy = doc[e]]
    /\ UNCHANGED <<doc, cal, token, clock, histories, happened>>

(* its own echo, or an entry that lasts all day, or a private one nobody has;  *)
(* bound: one that is new when no event is left                                *)
PassOver(p) == \E i \in work[p].items :
    /\ Is(p, "items") /\ i.entry.state = "live"
    /\ \/ i.entry.value = AllDay
       \/ \E e \in FindLinked(i) : i.entry.etag = doc[e].etag
       \/ FindLinked(i) = {} /\ (i.entry.value = Private \/ \A e \in CalEvents : doc[e].status # "none")
    /\ Applied(p, i)
    /\ UNCHANGED <<doc, cal, token, clock, histories, happened>>

ImportNew(p) == \E i \in work[p].items, e \in CalEvents :
    /\ Is(p, "items") /\ i.entry.state = "live" /\ i.entry.value \in Values
    /\ FindLinked(i) = {}
    /\ IsNewEvent(e)
    /\ doc' = [doc EXCEPT ![e] = [NoDoc EXCEPT
         !.status = "live", !.value = i.entry.value, !.link = i.x, !.etag = i.entry.etag,
         !.sync = "synced", !.updated = i.entry.etag]]
    /\ doubled' = IF i.entry.event # 0 THEN doubled \cup {e, i.entry.event} ELSE doubled
    /\ orphans' = orphans \ {i.x}
    /\ behind' = NowBehind(p, e)
    /\ Applied(p, i)
    /\ UNCHANGED <<cal, token, clock, unseen, adrift, happened>>

(* only now is the token saved: what was not applied will be listed again *)
EndPull(p) ==
    /\ Is(p, "items") /\ work[p].items = {}
    /\ token' = work[p].next
    /\ RetryNext(p, Pending)
    /\ UNCHANGED <<doc, cal, clock, histories, happened>>

(* mutant: the token moves on all the same *)
PullFailsMovesOn(p) ==
    /\ Is(p, "items")
    /\ RetryNext(p, Pending)
    /\ token' = work[p].next
    /\ Happens
    /\ UNCHANGED <<doc, cal, clock, histories>>

(* Google or Firestore raises: the token stays, and what is pending is pushed *)
PullFails(p) ==
    /\ Is(p, "idle") \/ Is(p, "items")
    /\ RetryNext(p, Pending)
    /\ Happens
    /\ UNCHANGED <<doc, cal, token, clock, histories>>
-----------------------------------------------------------------------------
(* the instance dies; an entry it has just inserted is not known *)
CalDie(p) ==
    LET e == work[p].e
    IN  /\ ~Is(p, "idle")
        /\ work' = [work EXCEPT ![p] = Resting]
        /\ orphans' = IF Is(p, "mark") /\ work[p].copy.link \notin {0, doc[e].link}
                      THEN orphans \cup {work[p].copy.link} ELSE orphans
        /\ adrift' = IF e # 0 THEN adrift \cup {e} ELSE adrift
        /\ behind' = behind \ ({p} \X CalEvents)
        /\ Happens
        /\ UNCHANGED <<doc, cal, token, clock, doubled, unseen>>
-----------------------------------------------------------------------------
(* the calendar's users *)

UserStep == Happens /\ Advance
            /\ UNCHANGED <<doc, token, work, orphans, unseen, adrift, behind>>

UserEdit == \E x \in Entries, v \in Contents :
    /\ cal[x].state = "live" /\ cal[x].value # v
    /\ cal' = [cal EXCEPT ![x].value = v, ![x].etag = clock + 2]
    /\ UserStep /\ UNCHANGED doubled

UserDelete == \E x \in Entries :
    /\ cal[x].state = "live"
    /\ cal' = [cal EXCEPT ![x].state = "deleted", ![x].etag = clock + 2]
    /\ UserStep /\ UNCHANGED doubled

UserAdd == \E x \in Entries, v \in Contents :
    /\ IsNewEntry(x)
    /\ cal' = [cal EXCEPT ![x] = [Unused EXCEPT !.state = "live", !.value = v, !.etag = clock + 2]]
    /\ UserStep /\ UNCHANGED doubled

(* a copy carries the event's id, not its meeting *)
UserCopy == \E x, y \in Entries :
    /\ cal[x].state = "live" /\ IsNewEntry(y)
    /\ cal' = [cal EXCEPT ![y] = [cal[x] EXCEPT !.meet = "none", !.etag = clock + 2]]
    /\ doubled' = doubled \cup ({cal[x].event} \ {0})
    /\ UserStep
-----------------------------------------------------------------------------
CalProceed(p) ==
    \/ PushDelete(p) \/ PushPatch(p) \/ PushInsert(p) \/ PushFails(p) \/ Mark(p)
    \/ ApplyDeleted(p) \/ ApplyNewer(p) \/ PushBack(p)
    \/ PassOver(p) \/ ImportNew(p) \/ EndPull(p)

Pull(p) == Fetch(p) \/ FetchAll(p) \/ PullFails(p)

ScreenCall(p) ==
    \/ CreateEvent(p) \/ UpdateEvent(p) \/ CancelEvent(p) \/ RestoreEvent(p)
    \/ SyncEvent(p) \/ UpdateOther(p)

User == UserEdit \/ UserDelete \/ UserAdd \/ UserCopy

CalNext ==
    \/ \E p \in Screens : ScreenCall(p)
    \/ \E p \in Ticks : Pull(p)
    \/ \E p \in CalCalls : CalProceed(p) \/ CalDie(p)
    \/ User

(* The scheduler calls the tick again and again, and a call goes on or dies *)
CalFairness ==
    /\ \A p \in Ticks : WF_calvars(Pull(p))
    /\ \A p \in CalCalls : WF_calvars(CalProceed(p))

CalSpec == CalInit /\ [][CalNext]_calvars /\ CalFairness
-----------------------------------------------------------------------------
HasTwin(x) == cal[x].event \in doubled \/ LinkedTo(x) \cap doubled # {}

(* nothing under way, and nothing in the calendar that the pull has not seen *)
AtRest ==
    /\ \A p \in CalCalls : Is(p, "idle")
    /\ \A x \in Entries : \/ cal[x].etag <= token
                          \/ cal[x].state = "deleted" /\ LinkedTo(x) = {}
                          \/ \E e \in LinkedTo(x) : doc[e].etag = cal[x].etag

Mirrored(e) ==
    \/ doc[e].status = "cancelled" /\ doc[e].link = 0
    \/ LET x == doc[e].link
       IN  doc[e].status = "live" /\ x # 0 /\ cal[x].state = "live" /\ cal[x].value = doc[e].value

(* Exempt: an entry the program takes for another's, a deletion before a full  *)
(* listing, a day-long entry, an older copy saved late                         *)
Excused(e) ==
    \/ e \in adrift
    \/ \E x \in orphans : cal[x].event = e
    \/ LET x == doc[e].link
       IN  x # 0 /\ (x \in unseen \/ HasTwin(x) \/ cal[x].value = AllDay)

(* An event that is marked synced is the same in the calendar once the pull has *)
(* seen all changes: cancelled without an entry, or live with an entry of its   *)
(* contents (calendar_sync.push_event, calendar_import.apply_item; later one    *)
(* wins). Several calls, users and failures have to meet for it to fail.        *)
SyncedMirrors == AtRest => \A e \in CalEvents :
    doc[e].status # "none" /\ doc[e].sync = "synced" => Mirrored(e) \/ Excused(e)

(* Two events never share an entry, unless a user copied it or two calls each    *)
(* made an entry for one event (calendar_import._find_linked).                   *)
EntryOfOne == \A x \in Entries : Cardinality(LinkedTo(x)) <= 1 \/ HasTwin(x)

Undoes(e, d) == (doc[e].status = "cancelled" /\ d.status = "live") \/ d.updated < doc[e].updated
IsRestored(e, d) == d.updated = clock + 2 /\ d.value = doc[e].value
IsDeletion(e, d) == doc[e].link # 0 /\ cal[doc[e].link].state = "deleted" /\ d.status = "cancelled"

(* What brings a cancelled event back to life, or sets an event back to an older *)
(* time of change, is a user's restore, a deletion in the calendar, or a call    *)
(* that saves a copy it read before the change (push_event's upsert of its whole *)
(* event): the pull alone never does, as the later change wins.                  *)
OnlyStaleCallsUndo == [][\A e \in CalEvents : Undoes(e, doc'[e]) =>
    \/ IsRestored(e, doc'[e]) \/ IsDeletion(e, doc'[e])
    \/ \E p \in CalCalls : Is(p, "mark") /\ work[p].e = e /\ <<p, e>> \in behind]_calvars

(* An entry made for an event is named by an event, or is about to be, unless    *)
(* its answer was lost, the call died or another call's copy was saved over it,  *)
(* or the entry was copied (push_event saves gcal_event_id).                     *)
NoEntryForgotten == \A x \in Entries :
    cal[x].state = "live" /\ cal[x].event # 0 =>
      \/ HasTwin(x) \/ x \in orphans
      \/ LinkedTo(x) # {}
      \/ \E p \in CalCalls : Is(p, "mark") /\ work[p].copy.link = x

(* What is not synced is pushed in the end: the tick retries what is pending or  *)
(* failed for as long as it takes (retry_pending).                               *)
PushedInTheEnd == \A e \in CalEvents :
    <>[](doc[e].status # "none" => doc[e].sync = "synced" \/ \A x \in Entries : cal[x].state # "unused")

(* Said by the design: an event that is cancelled has its entry deleted, and a   *)
(* deletion that failed stays unsynced and is tried again by the tick            *)
(* (docs/calendar-design.md sections 3.2 and 4.1; push_event, retry_pending).    *)
FailedDeletionIsRetried == [][\A e \in CalEvents :
    doc[e].status = "cancelled" /\ doc[e].sync = "error" /\ doc'[e].sync = "synced"
      => doc'[e].link = 0 \/ doc'[e].status = "live"]_calvars

(* The schedule and the calendar keep step: what is marked synced is the     *)
(* same on both sides, no two events share an entry, and no entry is left    *)
(* that no event knows, but for the deaths, lost answers and copies each     *)
(* part names.                                                               *)
SyncKeepsStep == SyncedMirrors /\ EntryOfOne /\ NoEntryForgotten
=============================================================================
