------------------------------- MODULE Notices -------------------------------
(* Notices from outside the chamber: they come in by mail (the tick, or a       *)
(* button) or are typed in, the model makes a digest of them, the SED delivers  *)
(* the announcement, and makes an action of it whose assignees are reminded     *)
(* until they have tapped "done". The digest, a delivery and a reminder wait    *)
(* for the model or for LINE between reading and saving the whole document.     *)
EXTENDS Naturals, FiniteSets

CONSTANTS
    Members,    \* the assignees
    Mails,      \* source_ref: message ids, and hashes of what is typed in
    Notices,    \* notice ids: naturals, taken in turn
    Desks,      \* calls
    MaxActs     \* bound of what people do and of the failures together

(* an action is asked of somebody (notices_api.py:303) *)
ASSUME NoticesAssumption ==
    /\ 1 \in Notices /\ Notices \subseteq Nat /\ Members # {} /\ "none" \notin Mails

VARIABLES
    notice,     \* notice[n]: the ExternalNotice document
    action,     \* the NoticeAction document of notice 1
    work,       \* work[d]: locals of call d
    acts,
    delivered,  \* history: delivered[n], deliveries without force
    tapped,     \* history: the assignees who tapped "done"
    undone,     \* history: notices whose delivery a copy saved late undid
    untapped,   \* history: members whose tap a copy saved late undid
    together    \* history: sources two calls looked for before either saved

noticevars == <<notice, action, work, acts, delivered, tapped, undone, untapped, together>>

NoNotice == [ref |-> "none", status |-> "none", digest |-> FALSE]
NoAction == [status |-> "none", done |-> {}, reminders |-> 0]
AtDesk == [pc |-> "idle", n |-> 0, copy |-> NoNotice, act |-> NoAction, todo |-> {},
           force |-> FALSE, mails |-> {}, ref |-> "none"]

Pending(a) == Members \ a.done

(* a notice in use has its source; what was reviewed is summed up *)
NoticeDocs == {doc \in [ref : Mails \cup {"none"}, digest : BOOLEAN,
                       status : {"none", "new", "reviewed", "delivered", "archived"}] :
                  /\ doc.status = "none" <=> doc.ref = "none"
                  /\ doc.status = "reviewed" => doc.digest}

ActionDocs == {doc \in [status : {"none", "open", "closed"}, done : SUBSET Members, reminders : Nat] :
                  doc.status = "none" => doc.done = {}}

DeskLocals == [pc : {"idle", "fetched", "new", "digest", "deliver", "remind"},
               n : Notices \cup {0}, copy : NoticeDocs, act : ActionDocs, todo : SUBSET Members,
               force : BOOLEAN, mails : SUBSET Mails, ref : Mails \cup {"none"}]

(* Type invariant: documents and locals have their types, and a call has what it *)
(* is about.                                                                     *)
NtTypeOK ==
    /\ notice \in [Notices -> NoticeDocs] /\ action \in ActionDocs
    /\ work \in [Desks -> DeskLocals]
    /\ \A d \in Desks :
         /\ work[d].pc = "new" => work[d].ref \in Mails
         /\ work[d].pc \in {"digest", "deliver"} => work[d].n \in Notices
         /\ work[d].pc = "remind" => work[d].act.status # "none"
    /\ delivered \in [Notices -> Nat]
    /\ tapped \cup untapped \subseteq Members /\ undone \subseteq Notices /\ together \subseteq Mails

NtInit ==
    /\ notice = [n \in Notices |-> NoNotice] /\ action = NoAction
    /\ work = [d \in Desks |-> AtDesk]
    /\ acts = 0
    /\ delivered = [n \in Notices |-> 0] /\ tapped = {}
    /\ undone = {} /\ untapped = {} /\ together = {}
-----------------------------------------------------------------------------
Act == acts < MaxActs /\ acts' = acts + 1
IsAt(d, pc) == work[d].pc = pc
LeaveDesk(d) == work' = [work EXCEPT ![d] = AtDesk]

IsNextNotice(n) == notice[n].status = "none" /\ \A i \in Notices : i < n => notice[i].status # "none"
BySource(ref) == {n \in Notices : notice[n].ref = ref}

(* an import goes on with the mails it still has *)
Fetched(refs) == IF refs = {} THEN AtDesk ELSE [AtDesk EXCEPT !.pc = "fetched", !.mails = refs]

(* A stale copy takes back a delivery when its status is an older one, and taps  *)
(* when they are not in it.                                                      *)
SaveNotice(n, copy) ==
    /\ notice' = [notice EXCEPT ![n] = copy]
    /\ undone' = IF notice[n].status = "delivered" /\ copy.status # "delivered"
                 THEN undone \cup {n} ELSE undone
-----------------------------------------------------------------------------
(* How a notice comes in: create_notice looks for its hash, import_gmail_notices *)
(* fetches the mails and then looks for each; what is there already is kept, its *)
(* text apart. The look and the save of a new notice are two accesses.           *)

LookForSource(d, ref, rest) ==
    IF BySource(ref) = {}
    THEN /\ work' = [work EXCEPT ![d] = [AtDesk EXCEPT !.pc = "new", !.ref = ref, !.mails = rest]]
         /\ together' = IF \E e \in Desks : IsAt(e, "new") /\ work[e].ref = ref
                        THEN together \cup {ref} ELSE together
    ELSE /\ work' = [work EXCEPT ![d] = Fetched(rest)]
         /\ UNCHANGED together

TypeIn(d) == \E ref \in Mails :
    /\ IsAt(d, "idle") /\ Act
    /\ LookForSource(d, ref, {})
    /\ UNCHANGED <<notice, action, delivered, tapped, undone, untapped>>

FetchMails(d) == \E refs \in SUBSET Mails \ {{}} :
    /\ IsAt(d, "idle") /\ Act
    /\ work' = [work EXCEPT ![d] = Fetched(refs)]
    /\ UNCHANGED <<notice, action, delivered, tapped, undone, untapped, together>>

ImportMail(d) == \E ref \in work[d].mails :
    /\ IsAt(d, "fetched")
    /\ LookForSource(d, ref, work[d].mails \ {ref})
    /\ UNCHANGED <<notice, action, acts, delivered, tapped, undone, untapped>>

SaveNew(d) == \E n \in Notices :
    /\ IsAt(d, "new") /\ IsNextNotice(n)
    /\ notice' = [notice EXCEPT ![n] = [ref |-> work[d].ref, status |-> "new", digest |-> FALSE]]
    /\ work' = [work EXCEPT ![d] = Fetched(work[d].mails)]
    /\ UNCHANGED <<action, acts, delivered, tapped, undone, untapped, together>>
-----------------------------------------------------------------------------
(* build_digest, deliver_notice: read, wait, save. *)

Takes(d, n, pc, force) ==
    /\ IsAt(d, "idle") /\ Act
    /\ work' = [work EXCEPT ![d] = [AtDesk EXCEPT !.pc = pc, !.n = n, !.copy = notice[n], !.force = force]]

DigestBegins(d) == \E n \in Notices :
    /\ notice[n].status # "none"
    /\ Takes(d, n, "digest", FALSE)
    /\ UNCHANGED <<notice, action, delivered, tapped, undone, untapped, together>>

DigestEnds(d) ==
    /\ IsAt(d, "digest")
    /\ SaveNotice(work[d].n, [work[d].copy EXCEPT !.digest = TRUE,
          !.status = IF @ = "new" THEN "reviewed" ELSE @])
    /\ LeaveDesk(d)
    /\ UNCHANGED <<action, acts, delivered, tapped, untapped, together>>

(* mutant: the status is not looked at *)
DeliverAnyway(d) == \E n \in Notices, force, own \in BOOLEAN :
    /\ notice[n].status # "none"
    /\ own \/ notice[n].digest
    /\ Takes(d, n, "deliver", force)
    /\ UNCHANGED <<notice, action, delivered, tapped, undone, untapped, together>>

(* a text of one's own takes the place of the digest's announcement *)
DeliverBegins(d) == \E n \in Notices, force, own \in BOOLEAN :
    /\ notice[n].status # "none"
    /\ own \/ notice[n].digest
    /\ force \/ notice[n].status # "delivered"
    /\ Takes(d, n, "deliver", force)
    /\ UNCHANGED <<notice, action, delivered, tapped, undone, untapped, together>>

(* the members are sent to (Delivery), then the notice is delivered, reached or not *)
DeliverEnds(d) ==
    /\ IsAt(d, "deliver")
    /\ SaveNotice(work[d].n, [work[d].copy EXCEPT !.status = "delivered"])
    /\ delivered' = [delivered EXCEPT ![work[d].n] = IF work[d].force THEN @ ELSE @ + 1]
    /\ LeaveDesk(d)
    /\ UNCHANGED <<action, acts, tapped, untapped, together>>

(* the sanity check halts the delivery, the model answers nothing, or the call    *)
(* dies: nothing is saved                                                        *)
NothingSaved(d) ==
    /\ work[d].pc \in {"digest", "deliver", "remind", "fetched", "new"} /\ Act
    /\ LeaveDesk(d)
    /\ UNCHANGED <<notice, action, delivered, tapped, undone, untapped, together>>

ArchiveNotice(n) ==
    /\ notice[n].status # "none" /\ Act
    /\ SaveNotice(n, [notice[n] EXCEPT !.status = "archived"])
    /\ UNCHANGED <<action, work, delivered, tapped, untapped, together>>
-----------------------------------------------------------------------------
(* create_actions makes no second action of one title. *)
CreateAction ==
    /\ notice[1].status # "none" /\ action.status = "none" /\ Act
    /\ action' = [NoAction EXCEPT !.status = "open"]
    /\ UNCHANGED <<notice, work, delivered, tapped, undone, untapped, together>>

(* mark_done, by the button or by the office *)
MarkDone(m) ==
    LET done == action.done \cup {m} IN
    /\ action.status # "none" /\ Act
    /\ action' = [action EXCEPT !.done = done, !.status = IF Members \subseteq done THEN "closed" ELSE @]
    /\ tapped' = tapped \cup {m}
    /\ UNCHANGED <<notice, work, delivered, undone, untapped, together>>

RemindBegins(d) ==
    /\ IsAt(d, "idle") /\ action.status # "none" /\ Pending(action) # {} /\ Act
    /\ work' = [work EXCEPT ![d] = [AtDesk EXCEPT !.pc = "remind", !.act = action,
                                                  !.todo = Pending(action)]]
    /\ UNCHANGED <<notice, action, delivered, tapped, undone, untapped, together>>

RemindOne(d) == \E m \in work[d].todo :
    /\ IsAt(d, "remind")
    /\ work' = [work EXCEPT ![d] = [@ EXCEPT !.todo = work[d].todo \ {m}]]
    /\ UNCHANGED <<notice, action, acts, delivered, tapped, undone, untapped, together>>

(* the action read before the reminders is saved with its count *)
RemindEnds(d) ==
    /\ IsAt(d, "remind") /\ work[d].todo = {}
    /\ action' = [work[d].act EXCEPT !.reminders = @ + 1]
    /\ untapped' = untapped \cup (action.done \ work[d].act.done)
    /\ LeaveDesk(d)
    /\ UNCHANGED <<notice, acts, delivered, tapped, undone, together>>

NtNext ==
    \/ CreateAction
    \/ \E n \in Notices : ArchiveNotice(n)
    \/ \E m \in Members : MarkDone(m)
    \/ \E d \in Desks :
         \/ TypeIn(d) \/ FetchMails(d) \/ ImportMail(d) \/ SaveNew(d)
         \/ DigestBegins(d) \/ DigestEnds(d)
         \/ DeliverBegins(d) \/ DeliverEnds(d) \/ NothingSaved(d)
         \/ RemindBegins(d) \/ RemindOne(d) \/ RemindEnds(d)

NtSpec == NtInit /\ [][NtNext]_noticevars
-----------------------------------------------------------------------------
(* A mail, or a text typed in, is one notice, however often and by whomever it   *)
(* is brought in; twice only if one call looked between the look and the save of *)
(* another (notices_api.py:74-77, gmail_import.py:57-104).                       *)
OneNoticePerSource == \A ref \in Mails \ together : Cardinality(BySource(ref)) <= 1

(* A notice is delivered once unless the SED forces it; twice only if two        *)
(* deliveries are under way together, if it was archived in between, or if a     *)
(* digest begun before the delivery took the status back (notices_api.py:219).   *)
NoDeliveryOfTheDelivered == [][\A d \in Desks, n \in Notices :
    (IsAt(d, "idle") /\ work'[d].pc = "deliver" /\ work'[d].n = n /\ ~work'[d].force) =>
        delivered[n] = 0 \/ n \in undone]_noticevars

(* An action is closed when all of its assignees have done it, and not before,   *)
(* also when a reminder saves the copy it had read (notice_actions.py:59-63).    *)
ClosedWhenAllAreDone == action.status = "closed" <=> action.status # "none" /\ Pending(action) = {}

(* Who has tapped "done" is not reminded again, but by a reminder begun before;  *)
(* what a tap said is lost only to a reminder that saved an older copy           *)
(* (notice_actions.py:59-63, notices_api.py:372-402).                            *)
DoneIsNotRemindedAgain == [][\A d \in Desks, m \in Members :
    (IsAt(d, "idle") /\ m \in work'[d].todo) => m \notin tapped \/ m \in untapped]_noticevars

(* Who tapped "done" is done ("the response was recorded. Thank you",            *)
(* notice_actions.py:94).                                                        *)
TapsAreKept == tapped \subseteq action.done

(* A notice comes in once and goes out once, and an action is asked of those *)
(* who have not done it, until all have, but for the races each part names.  *)
NoticesGoOnce ==
    /\ [](OneNoticePerSource /\ ClosedWhenAllAreDone)
    /\ NoDeliveryOfTheDelivered
    /\ DoneIsNotRemindedAgain
=============================================================================
