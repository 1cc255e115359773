------------------------------ MODULE LineContent ------------------------------
(* The worker of the data lake: a second push subscription of the topic of LINE  *)
(* events. It stores the file of a message, deletes it when the message is       *)
(* unsent, and records in which groups the bot is. Pub/Sub delivers an event     *)
(* again until it is acknowledged, in no order, and up to a number of times.     *)
EXTENDS Naturals, FiniteSets

CONSTANTS
    Workers,        \* calls of /pubsub/line-worker
    Instances,      \* server instances, each with its _known_groups
    MaxEvents,      \* bound of the events
    MaxDeliveries,  \* --max-delivery-attempts of the subscription
    MaxOld          \* bound of the answers of Pub/Sub that get lost, and of old profiles

ASSUME DeliveriesAssumption == MaxDeliveries \in Nat

VARIABLES
    incoming,   \* incoming[e]: where the event is, and how often it was delivered
    worker,     \* worker[w]: locals of call w
    stored,     \* whether there is an object under line/content/{id}/
    records,    \* the content records published to the lake
    group,      \* the LineGroup document
    known,      \* known[i]: what instance i believes it need not look up
    old,
    order,      \* history: "looked" when a deletion had looked for the file, "late"
                \* when the file was stored after that and not deleted since
    unrecorded  \* history: a deletion ended before it was recorded

contentvars == <<incoming, worker, stored, records, group, known, old, order, unrecorded>>

(* One message with a file, its unsending, and one group they are said in. *)
Happenings == {"message", "unsend", "join", "leave"}
NoGroup == [in |-> FALSE, left |-> FALSE]
AtHome == [pc |-> "idle", e |-> "none", i |-> "none", copy |-> NoGroup]

GroupDocs == {g \in [in : BOOLEAN, left : BOOLEAN] : g.left => g.in}
WorkerPlaces == {"idle", "begun", "group", "content", "uploaded", "unsend", "found", "deleted", "done"}

(* Type invariant: documents and locals have their types, and a call is at work   *)
(* on an event that was delivered to it.                                         *)
CwTypeOK ==
    /\ incoming \in [Happenings -> [at : {"none", "topic", "acked", "dead"}, times : 0 .. MaxDeliveries]]
    /\ worker \in [Workers -> [pc : WorkerPlaces, e : Happenings \cup {"none"},
                                i : Instances \cup {"none"}, copy : GroupDocs]]
    /\ \A w \in Workers : worker[w].pc # "idle" =>
         /\ worker[w].e \in Happenings /\ worker[w].i \in Instances
         /\ incoming[worker[w].e].times > 0
    /\ stored \in BOOLEAN /\ records \subseteq {"stored", "no_file", "deleted_unsent"}
    /\ group \in GroupDocs /\ known \in [Instances -> BOOLEAN]
    /\ order \in {"no", "looked", "late"} /\ unrecorded \in BOOLEAN

CwInit ==
    /\ incoming = [e \in Happenings |-> [at |-> "none", times |-> 0]]
    /\ worker = [w \in Workers |-> AtHome]
    /\ stored = FALSE /\ records = {} /\ group = NoGroup
    /\ known = [i \in Instances |-> FALSE]
    /\ old = 0 /\ order = "no" /\ unrecorded = FALSE
-----------------------------------------------------------------------------
Elapse == old < MaxOld /\ old' = old + 1
StandsAt(w, pc) == worker[w].pc = pc
MovesTo(w, pc) == worker' = [worker EXCEPT ![w].pc = pc]
Publish(status) == records' = records \cup {status}

(* A message is unsent after it was sent, a group is left after it was joined;    *)
(* the topic takes them in that order, and gives them out in any.                *)
HappensAt(e) ==
    /\ incoming[e].at = "none" /\ Cardinality({h \in Happenings : incoming[h].at # "none"}) < MaxEvents
    /\ e = "unsend" => incoming["message"].at # "none"
    /\ e # "join" => incoming["join"].at # "none"
    /\ e = "message" => incoming["leave"].at = "none"
    /\ incoming' = [incoming EXCEPT ![e].at = "topic"]
    /\ UNCHANGED <<worker, stored, records, group, known, old, order, unrecorded>>

Deliver(w) == \E e \in Happenings, i \in Instances :
    /\ StandsAt(w, "idle") /\ incoming[e].at = "topic" /\ incoming[e].times < MaxDeliveries
    /\ incoming' = [incoming EXCEPT ![e].times = @ + 1]
    /\ worker' = [worker EXCEPT ![w] = [AtHome EXCEPT !.pc = "begun", !.e = e, !.i = i]]
    /\ UNCHANGED <<stored, records, group, known, old, order, unrecorded>>

(* the 204 of the call reaches Pub/Sub, or comes too late *)
Answered(w, inTime) ==
    /\ StandsAt(w, "done")
    /\ IF inTime THEN UNCHANGED old ELSE Elapse
    /\ incoming' = IF inTime THEN [incoming EXCEPT ![worker[w].e].at = "acked"] ELSE incoming
    /\ worker' = [worker EXCEPT ![w] = AtHome]
    /\ UNCHANGED <<stored, records, group, known, order, unrecorded>>

(* an exception is answered 500; a call that ends otherwise is not answered *)
Fails(w) ==
    /\ worker[w].pc \notin {"idle", "done"}
    /\ worker' = [worker EXCEPT ![w] = AtHome]
    /\ unrecorded' = (unrecorded \/ StandsAt(w, "deleted"))
    /\ UNCHANGED <<incoming, stored, records, group, known, old, order>>

(* the last delivery was no success: line-events-dlq *)
DeadLetter(e) ==
    /\ incoming[e].at = "topic" /\ incoming[e].times = MaxDeliveries
    /\ \A w \in Workers : worker[w].e # e
    /\ incoming' = [incoming EXCEPT ![e].at = "dead"]
    /\ UNCHANGED <<worker, stored, records, group, known, old, order, unrecorded>>

(* Names are looked up again after PROFILE_TTL; an instance may also be new. *)
ProfileIsOld(i) ==
    /\ known[i] /\ Elapse
    /\ known' = [known EXCEPT ![i] = FALSE]
    /\ UNCHANGED <<incoming, worker, stored, records, group, order, unrecorded>>
-----------------------------------------------------------------------------
(* track_group *)
NextPlace(w) == CASE worker[w].e = "message" -> "content"
              [] worker[w].e = "unsend" -> "unsend"
              [] OTHER -> "done"

GroupIsKnown(w) ==
    /\ StandsAt(w, "begun") /\ worker[w].e \in {"message", "unsend"} /\ known[worker[w].i]
    /\ MovesTo(w, NextPlace(w))
    /\ UNCHANGED <<incoming, stored, records, group, known, old, order, unrecorded>>

ReadGroup(w) ==
    /\ StandsAt(w, "begun")
    /\ worker[w].e \in {"join", "leave"} \/ ~known[worker[w].i]
    /\ worker' = [worker EXCEPT ![w] = [@ EXCEPT !.pc = "group", !.copy =
         CASE worker[w].e = "join" -> [in |-> TRUE, left |-> FALSE]
           [] worker[w].e = "leave" -> [in |-> TRUE, left |-> TRUE]
           [] OTHER -> [in |-> TRUE, left |-> group.left]]]
    /\ UNCHANGED <<incoming, stored, records, group, known, old, order, unrecorded>>

(* mutant: an event of a group says that the bot is in it *)
SaveGroupJoined(w) ==
    /\ StandsAt(w, "group")
    /\ group' = [worker[w].copy EXCEPT !.left = @ /\ worker[w].e = "leave"]
    /\ known' = [known EXCEPT ![worker[w].i] = TRUE]
    /\ MovesTo(w, NextPlace(w))
    /\ UNCHANGED <<incoming, stored, records, old, order, unrecorded>>

(* the name, which nothing depends on, is asked of LINE before the save *)
SaveGroup(w) ==
    /\ StandsAt(w, "group")
    /\ group' = worker[w].copy
    /\ known' = [known EXCEPT ![worker[w].i] = TRUE]
    /\ MovesTo(w, NextPlace(w))
    /\ UNCHANGED <<incoming, stored, records, old, order, unrecorded>>
-----------------------------------------------------------------------------
(* store_content: what LINE answers for the file; what is not to be had is only  *)
(* recorded: unavailable, failed, too_large and external are "no_file".  *)
(* 202 (still converted), 429 and 5xx are Fails.                                 *)
NoContent(w) ==
    /\ StandsAt(w, "content")
    /\ Publish("no_file")
    /\ MovesTo(w, "done")
    /\ UNCHANGED <<incoming, stored, group, known, old, order, unrecorded>>

(* The object is the same however often it is uploaded *)
Upload(w) ==
    /\ StandsAt(w, "content")
    /\ stored' = TRUE
    /\ order' = IF order = "no" THEN "no" ELSE "late"
    /\ MovesTo(w, "uploaded")
    /\ UNCHANGED <<incoming, records, group, known, old, unrecorded>>

RecordStored(w) ==
    /\ StandsAt(w, "uploaded")
    /\ Publish("stored")
    /\ MovesTo(w, "done")
    /\ UNCHANGED <<incoming, stored, group, known, old, order, unrecorded>>

(* delete_unsent: the objects are listed, deleted, and the deletion recorded *)
ListContent(w) ==
    /\ StandsAt(w, "unsend")
    /\ order' = IF order = "no" \/ ~stored THEN "looked" ELSE order
    /\ MovesTo(w, IF stored THEN "found" ELSE "done")
    /\ UNCHANGED <<incoming, stored, records, group, known, old, unrecorded>>

DeleteContent(w) ==
    /\ StandsAt(w, "found")
    /\ stored' = FALSE /\ order' = "looked"
    /\ MovesTo(w, "deleted")
    /\ UNCHANGED <<incoming, records, group, known, old, unrecorded>>

RecordDeleted(w) ==
    /\ StandsAt(w, "deleted")
    /\ Publish("deleted_unsent")
    /\ MovesTo(w, "done")
    /\ UNCHANGED <<incoming, stored, group, known, old, order, unrecorded>>

CwNext ==
    \/ \E e \in Happenings : HappensAt(e) \/ DeadLetter(e)
    \/ \E i \in Instances : ProfileIsOld(i)
    \/ \E w \in Workers :
         \/ Deliver(w) \/ Fails(w) \/ GroupIsKnown(w) \/ ReadGroup(w) \/ SaveGroup(w)
         \/ NoContent(w) \/ Upload(w) \/ RecordStored(w)
         \/ ListContent(w) \/ DeleteContent(w) \/ RecordDeleted(w)
         \/ \E inTime \in BOOLEAN : Answered(w, inTime)

CwSpec == CwInit /\ [][CwNext]_contentvars
-----------------------------------------------------------------------------
(* The file of an unsent message is gone once the unsending is acknowledged, but *)
(* when it was stored only after the deletion had looked for it                  *)
(* (line_worker.py:268-276, :159-177).                                           *)
UnsentIsGone == incoming["unsend"].at = "acked" /\ order # "late" => ~stored

(* The lake never names a stored file that is not there, but until the deletion  *)
(* is recorded, or when it ended between the deletion and its record: the next   *)
(* delivery finds nothing to delete and records nothing (line_worker.py:273-275). *)
RecordsAreTrue == "stored" \in records /\ ~stored =>
    \/ "deleted_unsent" \in records \/ unrecorded
    \/ \E w \in Workers : StandsAt(w, "deleted")

(* A group the bot has left is joined again only by a join event, handled after  *)
(* or again, or by a copy read before it left (line_worker.py:300-318).          *)
LeftStaysLeft == [][group.left /\ ~group'.left =>
    \E w \in Workers : StandsAt(w, "group") /\ worker'[w].pc # "group"
        /\ \/ worker[w].e = "join" \/ ~worker[w].copy.left]_contentvars

(* An unsent message is deleted (docs/datalake-design.md:231). *)
UnsentIsDeleted == (incoming["unsend"].at = "acked" /\ incoming["message"].at \in {"acked", "dead"}
                    /\ \A w \in Workers : StandsAt(w, "idle")) => ~stored

(* The files and groups of LINE are as its events say, in whatever order     *)
(* they are handled, but for the cases each part names.                      *)
ContentIsTrue == [](UnsentIsGone /\ RecordsAreTrue) /\ LeftStaysLeft
=============================================================================
