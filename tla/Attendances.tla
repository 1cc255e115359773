----------------------------- MODULE Attendances -----------------------------
(* Answers to the question whether a member attends: by a button of a message  *)
(* in LINE (apply_postback), for several events at once in the LINE app        *)
(* (save_answers), and by the office with the member who is to vote instead    *)
(* (update_attendance). All of them read the member's Attendance document,     *)
(* add the answer to its history and save it whole; calls overlap.             *)
EXTENDS Naturals, Sequences

CONSTANTS
    Persons,       \* members
    Nobody,        \* no proxy
    Stranger,      \* an id no member has
    Meetings,      \* events
    Buttons,       \* statuses a button of a message may carry
    Writers,       \* calls
    MaxAnswered    \* bound: calls

Answers == {"present", "web", "absent"}   \* what the LINE app lets one choose
Statuses == Answers \cup {"proxy", "none"}

ASSUME AttendancesAssumption ==
    /\ Nobody \notin Persons /\ Stranger \notin Persons
    /\ Buttons \subseteq Statuses
    /\ MaxAnswered \in Nat

VARIABLES
    open,      \* the events that take answers in the LINE app
    att,       \* att[e][m]: the Attendance document
    writer,    \* writer[c]: locals of call c
    answered,  \* history: answered[e][m]: answers that were saved
    raced,     \* history: <<event, member>> where an older copy was saved over an answer
    asks       \* calls so far

attvars == <<open, att, writer, answered, raced, asks>>

NoAnswer == [known |-> FALSE, status |-> "none", proxy |-> Nobody, late |-> FALSE,
             reason |-> FALSE, history |-> <<>>]
Resting == [pc |-> "idle", kind |-> "tap", m |-> Nobody, asked |-> <<>>, at |-> 1, allowed |-> {},
            proxy |-> Nobody, copy |-> NoAnswer, others |-> {}]

Documents == [known : BOOLEAN, status : Statuses, proxy : Persons \cup {Nobody},
              late : BOOLEAN, reason : BOOLEAN, history : Seq(Statuses)]
Entries == [e : Meetings, status : Statuses]

(* Type invariant: documents and locals have their types. *)
AtTypeOK ==
    /\ open \subseteq Meetings
    /\ att \in [Meetings -> [Persons -> Documents]]
    /\ writer \in [Writers -> [
         pc : {"idle", "look", "store", "check", "answer"},
         kind : {"tap", "late", "reason", "app", "office"},
         m : Persons \cup {Nobody}, asked : Seq(Entries), at : Nat \ {0},
         allowed : SUBSET Meetings, proxy : Persons \cup {Nobody, Stranger},
         copy : Documents, others : SUBSET Meetings]]
    /\ \A c \in Writers : writer[c].pc # "idle" => writer[c].m \in Persons
    /\ \A c \in Writers : writer[c].pc \in {"store", "check"} => writer[c].at \in DOMAIN writer[c].asked
    /\ answered \in [Meetings -> [Persons -> Nat]]
    /\ raced \subseteq Meetings \X Persons
    /\ asks \in Nat

AtInit ==
    /\ open = Meetings
    /\ att = [e \in Meetings |-> [m \in Persons |-> NoAnswer]]
    /\ writer = [c \in Writers |-> Resting]
    /\ answered = [e \in Meetings |-> [m \in Persons |-> 0]]
    /\ raced = {} /\ asks = 0

IsAtStep(c, pc) == writer[c].pc = pc
Entry(c) == writer[c].asked[writer[c].at]
Begins(c) == IsAtStep(c, "idle") /\ asks < MaxAnswered /\ asks' = asks + 1
             /\ UNCHANGED <<open, att, answered, raced>>
-----------------------------------------------------------------------------
Called(c, kind, m, asked, proxy) ==
    writer' = [writer EXCEPT ![c] = [Resting EXCEPT
        !.pc = "look", !.kind = kind, !.m = m, !.asked = asked, !.proxy = proxy,
        !.allowed = IF kind = "app" THEN open ELSE {}]]

(* A button of a message, however old: neither the event's status nor its time *)
(* is looked at. An answer understood from a text ends in such a button, and   *)
(* the answers of a decided poll are carried over in this way.                 *)
TapAnswer(c) == \E m \in Persons, e \in Meetings, s \in Buttons :
    Begins(c) /\ Called(c, "tap", m, <<[e |-> e, status |-> s]>>, Nobody)

(* the buttons of the question that follows an answer *)
TapFollowUp(c) == \E m \in Persons, e \in Meetings, kind \in {"late", "reason"} :
    Begins(c) /\ Called(c, kind, m, <<[e |-> e, status |-> "none"]>>, Nobody)

(* the answers of a page: each event at most once, in any order *)
Pages == {<<x>> : x \in [e : Meetings, status : Buttons]}
         \cup {s \in [1..2 -> [e : Meetings, status : Buttons]] : s[1].e # s[2].e}

AnswerPage(c) == \E m \in Persons, page \in Pages :
    Begins(c) /\ Called(c, "app", m, page, Nobody)

UpdateAttendance(c) ==
    \E m \in Persons, e \in Meetings, s \in Buttons \cup {"none"},
       proxy \in Persons \cup {Nobody, Stranger} :
        Begins(c) /\ Called(c, "office", m, <<[e |-> e, status |-> s]>>, proxy)
-----------------------------------------------------------------------------
Kept == UNCHANGED <<open, att, answered, raced, asks>>

Returns(c) == writer' = [writer EXCEPT ![c] = Resting]

(* the next answer of the page; after the last one the app shows them all *)
TurnedOver(w) ==
    IF w.at < Len(w.asked) THEN [w EXCEPT !.at = w.at + 1, !.pc = "look", !.copy = NoAnswer]
    ELSE [w EXCEPT !.pc = "answer", !.copy = NoAnswer]

Current(c) == att[Entry(c).e][writer[c].m]

(* 403 and 400, in the middle of the page: what was saved before stays *)
RefusePage(c) ==
    /\ IsAtStep(c, "look") /\ writer[c].kind = "app"
    /\ Entry(c).e \notin writer[c].allowed \/ Entry(c).status \notin Answers
    /\ Returns(c) /\ Kept

Accepted(c) == writer[c].kind = "app" =>
    Entry(c).e \in writer[c].allowed /\ Entry(c).status \in Answers

(* the app only records what changed *)
IsUnchanged(c) == writer[c].kind = "app" /\ Current(c).known /\ Current(c).status = Entry(c).status

SkipUnchanged(c) ==
    /\ IsAtStep(c, "look") /\ Accepted(c) /\ IsUnchanged(c)
    /\ writer' = [writer EXCEPT ![c] = TurnedOver(@)] /\ Kept

(* a follow-up to an answer that is not there *)
NothingToAdd(c) ==
    /\ IsAtStep(c, "look") /\ writer[c].kind \in {"late", "reason"} /\ ~Current(c).known
    /\ Returns(c) /\ Kept

Look(c) ==
    /\ IsAtStep(c, "look") /\ Accepted(c) /\ ~IsUnchanged(c)
    /\ writer[c].kind \in {"late", "reason"} => Current(c).known
    /\ writer' = [writer EXCEPT ![c].pc = "store", ![c].copy = Current(c)]
    /\ Kept
-----------------------------------------------------------------------------
(* calls that see the document change under them *)
SeenBy(c, e, m) == [d \in Writers |->
    IF d # c /\ writer[d].m = m THEN [writer[d] EXCEPT !.others = @ \cup {e}] ELSE writer[d]]

(* upsert_attendance: the copy is saved whole *)
Save(c, d) ==
    LET e == Entry(c).e
        m == writer[c].m
    IN  /\ att' = [att EXCEPT ![e][m] = d]
        /\ raced' = IF att[e][m] # writer[c].copy THEN raced \cup {<<e, m>>} ELSE raced

(* mutant: the history of an answer that came before is lost *)
RecordedAnew(d, s) == [NoAnswer EXCEPT !.known = TRUE, !.status = s, !.history = <<s>>]

(* record_attendance: proxy, late and reason of an earlier answer stay *)
Recorded(d, s) == [d EXCEPT !.known = TRUE, !.status = s, !.history = Append(@, s)]

RecordAttendance(c) ==
    LET e == Entry(c).e
        m == writer[c].m
        d == Recorded(writer[c].copy, Entry(c).status)
        seen == SeenBy(c, e, m)
    IN  /\ IsAtStep(c, "store") /\ writer[c].kind \in {"tap", "app", "office"}
        /\ Save(c, d)
        /\ answered' = [answered EXCEPT ![e][m] = @ + 1]
        /\ writer' = [seen EXCEPT ![c] =
             IF writer[c].kind = "office" /\ writer[c].proxy # Nobody
             THEN [writer[c] EXCEPT !.pc = "check", !.copy = d] ELSE TurnedOver(writer[c])]
        /\ UNCHANGED <<open, asks>>

(* set_late_leave, add_absence_reason: whatever the answer is by now *)
FollowUp(c) ==
    LET d == writer[c].copy
    IN  /\ IsAtStep(c, "store") /\ writer[c].kind \in {"late", "reason"}
        /\ Save(c, IF writer[c].kind = "late" THEN [d EXCEPT !.late = TRUE]
                   ELSE [d EXCEPT !.reason = TRUE])
        /\ writer' = [SeenBy(c, Entry(c).e, writer[c].m) EXCEPT ![c] = Resting]
        /\ UNCHANGED <<open, answered, asks>>

(* the proxy is looked at only now, with the answer saved *)
IsProxy(c) == writer[c].proxy \in Persons /\ Entry(c).status = "proxy"

RefuseProxy(c) == IsAtStep(c, "check") /\ ~IsProxy(c) /\ Returns(c) /\ Kept

(* the second save of the copy, over any answer that came meanwhile *)
SetProxy(c) ==
    /\ IsAtStep(c, "check") /\ IsProxy(c)
    /\ Save(c, [writer[c].copy EXCEPT !.proxy = writer[c].proxy])
    /\ writer' = [SeenBy(c, Entry(c).e, writer[c].m) EXCEPT ![c] = Resting]
    /\ UNCHANGED <<open, answered, asks>>

Answer(c) == IsAtStep(c, "answer") /\ Returns(c) /\ Kept

(* an event is closed, cancelled or over *)
ShutMeeting == \E e \in open :
    /\ open' = open \ {e}
    /\ UNCHANGED <<att, writer, answered, raced, asks>>
-----------------------------------------------------------------------------
AtNext ==
    \/ ShutMeeting
    \/ \E c \in Writers :
         \/ TapAnswer(c) \/ TapFollowUp(c) \/ AnswerPage(c) \/ UpdateAttendance(c)
         \/ RefusePage(c) \/ SkipUnchanged(c) \/ NothingToAdd(c) \/ Look(c)
         \/ RecordAttendance(c) \/ FollowUp(c) \/ RefuseProxy(c) \/ SetProxy(c) \/ Answer(c)

AtSpec == AtInit /\ [][AtNext]_attvars
-----------------------------------------------------------------------------
(* The status is the last answer of the history, whichever copies are saved     *)
(* over each other (attendance.py:34-43, :52, :62, admin_api.py:333).           *)
StatusIsTheLastAnswer == \A e \in Meetings, m \in Persons :
    LET d == att[e][m] IN
    IF d.known THEN d.history # <<>> /\ d.status = d.history[Len(d.history)]
    ELSE d = NoAnswer

(* A proxy is a member, and the member it votes for has answered so once; a     *)
(* request that is refused for its proxy sets none (admin_api.py:325-334).      *)
ProxyWasDelegated == \A e \in Meetings, m \in Persons :
    LET d == att[e][m] IN
    d.proxy # Nobody => \E i \in DOMAIN d.history : d.history[i] = "proxy"

(* Every answer saved is in the history, unless a copy that was read before it  *)
(* was saved over it (attendance.py:31-43, admin_api.py:334).                   *)
NoAnswerIsLost == \A e \in Meetings, m \in Persons :
    Len(att[e][m].history) < answered[e][m] => <<e, m>> \in raced

(* When the LINE app is told its answers were saved, they are, but for events   *)
(* the member answered to in another way meanwhile (liff_api.py:134-152).       *)
AcceptedIsSaved == \A c \in Writers :
    IsAtStep(c, "answer") => \A i \in DOMAIN writer[c].asked :
        LET x == writer[c].asked[i] IN
        att[x.e][writer[c].m].status = x.status \/ x.e \in writer[c].others

(* What is kept of the answers is what the members answered, by whichever    *)
(* way they did, but for the overlaps each part names.                       *)
AnswersAreTrue == StatusIsTheLastAnswer /\ ProxyWasDelegated /\ NoAnswerIsLost /\ AcceptedIsSaved
=============================================================================
