-------------------------------- MODULE Polls --------------------------------
(* A schedule poll (app/schedule_poll.py, app/polls_api.py): members answer    *)
(* for each candidate date, the executive announces, reminds, closes and       *)
(* decides on a screen, or has the hourly tick do it by a scheduled post       *)
(* (line_link.send_due_posts).  Deciding creates the event and carries the     *)
(* answers over to its attendances.                                            *)
(*                                                                             *)
(* Every operation works on a copy of the poll document read at its beginning  *)
(* and saves the whole copy after LINE, or the calendar, has answered; the     *)
(* tick does the same with the documents of the posts.                         *)
EXTENDS Naturals, Sequences

CONSTANTS
    Members, NoMember,
    Users,         \* LINE accounts, with one call each to save an answer
    LinkedTo,      \* LinkedTo[u]: the member u is linked to, or NoMember
    Candidates, NoCandidate,
    Sheets,        \* filled-in answer sheets: a mark for every candidate
    Posts, NoPost, \* scheduled posts
    Screens,       \* calls from the management screen and the LINE app
    Ticks,         \* scheduler requests
    Overlap,       \* whether operations on the poll may overlap each other
    MaxCalls,      \* bound: calls from screens
    MaxAnswers,    \* bound: answers to the poll, and to the event
    MaxErrors      \* bound: pushes that fail, and calls that die

Marks == {"ok", "maybe", "ng"}
Operations == {"announce", "announce_once", "remind", "close", "decide"}

ASSUME NamesAssumption ==
    NoMember \notin Members /\ NoCandidate \notin Candidates /\ NoPost \notin Posts
ASSUME SheetsAssumption ==
    Sheets \subseteq [Candidates -> Marks] /\ LinkedTo \in [Users -> Members \cup {NoMember}]
ASSUME CallsAssumption ==
    Screens \cap Users = {} /\ Screens \cap Ticks = {} /\ Users \cap Ticks = {}
ASSUME BoundsAssumption ==
    Overlap \in BOOLEAN /\ MaxCalls \in Nat /\ MaxAnswers \in Nat /\ MaxErrors \in Nat

VARIABLES
    poll,       \* the poll document
    response,   \* response[u]: the answer document of account u
    events,     \* the events created for the poll: their candidate dates
    attendance, \* attendance[k][m]: the attendance document of event k
    post,       \* post[k]: the document of scheduled post k
    killed,     \* settings: kill_switch
    call,       \* call[p]: where call p has come, with its copies
    decided,    \* history: the poll was saved as decided
    late,       \* history: accounts that answered since the last carrying over
    carried,    \* history: the events whose carrying over went to its end
    sent,       \* history: sent[k]: times post k was carried out
    lost,       \* history: lost[k]: those whose tick died before saving the post
    calls, answers, errors

documents == <<poll, response, events, attendance, post, killed>>
history == <<decided, late, carried, sent, lost>>
boundVars == <<calls, answers, errors>>
vars == <<documents, call, history, boundVars>>

Calls == Screens \cup Users \cup Ticks
Statuses == {"unanswered", "present", "absent"}
PollDocs == [status : {"open", "closed", "decided"}, announced : BOOLEAN,
             candidate : Candidates \cup {NoCandidate}, event : Nat]
PostDocs == [status : {"none", "pending", "sent", "failed", "cancelled"},
             op : Operations, candidate : Candidates \cup {NoCandidate}]
NoResponse == [member |-> NoMember, sheet |-> <<>>]
Responses == {NoResponse} \cup [member : Members \cup {NoMember}, sheet : Sheets]

NewPoll == [status |-> "open", announced |-> FALSE, candidate |-> NoCandidate, event |-> 0]
NewPost == [status |-> "none", op |-> "announce", candidate |-> NoCandidate]
NoCall == [pc |-> "idle", op |-> "announce", candidate |-> NoCandidate, copy |-> NewPoll,
           event |-> 0, todo |-> {}, row |-> <<>>, post |-> NoPost, due |-> {},
           result |-> "sent", answer |-> NoResponse]

Steps == {"idle", "push", "save", "event", "list", "carry", "write", "finish",
          "cancel", "switch", "posts", "post", "taken", "answer"}

TypeOK ==
    /\ poll \in PollDocs
    /\ response \in [Users -> Responses]
    /\ events \in Seq(Candidates)
    /\ \A k \in DOMAIN events : attendance[k] \in [Members -> Statuses \cup {"none"}]
    /\ DOMAIN attendance = DOMAIN events
    /\ post \in [Posts -> PostDocs]
    /\ killed \in BOOLEAN
    /\ \A p \in Calls :
         /\ call[p].pc \in Steps /\ call[p].op \in Operations
         /\ call[p].copy \in PollDocs /\ call[p].event \in 0..Len(events)
         /\ call[p].todo \subseteq Members \X Statuses
         /\ call[p].post \in Posts \cup {NoPost} /\ call[p].due \subseteq Posts
         /\ call[p].answer \in Responses
         /\ call[p].pc = "write" => call[p].row \in Members \X Statuses
    /\ carried \subseteq DOMAIN events
    /\ sent \in [Posts -> Nat] /\ lost \in [Posts -> Nat]

Init ==
    /\ poll = NewPoll
    /\ response = [u \in Users |-> NoResponse]
    /\ events = <<>> /\ attendance = <<>>
    /\ post = [k \in Posts |-> NewPost]
    /\ killed = FALSE
    /\ call = [p \in Calls |-> NoCall]
    /\ decided = FALSE /\ late = {} /\ carried = {}
    /\ sent = [k \in Posts |-> 0] /\ lost = [k \in Posts |-> 0]
    /\ calls = 0 /\ answers = 0 /\ errors = 0
-----------------------------------------------------------------------------
At(p, pc) == call[p].pc = pc
Goto(p, pc) == call' = [call EXCEPT ![p].pc = pc]
Return(p) == call' = [call EXCEPT ![p] = NoCall]

(* an operation ends: a screen gets its answer, the tick saves the post *)
End(p, result) ==
    IF call[p].post = NoPost THEN Return(p)
    ELSE call' = [call EXCEPT ![p].pc = "post", ![p].result = result]

CountSent(p, f) == IF call[p].post = NoPost THEN f ELSE [f EXCEPT ![call[p].post] = @ + 1]

Fail == errors < MaxErrors /\ errors' = errors + 1 /\ UNCHANGED <<calls, answers>>
Begin == calls < MaxCalls /\ calls' = calls + 1 /\ UNCHANGED <<answers, errors>>

(* Overlap = FALSE: nobody else is at an operation on the poll *)
OnPoll(p) == call[p].pc \in {"push", "save", "event", "list", "carry", "write", "finish"}
Alone == Overlap \/ \A p \in Calls : ~OnPoll(p)
-----------------------------------------------------------------------------
(* announce, remind, close, decide *)

pending == {m \in Members : \A u \in Users : response[u].member # m}

(* mutant: a decided poll can be decided again *)
AllowedAlways(op) ==
    CASE op = "decide" -> TRUE
      [] op = "remind" -> poll.status = "open" /\ pending # {}
      [] op = "announce_once" -> poll.status = "open" /\ ~poll.announced
      [] OTHER -> poll.status = "open"

(* the check each operation makes of the poll it has read *)
Allowed(op) ==
    CASE op = "decide" -> poll.status # "decided"
      [] op = "remind" -> poll.status = "open" /\ pending # {}
      [] op = "announce_once" -> poll.status = "open" /\ ~poll.announced
      [] OTHER -> poll.status = "open"

FirstStep(op) ==
    CASE op = "decide" -> "event" [] op = "close" -> "save" [] OTHER -> "push"

Operate(p, op, c) ==
    /\ At(p, "idle") /\ Alone /\ Begin
    /\ Allowed(op)
    /\ op = "decide" <=> c \in Candidates
    /\ call' = [call EXCEPT ![p] = [NoCall EXCEPT !.pc = FirstStep(op), !.op = op,
                                                  !.candidate = c, !.copy = poll]]
    /\ UNCHANGED <<documents, history>>

(* the group, or at least one member, gets the message *)
Push(p) ==
    /\ At(p, "push")
    /\ sent' = CountSent(p, sent)
    /\ Goto(p, "save")
    /\ UNCHANGED <<documents, decided, late, carried, lost, boundVars>>

(* LINE refuses, or takes the message and its answer is lost, or Firestore     *)
(* raises: what was to come is left out, and a post has failed                 *)
OperationFails(p) ==
    /\ OnPoll(p)
    /\ sent' \in {sent, IF At(p, "push") THEN CountSent(p, sent) ELSE sent}
    /\ End(p, "failed")
    /\ Fail
    /\ UNCHANGED <<documents, decided, late, carried, lost>>

(* the event is there, open and without attendances, before the poll says so *)
CreateEvent(p) ==
    /\ At(p, "event")
    /\ events' = Append(events, call[p].candidate)
    /\ attendance' = Append(attendance, [m \in Members |-> "none"])
    /\ call' = [call EXCEPT ![p].pc = "save", ![p].event = Len(events) + 1]
    /\ sent' = CountSent(p, sent)
    /\ UNCHANGED <<poll, response, post, killed, decided, late, carried, lost, boundVars>>

(* mutant: the candidate is saved, the event is not *)
UpdatedWithoutEvent(p) ==
    LET c == call[p] IN
    CASE c.op = "decide" ->
           [c.copy EXCEPT !.status = "decided", !.candidate = c.candidate]
      [] c.op = "close" -> [c.copy EXCEPT !.status = "closed"]
      [] c.op = "remind" -> c.copy
      [] OTHER -> [c.copy EXCEPT !.announced = TRUE]

(* the copy with the fields of the operation changed *)
Updated(p) ==
    LET c == call[p] IN
    CASE c.op = "decide" ->
           [c.copy EXCEPT !.status = "decided", !.candidate = c.candidate, !.event = c.event]
      [] c.op = "close" -> [c.copy EXCEPT !.status = "closed"]
      [] c.op = "remind" -> c.copy
      [] OTHER -> [c.copy EXCEPT !.announced = TRUE]

SavePoll(p) ==
    /\ At(p, "save")
    /\ poll' = Updated(p)
    /\ Goto(p, IF call[p].op = "decide" THEN "list" ELSE "finish")
    /\ decided' = (decided \/ call[p].op = "decide")
    /\ UNCHANGED <<response, events, attendance, post, killed, late, carried, sent, lost,
                   boundVars>>
-----------------------------------------------------------------------------
(* carry_answers, and the message at the end of decide *)

POLL_TO_ATTENDANCE(mark) ==
    CASE mark = "ok" -> "present" [] mark = "ng" -> "absent" [] OTHER -> "unanswered"

(* mutant: the marks are carried over as they are *)
MarksFor(c) ==
    {<<response[u].member, response[u].sheet[c]>> :
        u \in {v \in Users : response[v].member # NoMember}}

(* every answer that names a member, linked or chosen by himself *)
AnswersFor(c) ==
    {<<response[u].member, POLL_TO_ATTENDANCE(response[u].sheet[c])>> :
        u \in {v \in Users : response[v].member # NoMember}}

ListResponses(p) ==
    /\ At(p, "list")
    /\ call' = [call EXCEPT ![p].pc = "carry", ![p].todo = AnswersFor(call[p].candidate)]
    /\ late' = {}
    /\ UNCHANGED <<documents, decided, carried, sent, lost, boundVars>>

(* whoever has an attendance already keeps it *)
SkipAnswered(p) == \E r \in call[p].todo :
    /\ At(p, "carry")
    /\ attendance[call[p].event][r[1]] # "none"
    /\ call' = [call EXCEPT ![p].todo = @ \ {r}]
    /\ UNCHANGED <<documents, history, boundVars>>

(* none is there yet *)
PickAnswer(p) == \E r \in call[p].todo :
    /\ At(p, "carry")
    /\ attendance[call[p].event][r[1]] = "none"
    /\ call' = [call EXCEPT ![p].pc = "write", ![p].todo = @ \ {r}, ![p].row = r]
    /\ UNCHANGED <<documents, history, boundVars>>

WriteAttendance(p) ==
    /\ At(p, "write")
    /\ attendance' = [attendance EXCEPT ![call[p].event][call[p].row[1]] = call[p].row[2]]
    /\ Goto(p, "carry")
    /\ UNCHANGED <<poll, response, events, post, killed, history, boundVars>>

EndCarrying(p) ==
    /\ At(p, "carry") /\ call[p].todo = {}
    /\ carried' = carried \cup {call[p].event}
    /\ Goto(p, "finish")
    /\ UNCHANGED <<documents, decided, late, sent, lost, boundVars>>

(* the audit log is written, and the message of the decision sent if asked for *)
Finish(p) ==
    /\ At(p, "finish")
    /\ End(p, "sent")
    /\ UNCHANGED <<documents, history, boundVars>>
-----------------------------------------------------------------------------
(* save_response *)

Answer == answers < MaxAnswers /\ answers' = answers + 1 /\ UNCHANGED <<calls, errors>>

(* a linked account answers for its member, another for one it chooses or none *)
PutResponse(u, m, sheet) ==
    /\ At(u, "idle") /\ Answer
    /\ poll.status = "open"
    /\ LinkedTo[u] # NoMember => m = LinkedTo[u]
    /\ call' = [call EXCEPT ![u] =
         [NoCall EXCEPT !.pc = IF m \in Members /\ LinkedTo[u] = NoMember THEN "taken" ELSE "answer",
                        !.answer = [member |-> m, sheet |-> sheet]]]
    /\ UNCHANGED <<documents, history>>

CheckTaken(u) ==
    /\ At(u, "taken")
    /\ IF \E v \in Users \ {u} : response[v].member = call[u].answer.member
       THEN Return(u) ELSE Goto(u, "answer")
    /\ UNCHANGED <<documents, history, boundVars>>

SaveResponse(u) ==
    /\ At(u, "answer")
    /\ response' = [response EXCEPT ![u] = call[u].answer]
    /\ late' = late \cup {u}
    /\ Return(u)
    /\ UNCHANGED <<poll, events, attendance, post, killed, decided, carried, sent, lost, boundVars>>

(* a member answers to the event itself *)
Attend(k, m) ==
    /\ \E status \in {"present", "absent"} :
         attendance' = [attendance EXCEPT ![k][m] = status]
    /\ Answer
    /\ UNCHANGED <<poll, response, events, post, killed, call, history>>
-----------------------------------------------------------------------------
(* scheduled posts *)

create_scheduled_post(k, op, c) ==
    /\ post[k].status = "none"
    /\ op \in {"announce", "remind", "decide"} /\ (op = "decide" <=> c \in Candidates)
    /\ post' = [post EXCEPT ![k] = [status |-> "pending", op |-> op, candidate |-> c]]
    /\ Begin
    /\ UNCHANGED <<poll, response, events, attendance, killed, call, history>>

cancel_scheduled_post(p, k) ==
    /\ At(p, "idle") /\ Begin
    /\ post[k].status = "pending"
    /\ call' = [call EXCEPT ![p] = [NoCall EXCEPT !.pc = "cancel", !.post = k]]
    /\ UNCHANGED <<documents, history>>

SaveCancellation(p) ==
    /\ At(p, "cancel")
    /\ post' = [post EXCEPT ![call[p].post].status = "cancelled"]
    /\ Return(p)
    /\ UNCHANGED <<poll, response, events, attendance, killed, history, boundVars>>

(* mutant: what failed is tried again *)
ListUnsent(p) ==
    LET due == {k \in Posts : post[k].status \in {"pending", "failed"}} IN
    /\ At(p, "idle") /\ due # {}
    /\ call' = [call EXCEPT ![p] = [NoCall EXCEPT !.pc = "switch", !.due = due]]
    /\ UNCHANGED <<documents, history, boundVars>>

(* the posts whose time has come, in one query *)
ListDue(p) ==
    LET due == {k \in Posts : post[k].status = "pending"} IN
    /\ At(p, "idle") /\ due # {}
    /\ call' = [call EXCEPT ![p] = [NoCall EXCEPT !.pc = "switch", !.due = due]]
    /\ UNCHANGED <<documents, history, boundVars>>

ReadSwitch(p) ==
    /\ At(p, "switch")
    /\ IF killed THEN Return(p) ELSE Goto(p, "posts")
    /\ UNCHANGED <<documents, history, boundVars>>

(* the poll is read again for every post, and its operation begun or refused *)
TakePost(p) == \E k \in call[p].due :
    /\ At(p, "posts") /\ Alone
    /\ call' = [call EXCEPT ![p] =
         [call[p] EXCEPT
            !.due = call[p].due \ {k}, !.post = k, !.result = "failed",
            !.op = post[k].op, !.candidate = post[k].candidate, !.copy = poll,
            !.pc = IF Allowed(post[k].op) THEN FirstStep(post[k].op) ELSE "post"]]
    /\ UNCHANGED <<documents, history, boundVars>>

SavePost(p) ==
    /\ At(p, "post")
    /\ post' = [post EXCEPT ![call[p].post].status = call[p].result]
    /\ call' = [call EXCEPT ![p].pc = "posts", ![p].post = NoPost]
    /\ UNCHANGED <<poll, response, events, attendance, killed, history, boundVars>>

EndTick(p) ==
    /\ At(p, "posts") /\ call[p].due = {}
    /\ Return(p)
    /\ UNCHANGED <<documents, history, boundVars>>

PutSettings ==
    /\ killed' = ~killed
    /\ Begin
    /\ UNCHANGED <<poll, response, events, attendance, post, call, history>>

(* the instance dies *)
Die(p) ==
    /\ ~At(p, "idle")
    /\ lost' = IF p \in Ticks THEN CountSent(p, lost) ELSE lost
    /\ Return(p)
    /\ Fail
    /\ UNCHANGED <<documents, decided, late, carried, sent>>
-----------------------------------------------------------------------------
Proceed(p) ==
    \/ Push(p) \/ OperationFails(p) \/ CreateEvent(p) \/ SavePoll(p)
    \/ ListResponses(p) \/ SkipAnswered(p) \/ PickAnswer(p) \/ WriteAttendance(p)
    \/ EndCarrying(p) \/ Finish(p) \/ SaveCancellation(p)
    \/ CheckTaken(p) \/ SaveResponse(p)
    \/ ReadSwitch(p) \/ TakePost(p) \/ SavePost(p) \/ EndTick(p)

Next ==
    \/ \E p \in Screens, op \in Operations, c \in Candidates \cup {NoCandidate} : Operate(p, op, c)
    \/ \E p \in Screens, k \in Posts : cancel_scheduled_post(p, k)
    \/ \E k \in Posts, op \in Operations, c \in Candidates \cup {NoCandidate} :
          create_scheduled_post(k, op, c)
    \/ \E p \in Ticks : ListDue(p)
    \/ \E u \in Users, m \in Members \cup {NoMember}, sheet \in Sheets : PutResponse(u, m, sheet)
    \/ \E k \in DOMAIN events, m \in Members : Attend(k, m)
    \/ PutSettings
    \/ \E p \in Calls : Proceed(p) \/ Die(p)

Spec == Init /\ [][Next]_vars
-----------------------------------------------------------------------------
(* A decision is final: nothing undoes it, and nothing is decided again.       *)
(* announce, remind and close save a copy of the poll read before their push   *)
(* (schedule_poll.py:423-453), so this needs operations that do not overlap.   *)
DecisionIsFinal == [][decided => poll' = poll]_vars

(* After the decision no answer is taken: whoever began before it may still    *)
(* save (schedule-poll-design.md:72, the check in save_response).              *)
AnswersEndWithDecision == [][\A u \in Users :
    decided /\ At(u, "idle") => At(u, "idle")']_vars

(* One decision makes one event; only a call that fails between the event and  *)
(* the poll leaves one that the poll does not know (schedule_poll.py:499-504). *)
OneEventButForErrors == Len(events) <= 1 + errors

(* The poll never points to an event that is not there or of another date.     *)
PollNamesItsEvent == poll.status = "decided" =>
    poll.event \in DOMAIN events /\ events[poll.event] = poll.candidate

(* Nobody who answered the poll is asked again: when an event's carrying over  *)
(* has come to its end, every answer that names a member and was there when    *)
(* the answers were listed has become an attendance.                           *)
AnswersAreCarried == \A k \in carried, u \in Users \ late :
    response[u].member # NoMember => attendance[k][response[u].member] # "none"

(* A post is carried out once, however it ends; only a tick that dies at it    *)
(* leaves it to the next one (line-link-design.md:28: no second try).          *)
PostIsSentOnce == \A k \in Posts : sent[k] <= 1 + lost[k]

(* The record of a post is right about what its waiting or being sent means,   *)
(* also beside cancellations.                                                  *)
PostRecordIsTrue == \A k \in Posts :
    /\ post[k].status = "sent" => sent[k] > 0
    /\ post[k].status = "pending" =>
         sent[k] <= lost[k] \/ \E p \in Ticks : call[p].post = k

(* A decision is carried out once and in full: one event, which the poll     *)
(* names, with the answers of the poll, but for what an error left (decide). *)
DecisionIsCarriedOut == OneEventButForErrors /\ PollNamesItsEvent /\ AnswersAreCarried

(* A post goes out once and its record says so, whatever is cancelled or     *)
(* dies meanwhile (run_scheduled_posts, cancel_post).                        *)
PostsAreTrue == PostIsSentOnce /\ PostRecordIsTrue

(* With the decision the poll is over, for the office and for those who      *)
(* answer (decide, save_response).                                           *)
DecisionIsTheEnd == DecisionIsFinal /\ AnswersEndWithDecision
=============================================================================
