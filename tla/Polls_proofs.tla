----------------------------- MODULE Polls_proofs -----------------------------
(* Proofs about the schedule polls, for any number of members, accounts, calls,  *)
(* posts and ticks.                                                              *)
EXTENDS Polls, SequenceTheorems, TLAPS

(* The locals of a call, and what they say at the step it has come to. *)
CallDocs ==
    [pc : Steps, op : Operations, candidate : Candidates \cup {NoCandidate}, copy : PollDocs,
     event : Nat, todo : SUBSET (Members \X Statuses), row : (Members \X Statuses) \cup {<<>>},
     post : Posts \cup {NoPost}, due : SUBSET Posts, result : {"sent", "failed"},
     answer : Responses]

Fits(c) ==
    /\ c.op = "decide" <=> c.candidate \in Candidates
    /\ c.pc \in {"event", "list", "carry", "write"} => c.op = "decide"
    /\ c.pc = "push" => c.op # "decide"
    /\ c.pc \in {"list", "carry", "write"} => c.event \in DOMAIN events
    /\ c.op = "decide" /\ c.pc = "save" =>
          c.event \in DOMAIN events /\ events[c.event] = c.candidate
    /\ c.event <= Len(events)
    /\ c.pc = "write" => c.row \in Members \X Statuses
    /\ c.pc = "idle" => c = NoCall
    /\ c.pc = "cancel" => c.post \in Posts

(* The documents are whole; a post is for one of three operations. *)
PollDocuments ==
    /\ poll \in PollDocs
    /\ response \in [Users -> Responses]
    /\ events \in Seq(Candidates)
    /\ attendance \in Seq([Members -> Statuses \cup {"none"}]) /\ Len(attendance) = Len(events)
    /\ post \in [Posts -> PostDocs]
    /\ \A k \in Posts : /\ post[k].op \in {"announce", "remind", "decide"}
                        /\ post[k].op = "decide" <=> post[k].candidate \in Candidates
    /\ killed \in BOOLEAN /\ decided \in BOOLEAN /\ late \subseteq Calls
    /\ carried \subseteq DOMAIN events
    /\ sent \in [Posts -> Nat] /\ lost \in [Posts -> Nat] /\ errors \in Nat

PollTypes ==
    /\ PollDocuments
    /\ call \in [Calls -> CallDocs]
    /\ \A p \in Calls : Fits(call[p])

(* The steps of an operation on the poll; a call about to save a decision. *)
AtPoll(c) == c.pc \in {"push", "save", "event", "list", "carry", "write", "finish"}
Decides(c) == c.pc = "save" /\ c.op = "decide"

(* An answer is among those a call has still to carry over. *)
Comes(c, m) == \/ \E r \in c.todo : r[1] = m
               \/ c.pc = "write" /\ c.row[1] = m

(* What the step a call has come to says of the poll: its copy is the poll,    *)
(* and whoever answered before the answers were listed is in the event, or     *)
(* still to come.                                                              *)
CallIsTrue(c) ==
    /\ c.pc \in {"push", "event", "save"} =>
          /\ c.copy = poll
          /\ IF c.op = "decide" THEN ~decided ELSE poll.status = "open"
    /\ c.pc \in {"list", "carry", "write"} => decided
    /\ c.pc = "list" => carried = {}
    /\ c.pc \in {"carry", "write"} =>
          \A u \in Users \ late : response[u].member # NoMember =>
              \/ attendance[c.event][response[u].member] # "none"
              \/ Comes(c, response[u].member)

(* One call at a time is at the poll; the history tells of it and of its events. *)
OneAtThePoll == \A p, q \in Calls : AtPoll(call[p]) /\ AtPoll(call[q]) => p = q
HistoryIsTrue ==
    /\ decided <=> poll.status = "decided"
    /\ ~decided /\ (\A p \in Calls : ~Decides(call[p])) => Len(events) <= errors
    /\ carried # {} => decided

DecisionInv ==
    /\ OneAtThePoll
    /\ \A p \in Calls : CallIsTrue(call[p])
    /\ HistoryIsTrue
    /\ DecisionIsCarriedOut

(* What the call of a tick says of the post it is at, and of those still to do. *)
TickIsTrue(c) ==
    /\ \A k \in c.due : post[k].status # "none" /\ sent[k] <= lost[k] /\ c.post # k
    /\ c.post # NoPost => post[c.post].status # "none"
    /\ c.pc \in {"idle", "switch", "posts", "taken", "answer"} => c.post = NoPost
    /\ AtPoll(c) \/ c.pc = "post" => c.post # NoPost
    /\ c.pc \in {"push", "event"} => sent[c.post] <= lost[c.post]
    /\ c.pc \in {"save", "list", "carry", "write", "finish"} => sent[c.post] > 0
    /\ c.pc = "post" /\ c.result = "sent" => sent[c.post] > 0

(* No other call is at a post, but to cancel it. *)
OtherIsTrue(c) ==
    /\ AtPoll(c) => c.post = NoPost
    /\ c.pc \notin {"switch", "posts", "post"}

TheirCallsAreTrue ==
    /\ \A p \in Ticks : TickIsTrue(call[p])
    /\ \A p \in Calls \ Ticks : OtherIsTrue(call[p])
PostsInv ==
    /\ TheirCallsAreTrue
    /\ \A k \in Posts : post[k].status = "none" => sent[k] = 0
    /\ PostsAreTrue
-----------------------------------------------------------------------------
(* Types.                                                                    *)
-----------------------------------------------------------------------------
LEMMA Words ==
    /\ {"idle", "push", "save", "event", "list", "carry", "write", "finish", "cancel", "switch",
        "posts", "post", "taken", "answer"} = Steps
    /\ {"announce", "announce_once", "remind", "close", "decide"} = Operations
    /\ Statuses = {"unanswered", "present", "absent"} /\ "none" \notin Statuses
BY DEF Steps, Operations, Statuses

LEMMA NewDocs ==
    /\ NewPoll \in PollDocs /\ NewPost \in PostDocs /\ NoResponse \in Responses
    /\ NoCall \in CallDocs
    /\ NewPoll.status = "open" /\ NewPost.op = "announce" /\ NewPost.candidate = NoCandidate
    /\ NewPost.status = "none" /\ NoResponse.member = NoMember
    /\ NoCall.pc = "idle" /\ NoCall.op = "announce" /\ NoCall.candidate = NoCandidate
    /\ NoCall.event = 0 /\ NoCall.post = NoPost /\ NoCall.due = {} /\ NoCall.todo = {}
<1>1. NewPoll \in PollDocs /\ NewPoll.status = "open"
  BY DEF NewPoll, PollDocs
<1>2. NewPost \in PostDocs /\ NewPost.op = "announce" /\ NewPost.candidate = NoCandidate
      /\ NewPost.status = "none"
  BY DEF NewPost, PostDocs, Operations
<1>3. NoResponse \in Responses /\ NoResponse.member = NoMember
  BY DEF NoResponse, Responses
<1>4. /\ NoCall.pc = "idle" /\ NoCall.op = "announce" /\ NoCall.candidate = NoCandidate
      /\ NoCall.event = 0 /\ NoCall.post = NoPost /\ NoCall.due = {} /\ NoCall.todo = {}
  BY DEF NoCall
<1>5. NoCall \in CallDocs
  BY <1>1, <1>3 DEF NoCall, CallDocs, Steps, Operations
<1> QED BY <1>1, <1>2, <1>3, <1>4, <1>5

LEMMA NoCallFits == ASSUME PollTypes PROVE Fits(NoCall)
<1>1. Len(events) \in Nat
  BY LenProperties DEF PollTypes, PollDocuments
<1> QED BY <1>1, NewDocs, NamesAssumption DEF Fits

LEMMA InitPollTypes == Init => PollTypes
<1> SUFFICES ASSUME Init PROVE PollTypes
  OBVIOUS
<1>1. events = <<>> /\ attendance = <<>> /\ Len(events) = 0 /\ Len(attendance) = 0
  BY DEF Init
<1>2. /\ events \in Seq(Candidates) /\ attendance \in Seq([Members -> Statuses \cup {"none"}])
  BY <1>1
<1>3. PollDocuments
  BY <1>1, <1>2, NewDocs, NamesAssumption DEF Init, PollDocuments
<1>4. call \in [Calls -> CallDocs] /\ \A p \in Calls : call[p] = NoCall
  BY NewDocs DEF Init
<1>5. Fits(NoCall)
  BY <1>1, NewDocs, NamesAssumption DEF Fits
<1> QED BY <1>3, <1>4, <1>5 DEF PollTypes

LEMMA TypesMean == PollTypes => TypeOK
<1> SUFFICES ASSUME PollTypes PROVE TypeOK
  OBVIOUS
<1>1. PollDocuments /\ call \in [Calls -> CallDocs] /\ \A p \in Calls : Fits(call[p])
  BY DEF PollTypes
<1>2. /\ DOMAIN events = 1 .. Len(events) /\ DOMAIN attendance = 1 .. Len(attendance)
      /\ Len(events) \in Nat
      /\ \A k \in DOMAIN attendance : attendance[k] \in [Members -> Statuses \cup {"none"}]
  BY <1>1, LenProperties DEF PollDocuments
<1>3. \A p \in Calls :
         /\ call[p].pc \in Steps /\ call[p].op \in Operations
         /\ call[p].copy \in PollDocs /\ call[p].event \in Nat
         /\ call[p].todo \subseteq Members \X Statuses
         /\ call[p].post \in Posts \cup {NoPost} /\ call[p].due \subseteq Posts
         /\ call[p].answer \in Responses
  BY <1>1 DEF CallDocs
<1>4. \A p \in Calls : call[p].event \in 0..Len(events)
                       /\ (call[p].pc = "write" => call[p].row \in Members \X Statuses)
  BY <1>1, <1>2, <1>3 DEF Fits
<1>5. /\ DOMAIN attendance = DOMAIN events
      /\ \A k \in DOMAIN events : attendance[k] \in [Members -> Statuses \cup {"none"}]
  BY <1>1, <1>2 DEF PollDocuments
<1> QED BY <1>1, <1>3, <1>4, <1>5 DEF PollDocuments, TypeOK

(* A call turns to new locals; the events may grow by one. *)
Turns(p, new) == new \in CallDocs /\ call' = [call EXCEPT ![p] = new]
EventsGrow == \/ UNCHANGED events
              \/ \E c \in Candidates : events' = Append(events, c)

LEMMA CallAfter ==
    ASSUME PollTypes, NEW p \in Calls, NEW new, Turns(p, new)
    PROVE  /\ call'[p] = new /\ \A q \in Calls : q # p => call'[q] = call[q]
           /\ call' \in [Calls -> CallDocs]
BY DEF PollTypes, Turns

LEMMA EventsAfter ==
    ASSUME PollTypes, EventsGrow
    PROVE  /\ events' \in Seq(Candidates) /\ Len(events') >= Len(events) /\ Len(events') \in Nat
           /\ Len(events) \in Nat /\ DOMAIN events = 1 .. Len(events)
           /\ DOMAIN events' = 1 .. Len(events')
           /\ \A k \in DOMAIN events : k \in DOMAIN events' /\ events'[k] = events[k]
<1>1. events \in Seq(Candidates)
  BY DEF PollTypes, PollDocuments
<1>2. Len(events) \in Nat /\ DOMAIN events = 1 .. Len(events)
  BY <1>1, LenProperties
<1>3. CASE UNCHANGED events
  BY <1>1, <1>2, <1>3
<1>4. CASE \E c \in Candidates : events' = Append(events, c)
  <2>1. PICK c \in Candidates : events' = Append(events, c)
    BY <1>4
  <2>2. /\ events' \in Seq(Candidates) /\ Len(events') = Len(events) + 1
        /\ \A i \in 1 .. Len(events) : events'[i] = events[i]
    BY <1>1, <2>1, AppendProperties
  <2>3. DOMAIN events' = 1 .. Len(events')
    BY <2>2, LenProperties
  <2> QED BY <1>2, <2>2, <2>3
<1> QED BY <1>3, <1>4 DEF EventsGrow

LEMMA FitsOn ==
    ASSUME PollTypes, EventsGrow, NEW c \in CallDocs, Fits(c)
    PROVE  Fits(c)'
<1>1. c.event \in Nat
  BY DEF CallDocs
<1> QED BY <1>1, EventsAfter DEF Fits

LEMMA TypesKept ==
    ASSUME PollTypes, EventsGrow, PollDocuments', NEW p \in Calls, NEW new, Turns(p, new), Fits(new)'
    PROVE  PollTypes'
<1>1. /\ call'[p] = new /\ \A q \in Calls : q # p => call'[q] = call[q]
      /\ call' \in [Calls -> CallDocs]
  BY CallAfter
<1>2. ASSUME NEW q \in Calls PROVE Fits(call[q])'
  <2>1. CASE q = p
    BY <1>1, <2>1 DEF Fits
  <2>2. CASE q # p
    <3>1. PICK c \in CallDocs : c = call[q] /\ Fits(c)
      BY DEF PollTypes
    <3>2. Fits(c)' /\ call'[q] = c
      BY <1>1, <2>2, <3>1, FitsOn
    <3> QED BY <3>2 DEF Fits
  <2> QED BY <2>1, <2>2
<1> QED BY <1>1, <1>2 DEF PollTypes

(* Nothing but the call changes. *)
LEMMA CallsAlone ==
    ASSUME PollTypes, UNCHANGED <<documents, decided, carried, sent>>, late' \subseteq Calls,
           lost' \in [Posts -> Nat], errors' \in Nat,
           NEW p \in Calls, NEW new, Turns(p, new), Fits(new)
    PROVE  PollTypes'
<1>1. PollDocuments' /\ EventsGrow
  BY DEF PollTypes, PollDocuments, documents, EventsGrow
<1>2. Fits(new)'
  BY <1>1, FitsOn DEF Turns
<1> QED BY <1>1, <1>2, TypesKept

LEMMA CallIs ==
    ASSUME PollTypes, NEW p \in Calls
    PROVE  /\ call[p] \in CallDocs /\ Fits(call[p])
           /\ call[p].pc \in Steps /\ call[p].op \in Operations
           /\ call[p].candidate \in Candidates \cup {NoCandidate}
           /\ call[p].copy \in PollDocs /\ call[p].event \in Nat
           /\ call[p].todo \subseteq Members \X Statuses
           /\ call[p].row \in (Members \X Statuses) \cup {<<>>}
           /\ call[p].post \in Posts \cup {NoPost} /\ call[p].due \subseteq Posts
           /\ call[p].result \in {"sent", "failed"}
           /\ call[p].answer \in Responses
<1>1. call[p] \in CallDocs /\ Fits(call[p])
  BY DEF PollTypes
<1> QED BY <1>1 DEF CallDocs

(* A call goes on to another step. *)
LEMMA GoesTo ==
    ASSUME PollTypes, NEW p \in Calls, NEW pc \in Steps, Goto(p, pc)
    PROVE  \E new : /\ Turns(p, new) /\ new.pc = pc
                    /\ new.op = call[p].op /\ new.candidate = call[p].candidate
                    /\ new.copy = call[p].copy /\ new.event = call[p].event
                    /\ new.todo = call[p].todo /\ new.row = call[p].row /\ new.post = call[p].post
                    /\ new.due = call[p].due /\ new.result = call[p].result
                    /\ new.answer = call[p].answer
<1> DEFINE new == [call[p] EXCEPT !.pc = pc]
<1>1. call[p] \in CallDocs
  BY CallIs
<1>2. new \in CallDocs
  BY <1>1 DEF CallDocs
<1>3. call' = [call EXCEPT ![p] = new]
  BY DEF Goto
<1>4. /\ new.pc = pc /\ new.op = call[p].op /\ new.candidate = call[p].candidate
      /\ new.copy = call[p].copy /\ new.event = call[p].event
      /\ new.todo = call[p].todo /\ new.row = call[p].row /\ new.post = call[p].post
      /\ new.due = call[p].due /\ new.result = call[p].result
      /\ new.answer = call[p].answer
  BY <1>1 DEF CallDocs
<1> HIDE DEF new
<1> QED BY <1>2, <1>3, <1>4 DEF Turns

LEMMA Returns ==
    ASSUME PollTypes, NEW p \in Calls, Return(p)
    PROVE  Turns(p, NoCall) /\ Fits(NoCall)
BY NewDocs, NoCallFits DEF Return, Turns

(* An operation ends: a screen is done, the tick is at the record of the post. *)
LEMMA Ends ==
    ASSUME PollTypes, NEW p \in Calls, NEW result \in {"sent", "failed"}, End(p, result)
    PROVE  \/ call[p].post = NoPost /\ Turns(p, NoCall)
           \/ /\ call[p].post # NoPost
              /\ \E new : /\ Turns(p, new) /\ new.pc = "post" /\ new.result = result
                          /\ new.op = call[p].op /\ new.candidate = call[p].candidate
                          /\ new.event = call[p].event
                          /\ new.post = call[p].post /\ new.due = call[p].due
<1>1. CASE call[p].post = NoPost
  BY <1>1, Returns DEF End
<1>2. CASE call[p].post # NoPost
  <2> DEFINE new == [call[p] EXCEPT !.pc = "post", !.result = result]
  <2>1. call[p] \in CallDocs /\ "post" \in Steps
    BY CallIs, Words
  <2>2. new \in CallDocs
    BY <2>1 DEF CallDocs
  <2>3. call' = [call EXCEPT ![p] = new]
    BY <1>2 DEF End
  <2>4. /\ new.pc = "post" /\ new.result = result
        /\ new.op = call[p].op /\ new.candidate = call[p].candidate /\ new.event = call[p].event
        /\ new.post = call[p].post /\ new.due = call[p].due
    BY <2>1 DEF CallDocs
  <2> HIDE DEF new
  <2> QED BY <1>2, <2>2, <2>3, <2>4 DEF Turns
<1> QED BY <1>1, <1>2

LEMMA EndsTyped ==
    ASSUME PollTypes, NEW p \in Calls, NEW result \in {"sent", "failed"}, End(p, result),
           UNCHANGED <<documents, decided, carried, lost>>, late' \subseteq Calls,
           sent' \in [Posts -> Nat], errors' \in Nat
    PROVE  PollTypes'
<1>1. PollDocuments' /\ EventsGrow
  BY DEF PollTypes, PollDocuments, documents, EventsGrow
<1>2. PICK new : Turns(p, new) /\ Fits(new)
  <2>1. CASE call[p].post = NoPost
    BY <2>1, Ends, NoCallFits
  <2>2. CASE call[p].post # NoPost
    <3>1. PICK new : /\ Turns(p, new) /\ new.pc = "post"
                     /\ new.op = call[p].op /\ new.candidate = call[p].candidate
                     /\ new.event = call[p].event
      BY <2>2, Ends
    <3>2. Fits(new)
      BY <3>1, CallIs DEF Fits
    <3> QED BY <3>1, <3>2
  <2> QED BY <2>1, <2>2
<1>3. Fits(new)'
  BY <1>1, <1>2, FitsOn DEF Turns
<1> QED BY <1>1, <1>2, <1>3, TypesKept

LEMMA CountsAreTyped ==
    ASSUME PollTypes, NEW p \in Calls, NEW f \in [Posts -> Nat]
    PROVE  CountSent(p, f) \in [Posts -> Nat]
<1>1. CASE call[p].post = NoPost
  BY <1>1 DEF CountSent
<1>2. CASE call[p].post # NoPost
  <2>1. call[p].post \in Posts
    BY <1>2, CallIs
  <2> QED BY <1>2, <2>1 DEF CountSent
<1> QED BY <1>1, <1>2

LEMMA FirstSteps ==
    ASSUME NEW op \in Operations
    PROVE  /\ FirstStep(op) \in {"event", "save", "push"} /\ FirstStep(op) \in Steps
           /\ FirstStep(op) = "event" <=> op = "decide"
           /\ FirstStep(op) = "save" <=> op = "close"
BY Words DEF FirstStep, Operations

(* Steps of the operations. *)
LEMMA OperateTurns ==
    ASSUME PollTypes, NEW p \in Calls, NEW op \in Operations,
           NEW c \in Candidates \cup {NoCandidate}, Operate(p, op, c)
    PROVE  \E new \in CallDocs :
              /\ Turns(p, new) /\ new.pc = FirstStep(op) /\ new.op = op /\ new.candidate = c
              /\ new.copy = poll /\ new.event = NoCall.event
              /\ new.post = NoCall.post /\ new.due = NoCall.due
<1> DEFINE new == [NoCall EXCEPT !.pc = FirstStep(op), !.op = op, !.candidate = c, !.copy = poll]
<1>1. poll \in PollDocs
  BY DEF PollTypes, PollDocuments
<1>2. FirstStep(op) \in Steps /\ NoCall \in CallDocs
  BY NewDocs, FirstSteps
<1>3. new \in CallDocs
  BY <1>1, <1>2 DEF CallDocs
<1>4. /\ new.pc = FirstStep(op) /\ new.op = op /\ new.candidate = c
      /\ new.copy = poll /\ new.event = NoCall.event
      /\ new.post = NoCall.post /\ new.due = NoCall.due
  BY <1>2 DEF CallDocs
<1>5. Turns(p, new)
  BY <1>3 DEF Turns, Operate
<1> HIDE DEF new
<1> QED BY <1>3, <1>4, <1>5

LEMMA OperateTyped ==
    ASSUME PollTypes, NEW p \in Calls, NEW op \in Operations,
           NEW c \in Candidates \cup {NoCandidate}, Operate(p, op, c)
    PROVE  PollTypes'
<1>1. PICK new \in CallDocs :
        /\ Turns(p, new) /\ new.pc = FirstStep(op) /\ new.op = op /\ new.candidate = c
        /\ new.event = NoCall.event
  BY OperateTurns
<1>2. op = "decide" <=> c \in Candidates
  BY DEF Operate
<1>3. Fits(new)
  <2>1. Len(events) \in Nat
    BY LenProperties DEF PollTypes, PollDocuments
  <2> QED BY <1>1, <1>2, <2>1, FirstSteps, NewDocs DEF Fits
<1>4. UNCHANGED <<documents, decided, carried, sent>> /\ UNCHANGED <<late, lost, errors>>
  BY DEF Operate, Begin, history
<1>5. late' \subseteq Calls /\ lost' \in [Posts -> Nat] /\ errors' \in Nat
  BY <1>4 DEF PollTypes, PollDocuments
<1> QED BY <1>1, <1>3, <1>4, <1>5, CallsAlone

LEMMA PushTyped == ASSUME PollTypes, NEW p \in Calls, Push(p) PROVE PollTypes'
<1>1. PICK new : /\ Turns(p, new) /\ new.pc = "save" /\ new.op = call[p].op
                 /\ new.candidate = call[p].candidate /\ new.event = call[p].event
  BY GoesTo, Words DEF Push
<1>2. sent' \in [Posts -> Nat]
  BY CountsAreTyped DEF Push, PollTypes, PollDocuments
<1>3. PollDocuments' /\ EventsGrow
  BY <1>2 DEF PollTypes, PollDocuments, documents, EventsGrow, Push, boundVars
<1>4. Fits(new)
  BY <1>1, CallIs DEF Fits, Push, At
<1> QED BY <1>1, <1>3, <1>4, FitsOn, TypesKept DEF Turns

LEMMA FailTyped == ASSUME PollTypes, NEW p \in Calls, OperationFails(p) PROVE PollTypes'
<1>1. sent' \in [Posts -> Nat] /\ errors' \in Nat
  BY CountsAreTyped DEF OperationFails, Fail, PollTypes, PollDocuments
<1> QED BY <1>1, EndsTyped DEF OperationFails, PollTypes, PollDocuments

LEMMA CreateTurns ==
    ASSUME PollTypes, NEW p \in Calls, CreateEvent(p)
    PROVE  \E new \in CallDocs :
              /\ Turns(p, new) /\ new.pc = "save" /\ new.op = call[p].op
              /\ new.candidate = call[p].candidate /\ new.event = Len(events) + 1
              /\ new.copy = call[p].copy /\ new.post = call[p].post /\ new.due = call[p].due
<1>1. call[p] \in CallDocs
  BY CallIs
<1>2. Len(events) \in Nat /\ Len(events) + 1 \in Nat
  BY LenProperties DEF PollTypes, PollDocuments
<1>3. PICK n \in Nat : n = Len(events) + 1
  BY <1>2
<1> DEFINE new == [call[p] EXCEPT !.pc = "save", !.event = n]
<1>4. new \in CallDocs
  BY <1>1, Words DEF CallDocs
<1>5. /\ new.pc = "save" /\ new.op = call[p].op
      /\ new.candidate = call[p].candidate /\ new.event = n
      /\ new.copy = call[p].copy /\ new.post = call[p].post /\ new.due = call[p].due
  BY <1>1 DEF CallDocs
<1>6. Turns(p, new)
  BY <1>3, <1>4 DEF Turns, CreateEvent
<1> HIDE DEF new
<1> QED BY <1>3, <1>4, <1>5, <1>6

LEMMA CreateTyped == ASSUME PollTypes, NEW p \in Calls, CreateEvent(p) PROVE PollTypes'
<1>1. /\ call[p] \in CallDocs /\ Fits(call[p]) /\ call[p].candidate \in Candidates
      /\ call[p].op = "decide"
  BY CallIs DEF CreateEvent, At, Fits
<1>2. Len(events) \in Nat /\ Len(events) + 1 \in Nat
  BY LenProperties DEF PollTypes, PollDocuments
<1>3. PICK n \in Nat : n = Len(events) + 1
  BY <1>2
<1>4. PICK new \in CallDocs : /\ Turns(p, new) /\ new.pc = "save" /\ new.op = call[p].op
                              /\ new.candidate = call[p].candidate /\ new.event = n
  BY <1>3, CreateTurns
<1>5. EventsGrow
  BY <1>1 DEF CreateEvent, EventsGrow
<1>6. events' \in Seq(Candidates) /\ Len(events') = n /\ events'[n] = call[p].candidate
  <2>1. events \in Seq(Candidates) /\ events' = Append(events, call[p].candidate)
    BY DEF CreateEvent, PollTypes, PollDocuments
  <2> QED BY <1>1, <1>3, <2>1, AppendProperties
<1>7. /\ attendance' \in Seq([Members -> Statuses \cup {"none"}])
      /\ Len(attendance') = Len(attendance) + 1
  <2>1. [m \in Members |-> "none"] \in [Members -> Statuses \cup {"none"}]
    OBVIOUS
  <2> QED BY <2>1, AppendProperties DEF CreateEvent, PollTypes, PollDocuments
<1>8. sent' \in [Posts -> Nat]
  BY CountsAreTyped DEF CreateEvent, PollTypes, PollDocuments
<1>9. /\ DOMAIN events \subseteq DOMAIN events' /\ DOMAIN events' = 1 .. Len(events')
      /\ Len(events') \in Nat
  BY <1>5, EventsAfter
<1>10. PollDocuments'
  BY <1>2, <1>3, <1>6, <1>7, <1>8, <1>9 DEF PollTypes, PollDocuments, CreateEvent, boundVars
<1>11. /\ new.event \in DOMAIN events' /\ new.event <= Len(events')
       /\ events'[new.event] = new.candidate
  BY <1>2, <1>3, <1>4, <1>6, <1>9
<1>12. new.pc = "save" /\ new.op = "decide" /\ new.candidate \in Candidates
  BY <1>1, <1>4
<1>13. Fits(new)'
  BY <1>11, <1>12 DEF Fits
<1> QED BY <1>4, <1>5, <1>10, <1>13, TypesKept

LEMMA SavePollTyped == ASSUME PollTypes, NEW p \in Calls, SavePoll(p) PROVE PollTypes'
<1>1. poll' \in PollDocs
  BY CallIs DEF SavePoll, Updated, PollDocs
<1>2. PollDocuments' /\ EventsGrow
  BY <1>1 DEF PollTypes, PollDocuments, EventsGrow, SavePoll, boundVars
<1>3. PICK pc \in {"list", "finish"} :
        /\ Goto(p, pc) /\ (pc = "list" <=> call[p].op = "decide")
  BY DEF SavePoll
<1>4. PICK new : /\ Turns(p, new) /\ new.pc = pc /\ new.op = call[p].op
                 /\ new.candidate = call[p].candidate /\ new.event = call[p].event
  BY <1>3, GoesTo, Words
<1>5. Fits(new)
  BY <1>3, <1>4, CallIs DEF Fits, SavePoll, At
<1> QED BY <1>2, <1>4, <1>5, FitsOn, TypesKept DEF Turns

LEMMA AnswersAreRows ==
    ASSUME PollTypes, NEW c
    PROVE  AnswersFor(c) \subseteq Members \X Statuses
<1> SUFFICES ASSUME NEW u \in Users, response[u].member # NoMember
             PROVE  <<response[u].member, POLL_TO_ATTENDANCE(response[u].sheet[c])>>
                       \in Members \X Statuses
  BY DEF AnswersFor
<1>1. response[u] \in Responses
  BY DEF PollTypes, PollDocuments
<1>2. response[u].member \in Members
  BY <1>1, NewDocs DEF Responses
<1>3. POLL_TO_ATTENDANCE(response[u].sheet[c]) \in Statuses
  BY Words DEF POLL_TO_ATTENDANCE
<1> QED BY <1>2, <1>3

(* A call that carries over goes on with other answers to do. *)
GoesOn(p, pc, todo, row) ==
    call' = [call EXCEPT ![p] = [call[p] EXCEPT !.pc = pc, !.todo = todo, !.row = row]]

LEMMA CarriesOn ==
    ASSUME PollTypes, NEW p \in Calls, NEW pc \in Steps,
           NEW todo \in SUBSET (Members \X Statuses),
           NEW row \in (Members \X Statuses) \cup {<<>>},
           GoesOn(p, pc, todo, row)
    PROVE  \E new \in CallDocs :
              /\ Turns(p, new) /\ new.pc = pc /\ new.todo = todo /\ new.row = row
              /\ new.op = call[p].op /\ new.candidate = call[p].candidate
              /\ new.copy = call[p].copy /\ new.event = call[p].event
              /\ new.post = call[p].post /\ new.due = call[p].due
<1> DEFINE new == [call[p] EXCEPT !.pc = pc, !.todo = todo, !.row = row]
<1>1. call[p] \in CallDocs
  BY CallIs
<1>2. new \in CallDocs
  BY <1>1 DEF CallDocs
<1>3. /\ new.pc = pc /\ new.todo = todo /\ new.row = row
      /\ new.op = call[p].op /\ new.candidate = call[p].candidate
      /\ new.copy = call[p].copy /\ new.event = call[p].event
      /\ new.post = call[p].post /\ new.due = call[p].due
  BY <1>1 DEF CallDocs
<1>4. call' = [call EXCEPT ![p] = new]
  BY DEF GoesOn
<1> HIDE DEF new
<1> QED BY <1>2, <1>3, <1>4 DEF Turns

(* The call without the row it has left. *)
LEMMA SameCall ==
    ASSUME PollTypes, NEW p \in Calls, NEW pc, NEW todo
    PROVE  [call[p] EXCEPT !.pc = pc, !.todo = todo]
             = [call[p] EXCEPT !.pc = pc, !.todo = todo, !.row = call[p].row]
BY CallIs DEF CallDocs

LEMMA ListTurns ==
    ASSUME PollTypes, NEW p \in Calls, ListResponses(p)
    PROVE  \E new \in CallDocs :
              /\ Turns(p, new) /\ new.pc = "carry" /\ new.todo = AnswersFor(call[p].candidate)
              /\ new.op = call[p].op /\ new.candidate = call[p].candidate
              /\ new.copy = call[p].copy /\ new.event = call[p].event
              /\ new.post = call[p].post /\ new.due = call[p].due
<1>1. PICK todo \in SUBSET (Members \X Statuses) : todo = AnswersFor(call[p].candidate)
  BY AnswersAreRows
<1>2. call' = [call EXCEPT ![p] = [call[p] EXCEPT !.pc = "carry", !.todo = todo]]
  BY <1>1 DEF ListResponses
<1>3. GoesOn(p, "carry", todo, call[p].row)
  BY <1>2, SameCall DEF GoesOn
<1>4. "carry" \in Steps /\ call[p].row \in (Members \X Statuses) \cup {<<>>}
  BY Words, CallIs
<1>5. PICK new \in CallDocs :
        /\ Turns(p, new) /\ new.pc = "carry" /\ new.todo = todo /\ new.row = call[p].row
        /\ new.op = call[p].op /\ new.candidate = call[p].candidate
        /\ new.copy = call[p].copy /\ new.event = call[p].event
        /\ new.post = call[p].post /\ new.due = call[p].due
  BY <1>3, <1>4, CarriesOn
<1> QED BY <1>1, <1>5

LEMMA SkipTurns ==
    ASSUME PollTypes, NEW p \in Calls, SkipAnswered(p)
    PROVE  \E r \in call[p].todo, new \in CallDocs :
              /\ attendance[call[p].event][r[1]] # "none"
              /\ Turns(p, new) /\ new.pc = "carry" /\ new.todo = call[p].todo \ {r}
              /\ new.op = call[p].op /\ new.candidate = call[p].candidate
              /\ new.copy = call[p].copy /\ new.event = call[p].event
              /\ new.post = call[p].post /\ new.due = call[p].due
<1>1. PICK r \in call[p].todo :
        /\ attendance[call[p].event][r[1]] # "none"
        /\ call' = [call EXCEPT ![p] = [call[p] EXCEPT !.todo = call[p].todo \ {r}]]
  BY DEF SkipAnswered
<1>2. PICK todo \in SUBSET (Members \X Statuses) : todo = call[p].todo \ {r}
  BY CallIs
<1>3. call[p].pc = "carry" /\ call[p] \in CallDocs
  BY CallIs DEF SkipAnswered, At
<1>4. [call[p] EXCEPT !.todo = todo] = [call[p] EXCEPT !.pc = "carry", !.todo = todo,
                                                       !.row = call[p].row]
  BY <1>3 DEF CallDocs
<1>5. GoesOn(p, "carry", todo, call[p].row)
  BY <1>1, <1>2, <1>4 DEF GoesOn
<1>6. "carry" \in Steps /\ call[p].row \in (Members \X Statuses) \cup {<<>>}
  BY Words, CallIs
<1>7. PICK new \in CallDocs :
        /\ Turns(p, new) /\ new.pc = "carry" /\ new.todo = todo /\ new.row = call[p].row
        /\ new.op = call[p].op /\ new.candidate = call[p].candidate
        /\ new.copy = call[p].copy /\ new.event = call[p].event
        /\ new.post = call[p].post /\ new.due = call[p].due
  BY <1>5, <1>6, CarriesOn
<1> QED BY <1>1, <1>2, <1>7

LEMMA PickTurns ==
    ASSUME PollTypes, NEW p \in Calls, PickAnswer(p)
    PROVE  \E r \in call[p].todo, new \in CallDocs :
              /\ r \in Members \X Statuses
              /\ Turns(p, new) /\ new.pc = "write" /\ new.todo = call[p].todo \ {r} /\ new.row = r
              /\ new.op = call[p].op /\ new.candidate = call[p].candidate
              /\ new.copy = call[p].copy /\ new.event = call[p].event
              /\ new.post = call[p].post /\ new.due = call[p].due
<1>1. PICK r \in call[p].todo :
        call' = [call EXCEPT ![p] = [call[p] EXCEPT !.pc = "write", !.todo = call[p].todo \ {r},
                                                    !.row = r]]
  BY DEF PickAnswer
<1>2. PICK todo \in SUBSET (Members \X Statuses) : todo = call[p].todo \ {r}
  BY CallIs
<1>3. "write" \in Steps /\ r \in Members \X Statuses
  BY Words, CallIs
<1>4. GoesOn(p, "write", todo, r)
  BY <1>1, <1>2 DEF GoesOn
<1>5. PICK new \in CallDocs :
        /\ Turns(p, new) /\ new.pc = "write" /\ new.todo = todo /\ new.row = r
        /\ new.op = call[p].op /\ new.candidate = call[p].candidate
        /\ new.copy = call[p].copy /\ new.event = call[p].event
        /\ new.post = call[p].post /\ new.due = call[p].due
  BY <1>3, <1>4, CarriesOn
<1> QED BY <1>1, <1>2, <1>3, <1>5

LEMMA CarryTyped ==
    ASSUME PollTypes, NEW p \in Calls, ListResponses(p) \/ SkipAnswered(p) \/ PickAnswer(p)
    PROVE  PollTypes'
<1>1. UNCHANGED <<documents, decided, carried, sent, lost, errors>> /\ late' \subseteq Calls
  BY DEF ListResponses, SkipAnswered, PickAnswer, history, boundVars, PollTypes, PollDocuments
<1>2. lost' \in [Posts -> Nat] /\ errors' \in Nat
  BY <1>1 DEF PollTypes, PollDocuments
<1>3. Fits(call[p]) /\ call[p].pc \in {"list", "carry"}
  BY CallIs DEF ListResponses, SkipAnswered, PickAnswer, At
<1>4. PICK new : /\ Turns(p, new) /\ new.pc \in {"carry", "write"}
                 /\ new.op = call[p].op /\ new.candidate = call[p].candidate
                 /\ new.event = call[p].event
                 /\ new.pc = "write" => new.row \in Members \X Statuses
  <2>1. CASE ListResponses(p)
    BY <2>1, ListTurns
  <2>2. CASE SkipAnswered(p)
    BY <2>2, SkipTurns
  <2>3. CASE PickAnswer(p)
    BY <2>3, PickTurns
  <2> QED BY <2>1, <2>2, <2>3
<1>5. Fits(new)
  BY <1>3, <1>4 DEF Fits
<1>6. UNCHANGED <<documents, decided, carried, sent>>
  BY <1>1
<1> QED BY <1>1, <1>2, <1>4, <1>5, <1>6, CallsAlone

(* Nothing of a call changes. *)
LEMMA TypesStay ==
    ASSUME PollTypes, UNCHANGED <<call, events>>, PollDocuments'
    PROVE  PollTypes'
BY DEF PollTypes, Fits

(* One entry of an attendance is set. *)
OnlyEntry(k, m, status) == \A j \in DOMAIN events, n \in Members :
    attendance'[j][n] = IF j = k /\ n = m THEN status ELSE attendance[j][n]

LEMMA AttendanceSet ==
    ASSUME PollTypes, NEW k \in DOMAIN events, NEW m, NEW status \in Statuses,
           attendance' = [attendance EXCEPT ![k][m] = status]
    PROVE  /\ attendance' \in Seq([Members -> Statuses \cup {"none"}])
           /\ Len(attendance') = Len(attendance)
           /\ OnlyEntry(k, m, status)
<1> DEFINE D == [Members -> Statuses \cup {"none"}]
           row == [attendance[k] EXCEPT ![m] = status]
<1>1. attendance \in Seq(D) /\ Len(attendance) = Len(events) /\ events \in Seq(Candidates)
  BY DEF PollTypes, PollDocuments
<1>2. /\ DOMAIN attendance = 1 .. Len(attendance) /\ DOMAIN events = 1 .. Len(events)
      /\ \A j \in DOMAIN attendance : attendance[j] \in D
  BY <1>1, LenProperties
<1>3. k \in 1 .. Len(attendance) /\ attendance[k] \in D
  BY <1>1, <1>2
<1>4. row \in D /\ \A n \in Members : row[n] = IF n = m THEN status ELSE attendance[k][n]
  BY <1>3
<1>5. attendance' = [attendance EXCEPT ![k] = row]
  OBVIOUS
<1> HIDE DEF row, D
<1>6. /\ attendance' \in Seq(D) /\ Len(attendance') = Len(attendance)
      /\ \A j \in 1 .. Len(attendance) : attendance'[j] = IF j = k THEN row ELSE attendance[j]
  BY <1>1, <1>3, <1>4, <1>5, ExceptSeq
<1>7. OnlyEntry(k, m, status)
  BY <1>1, <1>2, <1>4, <1>6 DEF OnlyEntry
<1> QED BY <1>6, <1>7 DEF D

LEMMA WriteTyped == ASSUME PollTypes, NEW p \in Calls, WriteAttendance(p) PROVE PollTypes'
<1>1. /\ call[p].event \in DOMAIN events /\ call[p].row \in Members \X Statuses
  BY CallIs DEF Fits, WriteAttendance, At
<1>2. PICK m \in Members, s \in Statuses : call[p].row = <<m, s>>
  BY <1>1
<1>3. attendance' = [attendance EXCEPT ![call[p].event][m] = s]
  BY <1>2 DEF WriteAttendance
<1>4. /\ attendance' \in Seq([Members -> Statuses \cup {"none"}])
      /\ Len(attendance') = Len(attendance)
  BY <1>1, <1>3, AttendanceSet
<1>5. PollDocuments' /\ EventsGrow
  BY <1>4 DEF PollTypes, PollDocuments, EventsGrow, WriteAttendance, history, boundVars
<1>6. PICK new : /\ Turns(p, new) /\ new.pc = "carry" /\ new.op = call[p].op
                 /\ new.candidate = call[p].candidate /\ new.event = call[p].event
  BY GoesTo, Words DEF WriteAttendance
<1>7. Fits(new)
  BY <1>6, CallIs DEF Fits, WriteAttendance, At
<1> QED BY <1>5, <1>6, <1>7, FitsOn, TypesKept DEF Turns

LEMMA EndCarryTyped == ASSUME PollTypes, NEW p \in Calls, EndCarrying(p) PROVE PollTypes'
<1>1. call[p].event \in DOMAIN events
  BY CallIs DEF Fits, EndCarrying, At
<1>2. PollDocuments' /\ EventsGrow
  BY <1>1 DEF PollTypes, PollDocuments, EventsGrow, EndCarrying, documents, boundVars
<1>3. PICK new : /\ Turns(p, new) /\ new.pc = "finish" /\ new.op = call[p].op
                 /\ new.candidate = call[p].candidate /\ new.event = call[p].event
  BY GoesTo, Words DEF EndCarrying
<1>4. Fits(new)
  BY <1>3, CallIs DEF Fits, EndCarrying, At
<1> QED BY <1>2, <1>3, <1>4, FitsOn, TypesKept DEF Turns

LEMMA FinishTyped == ASSUME PollTypes, NEW p \in Calls, Finish(p) PROVE PollTypes'
<1>1. UNCHANGED <<documents, decided, carried, lost>> /\ UNCHANGED <<late, sent, errors>>
  BY DEF Finish, history, boundVars
<1>2. late' \subseteq Calls /\ sent' \in [Posts -> Nat] /\ errors' \in Nat
  BY <1>1 DEF PollTypes, PollDocuments
<1>3. End(p, "sent") /\ UNCHANGED <<documents, decided, carried, lost>>
  BY <1>1 DEF Finish
<1> QED BY <1>2, <1>3, EndsTyped

(* Answers to the poll. *)
LEMMA PutTurns ==
    ASSUME PollTypes, NEW u \in Users, NEW m \in Members \cup {NoMember}, NEW sheet \in Sheets,
           PutResponse(u, m, sheet)
    PROVE  \E new \in CallDocs :
              /\ u \in Calls /\ Turns(u, new) /\ new.pc \in {"taken", "answer"}
              /\ new.op = NoCall.op /\ new.candidate = NoCall.candidate
              /\ new.event = NoCall.event /\ new.post = NoCall.post /\ new.due = NoCall.due
<1> DEFINE pc == IF m \in Members /\ LinkedTo[u] = NoMember THEN "taken" ELSE "answer"
           a == [member |-> m, sheet |-> sheet]
           new == [NoCall EXCEPT !.pc = pc, !.answer = a]
<1>1. pc \in {"taken", "answer"} /\ pc \in Steps /\ a \in Responses
  BY Words DEF Responses
<1>2. NoCall \in CallDocs /\ u \in Calls
  BY NewDocs DEF Calls
<1>3. call' = [call EXCEPT ![u] = new]
  BY DEF PutResponse
<1> HIDE DEF pc, a
<1>4. new \in CallDocs
  BY <1>1, <1>2 DEF CallDocs
<1>5. /\ new.pc = pc /\ new.op = NoCall.op /\ new.candidate = NoCall.candidate
      /\ new.event = NoCall.event /\ new.post = NoCall.post /\ new.due = NoCall.due
  BY <1>2 DEF CallDocs
<1> HIDE DEF new
<1> QED BY <1>1, <1>2, <1>3, <1>4, <1>5 DEF Turns

LEMMA PutTyped ==
    ASSUME PollTypes, NEW u \in Users, NEW m \in Members \cup {NoMember}, NEW sheet \in Sheets,
           PutResponse(u, m, sheet)
    PROVE  PollTypes'
<1>1. PICK new \in CallDocs :
              /\ u \in Calls /\ Turns(u, new) /\ new.pc \in {"taken", "answer"}
              /\ new.op = NoCall.op /\ new.candidate = NoCall.candidate
              /\ new.event = NoCall.event
  BY PutTurns
<1>2. Fits(new)
  <2>1. Len(events) \in Nat
    BY LenProperties DEF PollTypes, PollDocuments
  <2> QED BY <1>1, <2>1, NewDocs, NamesAssumption DEF Fits
<1>3. UNCHANGED <<documents, decided, carried, sent>> /\ UNCHANGED <<late, lost, errors>>
  BY DEF PutResponse, Answer, history
<1>4. late' \subseteq Calls /\ lost' \in [Posts -> Nat] /\ errors' \in Nat
  BY <1>3 DEF PollTypes, PollDocuments
<1> QED BY <1>1, <1>2, <1>3, <1>4, CallsAlone

LEMMA TakenTyped == ASSUME PollTypes, NEW u \in Calls, CheckTaken(u) PROVE PollTypes'
<1>1. PICK new : Turns(u, new) /\ Fits(new)
  <2>1. CASE Return(u)
    BY <2>1, Returns
  <2>2. CASE Goto(u, "answer")
    <3>1. PICK new : /\ Turns(u, new) /\ new.pc = "answer" /\ new.op = call[u].op
                     /\ new.candidate = call[u].candidate /\ new.event = call[u].event
      BY <2>2, GoesTo, Words
    <3>2. Fits(new)
      BY <3>1, CallIs DEF Fits
    <3> QED BY <3>1, <3>2
  <2> QED BY <2>1, <2>2 DEF CheckTaken
<1>2. UNCHANGED <<documents, decided, carried, sent>> /\ UNCHANGED <<late, lost, errors>>
  BY DEF CheckTaken, history, boundVars
<1>3. late' \subseteq Calls /\ lost' \in [Posts -> Nat] /\ errors' \in Nat
  BY <1>2 DEF PollTypes, PollDocuments
<1> QED BY <1>1, <1>2, <1>3, CallsAlone

LEMMA SaveTyped == ASSUME PollTypes, NEW u \in Calls, SaveResponse(u) PROVE PollTypes'
<1>1. response' \in [Users -> Responses] /\ late' \subseteq Calls
  BY CallIs DEF SaveResponse, PollTypes, PollDocuments
<1>2. PollDocuments' /\ EventsGrow
  BY <1>1 DEF PollTypes, PollDocuments, EventsGrow, SaveResponse, boundVars
<1>3. Turns(u, NoCall) /\ Fits(NoCall)
  BY Returns DEF SaveResponse
<1> QED BY <1>2, <1>3, FitsOn, TypesKept DEF Turns

LEMMA AttendTyped ==
    ASSUME PollTypes, NEW k \in DOMAIN events, NEW m \in Members, Attend(k, m)
    PROVE  PollTypes'
<1>1. PICK status \in {"present", "absent"} : attendance' = [attendance EXCEPT ![k][m] = status]
  BY DEF Attend
<1>2. status \in Statuses
  BY DEF Statuses
<1>3. /\ attendance' \in Seq([Members -> Statuses \cup {"none"}])
      /\ Len(attendance') = Len(attendance)
  BY <1>1, <1>2, AttendanceSet
<1>4. PollDocuments' /\ UNCHANGED <<call, events>>
  BY <1>3 DEF PollTypes, PollDocuments, Attend, Answer, history
<1> QED BY <1>4, TypesStay

(* The posts and the tick. *)
OnlyStatus(k, status) == \A j \in Posts :
    /\ post'[j].op = post[j].op /\ post'[j].candidate = post[j].candidate
    /\ post'[j].status = IF j = k THEN status ELSE post[j].status

LEMMA PostIsTyped ==
    ASSUME PollTypes, NEW k \in Posts, NEW status \in {"none", "pending", "sent", "failed", "cancelled"},
           post' = [post EXCEPT ![k].status = status]
    PROVE  post' \in [Posts -> PostDocs] /\ OnlyStatus(k, status)
<1>1. PICK new : new = [post[k] EXCEPT !.status = status]
  OBVIOUS
<1>2. post \in [Posts -> PostDocs] /\ post[k] \in PostDocs
  BY DEF PollTypes, PollDocuments
<1>3. /\ new \in PostDocs /\ new.op = post[k].op /\ new.candidate = post[k].candidate
      /\ new.status = status
  BY <1>1, <1>2 DEF PostDocs
<1>4. \A j \in Posts : post'[j] = IF j = k THEN new ELSE post[j]
  BY <1>1, <1>2
<1>5. post' \in [Posts -> PostDocs]
  BY <1>1, <1>2, <1>3
<1> QED BY <1>3, <1>4, <1>5 DEF OnlyStatus

LEMMA ScheduleTyped ==
    ASSUME PollTypes, NEW k \in Posts, NEW op \in Operations,
           NEW c \in Candidates \cup {NoCandidate}, create_scheduled_post(k, op, c)
    PROVE  /\ PollTypes'
           /\ \A j \in Posts : j # k => post'[j] = post[j]
           /\ post'[k].status = "pending"
<1> DEFINE new == [status |-> "pending", op |-> op, candidate |-> c]
<1>1. new \in PostDocs /\ new.op = op /\ new.candidate = c /\ new.status = "pending"
  BY DEF PostDocs
<1>2. op \in {"announce", "remind", "decide"} /\ (op = "decide" <=> c \in Candidates)
  BY DEF create_scheduled_post
<1>3. post' = [post EXCEPT ![k] = new]
  BY DEF create_scheduled_post
<1> HIDE DEF new
<1>4. post \in [Posts -> PostDocs]
  BY DEF PollTypes, PollDocuments
<1>5. post' \in [Posts -> PostDocs] /\ \A j \in Posts : post'[j] = IF j = k THEN new ELSE post[j]
  BY <1>1, <1>3, <1>4
<1>6. \A j \in Posts : /\ post'[j].op \in {"announce", "remind", "decide"}
                       /\ post'[j].op = "decide" <=> post'[j].candidate \in Candidates
  BY <1>1, <1>2, <1>5 DEF PollTypes, PollDocuments
<1>7. PollDocuments' /\ UNCHANGED <<call, events>>
  BY <1>5, <1>6 DEF PollTypes, PollDocuments, create_scheduled_post, Begin, history
<1> QED BY <1>1, <1>5, <1>7, TypesStay

LEMMA CancelTurns ==
    ASSUME PollTypes, NEW p \in Calls, NEW k \in Posts, cancel_scheduled_post(p, k)
    PROVE  \E new \in CallDocs : /\ Turns(p, new) /\ new.pc = "cancel" /\ new.post = k
                                 /\ new.op = NoCall.op /\ new.candidate = NoCall.candidate
                                 /\ new.event = NoCall.event /\ new.due = NoCall.due
<1> DEFINE new == [NoCall EXCEPT !.pc = "cancel", !.post = k]
<1>1. NoCall \in CallDocs /\ "cancel" \in Steps
  BY NewDocs, Words
<1>2. new \in CallDocs
  BY <1>1 DEF CallDocs
<1>3. /\ new.pc = "cancel" /\ new.post = k /\ new.op = NoCall.op
      /\ new.candidate = NoCall.candidate /\ new.event = NoCall.event /\ new.due = NoCall.due
  BY <1>1 DEF CallDocs
<1>4. call' = [call EXCEPT ![p] = new]
  BY DEF cancel_scheduled_post
<1> HIDE DEF new
<1> QED BY <1>2, <1>3, <1>4 DEF Turns

LEMMA CancelTyped ==
    ASSUME PollTypes, NEW p \in Calls, NEW k \in Posts, cancel_scheduled_post(p, k)
    PROVE  PollTypes'
<1>1. PICK new : /\ Turns(p, new) /\ new.pc = "cancel" /\ new.post = k
                 /\ new.op = NoCall.op /\ new.candidate = NoCall.candidate
                 /\ new.event = NoCall.event
  BY CancelTurns
<1>2. Fits(new)
  <2>1. Len(events) \in Nat
    BY LenProperties DEF PollTypes, PollDocuments
  <2> QED BY <1>1, <2>1, NewDocs, NamesAssumption DEF Fits
<1>3. UNCHANGED <<documents, decided, carried, sent>> /\ UNCHANGED <<late, lost, errors>>
  BY DEF cancel_scheduled_post, Begin, history
<1>4. late' \subseteq Calls /\ lost' \in [Posts -> Nat] /\ errors' \in Nat
  BY <1>3 DEF PollTypes, PollDocuments
<1> QED BY <1>1, <1>2, <1>3, <1>4, CallsAlone

LEMMA CancelledTyped ==
    ASSUME PollTypes, NEW p \in Calls, SaveCancellation(p)
    PROVE  PollTypes'
<1>1. call[p].post \in Posts
  BY CallIs DEF Fits, SaveCancellation, At
<1>2. /\ post' \in [Posts -> PostDocs]
      /\ \A j \in Posts : post'[j].op = post[j].op /\ post'[j].candidate = post[j].candidate
  BY <1>1, PostIsTyped DEF SaveCancellation, OnlyStatus
<1>3. PollDocuments' /\ EventsGrow
  BY <1>2 DEF PollTypes, PollDocuments, EventsGrow, SaveCancellation, history, boundVars
<1>4. Turns(p, NoCall) /\ Fits(NoCall)
  BY Returns DEF SaveCancellation
<1> QED BY <1>3, <1>4, FitsOn, TypesKept DEF Turns

LEMMA ListDueTurns ==
    ASSUME PollTypes, NEW p \in Calls, ListDue(p)
    PROVE  \E new \in CallDocs : /\ Turns(p, new) /\ new.pc = "switch"
                                 /\ new.due = {k \in Posts : post[k].status = "pending"}
                                 /\ new.post = NoCall.post
                                 /\ new.op = NoCall.op /\ new.candidate = NoCall.candidate
                                 /\ new.event = NoCall.event
<1>1. PICK due \in SUBSET Posts : due = {k \in Posts : post[k].status = "pending"}
  OBVIOUS
<1> DEFINE new == [NoCall EXCEPT !.pc = "switch", !.due = due]
<1>2. NoCall \in CallDocs /\ "switch" \in Steps
  BY NewDocs, Words
<1>3. new \in CallDocs
  BY <1>2 DEF CallDocs
<1>4. /\ new.pc = "switch" /\ new.due = due /\ new.post = NoCall.post
      /\ new.op = NoCall.op /\ new.candidate = NoCall.candidate /\ new.event = NoCall.event
  BY <1>2 DEF CallDocs
<1>5. call' = [call EXCEPT ![p] = new]
  BY <1>1 DEF ListDue
<1> HIDE DEF new
<1> QED BY <1>1, <1>3, <1>4, <1>5 DEF Turns

LEMMA ListDueTyped == ASSUME PollTypes, NEW p \in Calls, ListDue(p) PROVE PollTypes'
<1>1. PICK new : /\ Turns(p, new) /\ new.pc = "switch"
                 /\ new.op = NoCall.op /\ new.candidate = NoCall.candidate
                 /\ new.event = NoCall.event
  BY ListDueTurns
<1>2. Fits(new)
  <2>1. Len(events) \in Nat
    BY LenProperties DEF PollTypes, PollDocuments
  <2> QED BY <1>1, <2>1, NewDocs, NamesAssumption DEF Fits
<1>3. UNCHANGED <<documents, decided, carried, sent>> /\ UNCHANGED <<late, lost, errors>>
  BY DEF ListDue, history, boundVars
<1>4. late' \subseteq Calls /\ lost' \in [Posts -> Nat] /\ errors' \in Nat
  BY <1>3 DEF PollTypes, PollDocuments
<1> QED BY <1>1, <1>2, <1>3, <1>4, CallsAlone

LEMMA SwitchTyped == ASSUME PollTypes, NEW p \in Calls, ReadSwitch(p) PROVE PollTypes'
<1>1. PICK new : Turns(p, new) /\ Fits(new)
  <2>1. CASE Return(p)
    BY <2>1, Returns
  <2>2. CASE Goto(p, "posts")
    <3>1. PICK new : /\ Turns(p, new) /\ new.pc = "posts" /\ new.op = call[p].op
                     /\ new.candidate = call[p].candidate /\ new.event = call[p].event
      BY <2>2, GoesTo, Words
    <3>2. Fits(new)
      BY <3>1, CallIs DEF Fits
    <3> QED BY <3>1, <3>2
  <2> QED BY <2>1, <2>2 DEF ReadSwitch
<1>2. UNCHANGED <<documents, decided, carried, sent>> /\ UNCHANGED <<late, lost, errors>>
  BY DEF ReadSwitch, history, boundVars
<1>3. late' \subseteq Calls /\ lost' \in [Posts -> Nat] /\ errors' \in Nat
  BY <1>2 DEF PollTypes, PollDocuments
<1> QED BY <1>1, <1>2, <1>3, CallsAlone

LEMMA TakeTurns ==
    ASSUME PollTypes, NEW p \in Calls, TakePost(p)
    PROVE  \E k \in call[p].due, new \in CallDocs :
              /\ k \in Posts
              /\ Turns(p, new) /\ new.due = call[p].due \ {k} /\ new.post = k
              /\ new.result = "failed" /\ new.op = post[k].op /\ new.candidate = post[k].candidate
              /\ new.copy = poll /\ new.event = call[p].event
              /\ new.pc = (IF Allowed(post[k].op) THEN FirstStep(post[k].op) ELSE "post")
<1>1. PICK k \in call[p].due :
        call' = [call EXCEPT ![p] =
           [call[p] EXCEPT !.due = call[p].due \ {k}, !.post = k, !.result = "failed",
                   !.op = post[k].op, !.candidate = post[k].candidate, !.copy = poll,
                   !.pc = IF Allowed(post[k].op) THEN FirstStep(post[k].op) ELSE "post"]]
  BY DEF TakePost
<1>2. k \in Posts /\ call[p] \in CallDocs /\ poll \in PollDocs /\ post[k] \in PostDocs
  BY CallIs DEF PollTypes, PollDocuments
<1>3. PICK due \in SUBSET Posts : due = call[p].due \ {k}
  BY CallIs
<1>4. PICK op \in Operations, c \in Candidates \cup {NoCandidate} :
        op = post[k].op /\ c = post[k].candidate
  BY <1>2 DEF PostDocs
<1>5. PICK pc \in Steps : pc = IF Allowed(post[k].op) THEN FirstStep(post[k].op) ELSE "post"
  BY <1>4, FirstSteps, Words
<1> DEFINE new == [call[p] EXCEPT !.due = due, !.post = k, !.result = "failed",
                                  !.op = op, !.candidate = c, !.copy = poll, !.pc = pc]
<1>6. new \in CallDocs
  BY <1>2 DEF CallDocs
<1>7. /\ new.due = due /\ new.post = k /\ new.result = "failed" /\ new.op = op
      /\ new.candidate = c /\ new.copy = poll /\ new.event = call[p].event /\ new.pc = pc
  BY <1>2 DEF CallDocs
<1>8. call' = [call EXCEPT ![p] = new]
  BY <1>1, <1>3, <1>4, <1>5
<1> HIDE DEF new
<1> QED BY <1>2, <1>3, <1>4, <1>5, <1>6, <1>7, <1>8 DEF Turns

LEMMA TakeTyped == ASSUME PollTypes, NEW p \in Calls, TakePost(p) PROVE PollTypes'
<1>1. PICK k \in Posts, new \in CallDocs :
        /\ Turns(p, new) /\ new.op = post[k].op /\ new.candidate = post[k].candidate
        /\ new.event = call[p].event /\ new.post = k
        /\ new.pc = (IF Allowed(post[k].op) THEN FirstStep(post[k].op) ELSE "post")
  BY TakeTurns
<1>2. /\ post[k].op \in {"announce", "remind", "decide"}
      /\ post[k].op = "decide" <=> post[k].candidate \in Candidates
  BY DEF PollTypes, PollDocuments
<1>3. new.pc = "post" \/ new.pc = FirstStep(new.op)
  BY <1>1
<1>4. new.op \in Operations /\ new.op # "close"
  BY <1>1, <1>2, Words
<1>5. new.pc \in {"post", "event", "push"} /\ (new.pc = "event" => new.op = "decide")
      /\ (new.pc = "push" => new.op # "decide")
  BY <1>3, <1>4, FirstSteps
<1>6. Fits(new)
  BY <1>1, <1>2, <1>5, CallIs DEF Fits
<1>7. UNCHANGED <<documents, decided, carried, sent>> /\ UNCHANGED <<late, lost, errors>>
  BY DEF TakePost, history, boundVars
<1>8. late' \subseteq Calls /\ lost' \in [Posts -> Nat] /\ errors' \in Nat
  BY <1>7 DEF PollTypes, PollDocuments
<1> QED BY <1>1, <1>6, <1>7, <1>8, CallsAlone

LEMMA SavePostTurns ==
    ASSUME PollTypes, NEW p \in Calls, SavePost(p)
    PROVE  \E new \in CallDocs : /\ Turns(p, new) /\ new.pc = "posts" /\ new.post = NoPost
                                 /\ new.due = call[p].due /\ new.op = call[p].op
                                 /\ new.candidate = call[p].candidate
                                 /\ new.event = call[p].event
<1> DEFINE new == [call[p] EXCEPT !.pc = "posts", !.post = NoPost]
<1>1. call[p] \in CallDocs /\ "posts" \in Steps
  BY CallIs, Words
<1>2. new \in CallDocs
  BY <1>1 DEF CallDocs
<1>3. /\ new.pc = "posts" /\ new.post = NoPost /\ new.due = call[p].due /\ new.op = call[p].op
      /\ new.candidate = call[p].candidate /\ new.event = call[p].event
  BY <1>1 DEF CallDocs
<1>4. call' = [call EXCEPT ![p] = new]
  BY DEF SavePost
<1> HIDE DEF new
<1> QED BY <1>2, <1>3, <1>4 DEF Turns

LEMMA SavePostTyped == ASSUME PollTypes, NEW p \in Calls, SavePost(p) PROVE PollTypes'
<1>1. PICK new : /\ Turns(p, new) /\ new.pc = "posts" /\ new.op = call[p].op
                 /\ new.candidate = call[p].candidate /\ new.event = call[p].event
  BY SavePostTurns
<1>2. Fits(new)
  BY <1>1, CallIs DEF Fits
<1>3. /\ post' \in [Posts -> PostDocs]
      /\ \A j \in Posts : post'[j].op = post[j].op /\ post'[j].candidate = post[j].candidate
  <2>1. CASE call[p].post \in Posts
    <3>1. PICK status \in {"sent", "failed"} : status = call[p].result
      BY CallIs
    <3>2. post' = [post EXCEPT ![call[p].post].status = status]
      BY <3>1 DEF SavePost
    <3> QED BY <2>1, <3>2, PostIsTyped DEF OnlyStatus
  <2>2. CASE call[p].post = NoPost
    <3>1. post \in [Posts -> PostDocs]
      BY DEF PollTypes, PollDocuments
    <3>2. post' = post
      BY <2>2, <3>1, NamesAssumption DEF SavePost
    <3> QED BY <3>1, <3>2
  <2> QED BY <2>1, <2>2, CallIs
<1>4. PollDocuments' /\ EventsGrow
  BY <1>3 DEF PollTypes, PollDocuments, EventsGrow, SavePost, history, boundVars
<1> QED BY <1>1, <1>2, <1>4, FitsOn, TypesKept DEF Turns

LEMMA EndTickTyped == ASSUME PollTypes, NEW p \in Calls, EndTick(p) PROVE PollTypes'
<1>1. Turns(p, NoCall) /\ Fits(NoCall)
  BY Returns DEF EndTick
<1>2. UNCHANGED <<documents, decided, carried, sent>> /\ UNCHANGED <<late, lost, errors>>
  BY DEF EndTick, history, boundVars
<1>3. late' \subseteq Calls /\ lost' \in [Posts -> Nat] /\ errors' \in Nat
  BY <1>2 DEF PollTypes, PollDocuments
<1> QED BY <1>1, <1>2, <1>3, CallsAlone

LEMMA DieTyped == ASSUME PollTypes, NEW p \in Calls, Die(p) PROVE PollTypes'
<1>1. Turns(p, NoCall) /\ Fits(NoCall)
  BY Returns DEF Die
<1>2. lost' \in [Posts -> Nat] /\ errors' \in Nat
  BY CountsAreTyped DEF Die, Fail, PollTypes, PollDocuments
<1>3. UNCHANGED <<documents, decided, carried, sent>> /\ UNCHANGED late
  BY DEF Die
<1>4. late' \subseteq Calls
  BY <1>3 DEF PollTypes, PollDocuments
<1> QED BY <1>1, <1>2, <1>3, <1>4, CallsAlone

LEMMA SettingsTyped == ASSUME PollTypes, PutSettings PROVE PollTypes'
<1>1. PollDocuments' /\ UNCHANGED <<call, events>>
  BY DEF PollTypes, PollDocuments, PutSettings, Begin, history
<1> QED BY <1>1, TypesStay

LEMMA StayTyped == ASSUME PollTypes, UNCHANGED vars PROVE PollTypes'
<1>1. PollDocuments' /\ UNCHANGED <<call, events>>
  BY DEF PollTypes, PollDocuments, vars, documents, history, boundVars
<1> QED BY <1>1, TypesStay

(* The types are kept by every step. *)
LEMMA PollTypesStep == PollTypes /\ [Next]_vars => PollTypes'
<1> SUFFICES ASSUME PollTypes, [Next]_vars PROVE PollTypes'
  OBVIOUS
<1>1. ASSUME NEW p \in Screens, NEW op \in Operations, NEW c \in Candidates \cup {NoCandidate},
             Operate(p, op, c)
      PROVE  PollTypes'
  BY <1>1, OperateTyped DEF Calls
<1>2. ASSUME NEW p \in Screens, NEW k \in Posts, cancel_scheduled_post(p, k) PROVE PollTypes'
  BY <1>2, CancelTyped DEF Calls
<1>3. ASSUME NEW k \in Posts, NEW op \in Operations, NEW c \in Candidates \cup {NoCandidate},
             create_scheduled_post(k, op, c)
      PROVE  PollTypes'
  BY <1>3, ScheduleTyped
<1>4. ASSUME NEW p \in Ticks, ListDue(p) PROVE PollTypes'
  BY <1>4, ListDueTyped DEF Calls
<1>5. ASSUME NEW u \in Users, NEW m \in Members \cup {NoMember}, NEW sheet \in Sheets,
             PutResponse(u, m, sheet)
      PROVE  PollTypes'
  BY <1>5, PutTyped
<1>6. ASSUME NEW k \in DOMAIN events, NEW m \in Members, Attend(k, m) PROVE PollTypes'
  BY <1>6, AttendTyped
<1>7. ASSUME NEW p \in Calls, Proceed(p) PROVE PollTypes'
  <2>1. CASE Push(p) \/ OperationFails(p) \/ CreateEvent(p) \/ SavePoll(p)
    BY <2>1, PushTyped, FailTyped, CreateTyped, SavePollTyped
  <2>2. CASE ListResponses(p) \/ SkipAnswered(p) \/ PickAnswer(p)
    BY <2>2, CarryTyped
  <2>3. CASE WriteAttendance(p) \/ EndCarrying(p) \/ Finish(p) \/ SaveCancellation(p)
    BY <2>3, WriteTyped, EndCarryTyped, FinishTyped, CancelledTyped
  <2>4. CASE CheckTaken(p) \/ SaveResponse(p)
    BY <2>4, TakenTyped, SaveTyped
  <2>5. CASE ReadSwitch(p) \/ TakePost(p) \/ SavePost(p) \/ EndTick(p)
    BY <2>5, SwitchTyped, TakeTyped, SavePostTyped, EndTickTyped
  <2> QED BY <1>7, <2>1, <2>2, <2>3, <2>4, <2>5 DEF Proceed
<1>8. ASSUME NEW p \in Calls, Die(p) PROVE PollTypes'
  BY <1>8, DieTyped
<1>9. CASE PutSettings
  BY <1>9, SettingsTyped
<1>10. CASE UNCHANGED vars
  BY <1>10, StayTyped
<1> QED BY <1>1, <1>2, <1>3, <1>4, <1>5, <1>6, <1>7, <1>8, <1>9, <1>10 DEF Next

(* The documents and locals are well formed, and the locals fit the places the *)
(* calls stand at, however calls overlap (schedule_poll.py, scheduled.py).     *)
THEOREM PollTypesHold == Spec => []PollTypes
BY InitPollTypes, PollTypesStep, PTL DEF Spec

(* The documents, the counters and the locals of every call keep their types,  *)
(* and a call's event is one of those there are, however calls overlap.        *)
THEOREM PollTypeOK == Spec => []TypeOK
BY PollTypesHold, TypesMean, PTL
-----------------------------------------------------------------------------
(* Decisions, when operations on the poll do not overlap.                    *)
-----------------------------------------------------------------------------
LEMMA InitDecision == Init => DecisionInv
<1> SUFFICES ASSUME Init PROVE DecisionInv
  OBVIOUS
<1>1. \A p \in Calls : call[p] = NoCall
  BY DEF Init
<1>2. ~AtPoll(NoCall) /\ CallIsTrue(NoCall)
  BY NewDocs DEF AtPoll, CallIsTrue
<1>3. Len(events) = 0 /\ errors = 0 /\ ~decided /\ carried = {} /\ poll.status = "open"
  BY NewDocs DEF Init
<1> QED
  BY <1>1, <1>2, <1>3
  DEF DecisionInv, OneAtThePoll, HistoryIsTrue, DecisionIsCarriedOut, OneEventButForErrors,
      PollNamesItsEvent, AnswersAreCarried

LEMMA IdleIsTrue == ASSUME NEW c, ~AtPoll(c) PROVE CallIsTrue(c) /\ ~Decides(c)
BY DEF AtPoll, CallIsTrue, Decides

(* Nothing of the poll, its events and its answers changes. *)
PollStays == UNCHANGED <<poll, events, decided, response, attendance, carried, late>>

(* A call may come to the poll when it was there already, or nobody was. *)
MayCome(p, new) == AtPoll(new) => AtPoll(call[p]) \/ \A q \in Calls : ~AtPoll(call[q])

LEMMA OneStays ==
    ASSUME PollTypes, OneAtThePoll, NEW p \in Calls, NEW new, Turns(p, new), MayCome(p, new)
    PROVE  OneAtThePoll'
<1>1. call'[p] = new /\ \A q \in Calls : q # p => call'[q] = call[q]
  BY CallAfter
<1>2. ASSUME NEW q \in Calls, q # p, AtPoll(call'[q]), AtPoll(call'[p]) PROVE FALSE
  BY <1>1, <1>2 DEF MayCome, OneAtThePoll
<1>3. ASSUME NEW q \in Calls, NEW r \in Calls, AtPoll(call'[q]), AtPoll(call'[r]) PROVE q = r
  <2>1. CASE q = p \/ r = p
    BY <1>2, <1>3, <2>1
  <2>2. CASE q # p /\ r # p
    BY <1>1, <1>3, <2>2 DEF OneAtThePoll
  <2> QED BY <2>1, <2>2
<1> QED BY <1>3 DEF OneAtThePoll, AtPoll

(* The errors pay for an event whose call gives up. *)
Paid(p, new) ==
    /\ errors' \in Nat /\ errors' >= errors
    /\ Decides(call[p]) /\ ~Decides(new) => errors' >= errors + 1

LEMMA QuietStep ==
    ASSUME PollTypes, DecisionInv, NEW p \in Calls, NEW new, Turns(p, new), PollStays,
           MayCome(p, new), CallIsTrue(new), Paid(p, new)
    PROVE  DecisionInv'
<1>1. call'[p] = new /\ \A q \in Calls : q # p => call'[q] = call[q]
  BY CallAfter
<1>2. OneAtThePoll'
  BY OneStays DEF DecisionInv
<1>3. ASSUME NEW q \in Calls PROVE CallIsTrue(call[q])'
  <2>1. CallIsTrue(call'[q])
    BY <1>1 DEF DecisionInv
  <2>2. PICK c : c = call'[q]
    OBVIOUS
  <2>3. CallIsTrue(c)'
    BY <2>1, <2>2 DEF CallIsTrue, PollStays, Comes
  <2> QED BY <2>2, <2>3 DEF CallIsTrue, Comes
<1>4. Len(events) \in Nat /\ errors \in Nat
  BY LenProperties DEF PollTypes, PollDocuments
<1>5. DecisionIsCarriedOut'
  BY <1>4
  DEF DecisionInv, DecisionIsCarriedOut, OneEventButForErrors, PollNamesItsEvent,
      AnswersAreCarried, PollStays, Paid
<1>6. ASSUME ~decided, \A q \in Calls : ~Decides(call'[q]) PROVE Len(events) <= errors'
  <2>1. ~Decides(new)
    BY <1>1, <1>6
  <2>2. CASE Decides(call[p])
    BY <1>4, <2>1, <2>2
    DEF DecisionInv, DecisionIsCarriedOut, OneEventButForErrors, Paid
  <2>3. CASE ~Decides(call[p])
    <3>1. \A q \in Calls : ~Decides(call[q])
      BY <1>1, <1>6, <2>3
    <3>2. Len(events) <= errors
      BY <1>6, <3>1 DEF DecisionInv, HistoryIsTrue
    <3> QED BY <1>4, <3>2 DEF Paid
  <2> QED BY <2>2, <2>3
<1>7. HistoryIsTrue'
  <2>1. (decided <=> poll.status = "decided")' /\ (carried # {} => decided)'
    BY DEF DecisionInv, HistoryIsTrue, PollStays
  <2>2. (~decided /\ (\A q \in Calls : ~Decides(call[q])) => Len(events) <= errors)'
    BY <1>6 DEF PollStays, Decides
  <2> QED BY <2>1, <2>2 DEF HistoryIsTrue
<1> QED BY <1>2, <1>3, <1>5, <1>7 DEF DecisionInv

(* A call that leaves the poll, or was not at it. *)
LEMMA QuietLeave ==
    ASSUME PollTypes, DecisionInv, NEW p \in Calls, NEW new, Turns(p, new), PollStays,
           ~AtPoll(new), Paid(p, new)
    PROVE  DecisionInv'
<1>1. MayCome(p, new) /\ CallIsTrue(new)
  BY IdleIsTrue DEF MayCome
<1> QED BY <1>1, QuietStep

LEMMA PaidNothing ==
    ASSUME PollTypes, NEW p \in Calls, NEW new, UNCHANGED errors, ~Decides(call[p])
    PROVE  Paid(p, new)
BY DEF Paid, PollTypes, PollDocuments

(* An operation is begun when the poll allows it and nobody is at it. *)
LEMMA BeginsTrue ==
    ASSUME PollTypes, DecisionInv, NEW op \in Operations, Allowed(op), NEW new,
           new.pc = FirstStep(op), new.op = op, new.copy = poll
    PROVE  CallIsTrue(new)
<1>1. IF op = "decide" THEN ~decided ELSE poll.status = "open"
  BY DEF Allowed, DecisionInv, HistoryIsTrue
<1>2. new.pc \in {"event", "save", "push"}
  BY FirstSteps
<1> QED BY <1>1, <1>2 DEF CallIsTrue

LEMMA OperateDecision ==
    ASSUME PollTypes, DecisionInv, ~Overlap, NEW p \in Calls, NEW op \in Operations,
           NEW c \in Candidates \cup {NoCandidate}, Operate(p, op, c)
    PROVE  DecisionInv'
<1>1. PICK new : Turns(p, new) /\ new.pc = FirstStep(op) /\ new.op = op /\ new.copy = poll
  BY OperateTurns
<1>2. PollStays /\ UNCHANGED errors
  BY DEF PollStays, Operate, Begin, documents, history
<1>3. MayCome(p, new)
  BY DEF MayCome, Operate, Alone, OnPoll, AtPoll
<1>4. CallIsTrue(new)
  BY <1>1, BeginsTrue DEF Operate
<1>5. Paid(p, new)
  BY <1>2, PaidNothing DEF Decides, Operate, At
<1> QED BY <1>1, <1>2, <1>3, <1>4, <1>5, QuietStep

LEMMA TakeDecision ==
    ASSUME PollTypes, DecisionInv, ~Overlap, NEW p \in Calls, TakePost(p)
    PROVE  DecisionInv'
<1>1. PICK k \in Posts, new \in CallDocs :
        /\ Turns(p, new) /\ new.op = post[k].op /\ new.copy = poll
        /\ new.pc = (IF Allowed(post[k].op) THEN FirstStep(post[k].op) ELSE "post")
  BY TakeTurns
<1>2. PollStays /\ UNCHANGED errors
  BY DEF PollStays, TakePost, boundVars, documents, history
<1>3. MayCome(p, new)
  BY DEF MayCome, TakePost, Alone, OnPoll, AtPoll
<1>4. CallIsTrue(new)
  <2>1. CASE Allowed(post[k].op)
    <3>1. new.op \in Operations
      BY DEF CallDocs
    <3> QED BY <1>1, <2>1, <3>1, BeginsTrue
  <2>2. CASE ~Allowed(post[k].op)
    BY <1>1, <2>2, IdleIsTrue DEF AtPoll
  <2> QED BY <2>1, <2>2
<1>5. Paid(p, new)
  BY <1>2, PaidNothing DEF Decides, TakePost, At
<1> QED BY <1>1, <1>2, <1>3, <1>4, <1>5, QuietStep

LEMMA PushDecision ==
    ASSUME PollTypes, DecisionInv, NEW p \in Calls, Push(p)
    PROVE  DecisionInv'
<1>1. PICK new : /\ Turns(p, new) /\ new.pc = "save" /\ new.op = call[p].op
                 /\ new.copy = call[p].copy
  BY GoesTo, Words DEF Push
<1>2. PollStays /\ UNCHANGED errors
  BY DEF PollStays, Push, boundVars, documents, history
<1>3. MayCome(p, new) /\ Paid(p, new)
  BY <1>2, PaidNothing DEF MayCome, AtPoll, Decides, Push, At
<1>4. CallIsTrue(new)
  BY <1>1 DEF CallIsTrue, DecisionInv, Push, At
<1> QED BY <1>1, <1>2, <1>3, <1>4, QuietStep

LEMMA FailDecision ==
    ASSUME PollTypes, DecisionInv, NEW p \in Calls, OperationFails(p)
    PROVE  DecisionInv'
<1>1. PICK new : Turns(p, new) /\ ~AtPoll(new)
  BY Ends, NewDocs DEF OperationFails, AtPoll
<1>2. PollStays
  BY DEF PollStays, OperationFails, documents
<1>3. Paid(p, new)
  BY DEF Paid, OperationFails, Fail, PollTypes, PollDocuments
<1> QED BY <1>1, <1>2, <1>3, QuietLeave

LEMMA FinishDecision ==
    ASSUME PollTypes, DecisionInv, NEW p \in Calls, Finish(p)
    PROVE  DecisionInv'
<1>1. PICK new : Turns(p, new) /\ ~AtPoll(new)
  BY Ends, NewDocs DEF Finish, AtPoll
<1>2. PollStays /\ UNCHANGED errors
  BY DEF PollStays, Finish, boundVars, documents, history
<1>3. Paid(p, new)
  BY <1>2, PaidNothing DEF Decides, Finish, At
<1> QED BY <1>1, <1>2, <1>3, QuietLeave

LEMMA SkipDecision ==
    ASSUME PollTypes, DecisionInv, NEW p \in Calls, SkipAnswered(p)
    PROVE  DecisionInv'
<1>1. PICK r \in call[p].todo, new \in CallDocs :
        /\ attendance[call[p].event][r[1]] # "none"
        /\ Turns(p, new) /\ new.pc = "carry" /\ new.todo = call[p].todo \ {r}
        /\ new.event = call[p].event
  BY SkipTurns
<1>2. PollStays /\ UNCHANGED errors
  BY DEF PollStays, SkipAnswered, boundVars, documents, history
<1>3. call[p].pc = "carry" /\ CallIsTrue(call[p])
  BY DEF SkipAnswered, At, DecisionInv
<1>4. MayCome(p, new) /\ Paid(p, new)
  BY <1>2, <1>3, PaidNothing DEF MayCome, AtPoll, Decides
<1>5. CallIsTrue(new)
  <2>1. ASSUME NEW u \in Users \ late, response[u].member # NoMember,
               attendance[new.event][response[u].member] = "none"
        PROVE  Comes(new, response[u].member)
    <3>1. PICK t \in call[p].todo : t[1] = response[u].member
      BY <1>1, <1>3, <2>1 DEF CallIsTrue, Comes
    <3> QED BY <1>1, <2>1, <3>1 DEF Comes
  <2> QED BY <1>1, <1>3, <2>1 DEF CallIsTrue
<1> QED BY <1>1, <1>2, <1>4, <1>5, QuietStep

LEMMA PickDecision ==
    ASSUME PollTypes, DecisionInv, NEW p \in Calls, PickAnswer(p)
    PROVE  DecisionInv'
<1>1. PICK r \in call[p].todo, new \in CallDocs :
        /\ Turns(p, new) /\ new.pc = "write" /\ new.todo = call[p].todo \ {r} /\ new.row = r
        /\ new.event = call[p].event
  BY PickTurns
<1>2. PollStays /\ UNCHANGED errors
  BY DEF PollStays, PickAnswer, boundVars, documents, history
<1>3. call[p].pc = "carry" /\ CallIsTrue(call[p])
  BY DEF PickAnswer, At, DecisionInv
<1>4. MayCome(p, new) /\ Paid(p, new)
  BY <1>2, <1>3, PaidNothing DEF MayCome, AtPoll, Decides
<1>5. CallIsTrue(new)
  <2>1. ASSUME NEW m, Comes(call[p], m) PROVE Comes(new, m)
    <3>1. PICK t \in call[p].todo : t[1] = m
      BY <1>3, <2>1 DEF Comes
    <3> QED BY <1>1, <3>1 DEF Comes
  <2> QED BY <1>1, <1>3, <2>1 DEF CallIsTrue
<1> QED BY <1>1, <1>2, <1>4, <1>5, QuietStep

(* Steps of calls that are not at the poll. *)
LEMMA AsideDecision ==
    ASSUME PollTypes, DecisionInv, NEW p \in Calls,
           SaveCancellation(p) \/ CheckTaken(p) \/ ReadSwitch(p) \/ SavePost(p) \/ EndTick(p)
           \/ ListDue(p) \/ \E k \in Posts : cancel_scheduled_post(p, k)
    PROVE  DecisionInv'
<1>1. PollStays /\ UNCHANGED errors /\ ~AtPoll(call[p])
  BY DEF PollStays, SaveCancellation, CheckTaken, ReadSwitch, SavePost, EndTick, ListDue,
         cancel_scheduled_post, Begin, boundVars, documents, history, AtPoll, At
<1>2. PICK new : Turns(p, new) /\ ~AtPoll(new)
  <2>1. CASE SaveCancellation(p) \/ EndTick(p)
    BY <2>1, Returns, NewDocs DEF SaveCancellation, EndTick, AtPoll
  <2>2. CASE CheckTaken(p)
    <3>1. CASE Return(p)
      BY <3>1, Returns, NewDocs DEF AtPoll
    <3>2. CASE Goto(p, "answer")
      BY <3>2, GoesTo, Words DEF AtPoll
    <3> QED BY <2>2, <3>1, <3>2 DEF CheckTaken
  <2>3. CASE ReadSwitch(p)
    <3>1. CASE Return(p)
      BY <3>1, Returns, NewDocs DEF AtPoll
    <3>2. CASE Goto(p, "posts")
      BY <3>2, GoesTo, Words DEF AtPoll
    <3> QED BY <2>3, <3>1, <3>2 DEF ReadSwitch
  <2>4. CASE SavePost(p)
    BY <2>4, SavePostTurns DEF AtPoll
  <2>5. CASE ListDue(p)
    BY <2>5, ListDueTurns DEF AtPoll
  <2>6. CASE \E k \in Posts : cancel_scheduled_post(p, k)
    BY <2>6, CancelTurns DEF AtPoll
  <2> QED BY <2>1, <2>2, <2>3, <2>4, <2>5, <2>6
<1>3. Paid(p, new)
  BY <1>1, PaidNothing, IdleIsTrue
<1> QED BY <1>1, <1>2, <1>3, QuietLeave

LEMMA PutDecision ==
    ASSUME PollTypes, DecisionInv, NEW u \in Users, NEW m \in Members \cup {NoMember},
           NEW sheet \in Sheets, PutResponse(u, m, sheet)
    PROVE  DecisionInv'
<1>1. PICK new : u \in Calls /\ Turns(u, new) /\ ~AtPoll(new)
  BY PutTurns DEF AtPoll
<1>2. PollStays /\ UNCHANGED errors
  BY DEF PollStays, PutResponse, Answer, documents, history
<1>3. Paid(u, new)
  BY <1>1, <1>2, PaidNothing DEF Decides, PutResponse, At
<1> QED BY <1>1, <1>2, <1>3, QuietLeave

LEMMA DieDecision ==
    ASSUME PollTypes, DecisionInv, NEW p \in Calls, Die(p)
    PROVE  DecisionInv'
<1>1. Turns(p, NoCall) /\ ~AtPoll(NoCall)
  BY Returns, NewDocs DEF Die, AtPoll
<1>2. PollStays
  BY DEF PollStays, Die, documents
<1>3. Paid(p, NoCall)
  BY DEF Paid, Die, Fail, PollTypes, PollDocuments
<1> QED BY <1>1, <1>2, <1>3, QuietLeave

(* No call turns. *)
LEMMA StillDecision ==
    ASSUME PollTypes, DecisionInv, PollStays, UNCHANGED <<call, errors>>
    PROVE  DecisionInv'
<1>1. OneAtThePoll' /\ HistoryIsTrue'
  BY DEF DecisionInv, OneAtThePoll, HistoryIsTrue, AtPoll, Decides, PollStays
<1>2. DecisionIsCarriedOut'
  BY DEF DecisionInv, DecisionIsCarriedOut, OneEventButForErrors, PollNamesItsEvent,
         AnswersAreCarried, PollStays
<1>3. \A q \in Calls : CallIsTrue(call[q])'
  BY DEF DecisionInv, CallIsTrue, Comes, PollStays
<1> QED BY <1>1, <1>2, <1>3 DEF DecisionInv

(* Only one call is at the poll: of the others nothing is at stake. *)
LEMMA OthersAside ==
    ASSUME PollTypes, DecisionInv, NEW p \in Calls, AtPoll(call[p]), NEW new, Turns(p, new)
    PROVE  /\ call'[p] = new
           /\ \A q \in Calls : q # p => call'[q] = call[q] /\ ~AtPoll(call'[q])
           /\ OneAtThePoll'
<1>1. call'[p] = new /\ \A q \in Calls : q # p => call'[q] = call[q]
  BY CallAfter
<1>2. \A q \in Calls : q # p => ~AtPoll(call'[q])
  BY <1>1 DEF DecisionInv, OneAtThePoll
<1>3. OneAtThePoll'
  BY OneStays DEF DecisionInv, MayCome
<1> QED BY <1>1, <1>2, <1>3

LEMMA AllCallsTrue ==
    ASSUME NEW p \in Calls, NEW new, call'[p] = new, CallIsTrue(new)',
           \A q \in Calls : q # p => ~AtPoll(call'[q])
    PROVE  \A q \in Calls : CallIsTrue(call[q])'
<1> SUFFICES ASSUME NEW q \in Calls PROVE CallIsTrue(call[q])'
  OBVIOUS
<1>1. CASE q = p
  BY <1>1 DEF CallIsTrue, Comes
<1>2. CASE q # p
  BY <1>2 DEF AtPoll, CallIsTrue
<1> QED BY <1>1, <1>2

LEMMA CreateDecision ==
    ASSUME PollTypes, DecisionInv, NEW p \in Calls, CreateEvent(p)
    PROVE  DecisionInv'
<1>1. PICK new \in CallDocs : /\ Turns(p, new) /\ new.pc = "save" /\ new.op = call[p].op
                              /\ new.copy = call[p].copy
  BY CreateTurns
<1>2. call[p].pc = "event" /\ call[p].op = "decide" /\ AtPoll(call[p]) /\ ~Decides(call[p])
  BY CallIs DEF CreateEvent, At, Fits, AtPoll, Decides
<1>3. /\ call'[p] = new /\ \A q \in Calls : q # p => call'[q] = call[q] /\ ~AtPoll(call'[q])
      /\ OneAtThePoll'
  BY <1>1, <1>2, OthersAside
<1>4. call[p].copy = poll /\ ~decided
  BY <1>2 DEF DecisionInv, CallIsTrue
<1>5. UNCHANGED <<poll, decided, carried, response, late, errors>>
  BY DEF CreateEvent, boundVars
<1>6. carried = {} /\ poll.status # "decided"
  BY <1>4 DEF DecisionInv, HistoryIsTrue
<1>7. CallIsTrue(new)'
  BY <1>1, <1>2, <1>4, <1>5 DEF CallIsTrue
<1>8. \A q \in Calls : CallIsTrue(call[q])'
  BY <1>3, <1>7, AllCallsTrue
<1>9. HistoryIsTrue'
  <2>1. Decides(call[p])'
    BY <1>1, <1>2, <1>3 DEF Decides
  <2> QED BY <1>4, <1>5, <1>6, <2>1 DEF HistoryIsTrue
<1>10. Len(events) <= errors
  <2>1. \A q \in Calls : ~Decides(call[q])
    BY <1>2, <1>3 DEF AtPoll, Decides
  <2> QED BY <1>4, <2>1 DEF DecisionInv, HistoryIsTrue
<1>11. OneEventButForErrors'
  <2>1. events \in Seq(Candidates) /\ call[p].candidate \in Candidates
    BY <1>2, CallIs DEF PollTypes, PollDocuments, Fits
  <2>2. Len(events') = Len(events) + 1 /\ Len(events) \in Nat /\ errors \in Nat
    BY <2>1, AppendProperties, LenProperties DEF CreateEvent, PollTypes, PollDocuments
  <2> QED BY <1>5, <1>10, <2>2 DEF OneEventButForErrors
<1>12. PollNamesItsEvent' /\ AnswersAreCarried'
  BY <1>5, <1>6 DEF PollNamesItsEvent, AnswersAreCarried
<1> QED BY <1>3, <1>8, <1>9, <1>11, <1>12 DEF DecisionInv, DecisionIsCarriedOut

LEMMA SavePollDecision ==
    ASSUME PollTypes, DecisionInv, NEW p \in Calls, SavePoll(p)
    PROVE  DecisionInv' /\ ~decided
<1>1. call[p].pc = "save" /\ AtPoll(call[p]) /\ call[p] \in CallDocs /\ Fits(call[p])
  BY CallIs DEF SavePoll, At, AtPoll
<1>2. PICK pc \in {"list", "finish"} : Goto(p, pc) /\ (pc = "list" <=> call[p].op = "decide")
  BY DEF SavePoll
<1>3. PICK new : Turns(p, new) /\ new.pc = pc
  BY <1>2, GoesTo, Words
<1>4. /\ call'[p] = new /\ \A q \in Calls : q # p => call'[q] = call[q] /\ ~AtPoll(call'[q])
      /\ OneAtThePoll'
  BY <1>1, <1>3, OthersAside
<1>5. UNCHANGED <<events, attendance, response, late, carried, errors>>
  BY DEF SavePoll, boundVars
<1>6. /\ call[p].copy = poll
      /\ IF call[p].op = "decide" THEN ~decided ELSE poll.status = "open"
  BY <1>1 DEF DecisionInv, CallIsTrue
<1>7. ~decided /\ carried = {} /\ poll \in PollDocs
  BY <1>6 DEF DecisionInv, HistoryIsTrue, PollTypes, PollDocuments
<1>8. \A q \in Calls : CallIsTrue(call[q])'
  <2>1. CallIsTrue(new)'
    BY <1>2, <1>3, <1>5, <1>7 DEF CallIsTrue, SavePoll
  <2> QED BY <1>4, <2>1, AllCallsTrue
<1>9. OneEventButForErrors' /\ AnswersAreCarried'
  BY <1>5, <1>7 DEF DecisionInv, DecisionIsCarriedOut, OneEventButForErrors, AnswersAreCarried
<1>10. CASE call[p].op = "decide"
  <2>1. /\ poll' = [poll EXCEPT !.status = "decided", !.candidate = call[p].candidate,
                                !.event = call[p].event]
        /\ decided'
    BY <1>6, <1>10 DEF SavePoll, Updated
  <2>2. poll'.status = "decided" /\ poll'.candidate = call[p].candidate /\ poll'.event = call[p].event
    BY <1>7, <2>1 DEF PollDocs
  <2>3. PollNamesItsEvent'
    BY <1>1, <1>5, <1>10, <2>2 DEF PollNamesItsEvent, Fits
  <2>4. HistoryIsTrue'
    BY <1>5, <1>7, <2>1, <2>2 DEF HistoryIsTrue
  <2> QED BY <1>4, <1>7, <1>8, <1>9, <2>3, <2>4 DEF DecisionInv, DecisionIsCarriedOut
<1>11. CASE call[p].op # "decide"
  <2>1. poll' \in {poll, [poll EXCEPT !.status = "closed"], [poll EXCEPT !.announced = TRUE]}
        /\ ~decided'
    BY <1>6, <1>7, <1>11 DEF SavePoll, Updated
  <2>2. poll'.status # "decided"
    BY <1>6, <1>7, <1>11, <2>1 DEF PollDocs
  <2>3. Len(events) <= errors
    <3>1. \A q \in Calls : ~Decides(call[q])
      BY <1>4, <1>11 DEF AtPoll, Decides
    <3> QED BY <1>7, <3>1 DEF DecisionInv, HistoryIsTrue
  <2>4. HistoryIsTrue' /\ PollNamesItsEvent'
    BY <1>5, <1>7, <2>1, <2>2, <2>3 DEF HistoryIsTrue, PollNamesItsEvent
  <2> QED BY <1>4, <1>7, <1>8, <1>9, <2>4 DEF DecisionInv, DecisionIsCarriedOut
<1> QED BY <1>10, <1>11

LEMMA ListDecision ==
    ASSUME PollTypes, DecisionInv, NEW p \in Calls, ListResponses(p)
    PROVE  DecisionInv'
<1>1. PICK new \in CallDocs :
        /\ Turns(p, new) /\ new.pc = "carry" /\ new.todo = AnswersFor(call[p].candidate)
        /\ new.event = call[p].event
  BY ListTurns
<1>2. call[p].pc = "list" /\ AtPoll(call[p]) /\ CallIsTrue(call[p])
  BY DEF ListResponses, At, AtPoll, DecisionInv
<1>3. /\ call'[p] = new /\ \A q \in Calls : q # p => call'[q] = call[q] /\ ~AtPoll(call'[q])
      /\ OneAtThePoll'
  BY <1>1, <1>2, OthersAside
<1>4. UNCHANGED <<poll, decided, carried, response, attendance, events, errors>>
  BY DEF ListResponses, documents, boundVars
<1>5. decided /\ carried = {}
  BY <1>2 DEF CallIsTrue
<1>6. ASSUME NEW u \in Users, response[u].member # NoMember
      PROVE  Comes(new, response[u].member)
  <2> DEFINE r == <<response[u].member, POLL_TO_ATTENDANCE(response[u].sheet[call[p].candidate])>>
  <2>1. r \in new.todo
    BY <1>1, <1>6 DEF AnswersFor
  <2>2. r[1] = response[u].member
    OBVIOUS
  <2> HIDE DEF r
  <2> QED BY <2>1, <2>2 DEF Comes
<1>7. CallIsTrue(new)'
  <2>1. \A u \in Users : response'[u].member # NoMember => Comes(new, response'[u].member)
    BY <1>4, <1>6
  <2> QED BY <1>1, <1>4, <1>5, <2>1 DEF CallIsTrue, Comes
<1>8. \A q \in Calls : CallIsTrue(call[q])'
  BY <1>3, <1>7, AllCallsTrue
<1>9. HistoryIsTrue' /\ DecisionIsCarriedOut'
  BY <1>4, <1>5
  DEF DecisionInv, HistoryIsTrue, DecisionIsCarriedOut, OneEventButForErrors, PollNamesItsEvent,
      AnswersAreCarried
<1> QED BY <1>3, <1>8, <1>9 DEF DecisionInv

LEMMA EndCarryDecision ==
    ASSUME PollTypes, DecisionInv, NEW p \in Calls, EndCarrying(p)
    PROVE  DecisionInv'
<1>1. PICK new : Turns(p, new) /\ new.pc = "finish"
  BY GoesTo, Words DEF EndCarrying
<1>2. call[p].pc = "carry" /\ AtPoll(call[p]) /\ CallIsTrue(call[p]) /\ call[p].todo = {}
  BY DEF EndCarrying, At, AtPoll, DecisionInv
<1>3. /\ call'[p] = new /\ \A q \in Calls : q # p => call'[q] = call[q] /\ ~AtPoll(call'[q])
      /\ OneAtThePoll'
  BY <1>1, <1>2, OthersAside
<1>4. UNCHANGED <<poll, decided, late, response, attendance, events, errors>>
      /\ carried' = carried \cup {call[p].event}
  BY DEF EndCarrying, documents, boundVars
<1>5. decided
  BY <1>2 DEF CallIsTrue
<1>6. CallIsTrue(new)'
  BY <1>1 DEF CallIsTrue
<1>7. \A q \in Calls : CallIsTrue(call[q])'
  BY <1>3, <1>6, AllCallsTrue
<1>8. \A u \in Users \ late : response[u].member # NoMember =>
         attendance[call[p].event][response[u].member] # "none"
  BY <1>2 DEF CallIsTrue, Comes
<1>9. AnswersAreCarried'
  BY <1>4, <1>8 DEF DecisionInv, DecisionIsCarriedOut, AnswersAreCarried
<1>10. HistoryIsTrue' /\ OneEventButForErrors' /\ PollNamesItsEvent'
  BY <1>4, <1>5
  DEF DecisionInv, HistoryIsTrue, DecisionIsCarriedOut, OneEventButForErrors, PollNamesItsEvent
<1> QED BY <1>3, <1>7, <1>9, <1>10 DEF DecisionInv, DecisionIsCarriedOut

(* Attendances and answers come in, and none is taken away. *)
AnswersGrow ==
    /\ UNCHANGED <<poll, events, decided, carried, errors>>
    /\ \A k \in DOMAIN events, m \in Members :
          attendance[k][m] # "none" => attendance'[k][m] # "none"
    /\ \A u \in Users \ late' : u \notin late /\ response'[u] = response[u]

LEMMA GrowTrue ==
    ASSUME PollTypes, AnswersGrow, NEW c, Fits(c), CallIsTrue(c)
    PROVE  CallIsTrue(c)'
<1>1. \A u \in Users : response[u].member # NoMember => response[u].member \in Members
  BY NewDocs DEF PollTypes, PollDocuments, Responses
<1>2. c.pc \in {"carry", "write"} => c.event \in DOMAIN events
  BY DEF Fits
<1>3. ASSUME c.pc \in {"carry", "write"}, NEW u \in Users \ late', response'[u].member # NoMember
      PROVE  attendance'[c.event][response'[u].member] # "none" \/ Comes(c, response'[u].member)
  BY <1>1, <1>2, <1>3 DEF AnswersGrow, CallIsTrue
<1>4. UNCHANGED <<poll, decided, carried>>
  BY DEF AnswersGrow
<1> QED BY <1>3, <1>4 DEF CallIsTrue, Comes

LEMMA GrowHistory ==
    ASSUME PollTypes, DecisionInv, AnswersGrow
    PROVE  DecisionIsCarriedOut'
<1>1. \A u \in Users : response[u].member # NoMember => response[u].member \in Members
  BY NewDocs DEF PollTypes, PollDocuments, Responses
<1>2. carried \subseteq DOMAIN events
  BY DEF PollTypes, PollDocuments
<1>3. AnswersAreCarried'
  BY <1>1, <1>2 DEF DecisionInv, DecisionIsCarriedOut, AnswersAreCarried, AnswersGrow
<1>4. OneEventButForErrors' /\ PollNamesItsEvent'
  BY DEF DecisionInv, DecisionIsCarriedOut, OneEventButForErrors, PollNamesItsEvent, AnswersGrow
<1> QED BY <1>3, <1>4 DEF DecisionIsCarriedOut

LEMMA WriteDecision ==
    ASSUME PollTypes, DecisionInv, NEW p \in Calls, WriteAttendance(p)
    PROVE  DecisionInv'
<1>1. PICK new : /\ Turns(p, new) /\ new.pc = "carry" /\ new.todo = call[p].todo
                 /\ new.event = call[p].event
  BY GoesTo, Words DEF WriteAttendance
<1>2. /\ call[p].pc = "write" /\ AtPoll(call[p]) /\ CallIsTrue(call[p]) /\ Fits(call[p])
      /\ ~Decides(call[p])
  BY CallIs DEF WriteAttendance, At, AtPoll, DecisionInv, Decides
<1>3. /\ call'[p] = new /\ \A q \in Calls : q # p => call'[q] = call[q] /\ ~AtPoll(call'[q])
      /\ OneAtThePoll'
  BY <1>1, <1>2, OthersAside
<1>4. call[p].event \in DOMAIN events /\ call[p].row \in Members \X Statuses
  BY <1>2 DEF Fits
<1>5. PICK m \in Members, s \in Statuses : call[p].row = <<m, s>>
  BY <1>4
<1>6. attendance' = [attendance EXCEPT ![call[p].event][m] = s]
  BY <1>5 DEF WriteAttendance
<1>7. OnlyEntry(call[p].event, m, s)
  BY <1>4, <1>6, AttendanceSet
<1>8. UNCHANGED <<poll, events, response, decided, late, carried, errors>>
  BY DEF WriteAttendance, history, boundVars
<1>9. AnswersGrow
  BY <1>7, <1>8, Words DEF AnswersGrow, OnlyEntry
<1>10. CallIsTrue(new)'
  <2>1. \A u \in Users : response[u].member # NoMember => response[u].member \in Members
    BY NewDocs DEF PollTypes, PollDocuments, Responses
  <2>2. ASSUME NEW u \in Users \ late, response[u].member # NoMember
        PROVE  attendance'[new.event][response[u].member] # "none" \/ Comes(new, response[u].member)
    <3>1. CASE attendance[call[p].event][response[u].member] # "none"
      BY <1>1, <1>4, <1>9, <2>1, <2>2, <3>1 DEF AnswersGrow
    <3>2. CASE \E r \in call[p].todo : r[1] = response[u].member
      BY <1>1, <3>2 DEF Comes
    <3>3. CASE call[p].row[1] = response[u].member
      <4>1. response[u].member = m
        BY <1>5, <3>3
      <4>2. attendance'[call[p].event][m] = s /\ s # "none"
        BY <1>4, <1>7, Words DEF OnlyEntry
      <4> QED BY <1>1, <4>1, <4>2
    <3> QED BY <1>2, <2>2, <3>1, <3>2, <3>3 DEF CallIsTrue, Comes
  <2>3. decided
    BY <1>2 DEF CallIsTrue
  <2> QED BY <1>1, <1>8, <2>2, <2>3 DEF CallIsTrue, Comes
<1>11. \A q \in Calls : CallIsTrue(call[q])'
  BY <1>3, <1>10, AllCallsTrue
<1>12. DecisionIsCarriedOut'
  BY <1>9, GrowHistory
<1>13. HistoryIsTrue'
  <2>1. decided
    BY <1>2 DEF CallIsTrue
  <2> QED BY <1>8, <2>1 DEF DecisionInv, HistoryIsTrue
<1> QED BY <1>3, <1>11, <1>12, <1>13 DEF DecisionInv

LEMMA SaveResponseDecision ==
    ASSUME PollTypes, DecisionInv, NEW p \in Calls, SaveResponse(p)
    PROVE  DecisionInv'
<1>1. Turns(p, NoCall) /\ ~AtPoll(NoCall) /\ CallIsTrue(NoCall) /\ MayCome(p, NoCall)
  BY Returns, NewDocs, IdleIsTrue DEF SaveResponse, AtPoll, MayCome
<1>2. ~AtPoll(call[p]) /\ ~Decides(call[p]) /\ ~Decides(NoCall)
  BY NewDocs DEF SaveResponse, At, AtPoll, Decides
<1>3. UNCHANGED <<poll, events, attendance, decided, carried, errors>>
      /\ response' = [response EXCEPT ![p] = call[p].answer] /\ late' = late \cup {p}
  BY DEF SaveResponse, boundVars
<1>4. AnswersGrow
  BY <1>3 DEF AnswersGrow, PollTypes, PollDocuments
<1>5. call'[p] = NoCall /\ \A q \in Calls : q # p => call'[q] = call[q]
  BY <1>1, CallAfter
<1>6. OneAtThePoll'
  BY <1>1, OneStays DEF DecisionInv
<1>7. ASSUME NEW q \in Calls PROVE CallIsTrue(call[q])'
  <2>1. CASE q = p
    BY <1>5, <2>1, NewDocs DEF CallIsTrue
  <2>2. CASE q # p
    <3>1. PICK c : c = call[q]
      OBVIOUS
    <3>2. Fits(c) /\ CallIsTrue(c) /\ call'[q] = c
      BY <1>5, <2>2, <3>1, CallIs DEF DecisionInv
    <3>3. CallIsTrue(c)'
      BY <1>4, <3>2, GrowTrue
    <3> QED BY <3>2, <3>3 DEF CallIsTrue, Comes
  <2> QED BY <2>1, <2>2
<1>8. HistoryIsTrue'
  <2>1. (\A q \in Calls : ~Decides(call'[q])) => \A q \in Calls : ~Decides(call[q])
    BY <1>2, <1>5
  <2>2. (\A q \in Calls : ~Decides(call[q])') => \A q \in Calls : ~Decides(call'[q])
    BY DEF Decides
  <2> QED BY <1>3, <2>1, <2>2 DEF DecisionInv, HistoryIsTrue
<1> QED BY <1>4, <1>6, <1>7, <1>8, GrowHistory DEF DecisionInv

LEMMA AttendDecision ==
    ASSUME PollTypes, DecisionInv, NEW k \in DOMAIN events, NEW m \in Members, Attend(k, m)
    PROVE  DecisionInv'
<1>1. PICK status \in {"present", "absent"} : attendance' = [attendance EXCEPT ![k][m] = status]
  BY DEF Attend
<1>2. status \in Statuses /\ status # "none"
  BY DEF Statuses
<1>3. OnlyEntry(k, m, status)
  BY <1>1, <1>2, AttendanceSet
<1>4. UNCHANGED <<poll, events, response, decided, late, carried, errors, call>>
  BY DEF Attend, Answer, history
<1>5. AnswersGrow
  BY <1>2, <1>3, <1>4 DEF AnswersGrow, OnlyEntry
<1>6. ASSUME NEW q \in Calls PROVE CallIsTrue(call[q])'
  <2>1. PICK c : c = call[q]
    OBVIOUS
  <2>2. Fits(c) /\ CallIsTrue(c) /\ call'[q] = c
    BY <1>4, <2>1, CallIs DEF DecisionInv
  <2>3. CallIsTrue(c)'
    BY <1>5, <2>2, GrowTrue
  <2> QED BY <2>2, <2>3 DEF CallIsTrue, Comes
<1>7. OneAtThePoll' /\ HistoryIsTrue'
  BY <1>4 DEF DecisionInv, OneAtThePoll, HistoryIsTrue, AtPoll, Decides
<1> QED BY <1>5, <1>6, <1>7, GrowHistory DEF DecisionInv

(* Every step keeps what is known of decisions, and none touches a decided poll. *)
LEMMA DecisionStep ==
    ASSUME PollTypes, DecisionInv, ~Overlap, [Next]_vars
    PROVE  DecisionInv' /\ (decided => poll' = poll)
<1>1. ASSUME NEW p \in Screens, NEW op \in Operations, NEW c \in Candidates \cup {NoCandidate},
             Operate(p, op, c)
      PROVE  DecisionInv' /\ poll' = poll
  BY <1>1, OperateDecision DEF Calls, Operate, documents
<1>2. ASSUME NEW p \in Screens, NEW k \in Posts, cancel_scheduled_post(p, k)
      PROVE  DecisionInv' /\ poll' = poll
  BY <1>2, AsideDecision DEF Calls, cancel_scheduled_post, documents
<1>3. ASSUME NEW k \in Posts, NEW op \in Operations, NEW c \in Candidates \cup {NoCandidate},
             create_scheduled_post(k, op, c)
      PROVE  DecisionInv' /\ poll' = poll
  <2>1. PollStays /\ UNCHANGED <<call, errors>>
    BY <1>3 DEF PollStays, create_scheduled_post, Begin, history
  <2> QED BY <2>1, StillDecision DEF PollStays
<1>4. ASSUME NEW p \in Ticks, ListDue(p) PROVE DecisionInv' /\ poll' = poll
  BY <1>4, AsideDecision DEF Calls, ListDue, documents
<1>5. ASSUME NEW u \in Users, NEW m \in Members \cup {NoMember}, NEW sheet \in Sheets,
             PutResponse(u, m, sheet)
      PROVE  DecisionInv' /\ poll' = poll
  BY <1>5, PutDecision DEF PutResponse, documents
<1>6. ASSUME NEW k \in DOMAIN events, NEW m \in Members, Attend(k, m)
      PROVE  DecisionInv' /\ poll' = poll
  BY <1>6, AttendDecision DEF Attend
<1>7. ASSUME NEW p \in Calls, Proceed(p) PROVE DecisionInv' /\ (decided => poll' = poll)
  <2>1. CASE SavePoll(p)
    BY <2>1, SavePollDecision
  <2>2. CASE Push(p) \/ OperationFails(p) \/ CreateEvent(p)
    BY <2>2, PushDecision, FailDecision, CreateDecision
    DEF Push, OperationFails, CreateEvent, documents
  <2>3. CASE ListResponses(p) \/ SkipAnswered(p) \/ PickAnswer(p)
    BY <2>3, ListDecision, SkipDecision, PickDecision
    DEF ListResponses, SkipAnswered, PickAnswer, documents
  <2>4. CASE WriteAttendance(p) \/ EndCarrying(p) \/ Finish(p)
    BY <2>4, WriteDecision, EndCarryDecision, FinishDecision
    DEF WriteAttendance, EndCarrying, Finish, documents
  <2>5. CASE SaveCancellation(p) \/ CheckTaken(p) \/ ReadSwitch(p) \/ SavePost(p) \/ EndTick(p)
    BY <2>5, AsideDecision
    DEF SaveCancellation, CheckTaken, ReadSwitch, SavePost, EndTick, documents
  <2>6. CASE SaveResponse(p) \/ TakePost(p)
    BY <2>6, SaveResponseDecision, TakeDecision DEF SaveResponse, TakePost, documents
  <2> QED BY <1>7, <2>1, <2>2, <2>3, <2>4, <2>5, <2>6 DEF Proceed
<1>8. ASSUME NEW p \in Calls, Die(p) PROVE DecisionInv' /\ poll' = poll
  BY <1>8, DieDecision DEF Die, documents
<1>9. CASE PutSettings \/ UNCHANGED vars
  <2>1. PollStays /\ UNCHANGED <<call, errors>>
    BY <1>9 DEF PollStays, PutSettings, Begin, vars, documents, history, boundVars
  <2> QED BY <2>1, StillDecision DEF PollStays
<1> QED BY <1>1, <1>2, <1>3, <1>4, <1>5, <1>6, <1>7, <1>8, <1>9 DEF Next

(* A step of a call is a step of that call alone. *)
LEMMA OthersStay ==
    ASSUME PollTypes, NEW p \in Calls, Proceed(p) \/ Die(p), NEW q \in Calls, q # p
    PROVE  call'[q] = call[q]
<1>1. call \in [Calls -> CallDocs]
  BY DEF PollTypes
<1>2. ASSUME NEW pc, Goto(p, pc) PROVE call'[q] = call[q]
  BY <1>1, <1>2 DEF Goto
<1>3. ASSUME Return(p) PROVE call'[q] = call[q]
  BY <1>1, <1>3 DEF Return
<1>4. ASSUME NEW result, End(p, result) PROVE call'[q] = call[q]
  BY <1>1, <1>3, <1>4 DEF End
<1>5. CASE Push(p) \/ SavePoll(p) \/ WriteAttendance(p) \/ EndCarrying(p)
  BY <1>2, <1>5 DEF Push, SavePoll, WriteAttendance, EndCarrying
<1>6. CASE OperationFails(p) \/ Finish(p)
  BY <1>4, <1>6 DEF OperationFails, Finish
<1>7. CASE SaveCancellation(p) \/ SaveResponse(p) \/ EndTick(p) \/ Die(p)
  BY <1>3, <1>7 DEF SaveCancellation, SaveResponse, EndTick, Die
<1>8. CASE CheckTaken(p) \/ ReadSwitch(p)
  BY <1>2, <1>3, <1>8 DEF CheckTaken, ReadSwitch
<1>9. CASE CreateEvent(p) \/ ListResponses(p) \/ SavePost(p)
  BY <1>1, <1>9 DEF CreateEvent, ListResponses, SavePost
<1>10. CASE SkipAnswered(p) \/ PickAnswer(p) \/ TakePost(p)
  BY <1>1, <1>10 DEF SkipAnswered, PickAnswer, TakePost
<1> QED BY <1>5, <1>6, <1>7, <1>8, <1>9, <1>10 DEF Proceed

LEMMA IdleStays ==
    ASSUME PollTypes, DecisionInv, [Next]_vars, decided, NEW u \in Users, At(u, "idle")
    PROVE  At(u, "idle")'
<1> SUFFICES call'[u] = call[u]
  BY DEF At
<1>1. u \in Calls /\ u \notin Screens /\ u \notin Ticks /\ call \in [Calls -> CallDocs]
  BY CallsAssumption DEF Calls, PollTypes
<1>2. poll.status # "open"
  BY DEF DecisionInv, HistoryIsTrue
<1>3. ASSUME NEW p \in Screens, NEW op \in Operations, NEW c \in Candidates \cup {NoCandidate},
             Operate(p, op, c)
      PROVE  call'[u] = call[u]
  BY <1>1, <1>3 DEF Operate
<1>4. ASSUME NEW p \in Screens, NEW k \in Posts, cancel_scheduled_post(p, k)
      PROVE  call'[u] = call[u]
  BY <1>1, <1>4 DEF cancel_scheduled_post
<1>5. ASSUME NEW k \in Posts, NEW op \in Operations, NEW c \in Candidates \cup {NoCandidate},
             create_scheduled_post(k, op, c)
      PROVE  call'[u] = call[u]
  BY <1>5 DEF create_scheduled_post
<1>6. ASSUME NEW p \in Ticks, ListDue(p) PROVE call'[u] = call[u]
  BY <1>1, <1>6 DEF ListDue
<1>7. ASSUME NEW v \in Users, NEW m \in Members \cup {NoMember}, NEW sheet \in Sheets,
             PutResponse(v, m, sheet)
      PROVE  FALSE
  BY <1>2, <1>7 DEF PutResponse
<1>8. ASSUME NEW k \in DOMAIN events, NEW m \in Members, Attend(k, m) PROVE call'[u] = call[u]
  BY <1>8 DEF Attend
<1>9. ASSUME NEW p \in Calls, Proceed(p) \/ Die(p) PROVE call'[u] = call[u]
  <2>1. call[p].pc # "idle"
    BY <1>9
    DEF Proceed, Die, Push, OperationFails, OnPoll, CreateEvent, SavePoll, ListResponses,
        SkipAnswered, PickAnswer, WriteAttendance, EndCarrying, Finish, SaveCancellation,
        CheckTaken, SaveResponse, ReadSwitch, TakePost, SavePost, EndTick, At
  <2>2. p # u
    BY <2>1 DEF At
  <2> QED BY <1>1, <1>9, <2>2, OthersStay
<1>10. CASE PutSettings \/ UNCHANGED vars
  BY <1>10 DEF PutSettings, vars
<1> QED BY <1>3, <1>4, <1>5, <1>6, <1>7, <1>8, <1>9, <1>10 DEF Next

LEMMA DecisionInvHolds == ASSUME ~Overlap PROVE Spec => []DecisionInv
<1>1. Init => DecisionInv
  BY InitDecision
<1>2. PollTypes /\ DecisionInv /\ [Next]_vars => DecisionInv'
  BY DecisionStep
<1> QED BY <1>1, <1>2, PollTypesHold, PTL DEF Spec

(* When operations on the poll do not overlap, every decision makes one event, *)
(* which the poll names, and all answers listed with it come to be attendances *)
(* (decide, carry_answers); each further event is one an error left behind.    *)
THEOREM DecisionCarried == ASSUME ~Overlap PROVE Spec => []DecisionIsCarriedOut
<1>1. DecisionInv => DecisionIsCarriedOut
  BY DEF DecisionInv
<1> QED BY <1>1, DecisionInvHolds, PTL

(* A decision is the end of the poll: its document stays as it is, and no      *)
(* account begins an answer (announce, remind, close, decide, save_response).  *)
THEOREM DecisionEnds == ASSUME ~Overlap PROVE Spec => DecisionIsTheEnd
<1>1. PollTypes /\ DecisionInv /\ [Next]_vars => [decided => poll' = poll]_vars
  BY DecisionStep
<1>2. PollTypes /\ DecisionInv /\ [Next]_vars
        => [\A u \in Users : decided /\ At(u, "idle") => At(u, "idle")']_vars
  BY IdleStays
<1>3. Spec => DecisionIsFinal
  BY <1>1, PollTypesHold, DecisionInvHolds, PTL DEF Spec, DecisionIsFinal
<1>4. Spec => AnswersEndWithDecision
  BY <1>2, PollTypesHold, DecisionInvHolds, PTL DEF Spec, AnswersEndWithDecision
<1> QED BY <1>3, <1>4 DEF DecisionIsTheEnd
-----------------------------------------------------------------------------
(* Scheduled posts, when one tick runs at a time.                            *)
-----------------------------------------------------------------------------
OneTick == \A p, q \in Ticks : p = q

(* What a call may turn to without touching a post. *)
TrueTurn(p, new) ==
    IF p \in Ticks
    THEN TickIsTrue(new) /\ (call[p].post # NoPost => new.post = call[p].post)
    ELSE OtherIsTrue(new)

LEMMA Counters ==
    ASSUME PollTypes, NEW k \in Posts
    PROVE  sent[k] \in Nat /\ lost[k] \in Nat
BY DEF PollTypes, PollDocuments

LEMMA InitPosts == Init => PostsInv
<1> SUFFICES ASSUME Init PROVE PostsInv
  OBVIOUS
<1>1. PollTypes
  BY InitPollTypes
<1>2. \A p \in Calls : call[p] = NoCall
  BY DEF Init
<1>3. TickIsTrue(NoCall) /\ OtherIsTrue(NoCall)
  BY NewDocs DEF TickIsTrue, OtherIsTrue, AtPoll
<1>4. \A k \in Posts : sent[k] = 0 /\ lost[k] = 0 /\ post[k].status = "none"
  BY NewDocs DEF Init
<1>5. TheirCallsAreTrue
  BY <1>2, <1>3 DEF TheirCallsAreTrue, Calls
<1> QED
  BY <1>4, <1>5 DEF PostsInv, PostsAreTrue, PostIsSentOnce, PostRecordIsTrue

LEMMA PostsQuiet ==
    ASSUME PollTypes, PostsInv, UNCHANGED <<post, sent, lost>>, NEW p \in Calls, NEW new,
           Turns(p, new), TrueTurn(p, new)
    PROVE  PostsInv'
<1>1. call'[p] = new /\ \A q \in Calls : q # p => call'[q] = call[q]
  BY CallAfter
<1>2. Ticks \subseteq Calls
  BY DEF Calls
<1>3. ASSUME NEW q \in Ticks PROVE TickIsTrue(call[q])'
  <2>1. TickIsTrue(call'[q])
    BY <1>1, <1>2 DEF PostsInv, TheirCallsAreTrue, TrueTurn
  <2>2. PICK c : c = call'[q]
    OBVIOUS
  <2>3. TickIsTrue(c)'
    BY <2>1, <2>2 DEF TickIsTrue, AtPoll
  <2> QED BY <2>2, <2>3 DEF TickIsTrue, AtPoll
<1>4. ASSUME NEW q \in Calls \ Ticks PROVE OtherIsTrue(call[q])'
  <2>1. OtherIsTrue(call'[q])
    BY <1>1 DEF PostsInv, TheirCallsAreTrue, TrueTurn
  <2> QED BY <2>1 DEF OtherIsTrue, AtPoll
<1>5. ASSUME NEW k \in Posts, post[k].status = "pending"
      PROVE  sent[k] <= lost[k] \/ \E q \in Ticks : call'[q].post = k
  <2>1. CASE sent[k] <= lost[k]
    BY <2>1
  <2>2. CASE ~(sent[k] <= lost[k])
    <3>1. PICK q \in Ticks : call[q].post = k
      BY <1>5, <2>2 DEF PostsInv, PostsAreTrue, PostRecordIsTrue
    <3>2. k # NoPost
      BY NamesAssumption
    <3> QED BY <1>1, <1>2, <3>1, <3>2 DEF TrueTurn
  <2> QED BY <2>1, <2>2
<1>6. PostsAreTrue'
  BY <1>5 DEF PostsInv, PostsAreTrue, PostIsSentOnce, PostRecordIsTrue
<1>7. TheirCallsAreTrue'
  BY <1>3, <1>4 DEF TheirCallsAreTrue
<1> QED BY <1>6, <1>7 DEF PostsInv

(* A call that keeps its post, and what was so at the step before is so now. *)
AfterPush == {"save", "list", "carry", "write", "finish"}
Onward(p, new) ==
    /\ new.post = call[p].post /\ new.due = call[p].due
    /\ AtPoll(call[p])
    /\ AtPoll(new) \/ (new.pc = "post" /\ call[p].post # NoPost)
    /\ new.pc \notin {"push", "event"}
    /\ new.pc \in AfterPush \/ new.result = "sent" => call[p].pc \in AfterPush

LEMMA TurnOn ==
    ASSUME PollTypes, PostsInv, NEW p \in Calls, NEW new, Onward(p, new)
    PROVE  TrueTurn(p, new)
<1>1. CASE p \in Ticks
  <2>1. TickIsTrue(call[p])
    BY <1>1 DEF PostsInv, TheirCallsAreTrue
  <2>2. TickIsTrue(new)
    BY <2>1 DEF TickIsTrue, AtPoll, Onward, AfterPush
  <2> QED BY <1>1, <2>2 DEF TrueTurn, Onward
<1>2. CASE p \notin Ticks
  BY <1>2 DEF PostsInv, TheirCallsAreTrue, TrueTurn, OtherIsTrue, AtPoll, Onward
<1> QED BY <1>1, <1>2

LEMMA TurnIdle ==
    ASSUME PollTypes, PostsInv, NEW p \in Calls, p \in Ticks => call[p].post = NoPost
    PROVE  TrueTurn(p, NoCall)
BY NewDocs DEF TrueTurn, TickIsTrue, OtherIsTrue, AtPoll

LEMMA CarryPosts ==
    ASSUME PollTypes, PostsInv, NEW p \in Calls,
           SavePoll(p) \/ ListResponses(p) \/ SkipAnswered(p) \/ PickAnswer(p)
           \/ WriteAttendance(p) \/ EndCarrying(p) \/ Finish(p)
    PROVE  PostsInv'
<1>1. UNCHANGED <<post, sent, lost>>
  BY DEF SavePoll, ListResponses, SkipAnswered, PickAnswer, WriteAttendance, EndCarrying, Finish,
         documents, history
<1>2. call[p].pc \in AfterPush /\ AtPoll(call[p])
  BY DEF SavePoll, ListResponses, SkipAnswered, PickAnswer, WriteAttendance, EndCarrying, Finish,
         At, AtPoll, AfterPush
<1>3. ASSUME NEW new, Turns(p, new), new.post = call[p].post, new.due = call[p].due,
             new.pc \in AfterPush \/ (new.pc = "post" /\ call[p].post # NoPost)
      PROVE  PostsInv'
  <2>1. Onward(p, new)
    BY <1>2, <1>3 DEF Onward, AfterPush, AtPoll
  <2> QED BY <1>1, <1>3, <2>1, TurnOn, PostsQuiet
<1>4. ASSUME NEW pc \in AfterPush, Goto(p, pc) PROVE PostsInv'
  <2>1. pc \in Steps
    BY <1>4 DEF AfterPush, Steps
  <2>2. PICK new : Turns(p, new) /\ new.pc = pc /\ new.post = call[p].post /\ new.due = call[p].due
    BY <1>4, <2>1, GoesTo
  <2> QED BY <1>3, <1>4, <2>2
<1>5. CASE SavePoll(p)
  <2>1. PICK pc \in AfterPush : Goto(p, pc)
    BY <1>5 DEF SavePoll, AfterPush
  <2> QED BY <1>4, <2>1
<1>6. CASE WriteAttendance(p)
  BY <1>4, <1>6 DEF WriteAttendance, AfterPush
<1>7. CASE EndCarrying(p)
  BY <1>4, <1>7 DEF EndCarrying, AfterPush
<1>8. CASE ListResponses(p) \/ SkipAnswered(p) \/ PickAnswer(p)
  <2>1. PICK new \in CallDocs :
          /\ Turns(p, new) /\ new.pc \in AfterPush
          /\ new.post = call[p].post /\ new.due = call[p].due
    <3>1. CASE ListResponses(p)
      BY <3>1, ListTurns DEF AfterPush
    <3>2. CASE SkipAnswered(p)
      BY <3>2, SkipTurns DEF AfterPush
    <3>3. CASE PickAnswer(p)
      BY <3>3, PickTurns DEF AfterPush
    <3> QED BY <1>8, <3>1, <3>2, <3>3
  <2> QED BY <1>3, <2>1
<1>9. CASE Finish(p)
  <2>1. End(p, "sent")
    BY <1>9 DEF Finish
  <2>2. CASE call[p].post = NoPost
    <3>1. Turns(p, NoCall) /\ TrueTurn(p, NoCall)
      BY <2>1, <2>2, Ends, TurnIdle
    <3> QED BY <1>1, <3>1, PostsQuiet
  <2>3. CASE call[p].post # NoPost
    <3>1. PICK new : /\ Turns(p, new) /\ new.pc = "post"
                     /\ new.post = call[p].post /\ new.due = call[p].due
      BY <2>1, <2>3, Ends
    <3> QED BY <1>3, <2>3, <3>1
  <2> QED BY <2>2, <2>3
<1> QED BY <1>5, <1>6, <1>7, <1>8, <1>9

(* Steps of calls that are not at the poll, and touch no post. *)
LEMMA AsidePosts ==
    ASSUME PollTypes, PostsInv, NEW p \in Calls,
           CheckTaken(p) \/ SaveResponse(p) \/ ReadSwitch(p) \/ EndTick(p)
    PROVE  PostsInv'
<1>1. UNCHANGED <<post, sent, lost>>
  BY DEF CheckTaken, SaveResponse, ReadSwitch, EndTick, documents, history
<1>2. call[p].pc \in {"taken", "answer", "switch", "posts"}
  BY DEF CheckTaken, SaveResponse, ReadSwitch, EndTick, At
<1>3. p \in Ticks => call[p].post = NoPost /\ TickIsTrue(call[p])
  BY <1>2 DEF PostsInv, TheirCallsAreTrue, TickIsTrue
<1>4. CASE Return(p)
  BY <1>1, <1>3, <1>4, Returns, TurnIdle, PostsQuiet
<1>5. ASSUME NEW pc \in {"answer", "posts"}, Goto(p, pc),
             pc = "posts" => call[p].pc = "switch"
      PROVE  PostsInv'
  <2>1. pc \in Steps
    BY <1>5 DEF Steps
  <2>2. PICK new : Turns(p, new) /\ new.pc = pc /\ new.post = call[p].post /\ new.due = call[p].due
    BY <1>5, <2>1, GoesTo
  <2>3. TrueTurn(p, new)
    <3>1. CASE p \in Ticks
      BY <1>3, <1>5, <2>2, <3>1 DEF TrueTurn, TickIsTrue, AtPoll
    <3>2. CASE p \notin Ticks
      BY <1>5, <2>2, <3>2 DEF PostsInv, TheirCallsAreTrue, TrueTurn, OtherIsTrue, AtPoll
    <3> QED BY <3>1, <3>2
  <2> QED BY <1>1, <2>2, <2>3, PostsQuiet
<1>6. CASE CheckTaken(p)
  BY <1>4, <1>5, <1>6 DEF CheckTaken
<1>7. CASE ReadSwitch(p)
  BY <1>4, <1>5, <1>7 DEF ReadSwitch, At
<1>8. CASE SaveResponse(p) \/ EndTick(p)
  BY <1>4, <1>8 DEF SaveResponse, EndTick
<1> QED BY <1>6, <1>7, <1>8

(* Calls that begin. *)
LEMMA BeginPosts ==
    ASSUME PollTypes, PostsInv, NEW p \in Calls \ Ticks,
           \/ \E op \in Operations, c \in Candidates \cup {NoCandidate} : Operate(p, op, c)
           \/ \E k \in Posts : cancel_scheduled_post(p, k)
           \/ p \in Users /\ \E m \in Members \cup {NoMember}, sheet \in Sheets : PutResponse(p, m, sheet)
    PROVE  PostsInv'
<1>1. UNCHANGED <<post, sent, lost>>
  BY DEF Operate, cancel_scheduled_post, PutResponse, documents, history
<1>2. ASSUME NEW new, Turns(p, new), OtherIsTrue(new) PROVE PostsInv'
  BY <1>1, <1>2, PostsQuiet DEF TrueTurn
<1>3. ASSUME NEW op \in Operations, NEW c \in Candidates \cup {NoCandidate}, Operate(p, op, c)
      PROVE  PostsInv'
  <2>1. PICK new \in CallDocs : Turns(p, new) /\ new.pc = FirstStep(op) /\ new.post = NoCall.post
    BY <1>3, OperateTurns
  <2>2. OtherIsTrue(new)
    BY <2>1, FirstSteps, NewDocs DEF OtherIsTrue, AtPoll
  <2> QED BY <1>2, <2>1, <2>2
<1>4. ASSUME NEW k \in Posts, cancel_scheduled_post(p, k) PROVE PostsInv'
  BY <1>2, <1>4, CancelTurns DEF OtherIsTrue, AtPoll
<1>5. ASSUME p \in Users, NEW m \in Members \cup {NoMember}, NEW sheet \in Sheets,
             PutResponse(p, m, sheet)
      PROVE  PostsInv'
  BY <1>2, <1>5, PutTurns DEF OtherIsTrue, AtPoll
<1> QED BY <1>3, <1>4, <1>5

LEMMA ListDuePosts ==
    ASSUME PollTypes, PostsInv, OneTick, NEW p \in Ticks, ListDue(p)
    PROVE  PostsInv'
<1>1. PICK new \in CallDocs : /\ p \in Calls /\ Turns(p, new) /\ new.pc = "switch"
                              /\ new.due = {k \in Posts : post[k].status = "pending"}
                              /\ new.post = NoCall.post
  BY ListDueTurns DEF Calls
<1>2. UNCHANGED <<post, sent, lost>> /\ call[p].pc = "idle"
  BY DEF ListDue, documents, history, At
<1>3. call[p].post = NoPost
  BY <1>2 DEF PostsInv, TheirCallsAreTrue, TickIsTrue
<1>4. ASSUME NEW k \in Posts, post[k].status = "pending" PROVE sent[k] <= lost[k]
  <2>1. sent[k] <= lost[k] \/ \E q \in Ticks : call[q].post = k
    BY <1>4 DEF PostsInv, PostsAreTrue, PostRecordIsTrue
  <2> QED BY <1>3, <2>1, NamesAssumption DEF OneTick
<1>5. \A k \in new.due : k \in Posts /\ post[k].status # "none" /\ new.post # k
  BY <1>1, NewDocs, NamesAssumption
<1>6. TickIsTrue(new)
  BY <1>1, <1>4, <1>5, NewDocs DEF TickIsTrue, AtPoll
<1> QED BY <1>1, <1>2, <1>3, <1>6, PostsQuiet DEF TrueTurn

LEMMA TakePosts ==
    ASSUME PollTypes, PostsInv, NEW p \in Calls, TakePost(p)
    PROVE  PostsInv'
<1>1. PICK k \in Posts, new \in CallDocs :
        /\ k \in call[p].due
        /\ Turns(p, new) /\ new.due = call[p].due \ {k} /\ new.post = k
        /\ new.result = "failed" /\ new.op = post[k].op
        /\ new.pc = (IF Allowed(post[k].op) THEN FirstStep(post[k].op) ELSE "post")
  BY TakeTurns
<1>2. UNCHANGED <<post, sent, lost>> /\ call[p].pc = "posts"
  BY DEF TakePost, documents, history, At
<1>3. p \in Ticks
  BY <1>2 DEF PostsInv, TheirCallsAreTrue, OtherIsTrue
<1>4. TickIsTrue(call[p])
  BY <1>3 DEF PostsInv, TheirCallsAreTrue
<1>5. call[p].post = NoPost /\ post[k].status # "none" /\ sent[k] <= lost[k]
  BY <1>1, <1>2, <1>4 DEF TickIsTrue
<1>6. new.pc \in {"post", "event", "push"}
  <2>1. /\ post[k].op \in {"announce", "remind", "decide"} /\ post[k].op \in Operations
    BY Words DEF PollTypes, PollDocuments
  <2> QED BY <1>1, <2>1, FirstSteps
<1>7. TickIsTrue(new)
  BY <1>1, <1>4, <1>5, <1>6, NamesAssumption DEF TickIsTrue, AtPoll
<1> QED BY <1>1, <1>2, <1>3, <1>5, <1>7, PostsQuiet DEF TrueTurn

(* The record of the post at hand is saved; it never becomes a post to come. *)
StatusSet(k, status) ==
    /\ post' = [post EXCEPT ![k].status = status] /\ UNCHANGED <<sent, lost>>
    /\ status = "sent" => sent[k] > 0

LEMMA StatusPosts ==
    ASSUME PollTypes, PostsInv, NEW p \in Calls, NEW k \in Posts, call[p].post = k,
           NEW status \in {"sent", "failed", "cancelled"}, StatusSet(k, status),
           NEW new, Turns(p, new), IF p \in Ticks THEN TickIsTrue(new) ELSE OtherIsTrue(new)
    PROVE  PostsInv'
<1>1. call'[p] = new /\ \A q \in Calls : q # p => call'[q] = call[q]
  BY CallAfter
<1>2. Ticks \subseteq Calls
  BY DEF Calls
<1>3. \A j \in Posts : post'[j].status = IF j = k THEN status ELSE post[j].status
  <2>1. post' = [post EXCEPT ![k].status = status]
    BY DEF StatusSet
  <2>2. status \in {"none", "pending", "sent", "failed", "cancelled"}
    OBVIOUS
  <2>3. OnlyStatus(k, status)
    BY <2>1, <2>2, PostIsTyped
  <2> QED BY <2>3 DEF OnlyStatus
<1>4. \A j \in Posts : post[j].status # "none" => post'[j].status # "none"
  BY <1>3
<1>5. ASSUME NEW q \in Ticks PROVE TickIsTrue(call[q])'
  <2>1. PICK c : c = call'[q]
    OBVIOUS
  <2>2. TickIsTrue(c) /\ c \in CallDocs
    <3>1. call' \in [Calls -> CallDocs]
      BY CallAfter
    <3> QED BY <1>1, <1>2, <2>1, <3>1 DEF PostsInv, TheirCallsAreTrue
  <2>3. c.due \subseteq Posts /\ c.post \in Posts \cup {NoPost}
    BY <2>2 DEF CallDocs
  <2>4. TickIsTrue(c)'
    BY <1>4, <2>2, <2>3 DEF TickIsTrue, AtPoll, StatusSet
  <2> QED BY <2>1, <2>4 DEF TickIsTrue, AtPoll
<1>6. ASSUME NEW q \in Calls \ Ticks PROVE OtherIsTrue(call[q])'
  <2>1. OtherIsTrue(call'[q])
    BY <1>1 DEF PostsInv, TheirCallsAreTrue
  <2> QED BY <2>1 DEF OtherIsTrue, AtPoll
<1>7. PostIsSentOnce'
  BY DEF PostsInv, PostsAreTrue, PostIsSentOnce, StatusSet
<1>8. ASSUME NEW j \in Posts, post'[j].status = "sent" PROVE sent'[j] > 0
  BY <1>3, <1>8 DEF PostsInv, PostsAreTrue, PostRecordIsTrue, StatusSet
<1>9. ASSUME NEW j \in Posts, post'[j].status = "pending"
      PROVE  sent'[j] <= lost'[j] \/ \E q \in Ticks : call'[q].post = j
  <2>1. j # k /\ post[j].status = "pending"
    BY <1>3, <1>9
  <2>2. sent[j] <= lost[j] \/ \E q \in Ticks : call[q].post = j
    BY <2>1 DEF PostsInv, PostsAreTrue, PostRecordIsTrue
  <2> QED BY <1>1, <1>2, <2>1, <2>2 DEF StatusSet
<1>10. \A j \in Posts : post'[j].status = "none" => sent'[j] = 0
  BY <1>3 DEF PostsInv, StatusSet
<1> QED
  BY <1>5, <1>6, <1>7, <1>8, <1>9, <1>10
  DEF PostsInv, TheirCallsAreTrue, PostsAreTrue, PostRecordIsTrue

LEMMA SavePostPosts ==
    ASSUME PollTypes, PostsInv, NEW p \in Calls, SavePost(p)
    PROVE  PostsInv'
<1>1. PICK new \in CallDocs : /\ Turns(p, new) /\ new.pc = "posts" /\ new.post = NoPost
                              /\ new.due = call[p].due
  BY SavePostTurns
<1>2. call[p].pc = "post" /\ p \in Ticks
  BY DEF SavePost, At, PostsInv, TheirCallsAreTrue, OtherIsTrue
<1>3. TickIsTrue(call[p])
  BY <1>2 DEF PostsInv, TheirCallsAreTrue
<1>4. call[p].post \in Posts
  BY <1>2, <1>3, CallIs DEF TickIsTrue
<1>5. PICK status \in {"sent", "failed", "cancelled"} : status = call[p].result
  BY CallIs
<1>6. StatusSet(call[p].post, status)
  BY <1>2, <1>3, <1>5 DEF StatusSet, SavePost, history, TickIsTrue
<1>7. TickIsTrue(new)
  <2>1. \A k \in new.due : new.post # k
    BY <1>1, NamesAssumption DEF CallDocs
  <2> QED BY <1>1, <1>3, <2>1 DEF TickIsTrue, AtPoll
<1> QED BY <1>1, <1>2, <1>4, <1>6, <1>7, StatusPosts

LEMMA CancelledPosts ==
    ASSUME PollTypes, PostsInv, NEW p \in Calls, SaveCancellation(p)
    PROVE  PostsInv'
<1>1. Turns(p, NoCall) /\ TickIsTrue(NoCall) /\ OtherIsTrue(NoCall)
  BY Returns, NewDocs DEF SaveCancellation, TickIsTrue, OtherIsTrue, AtPoll
<1>2. call[p].post \in Posts
  BY CallIs DEF Fits, SaveCancellation, At
<1>3. StatusSet(call[p].post, "cancelled")
  BY DEF StatusSet, SaveCancellation, history
<1> QED BY <1>1, <1>2, <1>3, StatusPosts

LEMMA SchedulePosts ==
    ASSUME PollTypes, PostsInv, NEW k \in Posts, NEW op \in Operations,
           NEW c \in Candidates \cup {NoCandidate}, create_scheduled_post(k, op, c)
    PROVE  PostsInv'
<1>1. /\ \A j \in Posts : j # k => post'[j] = post[j]
      /\ post'[k].status = "pending"
  BY ScheduleTyped
<1>2. post[k].status = "none" /\ UNCHANGED <<call, sent, lost>>
  BY DEF create_scheduled_post, history
<1>3. sent[k] <= lost[k] /\ sent[k] = 0
  BY <1>2, Counters DEF PostsInv
<1>4. \A j \in Posts : post[j].status # "none" => post'[j].status # "none"
  BY <1>1
<1>5. ASSUME NEW q \in Ticks PROVE TickIsTrue(call[q])'
  <2>1. TickIsTrue(call[q]) /\ q \in Calls
    BY DEF PostsInv, TheirCallsAreTrue, Calls
  <2>2. call[q].due \subseteq Posts /\ call[q].post \in Posts \cup {NoPost}
    BY <2>1, CallIs
  <2> QED BY <1>2, <1>4, <2>1, <2>2 DEF TickIsTrue, AtPoll
<1>6. (\A q \in Calls \ Ticks : OtherIsTrue(call[q]))'
  BY <1>2 DEF PostsInv, TheirCallsAreTrue, OtherIsTrue, AtPoll
<1>7. PostsAreTrue'
  BY <1>1, <1>2, <1>3 DEF PostsInv, PostsAreTrue, PostIsSentOnce, PostRecordIsTrue
<1>8. \A j \in Posts : post'[j].status = "none" => sent'[j] = 0
  BY <1>1, <1>2 DEF PostsInv
<1> QED BY <1>5, <1>6, <1>7, <1>8 DEF PostsInv, TheirCallsAreTrue

(* A post is carried out. *)
LEMMA CountPosts ==
    ASSUME PollTypes, PostsInv, OneTick, NEW p \in Calls, NEW new, Turns(p, new),
           call[p].pc \in {"push", "event"}, sent' = CountSent(p, sent), UNCHANGED <<post, lost>>,
           new.post = call[p].post, new.due = call[p].due,
           new.pc \in {"save", "post"}, new.pc = "post" => call[p].post # NoPost
    PROVE  PostsInv'
<1>1. call'[p] = new /\ \A q \in Calls : q # p => call'[q] = call[q]
  BY CallAfter
<1>2. Ticks \subseteq Calls /\ AtPoll(call[p])
  BY DEF Calls, AtPoll
<1>3. CASE call[p].post = NoPost
  <2>1. p \notin Ticks
    BY <1>2, <1>3 DEF PostsInv, TheirCallsAreTrue, TickIsTrue
  <2>2. TrueTurn(p, new)
    BY <1>3, <2>1 DEF TrueTurn, OtherIsTrue, AtPoll
  <2>3. UNCHANGED <<post, sent, lost>>
    BY <1>3 DEF CountSent
  <2> QED BY <2>2, <2>3, PostsQuiet
<1>4. CASE call[p].post # NoPost
  <2>1. p \in Ticks
    BY <1>2, <1>4 DEF PostsInv, TheirCallsAreTrue, OtherIsTrue
  <2>2. PICK k \in Posts : k = call[p].post
    BY <1>4, CallIs
  <2>3. TickIsTrue(call[p])
    BY <2>1 DEF PostsInv, TheirCallsAreTrue
  <2>4. sent[k] <= lost[k] /\ post[k].status # "none"
    BY <1>4, <2>2, <2>3 DEF TickIsTrue
  <2>5. sent \in [Posts -> Nat] /\ lost \in [Posts -> Nat]
    BY DEF PollTypes, PollDocuments
  <2>6. \A j \in Posts : sent'[j] = IF j = k THEN sent[k] + 1 ELSE sent[j]
    BY <1>4, <2>2, <2>5 DEF CountSent
  <2>7. sent'[k] > 0 /\ sent'[k] <= 1 + lost[k] /\ sent[k] \in Nat /\ lost[k] \in Nat
    BY <2>4, <2>5, <2>6
  <2>8. TickIsTrue(call[p])'
    <3>1. \A j \in new.due : /\ post[j].status # "none" /\ sent'[j] <= lost[j] /\ new.post # j
      <4>1. call[p].due \subseteq Posts
        BY CallIs
      <4> QED BY <2>2, <2>3, <2>6, <4>1 DEF TickIsTrue
    <3>2. TickIsTrue(new)'
      BY <1>4, <2>2, <2>4, <2>7, <3>1 DEF TickIsTrue, AtPoll
    <3> QED BY <1>1, <3>2 DEF TickIsTrue, AtPoll
  <2>9. \A q \in Ticks : q = p
    BY <2>1 DEF OneTick
  <2>10. ASSUME NEW q \in Calls \ Ticks PROVE OtherIsTrue(call[q])'
    BY <1>1, <2>1 DEF PostsInv, TheirCallsAreTrue, OtherIsTrue, AtPoll
  <2>11. PostIsSentOnce'
    BY <2>6, <2>7 DEF PostsInv, PostsAreTrue, PostIsSentOnce
  <2>12. ASSUME NEW j \in Posts, post[j].status = "sent" PROVE sent'[j] > 0
    BY <2>6, <2>7, <2>12 DEF PostsInv, PostsAreTrue, PostRecordIsTrue
  <2>13. ASSUME NEW j \in Posts, post[j].status = "pending"
         PROVE  sent'[j] <= lost[j] \/ \E q \in Ticks : call'[q].post = j
    <3>1. CASE j = k
      BY <1>1, <2>1, <2>2, <3>1
    <3>2. CASE j # k
      <4>1. sent[j] <= lost[j]
        BY <2>2, <2>9, <2>13, <3>2 DEF PostsInv, PostsAreTrue, PostRecordIsTrue
      <4> QED BY <2>6, <3>2, <4>1
    <3> QED BY <3>1, <3>2
  <2>14. \A j \in Posts : post[j].status = "none" => sent'[j] = 0
    BY <2>4, <2>6 DEF PostsInv
  <2>15. TheirCallsAreTrue'
    BY <2>8, <2>9, <2>10 DEF TheirCallsAreTrue
  <2> QED
    BY <2>11, <2>12, <2>13, <2>14, <2>15
    DEF PostsInv, PostsAreTrue, PostRecordIsTrue
<1> QED BY <1>3, <1>4

LEMMA SendPosts ==
    ASSUME PollTypes, PostsInv, OneTick, NEW p \in Calls, Push(p) \/ CreateEvent(p)
    PROVE  PostsInv'
<1>1. /\ call[p].pc \in {"push", "event"} /\ sent' = CountSent(p, sent) /\ UNCHANGED <<post, lost>>
  BY DEF Push, CreateEvent, At, documents
<1>2. PICK new : /\ Turns(p, new) /\ new.post = call[p].post /\ new.due = call[p].due
                 /\ new.pc = "save"
  <2>1. CASE Push(p)
    BY <2>1, GoesTo, Words DEF Push
  <2>2. CASE CreateEvent(p)
    BY <2>2, CreateTurns
  <2> QED BY <2>1, <2>2
<1> QED BY <1>1, <1>2, CountPosts

LEMMA FailPosts ==
    ASSUME PollTypes, PostsInv, OneTick, NEW p \in Calls, OperationFails(p)
    PROVE  PostsInv'
<1>1. UNCHANGED <<post, lost>> /\ End(p, "failed") /\ AtPoll(call[p])
  BY DEF OperationFails, documents, OnPoll, AtPoll
<1>2. CASE call[p].post = NoPost
  <2>1. sent' = sent
    BY <1>2 DEF OperationFails, CountSent
  <2>2. Turns(p, NoCall) /\ TrueTurn(p, NoCall)
    BY <1>1, <1>2, Ends, TurnIdle
  <2> QED BY <1>1, <2>1, <2>2, PostsQuiet
<1>3. CASE call[p].post # NoPost
  <2>1. PICK new : /\ Turns(p, new) /\ new.pc = "post" /\ new.result = "failed"
                   /\ new.post = call[p].post /\ new.due = call[p].due
    BY <1>1, <1>3, Ends
  <2>2. CASE sent' = sent
    <3>1. Onward(p, new)
      BY <1>1, <1>3, <2>1 DEF Onward, AtPoll, AfterPush
    <3> QED BY <1>1, <2>1, <2>2, <3>1, TurnOn, PostsQuiet
  <2>3. CASE At(p, "push") /\ sent' = CountSent(p, sent)
    <3>1. call[p].pc \in {"push", "event"}
      BY <2>3 DEF At
    <3> QED BY <1>1, <1>3, <2>1, <2>3, <3>1, CountPosts
  <2> QED BY <2>2, <2>3 DEF OperationFails
<1> QED BY <1>2, <1>3

(* A tick that dies may have sent what its post says is still to come. *)
LEMMA DiePosts ==
    ASSUME PollTypes, PostsInv, OneTick, NEW p \in Calls, Die(p)
    PROVE  PostsInv'
<1>1. Turns(p, NoCall) /\ UNCHANGED <<post, sent>>
  BY Returns DEF Die, documents
<1>2. CASE p \in Ticks => call[p].post = NoPost
  <2>1. lost' = lost
    BY <1>2 DEF Die, CountSent
  <2> QED BY <1>1, <1>2, <2>1, TurnIdle, PostsQuiet
<1>3. CASE p \in Ticks /\ call[p].post # NoPost
  <2>1. PICK k \in Posts : k = call[p].post
    BY <1>3, CallIs
  <2>2. sent \in [Posts -> Nat] /\ lost \in [Posts -> Nat]
    BY DEF PollTypes, PollDocuments
  <2>3. \A j \in Posts : lost'[j] = IF j = k THEN lost[k] + 1 ELSE lost[j]
    BY <1>3, <2>1, <2>2 DEF Die, CountSent
  <2>4. call'[p] = NoCall /\ \A q \in Calls : q # p => call'[q] = call[q]
    BY <1>1, CallAfter
  <2>5. \A q \in Ticks : q = p
    BY <1>3 DEF OneTick
  <2>6. TickIsTrue(call[p])'
    BY <2>4, NewDocs DEF TickIsTrue, AtPoll
  <2>7. ASSUME NEW q \in Calls \ Ticks PROVE OtherIsTrue(call[q])'
    BY <1>3, <2>4 DEF PostsInv, TheirCallsAreTrue, OtherIsTrue, AtPoll
  <2>8. \A j \in Posts : sent[j] <= 1 + lost[j]
    BY DEF PostsInv, PostsAreTrue, PostIsSentOnce
  <2>9. PostIsSentOnce'
    BY <1>1, <2>2, <2>3, <2>8 DEF PostIsSentOnce
  <2>10. ASSUME NEW j \in Posts, post[j].status = "pending" PROVE sent[j] <= lost'[j]
    <3>1. CASE j = k
      BY <2>2, <2>3, <2>8, <3>1
    <3>2. CASE j # k
      <4>1. sent[j] <= lost[j]
        BY <2>1, <2>5, <2>10, <3>2 DEF PostsInv, PostsAreTrue, PostRecordIsTrue
      <4> QED BY <2>3, <3>2, <4>1
    <3> QED BY <3>1, <3>2
  <2>11. PostRecordIsTrue'
    BY <1>1, <2>10 DEF PostsInv, PostsAreTrue, PostRecordIsTrue
  <2>12. TheirCallsAreTrue'
    BY <2>5, <2>6, <2>7 DEF TheirCallsAreTrue
  <2> QED BY <1>1, <2>9, <2>11, <2>12 DEF PostsInv, PostsAreTrue
<1> QED BY <1>2, <1>3

LEMMA StillPosts ==
    ASSUME PollTypes, PostsInv, UNCHANGED <<call, post, sent, lost>>
    PROVE  PostsInv'
BY DEF PostsInv, TheirCallsAreTrue, TickIsTrue, OtherIsTrue, AtPoll, PostsAreTrue, PostIsSentOnce,
       PostRecordIsTrue

LEMMA PostsStep ==
    ASSUME PollTypes, PostsInv, OneTick, [Next]_vars
    PROVE  PostsInv'
<1>1. ASSUME NEW p \in Screens, NEW op \in Operations, NEW c \in Candidates \cup {NoCandidate},
             Operate(p, op, c)
      PROVE  PostsInv'
  <2>1. p \in Calls \ Ticks
    BY CallsAssumption DEF Calls
  <2> QED BY <1>1, <2>1, BeginPosts
<1>2. ASSUME NEW p \in Screens, NEW k \in Posts, cancel_scheduled_post(p, k) PROVE PostsInv'
  <2>1. p \in Calls \ Ticks
    BY CallsAssumption DEF Calls
  <2> QED BY <1>2, <2>1, BeginPosts
<1>3. ASSUME NEW k \in Posts, NEW op \in Operations, NEW c \in Candidates \cup {NoCandidate},
             create_scheduled_post(k, op, c)
      PROVE  PostsInv'
  BY <1>3, SchedulePosts
<1>4. ASSUME NEW p \in Ticks, ListDue(p) PROVE PostsInv'
  BY <1>4, ListDuePosts
<1>5. ASSUME NEW u \in Users, NEW m \in Members \cup {NoMember}, NEW sheet \in Sheets,
             PutResponse(u, m, sheet)
      PROVE  PostsInv'
  <2>1. u \in Calls \ Ticks
    BY CallsAssumption DEF Calls
  <2> QED BY <1>5, <2>1, BeginPosts
<1>6. ASSUME NEW k \in DOMAIN events, NEW m \in Members, Attend(k, m) PROVE PostsInv'
  BY <1>6, StillPosts DEF Attend, history
<1>7. ASSUME NEW p \in Calls, Proceed(p) PROVE PostsInv'
  <2>1. CASE Push(p) \/ CreateEvent(p)
    BY <2>1, SendPosts
  <2>2. CASE OperationFails(p)
    BY <2>2, FailPosts
  <2>3. CASE SavePoll(p) \/ ListResponses(p) \/ SkipAnswered(p) \/ PickAnswer(p)
             \/ WriteAttendance(p) \/ EndCarrying(p) \/ Finish(p)
    BY <2>3, CarryPosts
  <2>4. CASE CheckTaken(p) \/ SaveResponse(p) \/ ReadSwitch(p) \/ EndTick(p)
    BY <2>4, AsidePosts
  <2>5. CASE SaveCancellation(p) \/ TakePost(p) \/ SavePost(p)
    BY <2>5, CancelledPosts, TakePosts, SavePostPosts
  <2> QED BY <1>7, <2>1, <2>2, <2>3, <2>4, <2>5 DEF Proceed
<1>8. ASSUME NEW p \in Calls, Die(p) PROVE PostsInv'
  BY <1>8, DiePosts
<1>9. CASE PutSettings \/ UNCHANGED vars
  BY <1>9, StillPosts DEF PutSettings, vars, documents, history
<1> QED BY <1>1, <1>2, <1>3, <1>4, <1>5, <1>6, <1>7, <1>8, <1>9 DEF Next

(* When one tick runs at a time, a scheduled post is carried out once, but for *)
(* ticks that die at it, and its record says so, whatever screens cancel or do *)
(* to the poll meanwhile (run_scheduled_posts, cancel_scheduled_post).         *)
THEOREM PostsTheorem == ASSUME OneTick PROVE Spec => []PostsAreTrue
<1>1. Init => PostsInv
  BY InitPosts
<1>2. PollTypes /\ PostsInv /\ [Next]_vars => PostsInv'
  BY PostsStep
<1>3. PostsInv => PostsAreTrue
  BY DEF PostsInv
<1> QED BY <1>1, <1>2, <1>3, PollTypesHold, PTL DEF Spec
=============================================================================
