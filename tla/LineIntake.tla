------------------------------ MODULE LineIntake ------------------------------
(* How an event of LINE comes to be answered: the webhook (main.line_webhook)  *)
(* publishes it to a topic and answers LINE at once, a subscription pushes it  *)
(* to main.pubsub_line_reply, and where publishing fails, or the deployment is *)
(* set back by its switch LINE_ASYNC_REPLY, the webhook handles it itself.     *)
(* Whoever handles an event first claims it in Firestore (dispatch_event).     *)
(*                                                                             *)
(* LINE sends a body again that was not answered in time, Pub/Sub a message    *)
(* that was not acknowledged, and calls of both kinds overlap.                 *)
EXTENDS Naturals, FiniteSets

CONSTANTS
    Events,       \* webhookEventId: naturals, in the order of their body
    Bodies,       \* the webhook requests of LINE, each a set of events
    Hooks,        \* calls of /line/webhook
    Pushes,       \* calls of /pubsub/line-reply
    MaxAttempts,  \* deliveries of a message before it becomes a dead letter
    MaxSends,     \* bound: times LINE sends a body
    MaxErrors,    \* bound: errors of Firestore, Pub/Sub and LINE, and deaths
    MaxDeploys    \* bound: times the switch is changed

ASSUME EventsAssumption == Events \subseteq Nat /\ Bodies \subseteq SUBSET Events
ASSUME CallsAssumption == Hooks \cap Pushes = {} /\ IsFiniteSet(Hooks \cup Pushes)
ASSUME BoundsAssumption ==
    /\ MaxAttempts \in Nat \ {0}
    /\ MaxSends \in Nat /\ MaxErrors \in Nat /\ MaxDeploys \in Nat

VARIABLES
    async,      \* LINE_ASYNC_REPLY of the revision that gets the requests
    topic,      \* unacknowledged messages, as <<event, number of the sending>>
    attempts,   \* attempts[x]: deliveries of message x so far
    claims,     \* lineEventClaims: events with a claim document
    call,       \* call[p]: where call p has come
    sends,      \* sends[b]: times LINE has sent body b
    answered,   \* bodies LINE got a 200 for
    handled,    \* history: handled[e]: times handle_event did its work for e
    unclaimed,  \* history: unclaimed[e]: times e was handled without a claim
    abandoned,  \* history: events whose claim is kept by a call that failed
    ignored,    \* history: events acknowledged unread while the switch is off
    dead,       \* events of dead letters
    errors, deploys

queueVars == <<topic, attempts, dead>>
lineVars == <<sends, answered>>
history == <<handled, unclaimed, abandoned>>
boundVars == <<errors, deploys>>
vars == <<async, queueVars, claims, call, lineVars, history, ignored, boundVars>>

Calls == Hooks \cup Pushes
Messages == Events \X (1..MaxSends)

NoCall == [pc |-> "idle", body |-> {}, todo |-> {}, n |-> 0, async |-> FALSE]
Locals == [pc : {"idle", "publish", "claim", "handle"}, body : SUBSET Events,
           todo : SUBSET Events, n : 0..MaxSends, async : BOOLEAN]

TypeOK ==
    /\ async \in BOOLEAN
    /\ topic \subseteq Messages
    /\ attempts \in [Messages -> 0..MaxAttempts]
    /\ claims \subseteq Events
    /\ call \in [Calls -> Locals]
    /\ \A p \in Calls : call[p].pc = "handle" => call[p].todo # {}
    /\ sends \in [Bodies -> 0..MaxSends]
    /\ answered \subseteq Bodies
    /\ handled \in [Events -> Nat] /\ unclaimed \in [Events -> Nat]
    /\ abandoned \subseteq Events /\ ignored \subseteq Events /\ dead \subseteq Events
    /\ errors \in Nat /\ deploys \in Nat

Init ==
    /\ async \in BOOLEAN
    /\ topic = {} /\ attempts = [x \in Messages |-> 0] /\ dead = {}
    /\ claims = {}
    /\ call = [p \in Calls |-> NoCall]
    /\ sends = [b \in Bodies |-> 0] /\ answered = {}
    /\ handled = [e \in Events |-> 0] /\ unclaimed = [e \in Events |-> 0]
    /\ abandoned = {} /\ ignored = {}
    /\ errors = 0 /\ deploys = 0
-----------------------------------------------------------------------------
At(p, pc) == call[p].pc = pc
Goto(p, pc) == call' = [call EXCEPT ![p].pc = pc]
Return(p) == call' = [call EXCEPT ![p] = NoCall]

(* the event call p is at; a body is worked off in its order *)
IsNext(p, e) == e \in call[p].todo /\ \A d \in call[p].todo : e <= d
Done(p, e) ==
    call' = [call EXCEPT ![p].pc = "claim", ![p].todo = @ \ {e}]

MessagesOf(p) == call[p].body \X {call[p].n}

Fail == errors < MaxErrors /\ errors' = errors + 1 /\ UNCHANGED deploys
-----------------------------------------------------------------------------
(* /line/webhook *)

Receive(p, b) ==
    /\ At(p, "idle") /\ sends[b] < MaxSends
    /\ sends' = [sends EXCEPT ![b] = @ + 1]
    /\ call' = [call EXCEPT ![p] = [pc |-> "publish", body |-> b, todo |-> b,
                                    n |-> sends[b] + 1, async |-> async]]
    /\ UNCHANGED <<async, queueVars, claims, answered, history, ignored, boundVars>>

(* mutant: the messages are left to the subscription whatever became of them *)
PublishFailsUnnoticed(p) ==
    /\ At(p, "publish")
    /\ topic' \in {topic, topic \cup MessagesOf(p)}
    /\ IF call[p].async THEN Return(p) /\ answered' = answered \cup {call[p].body}
       ELSE Goto(p, "claim") /\ UNCHANGED answered
    /\ Fail
    /\ UNCHANGED <<async, attempts, dead, claims, sends, history, ignored>>

(* all events of the body in one request; with the switch on that is all *)
Publish(p) ==
    /\ At(p, "publish")
    /\ topic' = topic \cup MessagesOf(p)
    /\ IF call[p].async THEN Return(p) /\ answered' = answered \cup {call[p].body}
       ELSE Goto(p, "claim") /\ UNCHANGED answered
    /\ UNCHANGED <<async, attempts, dead, claims, sends, history, ignored, boundVars>>

(* lake.publish returns False; the messages may be in the topic all the same *)
PublishFails(p) ==
    /\ At(p, "publish")
    /\ topic' \in {topic, topic \cup MessagesOf(p)}
    /\ Goto(p, "claim")
    /\ Fail
    /\ UNCHANGED <<async, attempts, dead, claims, lineVars, history, ignored>>

(* every event of the body was looked at: 200 *)
AnswerLine(p) ==
    /\ p \in Hooks /\ At(p, "claim") /\ call[p].todo = {}
    /\ answered' = answered \cup {call[p].body}
    /\ Return(p)
    /\ UNCHANGED <<async, queueVars, claims, sends, history, ignored, boundVars>>
-----------------------------------------------------------------------------
(* /pubsub/line-reply *)

(* mutant: one delivery, and neither a second nor the dead letter topic *)
DeliverOnce(p, x) ==
    /\ async /\ At(p, "idle")
    /\ x \in topic /\ attempts[x] = 0
    /\ attempts' = [attempts EXCEPT ![x] = @ + 1]
    /\ call' = [call EXCEPT ![p] = [pc |-> "claim", body |-> {x[1]}, todo |-> {x[1]},
                                    n |-> x[2], async |-> TRUE]]
    /\ UNCHANGED <<async, topic, dead, claims, lineVars, history, ignored, boundVars>>

(* a message is delivered again as long as it is not acknowledged, also while  *)
(* an earlier delivery is being worked at                                      *)
Deliver(p, x) ==
    /\ async /\ At(p, "idle")
    /\ x \in topic /\ attempts[x] < MaxAttempts
    /\ attempts' = [attempts EXCEPT ![x] = @ + 1]
    /\ call' = [call EXCEPT ![p] = [pc |-> "claim", body |-> {x[1]}, todo |-> {x[1]},
                                    n |-> x[2], async |-> TRUE]]
    /\ UNCHANGED <<async, topic, dead, claims, lineVars, history, ignored, boundVars>>

(* with the switch off the message is acknowledged and not looked at *)
Ignore(x) ==
    /\ ~async
    /\ x \in topic
    /\ topic' = topic \ {x}
    /\ ignored' = ignored \cup {x[1]}
    /\ UNCHANGED <<async, attempts, dead, claims, call, lineVars, history, boundVars>>

Acknowledge(p) ==
    /\ p \in Pushes /\ At(p, "claim") /\ call[p].todo = {}
    /\ topic' = topic \ MessagesOf(p)
    /\ Return(p)
    /\ UNCHANGED <<async, attempts, dead, claims, lineVars, history, ignored, boundVars>>

(* Pub/Sub gives up after --max-delivery-attempts *)
DeadLetter(x) ==
    /\ x \in topic /\ attempts[x] = MaxAttempts
    /\ \A p \in Pushes : x \notin MessagesOf(p)
    /\ topic' = topic \ {x}
    /\ dead' = dead \cup {x[1]}
    /\ UNCHANGED <<async, attempts, claims, call, lineVars, history, ignored, boundVars>>
-----------------------------------------------------------------------------
(* dispatch_event *)

(* mutant: the claim document is set, not created *)
OverwriteClaim(p) == \E e \in Events :
    /\ At(p, "claim") /\ IsNext(p, e)
    /\ claims' = claims \cup {e}
    /\ Goto(p, "handle")
    /\ UNCHANGED <<async, queueVars, lineVars, history, ignored, boundVars>>

(* create is atomic: of two calls one gets a Conflict *)
Claim(p) == \E e \in Events \ claims :
    /\ At(p, "claim") /\ IsNext(p, e)
    /\ claims' = claims \cup {e}
    /\ Goto(p, "handle")
    /\ UNCHANGED <<async, queueVars, lineVars, history, ignored, boundVars>>

SkipClaimed(p) == \E e \in claims :
    /\ At(p, "claim") /\ IsNext(p, e)
    /\ Done(p, e)
    /\ UNCHANGED <<async, queueVars, claims, lineVars, history, ignored, boundVars>>

(* Firestore raises, the document may have been created all the same: the      *)
(* webhook handles the event, the subscription is answered 500                 *)
ClaimFails(p) == \E e \in Events :
    /\ At(p, "claim") /\ IsNext(p, e)
    /\ claims' \in {claims, claims \cup {e}}
    /\ IF p \in Hooks
       THEN /\ Goto(p, "handle")
            /\ unclaimed' = IF claims' = claims THEN [unclaimed EXCEPT ![e] = @ + 1] ELSE unclaimed
            /\ UNCHANGED abandoned
       ELSE /\ Return(p)
            /\ abandoned' = IF claims' = claims THEN abandoned ELSE abandoned \cup {e}
            /\ UNCHANGED unclaimed
    /\ Fail
    /\ UNCHANGED <<async, queueVars, lineVars, handled, ignored>>

HandleEvent(p) == \E e \in Events :
    /\ At(p, "handle") /\ IsNext(p, e)
    /\ handled' = [handled EXCEPT ![e] = @ + 1]
    /\ Done(p, e)
    /\ UNCHANGED <<async, queueVars, claims, lineVars, unclaimed, abandoned, ignored, boundVars>>

(* handle_event raises, having replied or not: the exception ends here *)
HandleFails(p) == \E e \in Events :
    /\ At(p, "handle") /\ IsNext(p, e)
    /\ handled' \in {handled, [handled EXCEPT ![e] = @ + 1]}
    /\ abandoned' = abandoned \cup {e}
    /\ Done(p, e)
    /\ Fail
    /\ UNCHANGED <<async, queueVars, claims, lineVars, unclaimed, ignored>>

(* the instance dies: no 200 to LINE, no acknowledgement to Pub/Sub *)
Die(p) ==
    /\ ~At(p, "idle")
    /\ IF At(p, "handle")
       THEN \E e \in Events :
              /\ IsNext(p, e)
              /\ handled' \in {handled, [handled EXCEPT ![e] = @ + 1]}
              /\ abandoned' = abandoned \cup {e}
       ELSE UNCHANGED <<handled, abandoned>>
    /\ Return(p)
    /\ Fail
    /\ UNCHANGED <<async, queueVars, claims, lineVars, unclaimed, ignored>>

(* a new revision gets the requests from now on; calls under way end on the old *)
Deploy ==
    /\ deploys < MaxDeploys
    /\ async' = ~async
    /\ deploys' = deploys + 1
    /\ UNCHANGED <<queueVars, claims, call, lineVars, history, ignored, errors>>
-----------------------------------------------------------------------------
Proceed(p) ==
    \/ Publish(p) \/ PublishFails(p) \/ AnswerLine(p) \/ Acknowledge(p)
    \/ Claim(p) \/ SkipClaimed(p) \/ ClaimFails(p) \/ HandleEvent(p) \/ HandleFails(p)

Subscription(x) == (\E p \in Pushes : Deliver(p, x)) \/ Ignore(x) \/ DeadLetter(x)

Next ==
    \/ \E p \in Hooks, b \in Bodies : Receive(p, b)
    \/ \E x \in Messages : Subscription(x)
    \/ \E p \in Calls : Proceed(p) \/ Die(p)
    \/ Deploy

(* A call goes on or dies, and Pub/Sub does not leave a message lying about *)
Fairness ==
    /\ \A p \in Calls : WF_vars(Proceed(p))
    /\ \A x \in Messages : WF_vars(Subscription(x))

Spec == Init /\ [][Next]_vars /\ Fairness
-----------------------------------------------------------------------------
(* An event is handled once, however often LINE and Pub/Sub bring it and       *)
(* whoever handles it, but for the times the webhook handled it without being  *)
(* able to claim it (main.py:391-395).                                         *)
HandledOnce == \A e \in Events : handled[e] <= 1 + unclaimed[e]

(* What became of an event in the end *)
Settled(e) == handled[e] > 0 \/ e \in abandoned \/ e \in ignored \/ e \in dead

(* After the 200 LINE will not bring an event again, so somebody in the        *)
(* program or the topic must have it; it is let go only by a call that claimed *)
(* it and failed, by the switch, or as a dead letter (main.py:618-629).        *)
AnsweredIsNotForgotten == \A b \in answered : \A e \in b :
    \/ Settled(e)
    \/ \E x \in topic : x[1] = e
    \/ \E p \in Calls : e \in call[p].todo

(* What LINE got a 200 for is settled some time, whatever dies on the way      *)
(* (datalake-design.md, section 4.5).                                          *)
AnsweredIsSettled == \A b \in Bodies : \A e \in b :
    b \in answered ~> Settled(e)
=============================================================================
