-------------------------- MODULE LineIntake_proofs --------------------------
(* Proofs about the intake of events, for any events, requests, calls, number  *)
(* of deliveries and errors.                                                   *)
EXTENDS LineIntake, FiniteSetTheorems, TLAPS

(* What an update of some locals leaves of their type. *)
LEMMA LocalsUpdate ==
    ASSUME NEW r \in Locals
    PROVE  /\ r.body \in SUBSET Events /\ r.todo \in SUBSET Events
           /\ \A c \in {"claim", "handle"} :
                /\ [r EXCEPT !.pc = c] \in Locals
                /\ [r EXCEPT !.pc = c].pc = c
                /\ [r EXCEPT !.pc = c].body = r.body
                /\ [r EXCEPT !.pc = c].todo = r.todo
                /\ [r EXCEPT !.pc = c].n = r.n
           /\ \A e \in Events :
                /\ [r EXCEPT !.pc = "claim", !.todo = @ \ {e}] \in Locals
                /\ [r EXCEPT !.pc = "claim", !.todo = @ \ {e}].pc = "claim"
                /\ [r EXCEPT !.pc = "claim", !.todo = @ \ {e}].body = r.body
                /\ [r EXCEPT !.pc = "claim", !.todo = @ \ {e}].todo = r.todo \ {e}
                /\ [r EXCEPT !.pc = "claim", !.todo = @ \ {e}].n = r.n
BY DEF Locals

LEMMA NoCallType ==
    /\ NoCall \in Locals /\ NoCall.pc = "idle" /\ NoCall.body = {} /\ NoCall.todo = {}
BY BoundsAssumption DEF NoCall, Locals
-----------------------------------------------------------------------------
(* TypeOK is not inductive alone: that a call puts well-formed messages into   *)
(* the topic, and answers for a body that LINE sent, needs what it works at.   *)
AtWork(p, r) ==
    /\ r.pc = "handle" => r.todo # {}
    /\ r.pc = "publish" => p \in Hooks
    /\ r.pc # "idle" => r.n \in 1..MaxSends
    /\ r.pc # "idle" /\ p \in Hooks => r.body \in Bodies

CallsTyped == call \in [Calls -> Locals] /\ \A p \in Calls : AtWork(p, call[p])

TypeInv == TypeOK /\ CallsTyped

LEMMA TypeInit == Init => TypeInv
BY NoCallType, BoundsAssumption
   DEF Init, TypeInv, TypeOK, CallsTyped, AtWork, Messages

(* A step of one call keeps the types if its new locals are well formed. *)
LEMMA TypeOfCalls ==
    ASSUME TypeInv, NEW p \in Calls, NEW r \in Locals, AtWork(p, r),
           call' = [call EXCEPT ![p] = r]
    PROVE  CallsTyped'
BY DEF TypeInv, CallsTyped

(* The ways a call goes on *)
LEMMA Goes ==
    ASSUME TypeInv, NEW p \in Calls
    PROVE  /\ call[p] \in Locals /\ AtWork(p, call[p])
           /\ Goto(p, "claim") => call' = [call EXCEPT ![p] = [call[p] EXCEPT !.pc = "claim"]]
           /\ Goto(p, "handle") => call' = [call EXCEPT ![p] = [call[p] EXCEPT !.pc = "handle"]]
           /\ \A e \in Events :
                Done(p, e) => call' = [call EXCEPT ![p] =
                  [call[p] EXCEPT !.pc = "claim", !.todo = @ \ {e}]]
           /\ Return(p) => call' = [call EXCEPT ![p] = NoCall]
BY DEF TypeInv, CallsTyped, Goto, Done, Return

LEMMA TypeOfReturn ==
    ASSUME TypeInv, NEW p \in Calls, Return(p) PROVE CallsTyped'
BY Goes, NoCallType, TypeOfCalls DEF AtWork

LEMMA TypeOfClaim ==
    ASSUME TypeInv, NEW p \in Calls, call[p].pc # "idle", Goto(p, "claim") PROVE CallsTyped'
<1> DEFINE r == [call[p] EXCEPT !.pc = "claim"]
<1>1. r \in Locals /\ r.pc = "claim" /\ r.n = call[p].n /\ r.body = call[p].body
  BY Goes, LocalsUpdate
<1>2. AtWork(p, r)
  BY <1>1, Goes DEF AtWork
<1>3. call' = [call EXCEPT ![p] = r]
  BY Goes
<1> HIDE DEF r
<1> QED BY <1>1, <1>2, <1>3, TypeOfCalls

LEMMA TypeOfHandle ==
    ASSUME TypeInv, NEW p \in Calls, call[p].pc # "idle", call[p].todo # {}, Goto(p, "handle")
    PROVE  CallsTyped'
<1> DEFINE r == [call[p] EXCEPT !.pc = "handle"]
<1>1. /\ r \in Locals /\ r.pc = "handle" /\ r.n = call[p].n
      /\ r.body = call[p].body /\ r.todo = call[p].todo
  BY Goes, LocalsUpdate
<1>2. AtWork(p, r)
  BY <1>1, Goes DEF AtWork
<1>3. call' = [call EXCEPT ![p] = r]
  BY Goes
<1> HIDE DEF r
<1> QED BY <1>1, <1>2, <1>3, TypeOfCalls

LEMMA TypeOfDone ==
    ASSUME TypeInv, NEW p \in Calls, call[p].pc # "idle", NEW e \in Events, Done(p, e)
    PROVE  CallsTyped'
<1> DEFINE r == [call[p] EXCEPT !.pc = "claim", !.todo = @ \ {e}]
<1>1. r \in Locals /\ r.pc = "claim" /\ r.n = call[p].n /\ r.body = call[p].body
  <2>1. call[p] \in Locals
    BY Goes
  <2> QED BY <2>1, LocalsUpdate
<1>2. AtWork(p, r)
  BY <1>1, Goes DEF AtWork
<1>3. call' = [call EXCEPT ![p] = r]
  BY Goes
<1> HIDE DEF r
<1> QED BY <1>1, <1>2, <1>3, TypeOfCalls

LEMMA MessagesType ==
    ASSUME TypeInv, NEW p \in Calls, call[p].pc # "idle"
    PROVE  MessagesOf(p) \subseteq Messages /\ call[p].body \subseteq Events
<1>1. call[p].body \subseteq Events
  BY Goes, LocalsUpdate
<1>2. call[p].n \in 1..MaxSends
  BY Goes DEF AtWork
<1> QED BY <1>1, <1>2 DEF MessagesOf, Messages

LEMMA TypeStep == ASSUME TypeInv, [Next]_vars PROVE TypeInv'
<1> USE DEF TypeInv, TypeOK
<1>1. ASSUME NEW p \in Hooks, NEW b \in Bodies, Receive(p, b) PROVE TypeInv'
  <2> DEFINE r == [pc |-> "publish", body |-> b, todo |-> b, n |-> sends[b] + 1, async |-> async]
  <2>1. sends[b] + 1 \in 1..MaxSends
    BY <1>1, BoundsAssumption DEF Receive
  <2>2. r \in Locals /\ AtWork(p, r)
    BY <2>1, EventsAssumption, BoundsAssumption DEF Locals, AtWork
  <2>3. p \in Calls /\ call' = [call EXCEPT ![p] = r]
    BY <1>1 DEF Receive, Calls
  <2> HIDE DEF r
  <2>4. CallsTyped'
    BY <2>2, <2>3, TypeOfCalls
  <2>5. sends' \in [Bodies -> 0..MaxSends]
    BY <1>1, <2>1 DEF Receive
  <2> QED BY <1>1, <2>4, <2>5 DEF Receive, CallsTyped, AtWork, queueVars, history, boundVars
<1>2. ASSUME NEW p \in Calls, Publish(p) PROVE TypeInv'
  <2>1. CallsTyped'
    BY <1>2, TypeOfReturn, TypeOfClaim DEF Publish, At
  <2>2. MessagesOf(p) \subseteq Messages /\ call[p].body \in Bodies
    BY <1>2, MessagesType, Goes DEF Publish, At, AtWork
  <2> QED BY <1>2, <2>1, <2>2 DEF Publish, CallsTyped, AtWork, history, boundVars
<1>3. ASSUME NEW p \in Calls, PublishFails(p) PROVE TypeInv'
  <2>1. CallsTyped'
    BY <1>3, TypeOfClaim DEF PublishFails, At
  <2>2. MessagesOf(p) \subseteq Messages
    BY <1>3, MessagesType DEF PublishFails, At
  <2> QED BY <1>3, <2>1, <2>2 DEF PublishFails, Fail, CallsTyped, AtWork, lineVars, history
<1>4. ASSUME NEW p \in Calls, AnswerLine(p) PROVE TypeInv'
  <2>1. CallsTyped'
    BY <1>4, TypeOfReturn DEF AnswerLine
  <2>2. call[p].body \in Bodies
    BY <1>4, Goes DEF AnswerLine, At, AtWork
  <2> QED BY <1>4, <2>1, <2>2 DEF AnswerLine, CallsTyped, AtWork, queueVars, history, boundVars
<1>5. ASSUME NEW x \in Messages, NEW p \in Pushes, Deliver(p, x) PROVE TypeInv'
  <2> DEFINE r == [pc |-> "claim", body |-> {x[1]}, todo |-> {x[1]}, n |-> x[2], async |-> TRUE]
  <2>1. p \in Calls /\ p \notin Hooks
    BY CallsAssumption DEF Calls
  <2>2. r \in Locals /\ AtWork(p, r)
    BY <2>1, BoundsAssumption DEF Locals, AtWork, Messages
  <2>3. call' = [call EXCEPT ![p] = r]
    BY <1>5 DEF Deliver
  <2> HIDE DEF r
  <2>4. CallsTyped'
    BY <2>1, <2>2, <2>3, TypeOfCalls
  <2>5. attempts' \in [Messages -> 0..MaxAttempts]
    BY <1>5, BoundsAssumption DEF Deliver
  <2> QED BY <1>5, <2>4, <2>5 DEF Deliver, CallsTyped, AtWork, lineVars, history, boundVars
<1>6. ASSUME NEW x \in Messages, Ignore(x) PROVE TypeInv'
  BY <1>6 DEF Ignore, CallsTyped, Messages, lineVars, history, boundVars
<1>7. ASSUME NEW x \in Messages, DeadLetter(x) PROVE TypeInv'
  BY <1>7 DEF DeadLetter, CallsTyped, Messages, lineVars, history, boundVars
<1>8. ASSUME NEW p \in Calls, Acknowledge(p) PROVE TypeInv'
  <2>1. CallsTyped'
    BY <1>8, TypeOfReturn DEF Acknowledge
  <2> QED BY <1>8, <2>1 DEF Acknowledge, CallsTyped, AtWork, lineVars, history, boundVars
<1>9. ASSUME NEW p \in Calls, Claim(p) PROVE TypeInv'
  <2>1. call[p].todo # {} /\ call[p].pc # "idle"
    BY <1>9 DEF Claim, IsNext, At
  <2>2. CallsTyped'
    BY <1>9, <2>1, TypeOfHandle DEF Claim
  <2> QED BY <1>9, <2>2 DEF Claim, CallsTyped, AtWork, queueVars, lineVars, history, boundVars
<1>10. ASSUME NEW p \in Calls, SkipClaimed(p) PROVE TypeInv'
  <2>1. CallsTyped'
    BY <1>10, TypeOfDone DEF SkipClaimed, At
  <2> QED BY <1>10, <2>1 DEF SkipClaimed, CallsTyped, AtWork, queueVars, lineVars, history, boundVars
<1>11. ASSUME NEW p \in Calls, ClaimFails(p) PROVE TypeInv'
  <2>1. call[p].todo # {} /\ call[p].pc # "idle"
    BY <1>11 DEF ClaimFails, IsNext, At
  <2>2. CallsTyped'
    BY <1>11, <2>1, TypeOfHandle, TypeOfReturn DEF ClaimFails
  <2> QED BY <1>11, <2>2 DEF ClaimFails, Fail, CallsTyped, AtWork, queueVars, lineVars
<1>12. ASSUME NEW p \in Calls, HandleEvent(p) PROVE TypeInv'
  <2>1. CallsTyped'
    BY <1>12, TypeOfDone DEF HandleEvent, At
  <2> QED BY <1>12, <2>1 DEF HandleEvent, CallsTyped, AtWork, queueVars, lineVars, boundVars
<1>13. ASSUME NEW p \in Calls, HandleFails(p) PROVE TypeInv'
  <2>1. CallsTyped'
    BY <1>13, TypeOfDone DEF HandleFails, At
  <2> QED BY <1>13, <2>1 DEF HandleFails, Fail, CallsTyped, AtWork, queueVars, lineVars
<1>14. ASSUME NEW p \in Calls, Die(p) PROVE TypeInv'
  <2>1. CallsTyped'
    BY <1>14, TypeOfReturn DEF Die
  <2> QED BY <1>14, <2>1 DEF Die, Fail, CallsTyped, AtWork, queueVars, lineVars
<1>15. CASE Deploy
  BY <1>15 DEF Deploy, CallsTyped, queueVars, lineVars, history
<1>16. CASE UNCHANGED vars
  BY <1>16 DEF CallsTyped, vars, queueVars, lineVars, history, boundVars
<1> QED BY <1>1, <1>2, <1>3, <1>4, <1>5, <1>6, <1>7, <1>8, <1>9, <1>10, <1>11, <1>12,
           <1>13, <1>14, <1>15, <1>16 DEF Next, Proceed, Subscription
(* The topic, the claims and the locals of all calls are well formed.          *)
THEOREM IntakeTypeOK == Spec => []TypeOK
<1>1. TypeInv => TypeOK
  BY DEF TypeInv
<1> QED BY <1>1, TypeInit, TypeStep, PTL DEF Spec
-----------------------------------------------------------------------------
(* An event that LINE got a 200 for is in the topic, claimed or settled; a     *)
(* claim is held by a call that is at the event, or the event is settled.      *)
Holds(p, e) == At(p, "handle") /\ IsNext(p, e)

ClaimsAreKept == \A e \in claims : Settled(e) \/ \E p \in Calls : Holds(p, e)

LookedAtIsClaimed == \A p \in Calls : \A e \in call[p].body \ call[p].todo :
    e \in claims \/ Settled(e)

AnsweredIsKept == \A b \in answered : \A e \in b :
    Settled(e) \/ e \in claims \/ \E x \in topic : x[1] = e

Kept == ClaimsAreKept /\ LookedAtIsClaimed /\ AnsweredIsKept

LEMMA KeptInit == Init => Kept
BY NoCallType DEF Init, Kept, ClaimsAreKept, LookedAtIsClaimed, AnsweredIsKept

(* What is settled stays so, and a claim is never taken back. *)
LEMMA SettledStays ==
    ASSUME TypeInv, [Next]_vars
    PROVE  claims \subseteq claims' /\ \A e \in Events : Settled(e) => Settled(e)'
<1> DEFINE More == /\ claims \subseteq claims' /\ abandoned \subseteq abandoned'
                   /\ ignored \subseteq ignored' /\ dead \subseteq dead'
                   /\ \A e \in Events : handled'[e] >= handled[e]
<1> USE DEF queueVars, lineVars, history, boundVars
<1>1. handled \in [Events -> Nat]
  BY DEF TypeInv, TypeOK
<1>2. ASSUME NEW p \in Hooks, NEW b \in Bodies, Receive(p, b) PROVE More
  BY <1>1, <1>2 DEF Receive
<1>3. ASSUME NEW x \in Messages, Subscription(x) PROVE More
  BY <1>1, <1>3 DEF Subscription, Deliver, Ignore, DeadLetter
<1>4. ASSUME NEW p \in Calls, Publish(p) \/ PublishFails(p) \/ AnswerLine(p) \/ Acknowledge(p)
      PROVE More
  BY <1>1, <1>4 DEF Publish, PublishFails, AnswerLine, Acknowledge
<1>5. ASSUME NEW p \in Calls, Claim(p) \/ SkipClaimed(p) \/ ClaimFails(p) PROVE More
  BY <1>1, <1>5 DEF Claim, SkipClaimed, ClaimFails
<1>6. ASSUME NEW p \in Calls, HandleEvent(p) \/ HandleFails(p) PROVE More
  BY <1>1, <1>6 DEF HandleEvent, HandleFails
<1>7. ASSUME NEW p \in Calls, Die(p) PROVE More
  BY <1>1, <1>7 DEF Die
<1>8. ASSUME Deploy PROVE More
  BY <1>1, <1>8 DEF Deploy
<1>9. ASSUME UNCHANGED vars PROVE More
  BY <1>1, <1>9 DEF vars
<1>10. More
  BY <1>2, <1>3, <1>4, <1>5, <1>6, <1>7, <1>8, <1>9 DEF Next, Proceed
<1>11. \A e \in Events : handled[e] > 0 => handled'[e] > 0
  <2> TAKE e \in Events
  <2>1. handled[e] \in Nat /\ handled'[e] >= handled[e]
    BY <1>1, <1>10
  <2>2. handled'[e] \in Nat
    <3>1. handled' \in [Events -> Nat]
      BY TypeStep DEF TypeInv, TypeOK
    <3> QED BY <3>1
  <2> QED BY <2>1, <2>2
<1> QED BY <1>10, <1>11 DEF Settled

(* A step of one call keeps Kept if what it let go of is settled, or claimed. *)
LEMMA KeptByCall ==
    ASSUME TypeInv, Kept, claims \subseteq claims', claims' \subseteq Events,
           \A e \in Events : Settled(e) => Settled(e)',
           NEW p \in Calls, NEW r \in Locals, call' = [call EXCEPT ![p] = r],
           \A e \in Events : Holds(p, e) => Settled(e)',
           \A e \in claims' \ claims :
              Settled(e)' \/ (r.pc = "handle" /\ e \in r.todo /\ \A d \in r.todo : e <= d),
           \A e \in r.body \ r.todo : e \in claims' \/ Settled(e)',
           \A b \in answered' \ answered : \A e \in b :
              Settled(e)' \/ e \in claims' \/ \E x \in topic' : x[1] = e,
           \A x \in topic \ topic' : Settled(x[1])' \/ x[1] \in claims'
    PROVE  Kept'
<1>1. call \in [Calls -> Locals] /\ claims \subseteq Events /\ answered \subseteq SUBSET Events
  BY EventsAssumption DEF TypeInv, TypeOK, CallsTyped
<1>2. call'[p] = r /\ \A q \in Calls : q # p => call'[q] = call[q]
  BY <1>1
<1>3. ASSUME NEW e \in claims' PROVE Settled(e)' \/ \E q \in Calls : Holds(q, e)'
  <2>1. CASE e \notin claims
    <3>1. CASE Settled(e)'
      BY <3>1
    <3>2. CASE r.pc = "handle" /\ e \in r.todo /\ \A d \in r.todo : e <= d
      BY <1>2, <3>2 DEF Holds, At, IsNext
    <3> QED BY <2>1, <3>1, <3>2
  <2>2. CASE e \in claims
    <3>1. CASE Settled(e)
      BY <1>1, <2>2, <3>1
    <3>2. ASSUME NEW q \in Calls, Holds(q, e) PROVE Settled(e)' \/ Holds(q, e)'
      <4>1. CASE q = p
        BY <1>1, <2>2, <3>2, <4>1
      <4>2. CASE q # p
        BY <1>2, <3>2, <4>2 DEF Holds, At, IsNext
      <4> QED BY <4>1, <4>2
    <3> QED BY <2>2, <3>1, <3>2 DEF Kept, ClaimsAreKept
  <2> QED BY <2>1, <2>2
<1>4. ASSUME NEW q \in Calls, NEW e \in call'[q].body \ call'[q].todo
      PROVE  e \in claims' \/ Settled(e)'
  <2>1. CASE q = p
    BY <1>2, <1>4, <2>1
  <2>2. CASE q # p
    <3>1. e \in call[q].body \ call[q].todo /\ e \in Events
      BY <1>1, <1>2, <1>4, <2>2, LocalsUpdate
    <3> QED BY <3>1 DEF Kept, LookedAtIsClaimed
  <2> QED BY <2>1, <2>2
<1>5. ASSUME NEW b \in answered', NEW e \in b
      PROVE  Settled(e)' \/ e \in claims' \/ \E x \in topic' : x[1] = e
  <2>1. CASE b \notin answered
    BY <1>5, <2>1
  <2>2. CASE b \in answered
    <3>1. e \in Events
      BY <1>1, <1>5, <2>2
    <3>2. CASE Settled(e) \/ e \in claims
      BY <3>1, <3>2
    <3>3. CASE \E x \in topic : x[1] = e
      BY <3>3
    <3> QED BY <1>5, <2>2, <3>2, <3>3 DEF Kept, AnsweredIsKept
  <2> QED BY <2>1, <2>2
<1> QED BY <1>3, <1>4, <1>5 DEF Kept, ClaimsAreKept, LookedAtIsClaimed, AnsweredIsKept

LEMMA KeptStep == ASSUME TypeInv, Kept, [Next]_vars PROVE Kept'
<1>1. claims \subseteq claims' /\ \A e \in Events : Settled(e) => Settled(e)'
  BY SettledStays
<1>2. TypeInv' /\ claims' \subseteq Events
  BY TypeStep DEF TypeInv, TypeOK
<1>3. ASSUME call' = call, claims' = claims, answered' = answered,
             \A x \in topic \ topic' : Settled(x[1])'
      PROVE  Kept'
  <2>1. claims \subseteq Events /\ answered \subseteq SUBSET Events /\ call \in [Calls -> Locals]
    BY EventsAssumption DEF TypeInv, TypeOK, CallsTyped
  <2>2. ClaimsAreKept'
    BY <1>1, <1>3, <2>1 DEF Kept, ClaimsAreKept, Holds, At, IsNext
  <2>3. LookedAtIsClaimed'
    <3>1. \A p \in Calls : call[p].body \subseteq Events
      BY <2>1, LocalsUpdate
    <3> QED BY <1>1, <1>3, <3>1 DEF Kept, LookedAtIsClaimed
  <2>4. AnsweredIsKept'
    BY <1>1, <1>3, <2>1 DEF Kept, AnsweredIsKept
  <2> QED BY <2>2, <2>3, <2>4 DEF Kept
<1>4. ASSUME NEW p \in Hooks, NEW b \in Bodies, Receive(p, b) PROVE Kept'
  <2> DEFINE r == [pc |-> "publish", body |-> b, todo |-> b, n |-> sends[b] + 1, async |-> async]
  <2>1. r \in Locals /\ r.pc = "publish" /\ r.body = b /\ r.todo = b
    BY <1>2, <1>4, EventsAssumption, BoundsAssumption DEF Locals, Receive, TypeInv, TypeOK
  <2>2. p \in Calls /\ call' = [call EXCEPT ![p] = r]
    BY <1>4 DEF Receive, Calls
  <2>3. \A e \in Events : ~Holds(p, e)
    BY <1>4 DEF Receive, Holds, At
  <2>4. claims' = claims /\ answered' = answered /\ topic' = topic
    BY <1>4 DEF Receive, queueVars
  <2> HIDE DEF r
  <2> QED BY <1>1, <1>2, <2>1, <2>2, <2>3, <2>4, KeptByCall
<1>5. ASSUME NEW p \in Calls, Publish(p) PROVE Kept'
  <2>1. /\ call[p].pc = "publish" /\ claims' = claims /\ topic \subseteq topic'
        /\ \A e \in call[p].body : \E x \in topic' : x[1] = e
    <3>1. call[p].pc = "publish" /\ claims' = claims /\ topic' = topic \cup MessagesOf(p)
      BY <1>5 DEF Publish, At
    <3>2. ASSUME NEW e \in call[p].body PROVE <<e, call[p].n>> \in topic'
      BY <3>1 DEF MessagesOf
    <3> QED BY <3>1, <3>2
  <2>2. \A e \in Events : ~Holds(p, e)
    BY <2>1 DEF Holds, At
  <2>3. CASE call[p].async
    <3>1. call' = [call EXCEPT ![p] = NoCall] /\ answered' = answered \cup {call[p].body}
      BY <1>5, <2>3, Goes DEF Publish
    <3> QED BY <1>1, <1>2, <2>1, <2>2, <3>1, NoCallType, KeptByCall
  <2>4. CASE ~call[p].async
    <3> DEFINE r == [call[p] EXCEPT !.pc = "claim"]
    <3>1. call' = [call EXCEPT ![p] = r] /\ answered' = answered
      BY <1>5, <2>4, Goes DEF Publish
    <3>2. r \in Locals /\ r.body = call[p].body /\ r.todo = call[p].todo
      BY Goes, LocalsUpdate
    <3> HIDE DEF r
    <3>3. \A e \in r.body \ r.todo : e \in claims' \/ Settled(e)'
      BY <1>1, <3>2, Goes, LocalsUpdate DEF Kept, LookedAtIsClaimed
    <3> QED BY <1>1, <1>2, <2>1, <2>2, <3>1, <3>2, <3>3, KeptByCall
  <2> QED BY <2>3, <2>4
<1>6. ASSUME NEW p \in Calls, PublishFails(p) PROVE Kept'
  <2> DEFINE r == [call[p] EXCEPT !.pc = "claim"]
  <2>1. /\ call[p].pc = "publish" /\ claims' = claims /\ topic \subseteq topic'
        /\ answered' = answered /\ call' = [call EXCEPT ![p] = r]
    BY <1>6, Goes DEF PublishFails, At, lineVars
  <2>2. r \in Locals /\ r.body = call[p].body /\ r.todo = call[p].todo
    BY Goes, LocalsUpdate
  <2> HIDE DEF r
  <2>3. \A e \in r.body \ r.todo : e \in claims' \/ Settled(e)'
    BY <1>1, <2>2, Goes, LocalsUpdate DEF Kept, LookedAtIsClaimed
  <2>4. \A e \in Events : ~Holds(p, e)
    BY <2>1 DEF Holds, At
  <2> QED BY <1>1, <1>2, <2>1, <2>2, <2>3, <2>4, KeptByCall
(* every event of the body has been looked at *)
<1>7. ASSUME NEW p \in Calls, AnswerLine(p) \/ Acknowledge(p) PROVE Kept'
  <2>1. /\ call[p].pc = "claim" /\ call[p].todo = {} /\ claims' = claims
        /\ call' = [call EXCEPT ![p] = NoCall]
    BY <1>7, Goes DEF AnswerLine, Acknowledge, At
  <2>2. \A e \in call[p].body : e \in claims' \/ Settled(e)'
    BY <1>1, <2>1, Goes, LocalsUpdate DEF Kept, LookedAtIsClaimed
  <2>3. \A b \in answered' \ answered : b = call[p].body
    BY <1>7 DEF AnswerLine, Acknowledge, lineVars
  <2>4. \A x \in topic \ topic' : x[1] \in call[p].body
    BY <1>7 DEF AnswerLine, Acknowledge, MessagesOf, queueVars
  <2>5. \A e \in Events : ~Holds(p, e)
    BY <2>1 DEF Holds, At
  <2> QED BY <1>1, <1>2, <2>1, <2>2, <2>3, <2>4, <2>5, NoCallType, KeptByCall
<1>8. ASSUME NEW x \in Messages, NEW p \in Pushes, Deliver(p, x) PROVE Kept'
  <2> DEFINE r == [pc |-> "claim", body |-> {x[1]}, todo |-> {x[1]}, n |-> x[2], async |-> TRUE]
  <2>1. r \in Locals /\ r.pc = "claim" /\ r.body = r.todo
    BY BoundsAssumption DEF Locals, Messages
  <2>2. /\ p \in Calls /\ call[p].pc = "idle" /\ call' = [call EXCEPT ![p] = r]
        /\ claims' = claims /\ answered' = answered /\ topic' = topic
    BY <1>8 DEF Deliver, Calls, At, lineVars
  <2>3. \A e \in Events : ~Holds(p, e)
    BY <2>2 DEF Holds, At
  <2> HIDE DEF r
  <2> QED BY <1>1, <1>2, <2>1, <2>2, <2>3, KeptByCall
<1>9. ASSUME NEW x \in Messages, Ignore(x) PROVE Kept'
  <2>1. /\ call' = call /\ claims' = claims /\ answered' = answered
        /\ \A y \in topic \ topic' : Settled(y[1])'
    BY <1>9 DEF Ignore, Settled, lineVars
  <2> QED BY <1>3, <2>1
<1>10. ASSUME NEW x \in Messages, DeadLetter(x) PROVE Kept'
  <2>1. /\ call' = call /\ claims' = claims /\ answered' = answered
        /\ \A y \in topic \ topic' : Settled(y[1])'
    BY <1>10 DEF DeadLetter, Settled, lineVars
  <2> QED BY <1>3, <2>1
<1>11. ASSUME NEW p \in Calls, Claim(p) PROVE Kept'
  <2> DEFINE r == [call[p] EXCEPT !.pc = "handle"]
  <2>1. PICK e \in Events \ claims :
           /\ call[p].pc = "claim" /\ IsNext(p, e) /\ claims' = claims \cup {e}
           /\ call' = [call EXCEPT ![p] = r] /\ topic' = topic /\ answered' = answered
    BY <1>11, Goes DEF Claim, At, queueVars, lineVars
  <2>2. r \in Locals /\ r.pc = "handle" /\ r.body = call[p].body /\ r.todo = call[p].todo
    BY Goes, LocalsUpdate
  <2> HIDE DEF r
  <2>3. \A d \in r.body \ r.todo : d \in claims' \/ Settled(d)'
    BY <1>1, <2>2, Goes, LocalsUpdate DEF Kept, LookedAtIsClaimed
  <2>4. \A d \in claims' \ claims : d \in r.todo /\ \A c \in r.todo : d <= c
    BY <2>1, <2>2 DEF IsNext
  <2>5. \A d \in Events : ~Holds(p, d)
    BY <2>1 DEF Holds, At
  <2> QED BY <1>1, <1>2, <2>1, <2>2, <2>3, <2>4, <2>5, KeptByCall
<1>12. ASSUME NEW p \in Calls, SkipClaimed(p) PROVE Kept'
  <2>1. PICK e \in claims :
           /\ call[p].pc = "claim" /\ Done(p, e) /\ claims' = claims
           /\ topic' = topic /\ answered' = answered
    BY <1>12 DEF SkipClaimed, At, queueVars, lineVars
  <2> DEFINE r == [call[p] EXCEPT !.pc = "claim", !.todo = @ \ {e}]
  <2>2. e \in Events /\ call[p] \in Locals
    BY Goes DEF TypeInv, TypeOK
  <2>3. /\ r \in Locals /\ r.pc = "claim" /\ r.body = call[p].body
        /\ r.todo = call[p].todo \ {e} /\ call' = [call EXCEPT ![p] = r]
    BY <2>1, <2>2, Goes, LocalsUpdate
  <2> HIDE DEF r
  <2>4. \A d \in r.body \ r.todo : d \in claims' \/ Settled(d)'
    BY <1>1, <2>1, <2>2, <2>3, LocalsUpdate DEF Kept, LookedAtIsClaimed
  <2>5. \A d \in Events : ~Holds(p, d)
    BY <2>1 DEF Holds, At
  <2> QED BY <1>1, <1>2, <2>1, <2>3, <2>4, <2>5, KeptByCall
<1>13. ASSUME NEW p \in Calls, ClaimFails(p) PROVE Kept'
  <2>1. PICK e \in Events :
           /\ call[p].pc = "claim" /\ IsNext(p, e) /\ claims' \in {claims, claims \cup {e}}
           /\ topic' = topic /\ answered' = answered
           /\ IF p \in Hooks THEN Goto(p, "handle")
              ELSE /\ Return(p)
                   /\ abandoned' = IF claims' = claims THEN abandoned ELSE abandoned \cup {e}
    BY <1>13 DEF ClaimFails, At, queueVars, lineVars
  <2>2. \A d \in Events : ~Holds(p, d)
    BY <2>1 DEF Holds, At
  <2>3. CASE p \in Hooks
    <3> DEFINE r == [call[p] EXCEPT !.pc = "handle"]
    <3>1. /\ r \in Locals /\ r.pc = "handle" /\ r.body = call[p].body
          /\ r.todo = call[p].todo /\ call' = [call EXCEPT ![p] = r]
      BY <2>1, <2>3, Goes, LocalsUpdate
    <3> HIDE DEF r
    <3>2. \A d \in r.body \ r.todo : d \in claims' \/ Settled(d)'
      BY <1>1, <3>1, Goes, LocalsUpdate DEF Kept, LookedAtIsClaimed
    <3>3. \A d \in claims' \ claims : d \in r.todo /\ \A c \in r.todo : d <= c
      BY <2>1, <3>1 DEF IsNext
    <3> QED BY <1>1, <1>2, <2>1, <2>2, <3>1, <3>2, <3>3, KeptByCall
  <2>4. CASE p \notin Hooks
    <3>1. call' = [call EXCEPT ![p] = NoCall]
      BY <2>1, <2>4, Goes
    <3>2. \A d \in claims' \ claims : Settled(d)'
      BY <2>1, <2>4 DEF Settled
    <3>3. topic' = topic /\ answered' = answered
      BY <2>1
    <3>4. /\ \A d \in claims' \ claims :
                Settled(d)' \/ (NoCall.pc = "handle" /\ d \in NoCall.todo /\ \A c \in NoCall.todo : d <= c)
          /\ \A d \in NoCall.body \ NoCall.todo : d \in claims' \/ Settled(d)'
      BY <3>2, NoCallType
    <3> QED BY <1>1, <1>2, <2>2, <3>1, <3>3, <3>4, NoCallType, KeptByCall
  <2> QED BY <2>3, <2>4
(* who ends at an event leaves it handled or abandoned *)
<1>14. ASSUME NEW p \in Calls, HandleEvent(p) \/ HandleFails(p) PROVE Kept'
  <2>1. PICK e \in Events :
           /\ call[p].pc = "handle" /\ IsNext(p, e) /\ Done(p, e) /\ claims' = claims
           /\ topic' = topic /\ answered' = answered
           /\ handled' = [handled EXCEPT ![e] = @ + 1] \/ e \in abandoned'
    BY <1>14 DEF HandleEvent, HandleFails, At, queueVars, lineVars
  <2>2. Settled(e)'
    BY <2>1 DEF Settled, TypeInv, TypeOK
  <2> DEFINE r == [call[p] EXCEPT !.pc = "claim", !.todo = @ \ {e}]
  <2>3. /\ r \in Locals /\ r.pc = "claim" /\ r.body = call[p].body
        /\ r.todo = call[p].todo \ {e} /\ call' = [call EXCEPT ![p] = r]
        /\ call[p].body \subseteq Events
    <3>1. call[p] \in Locals
      BY Goes
    <3>2. call' = [call EXCEPT ![p] = r]
      BY <2>1, Goes
    <3> QED BY <3>1, <3>2, LocalsUpdate
  <2> HIDE DEF r
  <2>4. \A d \in r.body \ r.todo : d \in claims' \/ Settled(d)'
    BY <1>1, <2>1, <2>2, <2>3 DEF Kept, LookedAtIsClaimed
  <2>5. \A d \in Events : Holds(p, d) => d = e
    BY <2>1, EventsAssumption DEF Holds, IsNext
  <2> QED BY <1>1, <1>2, <2>1, <2>2, <2>3, <2>4, <2>5, KeptByCall
<1>15. ASSUME NEW p \in Calls, Die(p) PROVE Kept'
  <2>1. /\ call' = [call EXCEPT ![p] = NoCall] /\ claims' = claims
        /\ topic' = topic /\ answered' = answered
    BY <1>15, Goes DEF Die, queueVars, lineVars
  <2>2. ASSUME NEW d \in Events, Holds(p, d) PROVE Settled(d)'
    <3>1. PICK e \in Events : IsNext(p, e) /\ abandoned' = abandoned \cup {e}
      BY <1>15, <2>2 DEF Die, Holds
    <3>2. d = e
      BY <2>2, <3>1, EventsAssumption DEF Holds, IsNext
    <3> QED BY <3>1, <3>2 DEF Settled
  <2> QED BY <1>1, <1>2, <2>1, <2>2, NoCallType, KeptByCall
<1>16. CASE Deploy
  BY <1>3, <1>16 DEF Deploy, queueVars, lineVars
<1>17. CASE UNCHANGED vars
  BY <1>3, <1>17 DEF vars, queueVars, lineVars
<1> QED BY <1>4, <1>5, <1>6, <1>7, <1>8, <1>9, <1>10, <1>11, <1>12, <1>13, <1>14, <1>15,
           <1>16, <1>17 DEF Next, Proceed, Subscription

(* After the 200 an event is settled, in the topic, or at a call, however many *)
(* calls overlap and whatever fails.                                           *)
THEOREM AnsweredStays == Spec => []AnsweredIsNotForgotten
<1>1. TypeInv /\ Kept => AnsweredIsNotForgotten
  <2> SUFFICES ASSUME TypeInv, Kept, NEW b \in answered, NEW e \in b
               PROVE  Settled(e) \/ (\E x \in topic : x[1] = e) \/ \E p \in Calls : e \in call[p].todo
    BY DEF AnsweredIsNotForgotten
  <2>1. e \in claims => Settled(e) \/ \E p \in Calls : e \in call[p].todo
    BY DEF Kept, ClaimsAreKept, Holds, IsNext
  <2> QED BY <2>1 DEF Kept, AnsweredIsKept
<1> QED BY <1>1, TypeInit, TypeStep, KeptInit, KeptStep, PTL DEF Spec
-----------------------------------------------------------------------------
(* What was handled and what calls are about to handle is paid for by the      *)
(* claim, or by a time the webhook went on without one.                        *)
Holders(e) == {p \in Calls : Holds(p, e)}
Claimed(e) == IF e \in claims THEN 1 ELSE 0

Counted == \A e \in Events :
    handled[e] + Cardinality(Holders(e)) <= Claimed(e) + unclaimed[e]

WillHold(r, e) == r.pc = "handle" /\ e \in r.todo /\ \A d \in r.todo : e <= d

LEMMA HoldersFinite ==
    ASSUME NEW e
    PROVE  IsFiniteSet(Holders(e)) /\ Cardinality(Holders(e)) \in Nat
<1>1. Holders(e) \subseteq Calls /\ IsFiniteSet(Calls)
  BY CallsAssumption DEF Holders, Calls
<1> QED BY <1>1, FS_Subset, FS_CardinalityType

LEMMA CountedInit == Init => Counted
<1> SUFFICES ASSUME Init, NEW e \in Events
             PROVE  handled[e] + Cardinality(Holders(e)) <= Claimed(e) + unclaimed[e]
  BY DEF Counted
<1>1. Holders(e) = {}
  BY NoCallType DEF Init, Holders, Holds, At
<1>2. handled[e] = 0 /\ unclaimed[e] = 0 /\ Claimed(e) = 0
  BY DEF Init, Claimed
<1> QED BY <1>1, <1>2, FS_EmptySet

LEMMA HoldersMove ==
    ASSUME TypeInv, NEW p \in Calls, NEW r \in Locals, call' = [call EXCEPT ![p] = r],
           NEW e \in Events
    PROVE  Cardinality(Holders(e))' =
             CASE WillHold(r, e) /\ ~Holds(p, e) -> Cardinality(Holders(e)) + 1
               [] ~WillHold(r, e) /\ Holds(p, e) -> Cardinality(Holders(e)) - 1
               [] OTHER -> Cardinality(Holders(e))
<1>1. call'[p] = r /\ \A q \in Calls : q # p => call'[q] = call[q]
  BY DEF TypeInv, CallsTyped
<1>2. \A q \in Calls : Holds(q, e)' <=> IF q = p THEN WillHold(r, e) ELSE Holds(q, e)
  BY <1>1 DEF Holds, WillHold, At, IsNext
<1>3. Holders(e)' = IF WillHold(r, e) THEN Holders(e) \cup {p} ELSE Holders(e) \ {p}
  BY <1>2 DEF Holders
<1>4. p \in Holders(e) <=> Holds(p, e)
  BY DEF Holders
<1>5. /\ Cardinality(Holders(e) \cup {p}) =
           IF p \in Holders(e) THEN Cardinality(Holders(e)) ELSE Cardinality(Holders(e)) + 1
      /\ Cardinality(Holders(e) \ {p}) =
           IF p \in Holders(e) THEN Cardinality(Holders(e)) - 1 ELSE Cardinality(Holders(e))
  BY HoldersFinite, FS_AddElement, FS_RemoveElement
<1> QED BY <1>3, <1>4, <1>5

(* A step of one call keeps the count if it takes up an event only against a   *)
(* payment, and handles only what it held.                                     *)
LEMMA CountedByCall ==
    ASSUME TypeInv, TypeInv', Counted, claims \subseteq claims',
           NEW p \in Calls, NEW r \in Locals, call' = [call EXCEPT ![p] = r],
           \A e \in Events : WillHold(r, e) =>
              (e \notin claims /\ e \in claims') \/ unclaimed'[e] = unclaimed[e] + 1,
           \A e \in Events : unclaimed'[e] >= unclaimed[e],
           \A e \in Events : \/ handled'[e] = handled[e]
                             \/ Holds(p, e) /\ ~WillHold(r, e) /\ handled'[e] = handled[e] + 1
    PROVE  Counted'
<1> SUFFICES ASSUME NEW e \in Events
             PROVE  handled'[e] + Cardinality(Holders(e))' <= Claimed(e)' + unclaimed'[e]
  BY DEF Counted
<1> DEFINE n == Cardinality(Holders(e))
           m == Cardinality(Holders(e))'
<1>1. /\ handled[e] \in Nat /\ unclaimed[e] \in Nat
      /\ handled'[e] \in Nat /\ unclaimed'[e] \in Nat
  BY DEF TypeInv, TypeOK
<1>2. n \in Nat /\ handled[e] + n <= Claimed(e) + unclaimed[e]
  BY HoldersFinite DEF Counted
<1>3. /\ Claimed(e) \in {0, 1} /\ Claimed(e)' \in {0, 1} /\ Claimed(e) <= Claimed(e)'
      /\ e \notin claims /\ e \in claims' => Claimed(e) = 0 /\ Claimed(e)' = 1
  BY DEF Claimed
<1>4. m = CASE WillHold(r, e) /\ ~Holds(p, e) -> n + 1
            [] ~WillHold(r, e) /\ Holds(p, e) -> n - 1
            [] OTHER -> n
  BY HoldersMove
<1> HIDE DEF n, m
<1>5. CASE WillHold(r, e)
  <2>1. handled'[e] = handled[e]
    BY <1>5
  <2>2. m \in {n, n + 1}
    BY <1>4, <1>5
  <2>3. Claimed(e)' + unclaimed'[e] >= Claimed(e) + unclaimed[e] + 1
    BY <1>1, <1>3, <1>5
  <2> QED BY <1>1, <1>2, <1>3, <2>1, <2>2, <2>3 DEF m
<1>6. CASE ~WillHold(r, e)
  <2>1. handled'[e] + m <= handled[e] + n
    BY <1>1, <1>2, <1>4, <1>6
  <2>2. m \in Int
    BY <1>2, <1>4, <1>6
  <2>3. unclaimed'[e] >= unclaimed[e]
    OBVIOUS
  <2> QED BY <1>1, <1>2, <1>3, <2>1, <2>2, <2>3 DEF m
<1> QED BY <1>5, <1>6

LEMMA CountedStep == ASSUME TypeInv, Counted, [Next]_vars PROVE Counted'
<1>1. TypeInv' /\ claims \subseteq claims'
  BY TypeStep, SettledStays
<1>2. /\ handled \in [Events -> Nat] /\ unclaimed \in [Events -> Nat]
      /\ \A e \in Events : unclaimed[e] >= unclaimed[e]
  BY DEF TypeInv, TypeOK
(* a call that is at no event afterwards, and handled none *)
<1>3. ASSUME NEW p \in Calls, NEW r \in Locals, call' = [call EXCEPT ![p] = r],
             r.pc # "handle", handled' = handled, unclaimed' = unclaimed
      PROVE  Counted'
  <2>1. \A e \in Events : ~WillHold(r, e)
    BY <1>3 DEF WillHold
  <2> QED BY <1>1, <1>2, <1>3, <2>1, CountedByCall
<1>4. ASSUME call' = call, claims' = claims, handled' = handled, unclaimed' = unclaimed
      PROVE  Counted'
  BY <1>4 DEF Counted, Holders, Holds, At, IsNext, Claimed
<1>5. ASSUME NEW p \in Hooks, NEW b \in Bodies, Receive(p, b) PROVE Counted'
  <2> DEFINE r == [pc |-> "publish", body |-> b, todo |-> b, n |-> sends[b] + 1, async |-> async]
  <2>1. r \in Locals /\ r.pc = "publish"
    BY <1>5, EventsAssumption, BoundsAssumption DEF Locals, Receive, TypeInv, TypeOK
  <2>2. p \in Calls /\ call' = [call EXCEPT ![p] = r] /\ handled' = handled /\ unclaimed' = unclaimed
    BY <1>5 DEF Receive, Calls, history
  <2> HIDE DEF r
  <2> QED BY <1>3, <2>1, <2>2
<1>6. ASSUME NEW p \in Calls, Return(p), handled' = handled, unclaimed' = unclaimed PROVE Counted'
  BY <1>3, <1>6, Goes, NoCallType
<1>7. ASSUME NEW p \in Calls, Goto(p, "claim"), handled' = handled, unclaimed' = unclaimed
      PROVE  Counted'
  <2> DEFINE r == [call[p] EXCEPT !.pc = "claim"]
  <2>1. r \in Locals /\ r.pc = "claim" /\ call' = [call EXCEPT ![p] = r]
    BY <1>7, Goes, LocalsUpdate
  <2> HIDE DEF r
  <2> QED BY <1>3, <1>7, <2>1
<1>8. ASSUME NEW p \in Calls, Publish(p) \/ PublishFails(p) \/ AnswerLine(p) \/ Acknowledge(p)
      PROVE  Counted'
  <2>1. (Return(p) \/ Goto(p, "claim")) /\ handled' = handled /\ unclaimed' = unclaimed
    BY <1>8 DEF Publish, PublishFails, AnswerLine, Acknowledge, history
  <2> QED BY <1>6, <1>7, <2>1
<1>9. ASSUME NEW x \in Messages, NEW p \in Pushes, Deliver(p, x) PROVE Counted'
  <2> DEFINE r == [pc |-> "claim", body |-> {x[1]}, todo |-> {x[1]}, n |-> x[2], async |-> TRUE]
  <2>1. r \in Locals /\ r.pc = "claim"
    BY BoundsAssumption DEF Locals, Messages
  <2>2. p \in Calls /\ call' = [call EXCEPT ![p] = r] /\ handled' = handled /\ unclaimed' = unclaimed
    BY <1>9 DEF Deliver, Calls, history
  <2> HIDE DEF r
  <2> QED BY <1>3, <2>1, <2>2
<1>10. ASSUME NEW x \in Messages, Ignore(x) \/ DeadLetter(x) PROVE Counted'
  BY <1>4, <1>10 DEF Ignore, DeadLetter, history
<1>11. ASSUME NEW p \in Calls, SkipClaimed(p) PROVE Counted'
  <2>1. PICK e \in claims : Done(p, e) /\ handled' = handled /\ unclaimed' = unclaimed
    BY <1>11 DEF SkipClaimed, history
  <2> DEFINE r == [call[p] EXCEPT !.pc = "claim", !.todo = @ \ {e}]
  <2>2. e \in Events /\ call[p] \in Locals
    BY Goes DEF TypeInv, TypeOK
  <2>3. r \in Locals /\ r.pc = "claim" /\ call' = [call EXCEPT ![p] = r]
    BY <2>1, <2>2, Goes, LocalsUpdate
  <2> HIDE DEF r
  <2> QED BY <1>3, <2>1, <2>3
(* an event is taken up against its claim, or the time without one *)
<1>12. ASSUME NEW p \in Calls, NEW e \in Events, IsNext(p, e), Goto(p, "handle"), handled' = handled,
              \A d \in Events : unclaimed'[d] >= unclaimed[d],
              (e \notin claims /\ e \in claims') \/ unclaimed'[e] = unclaimed[e] + 1
       PROVE  Counted'
  <2> DEFINE r == [call[p] EXCEPT !.pc = "handle"]
  <2>1. /\ r \in Locals /\ r.pc = "handle" /\ r.todo = call[p].todo
        /\ call' = [call EXCEPT ![p] = r]
    BY <1>12, Goes, LocalsUpdate
  <2> HIDE DEF r
  <2>2. \A d \in Events : WillHold(r, d) => d = e
    BY <1>12, <2>1, EventsAssumption DEF WillHold, IsNext
  <2>3. \A d \in Events : WillHold(r, d) =>
           (d \notin claims /\ d \in claims') \/ unclaimed'[d] = unclaimed[d] + 1
    BY <1>12, <2>2
  <2> QED BY <1>1, <1>12, <2>1, <2>3, CountedByCall
<1>13. ASSUME NEW p \in Calls, Claim(p) PROVE Counted'
  <2>1. PICK e \in Events \ claims :
           /\ IsNext(p, e) /\ claims' = claims \cup {e} /\ Goto(p, "handle")
           /\ handled' = handled /\ unclaimed' = unclaimed
    BY <1>13 DEF Claim, history
  <2> QED BY <1>2, <1>12, <2>1
<1>14. ASSUME NEW p \in Calls, ClaimFails(p) PROVE Counted'
  <2>1. CASE p \in Hooks
    <3>1. PICK e \in Events :
             /\ IsNext(p, e) /\ claims' \in {claims, claims \cup {e}} /\ Goto(p, "handle")
             /\ unclaimed' = IF claims' = claims THEN [unclaimed EXCEPT ![e] = @ + 1] ELSE unclaimed
             /\ handled' = handled
      BY <1>14, <2>1 DEF ClaimFails
    <3>2. \A d \in Events : unclaimed'[d] >= unclaimed[d]
      BY <1>2, <3>1
    <3>3. (e \notin claims /\ e \in claims') \/ unclaimed'[e] = unclaimed[e] + 1
      BY <1>2, <3>1
    <3> QED BY <1>12, <3>1, <3>2, <3>3
  <2>2. CASE p \notin Hooks
    BY <1>6, <1>14, <2>2 DEF ClaimFails
  <2> QED BY <2>1, <2>2
(* what is handled was held before, and is not after *)
<1>15. ASSUME NEW p \in Calls, NEW e \in Events, NEW r \in Locals, Holds(p, e),
              call' = [call EXCEPT ![p] = r], r.pc # "handle",
              handled' \in {handled, [handled EXCEPT ![e] = @ + 1]}, unclaimed' = unclaimed
       PROVE  Counted'
  <2>1. \A d \in Events : ~WillHold(r, d)
    BY <1>15 DEF WillHold
  <2>2. \A d \in Events : handled'[d] = handled[d] \/ (d = e /\ handled'[d] = handled[d] + 1)
    BY <1>2, <1>15
  <2>3. \A d \in Events : \/ handled'[d] = handled[d]
                          \/ Holds(p, d) /\ ~WillHold(r, d) /\ handled'[d] = handled[d] + 1
    BY <1>15, <2>1, <2>2
  <2> QED BY <1>1, <1>2, <1>15, <2>1, <2>3, CountedByCall
<1>16. ASSUME NEW p \in Calls, HandleEvent(p) \/ HandleFails(p) PROVE Counted'
  <2>1. PICK e \in Events :
           /\ Holds(p, e) /\ Done(p, e) /\ unclaimed' = unclaimed
           /\ handled' \in {handled, [handled EXCEPT ![e] = @ + 1]}
    BY <1>16 DEF HandleEvent, HandleFails, Holds
  <2> DEFINE r == [call[p] EXCEPT !.pc = "claim", !.todo = @ \ {e}]
  <2>2. call[p] \in Locals
    BY Goes
  <2>3. r \in Locals /\ r.pc = "claim" /\ call' = [call EXCEPT ![p] = r]
    BY <2>1, <2>2, Goes, LocalsUpdate
  <2> HIDE DEF r
  <2> QED BY <1>15, <2>1, <2>3
<1>17. ASSUME NEW p \in Calls, Die(p) PROVE Counted'
  <2>1. call' = [call EXCEPT ![p] = NoCall] /\ unclaimed' = unclaimed
    BY <1>17, Goes DEF Die
  <2>2. CASE At(p, "handle")
    <3>1. PICK e \in Events : IsNext(p, e) /\ handled' \in {handled, [handled EXCEPT ![e] = @ + 1]}
      BY <1>17, <2>2 DEF Die
    <3> QED BY <1>15, <2>1, <2>2, <3>1, NoCallType DEF Holds
  <2>3. CASE ~At(p, "handle")
    BY <1>6, <1>17, <2>3 DEF Die
  <2> QED BY <2>2, <2>3
<1>18. CASE Deploy
  BY <1>4, <1>18 DEF Deploy, history
<1>19. CASE UNCHANGED vars
  BY <1>4, <1>19 DEF vars, history
<1> QED BY <1>5, <1>8, <1>9, <1>10, <1>11, <1>13, <1>14, <1>16, <1>17, <1>18, <1>19
        DEF Next, Proceed, Subscription

(* An event is handled once, and once more for every time the webhook went on  *)
(* without a claim: for any number of events, calls and redeliveries.          *)
THEOREM IntakeHandlesOnce == Spec => []HandledOnce
<1>1. TypeInv /\ Counted => HandledOnce
  <2> SUFFICES ASSUME TypeInv, Counted, NEW e \in Events PROVE handled[e] <= 1 + unclaimed[e]
    BY DEF HandledOnce
  <2>1. handled[e] \in Nat /\ unclaimed[e] \in Nat /\ Claimed(e) \in {0, 1}
    BY DEF TypeInv, TypeOK, Claimed
  <2>2. handled[e] + Cardinality(Holders(e)) <= Claimed(e) + unclaimed[e]
    BY DEF Counted
  <2> QED BY <2>1, <2>2, HoldersFinite
<1> QED BY <1>1, TypeInit, TypeStep, CountedInit, CountedStep, PTL DEF Spec
=============================================================================
