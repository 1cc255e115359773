--------------------------- MODULE ReminderPromise ---------------------------
(* What the reminders promise, one stage of one event and one member (a key)   *)
(* at a time: a message is sent only while none is on record, its record is    *)
(* final, and another one follows only when the last one was forgotten, that   *)
(* is, sent by a request that did not live to record it.                       *)
EXTENDS Naturals

CONSTANT Keys

VARIABLES
    got,       \* messages the member received for the key
    forgotten, \* those that were never recorded
    recorded   \* the keys on record as sent

promiseVars == <<got, forgotten, recorded>>

PromiseInit ==
    /\ got = [k \in Keys |-> 0]
    /\ forgotten = [k \in Keys |-> 0]
    /\ recorded = {}

Open(k) == k \notin recorded /\ got[k] = forgotten[k]

SendMessage(k) ==
    /\ Open(k)
    /\ got' = [got EXCEPT ![k] = @ + 1]
    /\ UNCHANGED <<forgotten, recorded>>

Record(k) ==
    /\ got[k] = forgotten[k] + 1
    /\ recorded' = recorded \cup {k}
    /\ UNCHANGED <<got, forgotten>>

Forget(k) ==
    /\ k \notin recorded /\ got[k] = forgotten[k] + 1
    /\ forgotten' = [forgotten EXCEPT ![k] = @ + 1]
    /\ UNCHANGED <<got, recorded>>

SendAndForget(k) ==
    /\ Open(k)
    /\ got' = [got EXCEPT ![k] = @ + 1]
    /\ forgotten' = [forgotten EXCEPT ![k] = @ + 1]
    /\ UNCHANGED recorded

PromiseNext == \E k \in Keys :
    SendMessage(k) \/ Record(k) \/ Forget(k) \/ SendAndForget(k)

PromiseSpec == PromiseInit /\ [][PromiseNext]_promiseVars
=============================================================================
