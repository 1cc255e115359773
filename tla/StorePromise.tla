----------------------------- MODULE StorePromise -----------------------------
(* What the rest of the program may expect of a repository (the Protocol       *)
(* Repository): a record is what was saved last under its id, a log is never   *)
(* lost or changed, and of the calls that an event of LINE is brought to, one  *)
(* gets to handle it.                                                          *)
CONSTANTS Records, LineEvents

VARIABLES docs, logs, claimed, gone

promisevars == <<docs, logs, claimed, gone>>

PInit == docs = {} /\ logs = {} /\ claimed = {} /\ gone = {}

PSave(r) == docs' = {d \in docs : d.id # r.id} \cup {r} /\ UNCHANGED <<logs, claimed, gone>>

PLog(r) == logs' = logs \cup {r} /\ UNCHANGED <<docs, claimed, gone>>

PClaim(e) == e \notin claimed \cup gone /\ claimed' = claimed \cup {e} /\ UNCHANGED <<docs, logs, gone>>

(* nobody brings some events any more: their claims may go *)
PLeave == gone \subseteq gone' /\ gone' \subseteq LineEvents /\ UNCHANGED <<docs, logs, claimed>>

PForget(e) == e \in gone /\ claimed' = claimed \ {e} /\ UNCHANGED <<docs, logs, gone>>

(* what is saved is there afterwards *)
PNext == \/ \E r \in docs' \cap Records : PSave(r)
         \/ \E r \in logs' \cap Records : PLog(r)
         \/ PLeave
         \/ \E e \in LineEvents : PClaim(e) \/ PForget(e)

PromiseSpec == PInit /\ [][PNext]_promisevars
=============================================================================
