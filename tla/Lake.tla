--------------------------------- MODULE Lake ---------------------------------
(* The data lake's way in: envelopes of what comes from LINE and of what the   *)
(* bot answers are published to Pub/Sub, or written to the log when that fails *)
(* (app/lake.py), and published again from there by hand                       *)
(* (scripts/replay_ingest_fallback.py); Pub/Sub writes them to events_raw, at  *)
(* least once. The hourly tick removes the text of what was taken back in LINE *)
(* (app/lake_maintenance.py).                                                  *)
(*                                                                             *)
(* Time goes in steps that end with a tick.                                    *)
EXTENDS Naturals

CONSTANTS
    Sayings,         \* messages written in LINE
    LookBack,        \* LOOKBACK_DAYS, in steps
    Settle,          \* SETTLE_HOURS, in steps
    ADay,            \* LINE lets one take a message back for a day; the wider window's surplus
    Slack,           \* an envelope in time is in the table after as many steps
    MaxMissed,       \* bound: ticks whose statement fails
    MaxFailures,     \* bound: those, publishings that fail, and those done again
    MaxTime          \* bound: the last step

ASSUME LakeAssumption ==
    /\ {LookBack, Settle, ADay, Slack, MaxMissed, MaxFailures, MaxTime} \subseteq Nat
    /\ ADay + Slack + MaxMissed < LookBack /\ Slack <= ADay
    /\ Settle + MaxMissed < LookBack

VARIABLES
    now,
    occurred,   \* occurred[e]: when the thing envelope e tells of was, 0 if it was not
    queue,      \* published, and when; still to be written to the table
    raw,        \* rows of events_raw
    fallback,   \* envelopes in the log, and when
    tardy,      \* history: envelopes that reached the table late
    missed, failures

lakevars == <<now, occurred, queue, raw, fallback, tardy, missed, failures>>

Envelopes == {"message", "unsend", "outbound"} \X Sayings
Sendings == [e : Envelopes, at : Nat]
RawRows == [e : Envelopes, at : Nat, text : BOOLEAN]

(* Type invariant: queue, table and log hold envelopes of things that happened. *)
LkTypeOK ==
    /\ now \in 1..(MaxTime + 1)
    /\ occurred \in [Envelopes -> 0..MaxTime]
    /\ queue \cup fallback \subseteq Sendings /\ raw \subseteq RawRows
    /\ \A x \in queue \cup fallback \cup raw : occurred[x.e] \in 1..x.at /\ x.at <= now
    /\ tardy \subseteq Envelopes
    /\ missed \in 0..MaxMissed /\ failures \in 0..MaxFailures

LkInit ==
    /\ now = 1
    /\ occurred = [e \in Envelopes |-> 0]
    /\ queue = {} /\ raw = {} /\ fallback = {} /\ tardy = {}
    /\ missed = 0 /\ failures = 0
-----------------------------------------------------------------------------

Sending(e) == [e |-> e, at |-> now]

(* publish; one that failed by the clock may have gone out all the same *)
PublishEnvelope(e) ==
    \/ queue' = queue \cup {Sending(e)} /\ UNCHANGED <<fallback, failures>>
    \/ /\ failures < MaxFailures /\ failures' = failures + 1
       /\ fallback' = fallback \cup {Sending(e)}
       /\ queue' \in {queue, queue \cup {Sending(e)}}

Occurs(e) ==
    /\ occurred[e] = 0 /\ now <= MaxTime
    /\ occurred' = [occurred EXCEPT ![e] = now]
    /\ PublishEnvelope(e)
    /\ UNCHANGED <<now, raw, tardy, missed>>

(* ingest_webhook: a message; and its being taken back, within a day *)
Written(m) == Occurs(<<"message", m>>)
TakenBack(m) ==
    /\ occurred[<<"message", m>>] > 0 /\ now <= occurred[<<"message", m>>] + ADay
    /\ Occurs(<<"unsend", m>>)

(* record_outbound: the answer to a message, at once *)
RecordOutbound(m) == occurred[<<"message", m>>] = now /\ Occurs(<<"outbound", m>>)

(* replay_ingest_fallback.py: the same envelope again, with another publish time *)
Replay == \E x \in fallback :
    /\ failures < MaxFailures /\ failures' = failures + 1
    /\ \/ queue' = queue \cup {Sending(x.e)} /\ UNCHANGED fallback
       \/ fallback' = fallback \cup {Sending(x.e)} /\ queue' \in {queue, queue \cup {Sending(x.e)}}
    /\ UNCHANGED <<now, occurred, raw, tardy, missed>>

(* Pub/Sub writes a row; perhaps it will write it once more *)
WriteRow == \E x \in queue, again \in BOOLEAN :
    /\ raw' = raw \cup {[e |-> x.e, at |-> x.at, text |-> x.e[1] = "message"]}
    /\ queue' = IF again THEN queue ELSE queue \ {x}
    /\ tardy' = IF now > occurred[x.e] + Slack THEN tardy \cup {x.e} ELSE tardy
    /\ UNCHANGED <<now, occurred, fallback, missed, failures>>
-----------------------------------------------------------------------------
(* mutant: looked for among the messages' own days only, from the day before on *)
TakenBackYesterday(r) == \E u \in raw :
    u.e = <<"unsend", r.e[2]>> /\ u.at + ADay >= now

(* the request to take it back, of the days looked at and one more *)
TakenBackLately(r) == \E u \in raw :
    u.e = <<"unsend", r.e[2]>> /\ u.at + LookBack + ADay >= now

(* redact_unsent_sql *)
Redacted(r) == IF r.at + LookBack >= now /\ r.at + Settle < now /\ TakenBackLately(r)
               THEN [r EXCEPT !.text = FALSE] ELSE r

LakeTick(works) ==
    /\ now <= MaxTime
    /\ now' = now + 1
    /\ IF works THEN raw' = {Redacted(r) : r \in raw} /\ UNCHANGED <<missed, failures>>
       ELSE /\ missed < MaxMissed /\ missed' = missed + 1
            /\ failures < MaxFailures /\ failures' = failures + 1
            /\ UNCHANGED raw
    /\ UNCHANGED <<occurred, queue, fallback, tardy>>

LkNext ==
    \/ \E m \in Sayings : Written(m) \/ TakenBack(m) \/ RecordOutbound(m)
    \/ Replay \/ WriteRow
    \/ \E works \in BOOLEAN : LakeTick(works)

LkSpec == LkInit /\ [][LkNext]_lakevars
-----------------------------------------------------------------------------
(* Whatever happened is on its way to the table, in it, or in the log           *)
(* (lake.py:140-155).                                                           *)
NothingIsLost == \A e \in Envelopes : occurred[e] > 0 =>
    \E x \in queue \cup raw \cup fallback : x.e = e

(* When a row leaves the window the tick looks at, the text of a message taken  *)
(* back is gone, unless the message or the request came to the table late       *)
(* (lake_maintenance.py:23-50).                                                 *)
ErasedInTime == \A r, u \in raw :
    /\ r.e[1] = "message" /\ u.e = <<"unsend", r.e[2]>>
    /\ now > r.at + LookBack
    => ~r.text \/ r.e \in tardy \/ u.e \in tardy

(* The lake has all that happened, and not the text of what was taken back.  *)
LakeIsTrue == NothingIsLost /\ ErasedInTime
=============================================================================
