--------------------------- MODULE Calendar_proofs ---------------------------
(* Proofs about the calendar's questions in the chat, the sync with Google        *)
(* Calendar and the way of messages to the data lake, which share no state: for  *)
(* any questions and taps, a question is carried out once and its answer stands; *)
(* however screens and ticks overlap, no entry is forgotten and only calls that  *)
(* save old copies undo a change, and with one tick at a time schedule and        *)
(* calendar keep step; for any messages, any window and any margin, nothing that  *)
(* happened is lost, and a message taken back in time is erased before its row    *)
(* leaves the window.                                                            *)
EXTENDS MCCalendar, FiniteSetTheorems, TLAPS

-----------------------------------------------------------------------------
(* The lake.                                                                     *)
-----------------------------------------------------------------------------
(* The messages a request to take back is about came first, a day before at most. *)
Requests == \A m \in Sayings :
    occurred[<<"unsend", m>>] > 0 =>
        /\ occurred[<<"message", m>>] \in 1 .. occurred[<<"unsend", m>>]
        /\ occurred[<<"unsend", m>>] <= occurred[<<"message", m>>] + ADay

(* What came to the table in time was published in time. *)
PublishedInTime == \A r \in raw : r.e \notin tardy => r.at <= occurred[r.e] + Slack

(* A text that should be gone is there only because no tick has had the time to  *)
(* erase it: since it has settled and the request is in, every tick has failed.  *)
Overdue(r, u) ==
    now > r.at + Settle + 1 + missed /\ now > occurred[u.e] + Slack + missed
OnlyMissedTicksDelay == \A r, u \in raw :
    /\ r.e[1] = "message" /\ u.e = <<"unsend", r.e[2]>>
    /\ r.text /\ r.e \notin tardy /\ u.e \notin tardy
    => ~Overdue(r, u)

LakeInv == LkTypeOK /\ NothingIsLost /\ Requests /\ PublishedInTime /\ OnlyMissedTicksDelay
-----------------------------------------------------------------------------
(* What a step may be. *)
OccursStep == \E e \in Envelopes :
    /\ Occurs(e)
    /\ e[1] = "unsend" =>
         occurred[<<"message", e[2]>>] > 0 /\ now <= occurred[<<"message", e[2]>>] + ADay

LEMMA LkSteps ==
    LkNext => OccursStep \/ Replay \/ WriteRow \/ \E works \in BOOLEAN : LakeTick(works)
<1> SUFFICES ASSUME NEW m \in Sayings, Written(m) \/ TakenBack(m) \/ RecordOutbound(m)
             PROVE OccursStep
  BY DEF LkNext
<1>1. <<"message", m>> \in Envelopes /\ <<"unsend", m>> \in Envelopes /\ <<"outbound", m>> \in Envelopes
  BY DEF Envelopes
<1>2. CASE Written(m)
  BY <1>1, <1>2 DEF Written, OccursStep
<1>3. CASE TakenBack(m)
  BY <1>1, <1>3 DEF TakenBack, OccursStep
<1>4. CASE RecordOutbound(m)
  BY <1>1, <1>4 DEF RecordOutbound, OccursStep
<1> QED BY <1>2, <1>3, <1>4
-----------------------------------------------------------------------------
LEMMA InitLakeInv == LkInit => LakeInv
<1> SUFFICES ASSUME LkInit PROVE LakeInv
  OBVIOUS
<1>1. LkTypeOK
  BY LakeAssumption DEF LkInit, LkTypeOK
<1>2. NothingIsLost
  BY DEF LkInit, NothingIsLost
<1>3. Requests
  BY DEF LkInit, Requests, Envelopes
<1>4. OnlyMissedTicksDelay
  BY DEF LkInit, OnlyMissedTicksDelay
<1>5. PublishedInTime
  BY DEF LkInit, PublishedInTime
<1> QED BY <1>1, <1>2, <1>3, <1>4, <1>5 DEF LakeInv

(* What a publishing adds to the topic and to the log is of this moment. *)
LEMMA PublishAdds ==
    ASSUME LkTypeOK, NEW e \in Envelopes, PublishEnvelope(e)
    PROVE  /\ queue \subseteq queue' /\ fallback \subseteq fallback'
           /\ queue' \cup fallback' \subseteq queue \cup fallback \cup {Sending(e)}
           /\ Sending(e) \in queue' \cup fallback'
           /\ failures' \in 0..MaxFailures
BY LakeAssumption DEF PublishEnvelope, LkTypeOK

LEMMA OccursKeeps ==
    ASSUME LakeInv, OccursStep
    PROVE  LakeInv'
<1> USE LakeAssumption DEF LakeInv
<1>1. PICK e \in Envelopes :
        /\ Occurs(e)
        /\ e[1] = "unsend" =>
             occurred[<<"message", e[2]>>] > 0 /\ now <= occurred[<<"message", e[2]>>] + ADay
  BY DEF OccursStep
<1>2. /\ queue \subseteq queue' /\ fallback \subseteq fallback'
      /\ queue' \cup fallback' \subseteq queue \cup fallback \cup {Sending(e)}
      /\ Sending(e) \in queue' \cup fallback'
      /\ failures' \in 0..MaxFailures
  BY <1>1, PublishAdds DEF Occurs
<1>3. /\ occurred[e] = 0 /\ now \in 1..MaxTime /\ occurred' = [occurred EXCEPT ![e] = now]
      /\ UNCHANGED <<now, raw, tardy, missed>>
  BY <1>1 DEF Occurs, LkTypeOK
<1>4. \A x \in queue \cup fallback \cup raw : x.e # e /\ x.e \in Envelopes /\ occurred'[x.e] = occurred[x.e]
  BY <1>3 DEF LkTypeOK, Sendings, RawRows
<1>5. LkTypeOK'
  <2>1. Sending(e) \in Sendings /\ Sending(e).e = e /\ Sending(e).at = now
    BY <1>3 DEF Sending, Sendings
  <2>2. occurred' \in [Envelopes -> 0..MaxTime] /\ occurred'[e] = now
    BY <1>3 DEF LkTypeOK
  <2>3. \A x \in queue' \cup fallback' \cup raw' : occurred'[x.e] \in 1..x.at /\ x.at <= now'
    <3> SUFFICES ASSUME NEW x \in queue' \cup fallback' \cup raw'
                 PROVE occurred'[x.e] \in 1..x.at /\ x.at <= now'
      OBVIOUS
    <3>1. CASE x = Sending(e)
      BY <3>1, <2>1, <2>2, <1>3
    <3>2. CASE x \in queue \cup fallback \cup raw
      BY <3>2, <1>3, <1>4 DEF LkTypeOK
    <3> QED BY <3>1, <3>2, <1>2, <1>3
  <2>4. queue' \cup fallback' \subseteq Sendings /\ raw' \subseteq RawRows
    BY <2>1, <1>2, <1>3 DEF LkTypeOK
  <2> QED BY <2>2, <2>3, <2>4, <1>2, <1>3 DEF LkTypeOK
<1>6. NothingIsLost'
  <2> SUFFICES ASSUME NEW f \in Envelopes, occurred'[f] > 0
               PROVE \E x \in queue' \cup raw' \cup fallback' : x.e = f
    BY DEF NothingIsLost
  <2>1. CASE f = e
    BY <2>1, <1>2 DEF Sending
  <2>2. CASE f # e
    <3>1. occurred[f] > 0
      BY <2>2, <1>3 DEF LkTypeOK
    <3> QED BY <3>1, <1>2, <1>3 DEF NothingIsLost
  <2> QED BY <2>1, <2>2
<1>7. Requests'
  <2> SUFFICES ASSUME NEW m \in Sayings, occurred'[<<"unsend", m>>] > 0
               PROVE  /\ occurred'[<<"message", m>>] \in 1 .. occurred'[<<"unsend", m>>]
                      /\ occurred'[<<"unsend", m>>] <= occurred'[<<"message", m>>] + ADay
    BY DEF Requests
  <2>1. /\ <<"message", m>> \in Envelopes /\ <<"unsend", m>> \in Envelopes
        /\ <<"message", m>> # <<"unsend", m>>
    BY DEF Envelopes
  <2>2. CASE e = <<"unsend", m>>
    <3>1. occurred'[<<"unsend", m>>] = now /\ occurred'[<<"message", m>>] = occurred[<<"message", m>>]
      BY <2>1, <2>2, <1>3 DEF LkTypeOK
    <3>2. occurred[<<"message", m>>] > 0 /\ now <= occurred[<<"message", m>>] + ADay
      BY <1>1, <2>2
    <3>3. occurred[<<"message", m>>] \in 0..MaxTime
      BY <2>1 DEF LkTypeOK
    <3>4. occurred[<<"message", m>>] <= now
      <4>1. PICK x \in queue \cup raw \cup fallback : x.e = <<"message", m>>
        BY <2>1, <3>2 DEF NothingIsLost
      <4>2. occurred[x.e] \in 1..x.at /\ x.at <= now /\ x.at \in Nat
        BY DEF LkTypeOK, Sendings, RawRows
      <4> QED BY <4>1, <4>2, <1>3, <3>3
    <3> QED BY <3>1, <3>2, <3>3, <3>4, <1>3
  <2>3. CASE e # <<"unsend", m>>
    <3>1. occurred'[<<"unsend", m>>] = occurred[<<"unsend", m>>] /\ occurred[<<"unsend", m>>] > 0
      BY <2>1, <2>3, <1>3 DEF LkTypeOK
    <3>2. e # <<"message", m>>
      BY <3>1, <1>3, <2>1 DEF Requests, LkTypeOK
    <3> QED BY <2>1, <3>1, <3>2, <1>3 DEF Requests, LkTypeOK
  <2> QED BY <2>2, <2>3
<1>8. PublishedInTime'
  BY <1>3, <1>4 DEF PublishedInTime
<1>9. OnlyMissedTicksDelay'
  BY <1>3, <1>4 DEF OnlyMissedTicksDelay, Overdue
<1> QED BY <1>5, <1>6, <1>7, <1>8, <1>9
-----------------------------------------------------------------------------
LEMMA ReplayKeeps ==
    ASSUME LakeInv, Replay
    PROVE  LakeInv'
<1> USE LakeAssumption DEF LakeInv
<1>1. PICK x \in fallback :
        /\ failures < MaxFailures /\ failures' = failures + 1
        /\ \/ queue' = queue \cup {Sending(x.e)} /\ UNCHANGED fallback
           \/ fallback' = fallback \cup {Sending(x.e)} /\ queue' \in {queue, queue \cup {Sending(x.e)}}
        /\ UNCHANGED <<now, occurred, raw, tardy, missed>>
  BY DEF Replay
<1>2. /\ queue \subseteq queue' /\ fallback \subseteq fallback'
      /\ queue' \cup fallback' \subseteq queue \cup fallback \cup {Sending(x.e)}
      /\ failures' \in 0..MaxFailures
  BY <1>1 DEF LkTypeOK
<1>3. x.e \in Envelopes /\ occurred[x.e] \in 1..now /\ now \in 1..(MaxTime + 1)
  <2>1. x.e \in Envelopes /\ x.at \in Nat /\ occurred[x.e] \in 1..x.at /\ x.at <= now /\ now \in 1..(MaxTime + 1)
    BY <1>1 DEF LkTypeOK, Sendings
  <2> QED BY <2>1
<1>4. LkTypeOK'
  <2>1. Sending(x.e) \in Sendings /\ Sending(x.e).e = x.e /\ Sending(x.e).at = now
    BY <1>3 DEF Sending, Sendings
  <2>2. \A y \in queue' \cup fallback' \cup raw' : occurred'[y.e] \in 1..y.at /\ y.at <= now'
    <3> SUFFICES ASSUME NEW y \in queue' \cup fallback' \cup raw'
                 PROVE occurred'[y.e] \in 1..y.at /\ y.at <= now'
      OBVIOUS
    <3>1. CASE y = Sending(x.e)
      BY <3>1, <2>1, <1>1, <1>3
    <3>2. CASE y \in queue \cup fallback \cup raw
      BY <3>2, <1>1 DEF LkTypeOK
    <3> QED BY <3>1, <3>2, <1>1, <1>2
  <2>3. queue' \cup fallback' \subseteq Sendings /\ raw' \subseteq RawRows
    BY <2>1, <1>1, <1>2 DEF LkTypeOK
  <2> QED BY <2>2, <2>3, <1>1, <1>2 DEF LkTypeOK
<1>5. NothingIsLost'
  BY <1>1, <1>2 DEF NothingIsLost
<1>6. Requests' /\ PublishedInTime' /\ OnlyMissedTicksDelay'
  BY <1>1 DEF Requests, PublishedInTime, OnlyMissedTicksDelay, Overdue
<1> QED BY <1>4, <1>5, <1>6
-----------------------------------------------------------------------------
LEMMA WriteRowKeeps ==
    ASSUME LakeInv, WriteRow
    PROVE  LakeInv'
<1> USE LakeAssumption DEF LakeInv
<1>1. PICK x \in queue, again \in BOOLEAN :
        /\ raw' = raw \cup {[e |-> x.e, at |-> x.at, text |-> x.e[1] = "message"]}
        /\ queue' = IF again THEN queue ELSE queue \ {x}
        /\ tardy' = IF now > occurred[x.e] + Slack THEN tardy \cup {x.e} ELSE tardy
        /\ UNCHANGED <<now, occurred, fallback, missed, failures>>
  BY DEF WriteRow
<1> DEFINE new == [e |-> x.e, at |-> x.at, text |-> x.e[1] = "message"]
<1>2. x.e \in Envelopes /\ x.at \in Nat /\ occurred[x.e] \in 1..x.at /\ x.at <= now
  BY DEF LkTypeOK, Sendings
<1>3. new \in RawRows /\ new.e = x.e /\ new.at = x.at /\ raw' = raw \cup {new}
  BY <1>1, <1>2 DEF RawRows
<1>4. queue' \subseteq queue /\ tardy \subseteq tardy' /\ tardy' \subseteq tardy \cup {x.e}
  BY <1>1
<1>5. LkTypeOK'
  <2>1. \A y \in queue' \cup fallback' \cup raw' : occurred'[y.e] \in 1..y.at /\ y.at <= now'
    <3> SUFFICES ASSUME NEW y \in queue' \cup fallback' \cup raw'
                 PROVE occurred'[y.e] \in 1..y.at /\ y.at <= now'
      OBVIOUS
    <3>1. CASE y = new
      BY <3>1, <1>1, <1>2, <1>3
    <3>2. CASE y \in queue \cup fallback \cup raw
      BY <3>2, <1>1 DEF LkTypeOK
    <3> QED BY <3>1, <3>2, <1>1, <1>3, <1>4
  <2>2. queue' \cup fallback' \subseteq Sendings /\ raw' \subseteq RawRows /\ tardy' \subseteq Envelopes
    BY <1>1, <1>2, <1>3, <1>4 DEF LkTypeOK
  <2> QED BY <2>1, <2>2, <1>1 DEF LkTypeOK
<1>6. NothingIsLost'
  <2> SUFFICES ASSUME NEW f \in Envelopes, occurred[f] > 0
               PROVE \E y \in queue' \cup raw' \cup fallback' : y.e = f
    BY <1>1 DEF NothingIsLost
  <2>1. PICK y \in queue \cup raw \cup fallback : y.e = f
    BY DEF NothingIsLost
  <2>2. CASE y = x
    BY <2>1, <2>2, <1>3
  <2>3. CASE y # x
    BY <2>1, <2>3, <1>1, <1>3
  <2> QED BY <2>2, <2>3
<1>7. Requests'
  BY <1>1 DEF Requests
<1>8. OnlyMissedTicksDelay'
  <2> SUFFICES ASSUME NEW r \in raw', NEW u \in raw',
                      r.e[1] = "message", u.e = <<"unsend", r.e[2]>>,
                      r.text, r.e \notin tardy', u.e \notin tardy'
               PROVE ~Overdue(r, u)'
    BY DEF OnlyMissedTicksDelay
  <2>1. /\ r \in RawRows /\ u \in RawRows /\ now \in Nat /\ missed \in Nat
        /\ Overdue(r, u)' <=> Overdue(r, u)
    BY <1>1, <1>5 DEF LkTypeOK, Overdue
  <2>2. /\ r.e \in Envelopes /\ u.e \in Envelopes
        /\ occurred[r.e] \in Nat /\ occurred[u.e] \in Nat /\ occurred[u.e] > 0
    BY <2>1, <1>1, <1>5 DEF LkTypeOK, RawRows
  <2>3. occurred[r.e] <= occurred[u.e]
    <3>1. r.e[2] \in Sayings /\ r.e = <<"message", r.e[2]>>
      BY <2>2 DEF Envelopes
    <3> QED BY <3>1, <2>2 DEF Requests
  <2>4. CASE r = new \/ u = new
    <3>1. now <= occurred[x.e] + Slack
      BY <2>4, <1>1, <1>2, <1>3 DEF LkTypeOK
    <3>2. occurred[x.e] <= occurred[u.e]
      BY <2>4, <2>2, <2>3, <1>3
    <3> QED BY <3>1, <3>2, <2>1, <2>2, <1>2 DEF Overdue
  <2>5. CASE r \in raw /\ u \in raw
    BY <2>5, <2>1, <1>4 DEF OnlyMissedTicksDelay
  <2> QED BY <2>4, <2>5, <1>3
<1>9. PublishedInTime'
  <2> SUFFICES ASSUME NEW r \in raw', r.e \notin tardy'
               PROVE r.at <= occurred[r.e] + Slack
    BY <1>1 DEF PublishedInTime
  <2>1. CASE r = new
    BY <2>1, <1>1, <1>2, <1>3 DEF LkTypeOK
  <2>2. CASE r \in raw
    BY <2>2, <1>4 DEF PublishedInTime
  <2> QED BY <2>1, <2>2, <1>3
<1> QED BY <1>5, <1>6, <1>7, <1>8, <1>9
-----------------------------------------------------------------------------
(* A text in the table that should be gone has its row in the window still. *)
LEMMA StillInTheWindow ==
    ASSUME LakeInv, NEW r \in raw, NEW u \in raw,
           r.e[1] = "message", u.e = <<"unsend", r.e[2]>>,
           r.text, r.e \notin tardy, u.e \notin tardy
    PROVE  now <= r.at + LookBack
<1> USE LakeAssumption DEF LakeInv
<1>1. /\ r.at \in Nat /\ u.at \in Nat /\ now \in Nat /\ missed \in 0..MaxMissed
      /\ r.e \in Envelopes /\ u.e \in Envelopes
      /\ occurred[r.e] \in 1..r.at /\ occurred[u.e] \in 1..u.at
  BY DEF LkTypeOK, RawRows
<1>2. occurred[u.e] <= occurred[r.e] + ADay
  <2>1. r.e[2] \in Sayings /\ r.e = <<"message", r.e[2]>>
    BY <1>1 DEF Envelopes
  <2> QED BY <2>1, <1>1 DEF Requests
<1>3. ~Overdue(r, u)
  BY DEF OnlyMissedTicksDelay
<1> QED BY <1>1, <1>2, <1>3 DEF Overdue

LEMMA LakeTickKeeps ==
    ASSUME LakeInv, NEW works \in BOOLEAN, LakeTick(works)
    PROVE  LakeInv'
<1> USE LakeAssumption DEF LakeInv
<1>1. /\ now \in 1..MaxTime /\ now' = now + 1
      /\ UNCHANGED <<occurred, queue, fallback, tardy>>
  BY DEF LakeTick, LkTypeOK
<1>2. \A r \in raw : Redacted(r) \in RawRows /\ Redacted(r).e = r.e /\ Redacted(r).at = r.at
                     /\ (Redacted(r).text => r.text)
  BY DEF LkTypeOK, Redacted, RawRows
<1>3. \A s \in raw' : \E r \in raw :
        s \in RawRows /\ s.e = r.e /\ s.at = r.at /\ (s.text => r.text)
  BY <1>2 DEF LakeTick, LkTypeOK
<1>4. \A r \in raw : \E s \in raw' : s.e = r.e
  BY <1>2 DEF LakeTick
<1>5. LkTypeOK'
  <2>1. raw' \subseteq RawRows
    BY <1>3
  <2>2. \A y \in queue' \cup fallback' \cup raw' : occurred'[y.e] \in 1..y.at /\ y.at <= now'
    <3> SUFFICES ASSUME NEW y \in queue' \cup fallback' \cup raw'
                 PROVE occurred'[y.e] \in 1..y.at /\ y.at <= now'
      OBVIOUS
    <3>1. \E z \in queue \cup fallback \cup raw : y.e = z.e /\ y.at = z.at
      BY <1>1, <1>3
    <3>2. PICK z \in queue \cup fallback \cup raw : y.e = z.e /\ y.at = z.at
      BY <3>1
    <3>3. z.at \in Nat /\ occurred[z.e] \in 1..z.at /\ z.at <= now
      BY DEF LkTypeOK, Sendings, RawRows
    <3> QED BY <3>2, <3>3, <1>1
  <2>3. missed' \in 0..MaxMissed /\ failures' \in 0..MaxFailures
    BY DEF LakeTick, LkTypeOK
  <2> QED BY <2>1, <2>2, <2>3, <1>1 DEF LkTypeOK
<1>6. NothingIsLost'
  <2> SUFFICES ASSUME NEW f \in Envelopes, occurred[f] > 0
               PROVE \E y \in queue' \cup raw' \cup fallback' : y.e = f
    BY <1>1 DEF NothingIsLost
  <2>1. PICK y \in queue \cup raw \cup fallback : y.e = f
    BY DEF NothingIsLost
  <2> QED BY <2>1, <1>1, <1>4
<1>7. Requests'
  BY <1>1 DEF Requests
<1>8. OnlyMissedTicksDelay'
  <2> SUFFICES ASSUME NEW s \in raw', NEW v \in raw',
                      s.e[1] = "message", v.e = <<"unsend", s.e[2]>>,
                      s.text, s.e \notin tardy, v.e \notin tardy
               PROVE ~Overdue(s, v)'
    BY <1>1 DEF OnlyMissedTicksDelay
  <2>1. CASE ~works
    <3>1. raw' = raw /\ missed' = missed + 1
      BY <2>1 DEF LakeTick
    <3>2. /\ s.at \in Nat /\ missed \in Nat /\ v.e \in Envelopes /\ occurred[v.e] \in Nat
          /\ ~Overdue(s, v)
      BY <3>1 DEF LkTypeOK, RawRows, OnlyMissedTicksDelay
    <3> QED BY <3>1, <3>2, <1>1 DEF Overdue
  <2>2. CASE works
    <3>1. raw' = {Redacted(r) : r \in raw} /\ missed' = missed
      BY <2>2 DEF LakeTick
    <3>2. PICK r \in raw, u \in raw : s = Redacted(r) /\ v = Redacted(u)
      BY <3>1
    <3>3. s.e = r.e /\ s.at = r.at /\ r.text /\ v.e = u.e
      BY <3>2, <1>2
    <3>4. /\ r.at \in Nat /\ u.at \in Nat /\ missed \in Nat /\ now \in Nat
          /\ r.e \in Envelopes /\ u.e \in Envelopes
          /\ occurred[r.e] \in 1..r.at /\ occurred[u.e] \in 1..u.at
      BY DEF LkTypeOK, RawRows
    <3>5. now <= r.at + LookBack
      BY <3>3, StillInTheWindow
    <3>6. SUFFICES ASSUME now + 1 > r.at + Settle + 1 + missed,
                          now + 1 > occurred[u.e] + Slack + missed
                   PROVE FALSE
      BY <3>1, <3>3, <1>1 DEF Overdue
    <3>7. now <= u.at + LookBack + ADay
      <4>1. r.e[2] \in Sayings /\ r.e = <<"message", r.e[2]>> /\ u.e = <<"unsend", r.e[2]>>
        BY <3>3, <3>4 DEF Envelopes
      <4>2. occurred[r.e] <= occurred[u.e]
        BY <4>1, <3>4 DEF Requests
      <4>3. r.at <= occurred[r.e] + Slack
        BY <3>3 DEF PublishedInTime
      <4> QED BY <4>2, <4>3, <3>4, <3>5
    <3>8. TakenBackLately(r)
      BY <3>3, <3>7 DEF TakenBackLately
    <3>9. Redacted(r) = [r EXCEPT !.text = FALSE]
      BY <3>4, <3>5, <3>6, <3>8 DEF Redacted
    <3>10. r \in RawRows
      BY DEF LkTypeOK
    <3> QED BY <3>2, <3>9, <3>10 DEF RawRows
  <2> QED BY <2>1, <2>2
<1>9. PublishedInTime'
  BY <1>1, <1>3 DEF PublishedInTime
<1> QED BY <1>5, <1>6, <1>7, <1>8, <1>9
-----------------------------------------------------------------------------
LEMMA LakeInvStep == LakeInv /\ [LkNext]_lakevars => LakeInv'
<1> SUFFICES ASSUME LakeInv, [LkNext]_lakevars PROVE LakeInv'
  OBVIOUS
<1>1. CASE UNCHANGED lakevars
  BY <1>1 DEF lakevars, LakeInv, LkTypeOK, NothingIsLost, Requests, PublishedInTime,
              OnlyMissedTicksDelay, Overdue
<1>2. CASE LkNext
  BY <1>2, LkSteps, OccursKeeps, ReplayKeeps, WriteRowKeeps, LakeTickKeeps
<1> QED BY <1>1, <1>2

(* The table, the topic and the log are well formed, for any messages and window. *)
THEOREM LakeTypes == LkSpec => []LkTypeOK
<1>1. LakeInv => LkTypeOK
  BY DEF LakeInv
<1> QED BY <1>1, InitLakeInv, LakeInvStep, PTL DEF LkSpec

(* The lake has all that happened, and not the text of what was taken back in     *)
(* time: for any window that leaves a margin of as many ticks as may fail.        *)
THEOREM LakeHolds == LkSpec => []LakeIsTrue
<1>1. LakeInv => LakeIsTrue
  <2> SUFFICES ASSUME LakeInv PROVE ErasedInTime
    BY DEF LakeInv, LakeIsTrue
  <2> SUFFICES ASSUME NEW r \in raw, NEW u \in raw,
                      r.e[1] = "message", u.e = <<"unsend", r.e[2]>>,
                      now > r.at + LookBack,
                      r.text, r.e \notin tardy, u.e \notin tardy
               PROVE FALSE
    BY DEF ErasedInTime
  <2>1. r.at \in Nat /\ now \in Nat /\ LookBack \in Nat
    BY LakeAssumption DEF LakeInv, LkTypeOK, RawRows
  <2> QED BY <2>1, StillInTheWindow
<1> QED BY <1>1, InitLakeInv, LakeInvStep, PTL DEF LkSpec
-----------------------------------------------------------------------------
(* Questions in the chat.                                                        *)
-----------------------------------------------------------------------------
(* The times an update leaves behind, on the event as ev is. *)
NewStart(o, ev) == IF o.start = Unsaid THEN ev.start ELSE o.start
NewEnd(o, ev) == IF o.end = Unsaid THEN ev.end ELSE o.end

(* A question about an event was compared with the event as it was at its version: *)
(* if the event still has it, the answer can be carried out.                        *)
Compared(o, events) ==
    /\ o.action = "create" => o.end = Unsaid \/ o.end > o.start
    /\ o.action = "update" =>
         /\ o.version <= events[o.e].version
         /\ o.version = events[o.e].version =>
              NewEnd(o, events[o.e]) = Unsaid \/ NewEnd(o, events[o.e]) > NewStart(o, events[o.e])

QuestionsWereCompared ==
    /\ \A q \in Asked : Compared(op[q], event)
    /\ \A t \in Taps : tap[t].pc # "idle" => Compared(tap[t].copy, event)

(* A question two taps did not both find: the tap that found it has it as it    *)
(* stands, the tap that marked it is the only one, and it is carried out by that *)
(* tap alone, later.                                                             *)
At(t, pc, q) == tap[t].pc = pc /\ tap[t].q = q
OneTapAtATime == \A q \in Asked \ raced :
    /\ \A t, u \in Taps : At(t, "found", q) /\ At(u, "found", q) => t = u
    /\ \A t, u \in Taps : At(t, "apply", q) /\ At(u, "apply", q) => t = u
    /\ \A t \in Taps : At(t, "found", q) => op[q].status = "pending" /\ tap[t].copy = op[q]
    /\ \A t \in Taps : At(t, "apply", q) => op[q].status = "done" /\ carried[q] = 0
    /\ op[q].status \in {"none", "pending"} => carried[q] = 0
    /\ carried[q] <= 1

NoVersionYet == \A e \in Planned : event[e].status = "none" => event[e].version = 0

ChatInv == CoTypeOK /\ OneTapAtATime /\ QuestionsWereCompared /\ EndsAfterItBegins /\ NoVersionYet
-----------------------------------------------------------------------------
LEMMA TheTimes ==
    /\ Unsaid = -1 /\ Unsaid \in Times /\ Unsaid \in Ends /\ 0 \in Slots /\ 1 \in Slots
    /\ \A x \in Slots : x \in Nat /\ x \in Times /\ x \in Ends
    /\ \A x \in Times : x \in Ends /\ (x = Unsaid \/ x \in Slots)
    /\ \A x \in Ends : x \in Int /\ (x = Unsaid \/ x \in Nat)
    /\ \A x \in Nat : x \in Ends
BY OpsAssumption DEF Slots, Times, Ends, Unsaid

USE TheTimes

LEMMA InitChatInv == CoInit => ChatInv
<1> SUFFICES ASSUME CoInit PROVE ChatInv
  OBVIOUS
<1>1. NoOp \in Ops /\ NoEvent \in Events /\ Scheduled \subseteq Events /\ NoTap.pc = "idle"
  BY DEF NoOp, NoEvent, Scheduled, Ops, Events, NoTap
<1>2. NoTap \in [pc : {"idle", "found", "apply"}, q : Asked \cup {0}, copy : Ops, now : Nat]
  BY <1>1 DEF NoTap
<1>3. \A e \in Planned : event[e] = NoEvent \/ event[e] \in Scheduled
  BY DEF CoInit
<1>4. CoTypeOK
  <2>1. event \in [Planned -> Events]
    BY <1>1 DEF CoInit
  <2> QED BY <2>1, <1>1, <1>2 DEF CoInit, CoTypeOK, NamesItsMatter, NoOp
<1>5. OneTapAtATime
  <2>1. \A t \in Taps : tap[t].pc = "idle"
    BY <1>1 DEF CoInit
  <2>2. \A q \in Asked : carried[q] = 0
    BY DEF CoInit
  <2> SUFFICES ASSUME NEW q \in Asked \ raced
               PROVE  /\ \A t \in Taps : ~At(t, "found", q) /\ ~At(t, "apply", q)
                      /\ carried[q] = 0
    <3> 0 <= 1
      OBVIOUS
    <3> QED BY Zenon DEF OneTapAtATime
  <2> QED BY <2>1, <2>2 DEF At
<1>6. QuestionsWereCompared
  BY <1>1 DEF CoInit, QuestionsWereCompared, Compared, NoOp
<1>7. EndsAfterItBegins
  BY <1>3 DEF EndsAfterItBegins, NoEvent, Scheduled
<1>8. NoVersionYet
  BY <1>3 DEF NoVersionYet, NoEvent, Scheduled
<1> QED BY <1>4, <1>5, <1>6, <1>7, <1>8 DEF ChatInv

(* What a step that asks puts down: a question compared with the event as it is. *)
Asks(q, o) ==
    /\ o \in Ops /\ o.status = "pending" /\ NamesItsMatter(o) /\ Compared(o, event)
    /\ op[q].status = "none" /\ op' = [op EXCEPT ![q] = o]
    /\ UNCHANGED <<event, tap, slot, carried, raced, overtaken>>

LEMMA PlansAsk ==
    ASSUME CoTypeOK, NEW q \in Asked, PlanCreate(q) \/ PlanUpdate(q) \/ PlanCancel(q)
    PROVE  \E o \in Ops : Asks(q, o)
<1> DEFINE put(changes) == [changes EXCEPT !.status = "pending", !.expires = slot + OpTTL]
<1>1. ASSUME NEW changes \in Ops, NamesItsMatter(changes), Compared(changes, event),
             NewOp(q, changes)
      PROVE  \E o \in Ops : Asks(q, o)
  <2> slot + OpTTL \in Nat
    BY OpsAssumption DEF CoTypeOK
  <2>1. put(changes) \in Ops /\ put(changes).status = "pending"
    BY <1>1 DEF Ops
  <2>2. NamesItsMatter(put(changes)) /\ Compared(put(changes), event)
    BY <1>1 DEF NamesItsMatter, Compared, NewStart, NewEnd, Ops
  <2>3. Asks(q, put(changes))
    BY <1>1, <2>1, <2>2 DEF NewOp, IsNewOp, Asks
  <2> QED BY <2>1, <2>3
<1>2. NoOp \in Ops
  BY DEF NoOp, Ops
<1>3. CASE PlanCreate(q)
  <2>1. PICK start \in slot .. LastSlot, end \in Times :
          NewOp(q, [NoOp EXCEPT !.action = "create", !.start = start,
                       !.end = IF end > start THEN end ELSE Unsaid])
    BY <1>3 DEF PlanCreate
  <2> DEFINE kept == IF end > start THEN end ELSE Unsaid
             changes == [NoOp EXCEPT !.action = "create", !.start = start, !.end = kept]
  <2>6. NewOp(q, changes)
    BY <2>1
  <2>2. start \in Nat /\ start \in Slots /\ end \in Int
    BY OpsAssumption DEF CoTypeOK, Slots
  <2>5. kept \in Ends /\ (kept = Unsaid \/ kept > start)
    BY <2>2
  <2> HIDE DEF kept
  <2>3. changes \in Ops
    BY <2>2, <2>5 DEF Ops, NoOp
  <2>4. NamesItsMatter(changes) /\ Compared(changes, event)
    BY <2>2, <2>5 DEF NamesItsMatter, Compared, NoOp
  <2> QED BY <2>6, <2>3, <2>4, <1>1
<1>4. CASE PlanUpdate(q)
  <2>1. PICK e \in Planned, start \in Times, end \in Times :
          LET ev == event[e]
              moves == start \notin {Unsaid, ev.start}
              ends == end \notin {Unsaid, ev.end}
              drawn == moves /\ ~ends /\ ev.end # Unsaid
              newEnd == IF drawn THEN start + (ev.end - ev.start)
                        ELSE IF ends THEN end ELSE ev.end
          IN  /\ ev.status = "live" /\ (moves \/ ends)
              /\ (~ends /\ ev.end = Unsaid) \/ newEnd > (IF moves THEN start ELSE ev.start)
              /\ NewOp(q, [NoOp EXCEPT !.action = "update", !.e = e, !.start = start,
                              !.end = IF drawn THEN newEnd ELSE end, !.version = ev.version])
    BY <1>4 DEF PlanUpdate
  <2> DEFINE ev == event[e]
             moves == start \notin {Unsaid, ev.start}
             ends == end \notin {Unsaid, ev.end}
             drawn == moves /\ ~ends /\ ev.end # Unsaid
             newEnd == IF drawn THEN start + (ev.end - ev.start)
                       ELSE IF ends THEN end ELSE ev.end
             left == IF drawn THEN newEnd ELSE end
             changes == [NoOp EXCEPT !.action = "update", !.e = e, !.start = start,
                           !.end = left, !.version = ev.version]
  <2>2. ev \in Events /\ ev.start \in Slots /\ ev.end \in Ends /\ ev.version \in Nat
    BY DEF CoTypeOK, Events
  <2>3. start \in Int /\ end \in Int /\ start \in Times /\ end \in Times
    OBVIOUS
  <2>4. (~ends /\ ev.end = Unsaid) \/ newEnd > (IF moves THEN start ELSE ev.start)
    BY <2>1
  <2>5. left \in Ends
    <3>1. CASE drawn
      <4>1. start \in Nat /\ newEnd = start + (ev.end - ev.start) /\ left = newEnd
        BY <2>3, <3>1
      <4>2. newEnd > start
        BY <2>4, <3>1
      <4>3. newEnd \in Int
        <5>1. ev.end \in Int /\ ev.start \in Int
          BY <2>2
        <5> HIDE DEF ev, newEnd
        <5> QED BY <4>1, <5>1
      <4> HIDE DEF left, newEnd
      <4> QED BY <4>1, <4>2, <4>3
    <3> QED BY <2>3, <3>1
  <2>6. changes \in Ops
    <3> HIDE DEF left, ev
    <3> QED BY <2>2, <2>3, <2>5 DEF Ops, NoOp
  <2>7. (IF left = Unsaid THEN ev.end ELSE left) = newEnd
    <3>1. CASE drawn
      BY <2>2, <2>3, <2>4, <3>1
    <3>2. CASE ~drawn
      BY <2>2, <2>3, <3>2
    <3> QED BY <3>1, <3>2
  <2>14. newEnd = Unsaid \/ newEnd > (IF moves THEN start ELSE ev.start)
    BY <2>2, <2>4
  <2>8. (IF start = Unsaid THEN ev.start ELSE start) = IF moves THEN start ELSE ev.start
    BY <2>2, <2>3
  <2>9. /\ changes.action = "update" /\ changes.e = e /\ changes.start = start
        /\ changes.end = left /\ changes.version = ev.version
    BY DEF NoOp
  <2>10. NewOp(q, changes)
    BY <2>1
  <2> HIDE DEF changes, left, newEnd, moves
  <2>11. NewEnd(changes, ev) = newEnd /\ NewStart(changes, ev) = IF moves THEN start ELSE ev.start
    BY <2>7, <2>8, <2>9 DEF NewEnd, NewStart
  <2>12. Compared(changes, event)
    BY <2>2, <2>9, <2>11, <2>14 DEF Compared
  <2>13. NamesItsMatter(changes)
    BY <2>9 DEF NamesItsMatter
  <2> HIDE DEF ev
  <2> QED BY <2>6, <2>10, <2>12, <2>13, <1>1
<1>5. CASE PlanCancel(q)
  <2>1. PICK e \in Planned :
          NewOp(q, [NoOp EXCEPT !.action = "cancel", !.e = e, !.version = event[e].version])
    BY <1>5 DEF PlanCancel
  <2> DEFINE changes == [NoOp EXCEPT !.action = "cancel", !.e = e, !.version = event[e].version]
  <2>2. changes \in Ops
    <3> event[e].version \in Nat
      BY DEF CoTypeOK, Events
    <3> QED BY DEF Ops, NoOp
  <2>3. NamesItsMatter(changes) /\ Compared(changes, event)
    BY DEF NamesItsMatter, Compared, NoOp
  <2> QED BY <2>1, <2>2, <2>3, <1>1
<1> QED BY <1>3, <1>4, <1>5
-----------------------------------------------------------------------------
LEMMA AskKeeps ==
    ASSUME ChatInv, NEW q \in Asked, NEW o \in Ops, Asks(q, o)
    PROVE  ChatInv'
<1>1. \A r \in Asked : op'[r] = IF r = q THEN o ELSE op[r]
  BY DEF ChatInv, CoTypeOK, Asks
<1>2. event' = event /\ tap' = tap /\ carried' = carried /\ raced' = raced
      /\ overtaken' = overtaken /\ slot' = slot
  BY DEF Asks
<1>3. CoTypeOK'
  BY <1>1, <1>2 DEF ChatInv, CoTypeOK, Asks
<1>4. OneTapAtATime'
  <2> SUFFICES ASSUME NEW r \in Asked \ raced
               PROVE  /\ \A t, u \in Taps : At(t, "found", r) /\ At(u, "found", r) => t = u
                      /\ \A t, u \in Taps : At(t, "apply", r) /\ At(u, "apply", r) => t = u
                      /\ \A t \in Taps : At(t, "found", r) => op'[r].status = "pending" /\ tap[t].copy = op'[r]
                      /\ \A t \in Taps : At(t, "apply", r) => op'[r].status = "done" /\ carried[r] = 0
                      /\ op'[r].status \in {"none", "pending"} => carried[r] = 0
                      /\ carried[r] <= 1
    BY <1>2 DEF OneTapAtATime, At
  <2>1. CASE r = q
    BY <1>1, <2>1 DEF ChatInv, OneTapAtATime, Asks
  <2>2. CASE r # q
    BY <1>1, <2>2 DEF ChatInv, OneTapAtATime
  <2> QED BY <2>1, <2>2
<1>5. QuestionsWereCompared'
  BY <1>1, <1>2 DEF ChatInv, QuestionsWereCompared, Asks
<1>6. EndsAfterItBegins' /\ NoVersionYet'
  BY <1>2 DEF ChatInv, EndsAfterItBegins, NoVersionYet
<1> QED BY <1>3, <1>4, <1>5, <1>6 DEF ChatInv

(* A tap that ends or goes on without a save of the event. *)
LEMMA FindKeeps ==
    ASSUME ChatInv, NEW t \in Taps, FindOp(t)
    PROVE  ChatInv'
<1>1. PICK q \in Asked :
        /\ tap[t].pc = "idle" /\ op[q].status = "pending"
        /\ tap' = [tap EXCEPT ![t] = [pc |-> "found", q |-> q, copy |-> op[q], now |-> slot]]
        /\ raced' = IF \E u \in Taps : tap[u].pc = "found" /\ tap[u].q = q THEN raced \cup {q} ELSE raced
  BY DEF FindOp
<1>2. event' = event /\ op' = op /\ carried' = carried /\ overtaken' = overtaken /\ slot' = slot
  BY DEF FindOp
<1> DEFINE new == [pc |-> "found", q |-> q, copy |-> op[q], now |-> slot]
<1>3. \A u \in Taps : tap'[u] = IF u = t THEN new ELSE tap[u]
  BY <1>1 DEF ChatInv, CoTypeOK
<1>4. new.pc = "found" /\ new.q = q /\ new.copy = op[q]
      /\ new \in [pc : {"idle", "found", "apply"}, q : Asked \cup {0}, copy : Ops, now : Nat]
  BY DEF ChatInv, CoTypeOK
<1> HIDE DEF new
<1>5. CoTypeOK'
  <2>1. tap' \in [Taps -> [pc : {"idle", "found", "apply"}, q : Asked \cup {0}, copy : Ops, now : Nat]]
    BY <1>1, <1>4 DEF ChatInv, CoTypeOK, new
  <2> QED BY <1>1, <1>2, <1>3, <1>4, <2>1 DEF ChatInv, CoTypeOK
<1>6. OneTapAtATime'
  <2> SUFFICES ASSUME NEW r \in Asked \ raced'
               PROVE  /\ \A v, u \in Taps : At(v, "found", r)' /\ At(u, "found", r)' => v = u
                      /\ \A v, u \in Taps : At(v, "apply", r)' /\ At(u, "apply", r)' => v = u
                      /\ \A v \in Taps : At(v, "found", r)' => op[r].status = "pending" /\ tap'[v].copy = op[r]
                      /\ \A v \in Taps : At(v, "apply", r)' => op[r].status = "done" /\ carried[r] = 0
                      /\ op[r].status \in {"none", "pending"} => carried[r] = 0
                      /\ carried[r] <= 1
    BY <1>2 DEF OneTapAtATime
  <2>1. r \in Asked \ raced
    BY <1>1
  <2>2. CASE r = q
    <3>1. \A u \in Taps : ~At(u, "found", q)
      BY <1>1, <2>2 DEF At
    <3>2. \A u \in Taps : At(u, "found", q)' => u = t
      BY <1>3, <3>1 DEF At
    <3>3. \A u \in Taps : ~At(u, "apply", q)
      BY <1>1, <2>1, <2>2 DEF ChatInv, OneTapAtATime
    <3>4. \A u \in Taps : ~At(u, "apply", q)'
      BY <1>3, <1>4, <3>3 DEF At
    <3> QED BY <1>1, <1>3, <1>4, <2>1, <2>2, <3>2, <3>4 DEF ChatInv, OneTapAtATime
  <2>3. CASE r # q
    <3>1. \A u \in Taps, pc \in {"found", "apply"} : At(u, pc, r)' => At(u, pc, r) /\ tap'[u] = tap[u]
      BY <1>1, <1>3, <1>4, <2>3 DEF At
    <3> QED BY <2>1, <3>1 DEF ChatInv, OneTapAtATime
  <2> QED BY <2>2, <2>3
<1>7. QuestionsWereCompared'
  BY <1>1, <1>2, <1>3, <1>4 DEF ChatInv, QuestionsWereCompared
<1>8. EndsAfterItBegins' /\ NoVersionYet'
  BY <1>2 DEF ChatInv, EndsAfterItBegins, NoVersionYet
<1> QED BY <1>5, <1>6, <1>7, <1>8 DEF ChatInv

(* A tap marks its question with an answer, and goes on only if it was yes. *)
LEMMA MarksKeep ==
    ASSUME ChatInv, NEW t \in Taps, NEW status \in {"expired", "declined", "done"}, Marks(t, status)
    PROVE  /\ ChatInv'
           /\ \A q \in Asked \ raced : op'[q] # op[q] => op[q].status = "pending"
<1> DEFINE q == tap[t].q
           o == [tap[t].copy EXCEPT !.status = status]
           new == IF status = "done" THEN [tap[t] EXCEPT !.pc = "apply"] ELSE NoTap
           Locals == [pc : {"idle", "found", "apply"}, q : Asked \cup {0}, copy : Ops, now : Nat]
<1>1. /\ event' = event /\ carried' = carried /\ raced' = raced /\ overtaken' = overtaken
      /\ slot' = slot /\ tap[t].pc = "found"
  BY DEF Marks
<1>2. q \in Asked /\ tap[t] \in Locals /\ tap[t].copy \in Ops /\ At(t, "found", q)
  BY <1>1 DEF ChatInv, CoTypeOK, At
<1>3. \A r \in Asked : op'[r] = IF r = q THEN o ELSE op[r]
  BY <1>2 DEF ChatInv, CoTypeOK, Marks
<1>4. \A u \in Taps : tap'[u] = IF u = t THEN new ELSE tap[u]
  BY <1>2 DEF ChatInv, CoTypeOK, Marks
<1>5. /\ o \in Ops /\ o.status = status
      /\ NamesItsMatter(o) /\ Compared(o, event)
  <2>1. NamesItsMatter(tap[t].copy) /\ Compared(tap[t].copy, event)
    BY <1>1 DEF ChatInv, CoTypeOK, QuestionsWereCompared
  <2> QED BY <1>2, <2>1 DEF Ops, NamesItsMatter, Compared, NewStart, NewEnd
<1>6. NoTap \in Locals /\ NoTap.pc = "idle"
  BY DEF NoTap, NoOp, Ops
<1>7. new \in Locals /\ (new.pc # "idle" => new.q = q /\ new.copy = tap[t].copy)
      /\ new.pc = IF status = "done" THEN "apply" ELSE "idle"
  BY <1>2, <1>6
<1> HIDE DEF new
<1>8. CoTypeOK'
  <2>1. op' \in [Asked -> Ops]
    BY <1>3, <1>5 DEF ChatInv, CoTypeOK, Marks
  <2>2. tap' \in [Taps -> Locals]
    BY <1>4, <1>7 DEF ChatInv, CoTypeOK, Marks, new
  <2>3. \A r \in Asked : NamesItsMatter(op'[r])
    BY <1>3, <1>5 DEF ChatInv, CoTypeOK
  <2>4. \A u \in Taps : tap'[u].pc # "idle" => tap'[u].q \in Asked /\ NamesItsMatter(tap'[u].copy)
    BY <1>1, <1>2, <1>4, <1>7 DEF ChatInv, CoTypeOK
  <2> QED BY <1>1, <2>1, <2>2, <2>3, <2>4 DEF ChatInv, CoTypeOK
<1>9. OneTapAtATime'
  <2> SUFFICES ASSUME NEW r \in Asked \ raced
               PROVE  /\ \A v, u \in Taps : At(v, "found", r)' /\ At(u, "found", r)' => v = u
                      /\ \A v, u \in Taps : At(v, "apply", r)' /\ At(u, "apply", r)' => v = u
                      /\ \A v \in Taps : At(v, "found", r)' => op'[r].status = "pending" /\ tap'[v].copy = op'[r]
                      /\ \A v \in Taps : At(v, "apply", r)' => op'[r].status = "done" /\ carried[r] = 0
                      /\ op'[r].status \in {"none", "pending"} => carried[r] = 0
                      /\ carried[r] <= 1
    BY <1>1 DEF OneTapAtATime
  <2>1. CASE r = q
    <3>1. op[r].status = "pending" /\ carried[r] = 0
      BY <1>2, <2>1 DEF ChatInv, OneTapAtATime
    <3>2. \A u \in Taps : ~At(u, "apply", r) /\ (At(u, "found", r) => u = t)
      BY <1>2, <2>1, <3>1 DEF ChatInv, OneTapAtATime
    <3>3. \A u \in Taps : ~At(u, "found", r)' /\ (At(u, "apply", r)' => u = t /\ status = "done")
      BY <1>4, <1>7, <3>2 DEF At
    <3>4. op'[r].status = status
      BY <1>3, <1>5, <2>1
    <3> QED BY <3>1, <3>3, <3>4
  <2>2. CASE r # q
    <3>1. \A u \in Taps, pc \in {"found", "apply"} : At(u, pc, r)' => At(u, pc, r) /\ tap'[u] = tap[u]
      BY <1>4, <1>7, <2>2 DEF At
    <3>2. op'[r] = op[r]
      BY <1>3, <2>2
    <3> QED BY <3>1, <3>2 DEF ChatInv, OneTapAtATime
  <2> QED BY <2>1, <2>2
<1>10. QuestionsWereCompared'
  BY <1>1, <1>3, <1>4, <1>5, <1>7 DEF ChatInv, QuestionsWereCompared
<1>11. EndsAfterItBegins' /\ NoVersionYet'
  BY <1>1 DEF ChatInv, EndsAfterItBegins, NoVersionYet
<1>12. \A r \in Asked \ raced : op'[r] # op[r] => op[r].status = "pending"
  BY <1>2, <1>3 DEF ChatInv, OneTapAtATime
<1> QED BY <1>8, <1>9, <1>10, <1>11, <1>12 DEF ChatInv

LEMMA TapDiesKeeps ==
    ASSUME ChatInv, NEW t \in Taps, TapDies(t)
    PROVE  ChatInv'
<1>1. /\ event' = event /\ op' = op /\ carried' = carried /\ raced' = raced
      /\ overtaken' = overtaken /\ slot' = slot
  BY DEF TapDies
<1>2. NoTap \in [pc : {"idle", "found", "apply"}, q : Asked \cup {0}, copy : Ops, now : Nat]
      /\ NoTap.pc = "idle"
  BY DEF NoTap, NoOp, Ops
<1>3. \A u \in Taps : tap'[u] = IF u = t THEN NoTap ELSE tap[u]
  BY DEF ChatInv, CoTypeOK, TapDies
<1>4. CoTypeOK'
  <2>1. tap' \in [Taps -> [pc : {"idle", "found", "apply"}, q : Asked \cup {0}, copy : Ops, now : Nat]]
    BY <1>2 DEF ChatInv, CoTypeOK, TapDies
  <2> QED BY <1>1, <1>2, <1>3, <2>1 DEF ChatInv, CoTypeOK
<1>5. OneTapAtATime'
  <2>1. \A q \in Asked, u \in Taps, pc \in {"found", "apply"} :
          At(u, pc, q)' => At(u, pc, q) /\ tap'[u] = tap[u]
    BY <1>2, <1>3 DEF At
  <2> QED BY <1>1, <2>1 DEF ChatInv, OneTapAtATime
<1>6. QuestionsWereCompared'
  BY <1>1, <1>2, <1>3 DEF ChatInv, QuestionsWereCompared
<1>7. EndsAfterItBegins' /\ NoVersionYet'
  BY <1>1 DEF ChatInv, EndsAfterItBegins, NoVersionYet
<1> QED BY <1>4, <1>5, <1>6, <1>7 DEF ChatInv

(* What an answer does to the schedule: one event is saved, with times that are *)
(* right or on an event that was overtaken, or nothing is.                      *)
Saves(t, e, ev) ==
    /\ event' = [event EXCEPT ![e] = ev]
    /\ ev.version = event[e].version + 1 /\ ev.status # "none"
    /\ carried' = [carried EXCEPT ![tap[t].q] = @ + 1]
    /\ overtaken \subseteq overtaken' /\ overtaken' \subseteq Planned
    /\ ev.end = Unsaid \/ ev.end > ev.start \/ e \in overtaken'
SavesNothing == UNCHANGED <<event, carried, overtaken>>

LEMMA ApplySaves ==
    ASSUME ChatInv, NEW t \in Taps, Apply(t)
    PROVE  SavesNothing \/ \E e \in Planned, ev \in Events : Saves(t, e, ev)
<1> DEFINE o == tap[t].copy
<1>1. /\ o \in Ops /\ NamesItsMatter(o) /\ Compared(o, event)
  BY DEF ChatInv, CoTypeOK, QuestionsWereCompared, Apply
<1>2. \A e \in Planned : event[e] \in Events
  BY DEF ChatInv, CoTypeOK
<1>3. overtaken \subseteq Planned
  BY DEF ChatInv, CoTypeOK
<1>4. CASE /\ o.action = "create"
           /\ \E e \in Planned : IsFree(e) /\ SaveEvent(t, e,
                 [NoEvent EXCEPT !.status = "live", !.start = o.start, !.end = o.end])
           /\ UNCHANGED overtaken
  <2>1. PICK e \in Planned : IsFree(e) /\ SaveEvent(t, e,
                 [NoEvent EXCEPT !.status = "live", !.start = o.start, !.end = o.end])
    BY <1>4
  <2> DEFINE new == [NoEvent EXCEPT !.status = "live", !.start = o.start, !.end = o.end]
             ev == [new EXCEPT !.version = event[e].version + 1]
  <2>2. new \in Events /\ new.status = "live" /\ (new.end = Unsaid \/ new.end > new.start)
    BY <1>1, <1>4 DEF NoEvent, Events, Ops, NamesItsMatter, Compared
  <2>3. event[e].version = 0
    BY <2>1 DEF IsFree, ChatInv, NoVersionYet
  <2>6. event' = [event EXCEPT ![e] = ev] /\ carried' = [carried EXCEPT ![tap[t].q] = @ + 1]
    BY <2>1 DEF SaveEvent
  <2> HIDE DEF new
  <2>4. ev \in Events /\ ev.status = "live" /\ (ev.end = Unsaid \/ ev.end > ev.start)
        /\ ev.version = event[e].version + 1
    BY <2>2, <2>3 DEF Events
  <2>5. Saves(t, e, ev)
    BY <1>3, <1>4, <2>4, <2>6 DEF Saves
  <2> QED BY <2>4, <2>5
<1>5. CASE /\ o.action # "create" /\ event[o.e].status = "cancelled"
           /\ UNCHANGED <<event, carried, overtaken>>
  BY <1>5 DEF SavesNothing
<1>6. CASE /\ o.action = "update" /\ event[o.e].status = "live"
           /\ SaveEvent(t, o.e, [event[o.e] EXCEPT
                 !.start = IF o.start = Unsaid THEN @ ELSE o.start,
                 !.end = IF o.end = Unsaid THEN @ ELSE o.end])
           /\ overtaken' = IF o.version # event[o.e].version THEN overtaken \cup {o.e} ELSE overtaken
  <2> DEFINE was == event[o.e]
             new == [was EXCEPT !.start = IF o.start = Unsaid THEN @ ELSE o.start,
                                !.end = IF o.end = Unsaid THEN @ ELSE o.end]
             ev == [new EXCEPT !.version = was.version + 1]
  <2>1. o.e \in Planned /\ was \in Events
    BY <1>1, <1>2, <1>6 DEF NamesItsMatter
  <2>2. o.start \in Times /\ o.end \in Ends /\ was.start \in Slots /\ was.end \in Ends
        /\ was.version \in Nat /\ was.status = "live"
    BY <1>1, <1>6, <2>1 DEF Ops, Events
  <2>3. NewStart(o, was) \in Slots /\ NewEnd(o, was) \in Ends
    BY <2>2 DEF NewStart, NewEnd
  <2>4. new \in Events /\ new.status = "live"
        /\ new.start = NewStart(o, was) /\ new.end = NewEnd(o, was)
    <3> HIDE DEF was, o
    <3> QED BY <2>1, <2>2, <2>3 DEF NewStart, NewEnd, Events
  <2>5. NewEnd(o, was) = Unsaid \/ NewEnd(o, was) > NewStart(o, was) \/ o.e \in overtaken'
    BY <1>1, <1>6 DEF Compared
  <2>6. event' = [event EXCEPT ![o.e] = ev] /\ carried' = [carried EXCEPT ![tap[t].q] = @ + 1]
    BY <1>6 DEF SaveEvent
  <2> HIDE DEF new
  <2>7. ev \in Events /\ ev.status = "live" /\ ev.version = was.version + 1
        /\ (ev.end = Unsaid \/ ev.end > ev.start \/ o.e \in overtaken')
    BY <2>2, <2>4, <2>5 DEF Events
  <2>8. Saves(t, o.e, ev)
    BY <1>3, <1>6, <2>1, <2>6, <2>7 DEF Saves
  <2> QED BY <2>1, <2>7, <2>8
<1>7. CASE /\ o.action = "cancel" /\ event[o.e].status = "live"
           /\ SaveEvent(t, o.e, [event[o.e] EXCEPT !.status = "cancelled"])
           /\ UNCHANGED overtaken
  <2> DEFINE was == event[o.e]
             new == [was EXCEPT !.status = "cancelled"]
             ev == [new EXCEPT !.version = was.version + 1]
  <2>1. o.e \in Planned /\ was \in Events /\ was.version \in Nat
        /\ (was.end = Unsaid \/ was.end > was.start \/ o.e \in overtaken)
    BY <1>1, <1>2, <1>7 DEF NamesItsMatter, Events, ChatInv, EndsAfterItBegins
  <2>2. new \in Events /\ new.status = "cancelled" /\ new.start = was.start /\ new.end = was.end
    <3> HIDE DEF was
    <3> QED BY <2>1 DEF Events
  <2>3. event' = [event EXCEPT ![o.e] = ev] /\ carried' = [carried EXCEPT ![tap[t].q] = @ + 1]
    BY <1>7 DEF SaveEvent
  <2> HIDE DEF new
  <2>4. ev \in Events /\ ev.status = "cancelled" /\ ev.version = was.version + 1
        /\ (ev.end = Unsaid \/ ev.end > ev.start \/ o.e \in overtaken)
    BY <2>1, <2>2 DEF Events
  <2>6. Saves(t, o.e, ev)
    BY <1>3, <1>7, <2>1, <2>3, <2>4 DEF Saves
  <2> QED BY <2>1, <2>4, <2>6
<1> QED BY <1>4, <1>5, <1>6, <1>7 DEF Apply

LEMMA ApplyKeeps ==
    ASSUME ChatInv, NEW t \in Taps, Apply(t)
    PROVE  ChatInv'
<1> DEFINE q == tap[t].q
<1>1. op' = op /\ raced' = raced /\ slot' = slot /\ At(t, "apply", q) /\ q \in Asked
  BY DEF Apply, At, ChatInv, CoTypeOK
<1>2. NoTap \in [pc : {"idle", "found", "apply"}, q : Asked \cup {0}, copy : Ops, now : Nat]
      /\ NoTap.pc = "idle"
  BY DEF NoTap, NoOp, Ops
<1>3. \A u \in Taps : tap'[u] = IF u = t THEN NoTap ELSE tap[u]
  BY DEF ChatInv, CoTypeOK, Apply
<1>4. tap' \in [Taps -> [pc : {"idle", "found", "apply"}, q : Asked \cup {0}, copy : Ops, now : Nat]]
  BY <1>2 DEF ChatInv, CoTypeOK, Apply
<1>5. \A u \in Taps : tap'[u].pc # "idle" => u # t /\ tap'[u] = tap[u]
  BY <1>2, <1>3
<1>6. /\ event' \in [Planned -> Events] /\ carried' \in [Asked -> Nat]
      /\ overtaken' \subseteq Planned /\ overtaken \subseteq overtaken'
      /\ \A r \in Asked : carried'[r] = carried[r] \/ (r = q /\ carried'[r] = carried[r] + 1)
      /\ \A e \in Planned : event'[e] = event[e] \/ event'[e].version > event[e].version
      /\ \A e \in Planned : event'[e].version >= event[e].version
      /\ EndsAfterItBegins' /\ NoVersionYet'
  <2>1. CASE SavesNothing
    BY <2>1 DEF SavesNothing, ChatInv, CoTypeOK, Events, EndsAfterItBegins, NoVersionYet
  <2>2. CASE \E e \in Planned, ev \in Events : Saves(t, e, ev)
    <3>1. PICK e \in Planned, ev \in Events : Saves(t, e, ev)
      BY <2>2
    <3>2. \A d \in Planned : event'[d] = IF d = e THEN ev ELSE event[d]
      BY <3>1 DEF Saves, ChatInv, CoTypeOK
    <3>3. \A r \in Asked : carried'[r] = IF r = q THEN carried[r] + 1 ELSE carried[r]
      BY <3>1 DEF Saves, ChatInv, CoTypeOK
    <3>4. event' \in [Planned -> Events] /\ carried' \in [Asked -> Nat]
      <4>1. event \in [Planned -> Events] /\ carried \in [Asked -> Nat]
        BY DEF ChatInv, CoTypeOK
      <4>2. event' = [event EXCEPT ![e] = ev] /\ carried' = [carried EXCEPT ![q] = carried[q] + 1]
        BY <3>1 DEF Saves
      <4> QED BY <1>1, <4>1, <4>2
    <3>5. \A d \in Planned : event[d].version \in Nat
      BY DEF ChatInv, CoTypeOK, Events
    <3>6. EndsAfterItBegins'
      BY <3>1, <3>2 DEF Saves, ChatInv, EndsAfterItBegins
    <3>7. NoVersionYet'
      BY <3>1, <3>2 DEF Saves, ChatInv, NoVersionYet
    <3> QED BY <3>1, <3>2, <3>3, <3>4, <3>5, <3>6, <3>7 DEF Saves
  <2> QED BY <2>1, <2>2, ApplySaves
<1>7. CoTypeOK'
  BY <1>1, <1>4, <1>5, <1>6 DEF ChatInv, CoTypeOK
<1>8. OneTapAtATime'
  <2> SUFFICES ASSUME NEW r \in Asked \ raced
               PROVE  /\ \A v, u \in Taps : At(v, "found", r)' /\ At(u, "found", r)' => v = u
                      /\ \A v, u \in Taps : At(v, "apply", r)' /\ At(u, "apply", r)' => v = u
                      /\ \A v \in Taps : At(v, "found", r)' => op[r].status = "pending" /\ tap'[v].copy = op[r]
                      /\ \A v \in Taps : At(v, "apply", r)' => op[r].status = "done" /\ carried'[r] = 0
                      /\ op[r].status \in {"none", "pending"} => carried'[r] = 0
                      /\ carried'[r] <= 1
    BY <1>1 DEF OneTapAtATime
  <2>1. \A u \in Taps, pc \in {"found", "apply"} :
          At(u, pc, r)' => u # t /\ At(u, pc, r) /\ tap'[u] = tap[u]
    BY <1>5 DEF At
  <2>2. CASE r = q
    <3>1. op[r].status = "done" /\ carried[r] = 0
      BY <1>1, <2>2 DEF ChatInv, OneTapAtATime
    <3>2. \A u \in Taps : ~At(u, "apply", r)'
      BY <1>1, <2>1, <2>2 DEF ChatInv, OneTapAtATime
    <3>3. \A u \in Taps : ~At(u, "found", r)'
      BY <2>1, <3>1 DEF ChatInv, OneTapAtATime
    <3> QED BY <1>6, <3>1, <3>2, <3>3
  <2>3. CASE r # q
    <3>1. carried'[r] = carried[r]
      BY <1>6, <2>3
    <3> QED BY <2>1, <3>1 DEF ChatInv, OneTapAtATime
  <2> QED BY <2>2, <2>3
<1>9. QuestionsWereCompared'
  <2>1. ASSUME NEW o \in Ops, NamesItsMatter(o), Compared(o, event)
        PROVE  Compared(o, event')
    <3>1. CASE o.action = "update"
      <4>1. /\ o.e \in Planned /\ o.version \in Nat
            /\ event[o.e].version \in Nat /\ event'[o.e].version \in Nat
        BY <1>6, <2>1, <3>1 DEF NamesItsMatter, Ops, Events, ChatInv, CoTypeOK
      <4> QED BY <1>6, <2>1, <3>1, <4>1 DEF Compared
    <3>2. CASE o.action # "update"
      BY <2>1, <3>2 DEF Compared
    <3> QED BY <3>1, <3>2
  <2>2. \A r \in Asked : op[r] \in Ops /\ NamesItsMatter(op[r])
    BY DEF ChatInv, CoTypeOK
  <2>3. \A u \in Taps : tap[u].pc # "idle" => tap[u].copy \in Ops /\ NamesItsMatter(tap[u].copy)
    BY DEF ChatInv, CoTypeOK
  <2> QED BY <1>1, <1>5, <2>1, <2>2, <2>3 DEF ChatInv, QuestionsWereCompared
<1> QED BY <1>6, <1>7, <1>8, <1>9 DEF ChatInv

LEMMA ChatStep ==
    ASSUME ChatInv, [CoNext]_opsvars
    PROVE  /\ ChatInv'
           /\ \A q \in Asked \ raced : op'[q] # op[q] => op[q].status \in {"none", "pending"}
<1>1. ASSUME NEW q \in Asked, PlanCreate(q) \/ PlanUpdate(q) \/ PlanCancel(q)
      PROVE  /\ ChatInv'
             /\ \A r \in Asked \ raced : op'[r] # op[r] => op[r].status \in {"none", "pending"}
  <2>1. PICK o \in Ops : Asks(q, o)
    BY <1>1, PlansAsk DEF ChatInv
  <2>2. \A r \in Asked : op'[r] # op[r] => op[r].status = "none"
    BY <2>1 DEF Asks, ChatInv, CoTypeOK
  <2> QED BY <2>1, <2>2, AskKeeps
<1>2. ASSUME NEW t \in Taps, FindOp(t) \/ Apply(t) \/ TapDies(t)
      PROVE  ChatInv' /\ op' = op
  BY <1>2, FindKeeps, ApplyKeeps, TapDiesKeeps DEF FindOp, Apply, TapDies
<1>3. ASSUME NEW t \in Taps, ExpireOp(t) \/ DeclineOp(t) \/ ConfirmOp(t)
      PROVE  /\ ChatInv'
             /\ \A r \in Asked \ raced : op'[r] # op[r] => op[r].status = "pending"
  <2>1. PICK status \in {"expired", "declined", "done"} : Marks(t, status)
    BY <1>3 DEF ExpireOp, DeclineOp, ConfirmOp
  <2> QED BY <2>1, MarksKeep
<1>4. CASE NextSlot \/ UNCHANGED opsvars
  <2>1. /\ event' = event /\ op' = op /\ tap' = tap /\ carried' = carried /\ raced' = raced
        /\ overtaken' = overtaken /\ slot' \in Nat
    BY <1>4 DEF NextSlot, opsvars, ChatInv, CoTypeOK
  <2>2. OneTapAtATime' /\ QuestionsWereCompared' /\ EndsAfterItBegins' /\ NoVersionYet'
    BY <2>1 DEF ChatInv, OneTapAtATime, At, QuestionsWereCompared, EndsAfterItBegins, NoVersionYet
  <2> QED BY <2>1, <2>2 DEF ChatInv, CoTypeOK
<1> QED BY <1>1, <1>2, <1>3, <1>4 DEF CoNext

(* The documents of events and questions and the locals of taps are well formed, *)
(* however many questions are asked and taps handled.                            *)
THEOREM ChatTypes == CoSpec => []CoTypeOK
<1>1. ChatInv => CoTypeOK
  BY DEF ChatInv
<1> QED BY <1>1, InitChatInv, ChatStep, PTL DEF CoSpec

(* The button of a question, however often it is tapped, carries it out once,    *)
(* leaves its answer as it was first given, and no event that ends before it     *)
(* begins, but for questions two taps both find and events changed in between    *)
(* (calendar_intent.py:213-229, :329-372).                                       *)
THEOREM ChatHolds == CoSpec => ChatChangesOnce
<1>1. ChatInv => CarriedOutOnce /\ EndsAfterItBegins
  BY DEF ChatInv, OneTapAtATime, CarriedOutOnce
<1>2. ChatInv /\ [CoNext]_opsvars =>
        [\A q \in Asked :
            (op[q].status \notin {"none", "pending"} /\ q \notin raced) => op'[q] = op[q]]_opsvars
  BY ChatStep
<1> QED BY <1>1, <1>2, InitChatInv, ChatStep, PTL DEF CoSpec, ChatChangesOnce, AnswerStands
-----------------------------------------------------------------------------
(* The sync with Google: the invariant.                                          *)
-----------------------------------------------------------------------------
(* The locals of a call fit where it is: at rest it has none, the pull has no    *)
(* event in hand but the one it pushes, and every event is pushed once.          *)
LocalsFit(w) ==
    /\ w.pc = "idle" => w = Resting
    /\ w.pc = "items" => w.e = 0 /\ w.todo = {}
    /\ w.next # 0 => w.todo = {}
    /\ w.pc \in {"push", "mark"} => w.copy.status # "none"
    /\ \A d \in w.todo : d.copy.status # "none" /\ d.e # w.e
    /\ \A c, d \in w.todo : c.e = d.e => c = d

(* What a call has read of an event or an entry was true when it read it.        *)
IsUsed(x) == x # 0 => cal[x].state # "unused"
DocWasTrue(d) == d.updated <= clock + 1 /\ IsUsed(d.link)
ItemWasTrue(i) ==
    /\ i.entry.etag <= clock
    /\ i.entry.state = "live" => cal[i.x].state # "unused"
    /\ i.entry.state = "deleted" => cal[i.x].state = "deleted"
LocalsWereTrue(w) ==
    /\ w.now <= clock + 1
    /\ DocWasTrue(w.copy)
    /\ \A d \in w.todo : DocWasTrue(d.copy)
    /\ \A i \in w.items : ItemWasTrue(i)
    /\ w.pc = "mark" /\ w.copy.link # w.from => w.from = 0 \/ cal[w.from].state = "deleted"

(* A copy that is not behind has the event's time of change, and its status.     *)
SameChange(c, d) == c.updated = d.updated /\ c.status = d.status
CopyIsCurrent(w, e) ==
    /\ w.e = e => SameChange(w.copy, doc[e])
    /\ \A d \in w.todo : d.e = e => SameChange(d.copy, doc[e])
HoldsCopy(w, e) == w.e = e \/ \E d \in w.todo : d.e = e

CallsFit == \A p \in CalCalls : LocalsFit(work[p])
CallsWereTrue == \A p \in CalCalls : LocalsWereTrue(work[p])
CopiesAreCurrent == \A p \in CalCalls, e \in CalEvents :
    IF <<p, e>> \in behind THEN HoldsCopy(work[p], e) ELSE CopyIsCurrent(work[p], e)
DocsAreTrue == \A e \in CalEvents :
    DocWasTrue(doc[e]) /\ (doc[e].status = "none" => doc[e] = NoDoc)
EntriesAreTrue == \A x \in Entries :
    cal[x].etag <= clock /\ (cal[x].state = "unused" => cal[x].etag = 0)

SyncInv ==
    /\ CallsFit /\ CallsWereTrue /\ CopiesAreCurrent
    /\ DocsAreTrue /\ EntriesAreTrue /\ NoEntryForgotten
-----------------------------------------------------------------------------
LEMMA NoDocIsADoc == NoDoc \in Docs /\ Unused \in EntryDocs
  BY DEF NoDoc, Docs, Unused, EntryDocs, Contents

LEMMA RestingIsLocals == Resting \in CallLocals
  BY NoDocIsADoc DEF Resting, CallLocals

LEMMA SyncInitTypes == CalInit => CalTypeOK
<1> SUFFICES ASSUME CalInit PROVE CalTypeOK
  OBVIOUS
<1>1. doc \in [CalEvents -> Docs] /\ cal \in [Entries -> EntryDocs]
  BY NoDocIsADoc DEF CalInit
<1>2. work \in [CalCalls -> CallLocals]
  BY RestingIsLocals DEF CalInit
<1>3. \A p \in CalCalls : work[p].pc \in {"push", "mark"} => work[p].e \in CalEvents
  BY DEF CalInit, Resting
<1>4. happened \in 0 .. MaxHappenings /\ token \in Nat /\ clock \in Nat
  BY CalendarAssumption DEF CalInit
<1> QED BY <1>1, <1>2, <1>3, <1>4 DEF CalTypeOK, CalInit

(* The history variables and the bound keep their types.                         *)
HistoryTypes ==
    /\ doubled \cup adrift \subseteq CalEvents /\ orphans \cup unseen \subseteq Entries
    /\ behind \subseteq CalCalls \X CalEvents /\ happened \in 0 .. MaxHappenings

LEMMA HappensIsBounded ==
    ASSUME happened \in 0 .. MaxHappenings, Happens PROVE happened' \in 0 .. MaxHappenings
  BY CalendarAssumption DEF Happens

LEMMA BehindHasCopies ==
    ASSUME behind \subseteq CalCalls \X CalEvents, NEW p \in CalCalls, NEW e \in CalEvents
    PROVE  NowBehind(p, e) \subseteq CalCalls \X CalEvents
  BY DEF NowBehind

(* A step that changes the locals of one call, an event or an entry.             *)
LEMMA CallTypes ==
    ASSUME CalTypeOK, NEW p \in CalCalls, NEW w \in CallLocals,
           w.pc \in {"push", "mark"} => w.e \in CalEvents, work' = [work EXCEPT ![p] = w]
    PROVE  /\ work' \in [CalCalls -> CallLocals]
           /\ \A q \in CalCalls : work'[q].pc \in {"push", "mark"} => work'[q].e \in CalEvents
  BY DEF CalTypeOK

(* The calls saved by a screen.                                                  *)
HasSaved(p, w, e, d) ==
    work' = [work EXCEPT ![p] = w] /\ w = [work[p] EXCEPT !.pc = "push", !.e = e, !.copy = d]

LEMMA SavedTypes ==
    ASSUME CalTypeOK, NEW p \in CalCalls, NEW e \in CalEvents, NEW d \in Docs, SaveAndPush(p, e, d)
    PROVE  CalTypeOK' /\ \E w \in CallLocals : HasSaved(p, w, e, d)
<1>1. PICK w : w = [work[p] EXCEPT !.pc = "push", !.e = e, !.copy = d]
  OBVIOUS
<1>2. w \in CallLocals /\ w.pc = "push" /\ w.e = e
  BY <1>1 DEF CallLocals, CalTypeOK
<1>3. work' = [work EXCEPT ![p] = w]
  BY <1>1 DEF SaveAndPush, CalTypeOK, CallLocals
<1>4. doc' \in [CalEvents -> Docs] /\ cal' = cal /\ token' = token /\ clock' \in Nat
  BY DEF SaveAndPush, CalTypeOK, Advance
<1>5. HistoryTypes'
  BY HappensIsBounded, BehindHasCopies DEF SaveAndPush, CalTypeOK, HistoryTypes
<1> QED BY <1>1, <1>2, <1>3, <1>4, <1>5, CallTypes DEF CalTypeOK, HistoryTypes, HasSaved
-----------------------------------------------------------------------------
(* The calendar goes on: time does, no entry is unmade, and none is restored.    *)
EntriesGoOn ==
    /\ clock' \in Nat /\ clock <= clock'
    /\ cal' \in [Entries -> EntryDocs]
    /\ \A x \in Entries :
         /\ cal[x].state # "unused" => cal'[x].state # "unused"
         /\ cal[x].state = "deleted" => cal'[x].state = "deleted"
         /\ cal'[x] # cal[x] => cal'[x].etag <= clock' /\ cal'[x].state # "unused"

(* A call to Google has ended: what is left of it is w, and entries that are new *)
(* to an event are in its copy, or orphans.                                      *)
HasPushed(p, w) ==
    /\ Is(p, "push") /\ work' = [work EXCEPT ![p] = w]
    /\ w.pc = "mark" /\ w.e = work[p].e /\ w.items = work[p].items
    /\ w.next = work[p].next /\ w.todo = work[p].todo /\ w.now = work[p].now
    /\ w.from = work[p].copy.link
    /\ w.copy.status = work[p].copy.status /\ w.copy.updated = work[p].copy.updated
    /\ w.copy.value = work[p].copy.value
NewsOf(w) ==
    /\ w.copy.link # w.from =>
         \/ /\ w.copy.link # 0 /\ cal'[w.copy.link].state # "unused"
            /\ w.from = 0 \/ cal[w.from].state = "deleted"
         \/ /\ w.copy.link = 0
            /\ w.from # 0 /\ cal[w.from].state # "unused" => cal'[w.from].state = "deleted"
    /\ \A x \in Entries : cal'[x].state = "live" /\ cal'[x].event # 0 =>
         \/ cal[x].state = "live" /\ cal'[x].event = cal[x].event
         \/ x \in orphans' \/ w.copy.link = x

(* In the calendar one entry changes, the copy's or a new one, or none does. *)
EntryBecomes(y, n) ==
    /\ y \in Entries /\ n \in EntryDocs /\ cal' = [cal EXCEPT ![y] = n]
    /\ clock' = clock + 2 /\ n.etag = clock + 2 /\ n.state # "unused"
ChangesEntry(v) ==
    \/ UNCHANGED <<cal, clock>>
    \/ \E y, n : EntryBecomes(y, n) /\
         \/ cal[y].state = "live" /\ y = v.copy.link /\ n.event \in {v.e, cal[y].event}
         \/ cal[y].state = "unused" /\ n.event = v.e

(* The copy says what Google answered: nothing, that the entry is gone, or the   *)
(* entry as it is.                                                               *)
Answers(v, w) ==
    \/ w.copy.sync = "error" /\ w.copy.link = v.copy.link /\ w.copy.etag = v.copy.etag
    \/ w.copy.sync = "synced" /\ w.copy.status = "cancelled" /\ w.copy.link = 0 /\ w.copy.etag = 0
    \/ /\ w.copy.sync = "synced" /\ w.copy.status = "live" /\ w.copy.link \in Entries
       /\ w.copy.link = v.copy.link \/ cal[w.copy.link].state = "unused"
       /\ cal'[w.copy.link].state = "live" /\ cal'[w.copy.link].event = v.e
       /\ cal'[w.copy.link].value = w.copy.value /\ cal'[w.copy.link].etag = w.copy.etag
PushStep(p) == \E w \in CallLocals :
    /\ HasPushed(p, w) /\ NewsOf(w) /\ EntriesGoOn
    /\ ChangesEntry(work[p]) /\ Answers(work[p], w)
    /\ orphans \subseteq orphans'
    /\ UNCHANGED <<doc, token, doubled, unseen, adrift, behind>>

LEMMA MarkedLocals ==
    ASSUME CalTypeOK, NEW p \in CalCalls, Is(p, "push"), NEW d \in Docs, Marked(p, d),
           d.status = work[p].copy.status, d.updated = work[p].copy.updated,
           d.value = work[p].copy.value
    PROVE  \E w \in CallLocals : /\ HasPushed(p, w) /\ w.copy.link = d.link
                                 /\ w.copy.etag = d.etag /\ w.copy.sync = "synced"
<1>1. PICK c : c = [d EXCEPT !.sync = "synced"]
  OBVIOUS
<1>2. /\ c \in Docs /\ c.link = d.link /\ c.status = d.status /\ c.updated = d.updated
      /\ c.value = d.value /\ c.etag = d.etag /\ c.sync = "synced"
  BY <1>1 DEF Docs
<1>3. PICK w : w = [work[p] EXCEPT !.pc = "mark", !.copy = c, !.from = work[p].copy.link]
  OBVIOUS
<1>4. work[p] \in CallLocals
  BY DEF CalTypeOK
<1>5. work[p].copy.link \in Entries \cup {0}
  BY <1>4 DEF CallLocals, Docs
<1>6. /\ w \in CallLocals /\ w.pc = "mark" /\ w.e = work[p].e /\ w.items = work[p].items
      /\ w.next = work[p].next /\ w.todo = work[p].todo /\ w.now = work[p].now
      /\ w.from = work[p].copy.link /\ w.copy = c
  BY <1>2, <1>3, <1>4, <1>5 DEF CallLocals
<1>7. work' = [work EXCEPT ![p] = w]
  BY <1>1, <1>3, <1>4 DEF Marked, CalTypeOK, CallLocals
<1> QED BY <1>2, <1>6, <1>7 DEF HasPushed

(* The types after a call to Google.                                             *)
LEMMA PushedTypes ==
    ASSUME CalTypeOK, NEW p \in CalCalls, PushStep(p), orphans' \subseteq Entries,
           happened' \in 0 .. MaxHappenings
    PROVE  CalTypeOK'
<1>1. PICK w \in CallLocals : HasPushed(p, w) /\ EntriesGoOn
  BY DEF PushStep
<1>2. work[p].e \in CalEvents
  BY <1>1 DEF CalTypeOK, HasPushed, Is
<1>3. /\ work' \in [CalCalls -> CallLocals]
      /\ \A q \in CalCalls : work'[q].pc \in {"push", "mark"} => work'[q].e \in CalEvents
  BY <1>1, <1>2, CallTypes DEF HasPushed
<1> QED BY <1>1, <1>3 DEF CalTypeOK, PushStep, EntriesGoOn

LEMMA PushDeletePushes ==
    ASSUME CalTypeOK, NEW p \in CalCalls, PushDelete(p)
    PROVE  PushStep(p) /\ CalTypeOK'
<1>1. PICK d : d = [work[p].copy EXCEPT !.link = 0, !.etag = 0, !.meet = 0, !.rec = FALSE]
  OBVIOUS
<1>2. work[p].copy \in Docs /\ work[p].copy.link \in Entries \cup {0}
  BY DEF CalTypeOK, CallLocals, Docs
<1>3. /\ d \in Docs /\ d.link = 0 /\ d.status = work[p].copy.status /\ d.updated = work[p].copy.updated
      /\ d.value = work[p].copy.value /\ d.etag = 0
  BY <1>1, <1>2 DEF Docs
<1>4. Is(p, "push") /\ Marked(p, d) /\ work[p].copy.status = "cancelled"
  BY <1>1 DEF PushDelete
<1>5. PICK w \in CallLocals :
        HasPushed(p, w) /\ w.copy.link = 0 /\ w.copy.etag = 0 /\ w.copy.sync = "synced"
  BY <1>3, <1>4, MarkedLocals
<1>6. PICK x : x = work[p].copy.link
  OBVIOUS
<1>7. /\ x \in Entries \cup {0} /\ w.from = x
      /\ IF x # 0 /\ cal[x].state = "live"
         THEN cal' = [cal EXCEPT ![x].state = "deleted", ![x].etag = clock + 2] /\ clock' = clock + 2
         ELSE cal' = cal /\ clock' = clock
  BY <1>2, <1>5, <1>6 DEF PushDelete, HasPushed, Advance
<1>8. cal \in [Entries -> EntryDocs] /\ clock \in Nat
  BY DEF CalTypeOK
<1>9. EntriesGoOn /\ NewsOf(w) /\ ChangesEntry(work[p])
  <2>1. CASE x # 0 /\ cal[x].state = "live"
    <3>1. PICK v : v = [cal[x] EXCEPT !.state = "deleted", !.etag = clock + 2]
      OBVIOUS
    <3>2. x \in Entries /\ cal[x] \in EntryDocs
      BY <1>7, <1>8, <2>1
    <3>3. v \in EntryDocs /\ v.state = "deleted" /\ v.etag = clock + 2 /\ v.event = cal[x].event
      <4>1. clock + 2 \in Nat
        BY <1>8
      <4>2. v \in EntryDocs
        BY <3>1, <3>2, <4>1 DEF EntryDocs
      <4> QED BY <3>1, <3>2, <4>2 DEF EntryDocs
    <3>4. cal' = [cal EXCEPT ![x] = v]
      BY <1>7, <1>8, <2>1, <3>1, <3>2 DEF EntryDocs
    <3>5. EntriesGoOn
      BY <1>7, <1>8, <2>1, <3>2, <3>3, <3>4 DEF EntriesGoOn
    <3>6. NewsOf(w)
      BY <1>5, <1>7, <1>8, <3>2, <3>3, <3>4 DEF NewsOf
    <3>7. ChangesEntry(work[p])
      <4>1. EntryBecomes(x, v)
        BY <1>7, <2>1, <3>2, <3>3, <3>4 DEF EntryBecomes
      <4> QED BY <1>6, <2>1, <3>3, <4>1 DEF ChangesEntry
    <3> QED BY <3>5, <3>6, <3>7
  <2>2. CASE ~(x # 0 /\ cal[x].state = "live")
    <3>1. EntriesGoOn
      BY <1>7, <1>8, <2>2 DEF EntriesGoOn
    <3>2. \A y \in Entries : cal[y].state \in {"unused", "live", "deleted"}
      BY <1>8 DEF EntryDocs
    <3>3. NewsOf(w)
      BY <1>5, <1>7, <2>2, <3>2, CalendarAssumption DEF NewsOf
    <3>4. ChangesEntry(work[p])
      BY <1>7, <2>2 DEF ChangesEntry
    <3> QED BY <3>1, <3>3, <3>4
  <2> QED BY <2>1, <2>2
<1>10. Answers(work[p], w)
  BY <1>4, <1>5 DEF Answers, HasPushed
<1>11. PushStep(p)
  BY <1>5, <1>9, <1>10 DEF PushStep, PushDelete, histories
<1> QED BY <1>11, PushedTypes DEF PushDelete, CalTypeOK, histories

(* One entry changes, or none does. *)
LEMMA EntryChanges ==
    ASSUME CalTypeOK, NEW x \in Entries, NEW v \in EntryDocs,
           v.etag = clock + 2, v.state # "unused", cal[x].state = "deleted" => v.state = "deleted",
           cal' = [cal EXCEPT ![x] = v], clock' = clock + 2
    PROVE  EntriesGoOn
  BY DEF EntriesGoOn, CalTypeOK

LEMMA NoEntryChanges ==
    ASSUME CalTypeOK, UNCHANGED <<cal, clock>> PROVE EntriesGoOn
  BY DEF EntriesGoOn, CalTypeOK

LEMMA AnswerPushes ==
    ASSUME CalTypeOK, NEW p \in CalCalls, Is(p, "push"), NEW d \in Docs, d = work[p].copy,
           NEW x \in Entries, NEW entry \in EntryDocs, entry.state = "live",
           cal[x].state # "deleted", Answered(p, d, x, entry),
           entry.event = work[p].e, entry.value = d.value, d.status = "live",
           (x = d.link /\ cal[x].state = "live")
             \/ (cal[x].state = "unused" /\ (d.link = 0 \/ cal[d.link].state = "deleted"))
    PROVE  PushStep(p) /\ CalTypeOK'
<1> USE DEF CalTypeOK
<1>1. PICK known \in BOOLEAN, records \in BOOLEAN :
        LET isOn == (d.rec /\ d.meet = x) \/ records
            kept == IF records THEN [entry EXCEPT !.meet = "rec"] ELSE entry
            etag == IF kept = cal[x] THEN kept.etag ELSE clock + 2
        IN  /\ entry.meet = "none" => ~known
            /\ records => known
            /\ cal' = [cal EXCEPT ![x] = [kept EXCEPT !.etag = etag]]
            /\ clock' = IF kept = cal[x] THEN clock ELSE clock + 2
            /\ WithMeet(p, d, x, etag, known, isOn)
            /\ IF entry.meet # "none" /\ ~(known /\ isOn) THEN Happens ELSE UNCHANGED happened
            /\ UNCHANGED <<doc, token, histories>>
  BY Zenon DEF Answered
<1>2. PICK kept : kept = IF records THEN [entry EXCEPT !.meet = "rec"] ELSE entry
  OBVIOUS
<1>3. /\ kept \in EntryDocs /\ kept.state = "live"
      /\ kept.event = entry.event /\ kept.value = entry.value
  BY <1>2 DEF EntryDocs
<1>4. PICK etag : etag = IF kept = cal[x] THEN kept.etag ELSE clock + 2
  OBVIOUS
<1>5. kept.etag \in Nat /\ clock \in Nat /\ clock + 2 \in Nat
  BY <1>3 DEF EntryDocs
<1>6. etag \in Nat
  BY <1>4, <1>5
<1>7. PICK v : v = [kept EXCEPT !.etag = etag]
  OBVIOUS
<1>8. /\ v \in EntryDocs /\ v.etag = etag /\ v.state = "live"
      /\ v.event = work[p].e /\ v.value = d.value
  BY <1>3, <1>6, <1>7 DEF EntryDocs
<1>9. PICK isOn : isOn = ((d.rec /\ d.meet = x) \/ records)
  OBVIOUS
<1>10. /\ cal' = [cal EXCEPT ![x] = v] /\ clock' = IF kept = cal[x] THEN clock ELSE clock + 2
       /\ WithMeet(p, d, x, etag, known, isOn)
       /\ Happens \/ UNCHANGED happened
       /\ UNCHANGED <<doc, token, histories>>
  BY <1>1, <1>2, <1>4, <1>7, <1>9
<1>11. EntriesGoOn /\ ChangesEntry(work[p])
  <2>1. CASE kept = cal[x]
    <3>1. v = cal[x]
      BY <1>3, <1>4, <1>7, <2>1 DEF EntryDocs
    <3>2. cal' = cal /\ clock' = clock
      BY <1>10, <2>1, <3>1
    <3> QED BY <3>2, NoEntryChanges DEF ChangesEntry
  <2>2. CASE kept # cal[x]
    <3>1. etag = clock + 2 /\ clock' = clock + 2
      BY <1>4, <1>10, <2>2
    <3>2. EntryBecomes(x, v)
      BY <1>8, <1>10, <3>1 DEF EntryBecomes
    <3> QED BY <1>8, <1>10, <3>1, <3>2, EntryChanges DEF ChangesEntry
  <2> QED BY <2>1, <2>2
<1>12. PICK linked : linked = [d EXCEPT !.link = x, !.etag = etag]
  OBVIOUS
<1>13. /\ linked \in Docs /\ linked.link = x /\ linked.status = d.status /\ linked.updated = d.updated
       /\ linked.value = d.value /\ linked.etag = etag
  BY <1>6, <1>12 DEF Docs
<1>14. isOn \in BOOLEAN
  BY <1>9 DEF Docs
<1>15. PICK c : c = IF known THEN [linked EXCEPT !.meet = x, !.rec = isOn] ELSE linked
  OBVIOUS
<1>16. /\ c \in Docs /\ c.link = x /\ c.status = d.status /\ c.updated = d.updated
       /\ c.value = d.value /\ c.etag = etag
  BY <1>13, <1>14, <1>15 DEF Docs
<1>17. Marked(p, c)
  BY <1>10, <1>12, <1>15 DEF WithMeet
<1>18. PICK w \in CallLocals :
         HasPushed(p, w) /\ w.copy.link = x /\ w.copy.etag = etag /\ w.copy.sync = "synced"
  BY <1>16, <1>17, MarkedLocals
<1>19. NewsOf(w)
  <2>1. w.from = d.link /\ x # 0
    BY <1>18, CalendarAssumption DEF HasPushed
  <2>2. cal'[x] = v /\ \A y \in Entries : y # x => cal'[y] = cal[y]
    BY <1>10
  <2> QED BY <1>8, <1>18, <2>1, <2>2 DEF NewsOf
<1>20. Answers(work[p], w)
  <2>1. w.copy.status = "live" /\ w.copy.value = d.value /\ cal'[x] = v
    BY <1>10, <1>18 DEF HasPushed
  <2> QED BY <1>8, <1>18, <2>1 DEF Answers
<1>21. PushStep(p)
  BY <1>10, <1>11, <1>18, <1>19, <1>20 DEF PushStep, histories
<1>22. happened' \in 0 .. MaxHappenings /\ orphans' = orphans
  BY <1>10, HappensIsBounded DEF histories
<1> QED BY <1>21, <1>22, PushedTypes

LEMMA PushPatchPushes ==
    ASSUME CalTypeOK, NEW p \in CalCalls, PushPatch(p)
    PROVE  PushStep(p) /\ CalTypeOK'
<1>1. PICK d : d = work[p].copy
  OBVIOUS
<1>2. d \in Docs /\ d.link \in Entries \cup {0} /\ work[p].e \in CalEvents \cup {0}
  BY <1>1 DEF CalTypeOK, CallLocals, Docs
<1>3. PICK x : x = d.link
  OBVIOUS
<1>4. Is(p, "push") /\ x \in Entries /\ cal[x].state = "live" /\ d.status = "live"
  BY <1>1, <1>2, <1>3 DEF PushPatch
<1>5. PICK entry : entry = [cal[x] EXCEPT !.value = d.value, !.event = work[p].e,
                       !.meet = IF @ = "none" /\ d.meet = 0 THEN "on" ELSE @]
  OBVIOUS
<1>6. cal[x] \in EntryDocs /\ d.value \in Contents
  BY <1>2, <1>4 DEF CalTypeOK, Docs
<1>7. entry \in EntryDocs /\ entry.state = "live" /\ entry.event = work[p].e /\ entry.value = d.value
  BY <1>2, <1>4, <1>5, <1>6 DEF EntryDocs
<1>8. Answered(p, d, x, entry)
  BY <1>1, <1>3, <1>5 DEF PushPatch
<1> QED BY <1>1, <1>2, <1>3, <1>4, <1>7, <1>8, AnswerPushes

LEMMA PushInsertPushes ==
    ASSUME CalTypeOK, NEW p \in CalCalls, PushInsert(p)
    PROVE  PushStep(p) /\ CalTypeOK'
<1>1. PICK d : d = work[p].copy
  OBVIOUS
<1>2. d \in Docs /\ d.value \in Contents /\ work[p].e \in CalEvents \cup {0}
  BY <1>1 DEF CalTypeOK, CallLocals, Docs
<1>3. PICK x \in Entries :
        /\ Is(p, "push") /\ d.status = "live"
        /\ d.link # 0 => cal[d.link].state = "deleted"
        /\ IsNewEntry(x)
        /\ Answered(p, d, x, [state |-> "live", event |-> work[p].e, value |-> d.value,
                              etag |-> 0, meet |-> "on"])
  BY <1>1 DEF PushInsert
<1>4. PICK entry : entry = [state |-> "live", event |-> work[p].e, value |-> d.value,
                       etag |-> 0, meet |-> "on"]
  OBVIOUS
<1>5. entry \in EntryDocs /\ entry.state = "live" /\ entry.event = work[p].e /\ entry.value = d.value
  BY <1>2, <1>4 DEF EntryDocs
<1>6. cal[x].state = "unused"
  BY <1>3 DEF IsNewEntry
<1>7. Answered(p, d, x, entry)
  BY <1>3, <1>4
<1> QED BY <1>1, <1>2, <1>3, <1>5, <1>6, <1>7, AnswerPushes

LEMMA PushFailsPushes ==
    ASSUME CalTypeOK, NEW p \in CalCalls, PushFails(p)
    PROVE  PushStep(p) /\ CalTypeOK'
<1>1. PICK d : d = work[p].copy
  OBVIOUS
<1>2. /\ d \in Docs /\ d.link \in Entries \cup {0} /\ d.value \in Contents
      /\ work[p] \in CallLocals /\ work[p].e \in CalEvents \cup {0}
  BY <1>1 DEF CalTypeOK, CallLocals, Docs
<1>3. PICK x : x = d.link
  OBVIOUS
<1>4. PICK c : c = [d EXCEPT !.sync = "error"]
  OBVIOUS
<1>5. /\ c \in Docs /\ c.link = x /\ c.status = d.status /\ c.updated = d.updated
      /\ c.value = d.value /\ c.etag = d.etag /\ c.sync = "error"
  BY <1>2, <1>3, <1>4 DEF Docs
<1>6. PICK w : w = [work[p] EXCEPT !.pc = "mark", !.copy = c, !.from = x]
  OBVIOUS
<1>7. /\ w \in CallLocals /\ w.pc = "mark" /\ w.e = work[p].e /\ w.items = work[p].items
      /\ w.next = work[p].next /\ w.todo = work[p].todo /\ w.now = work[p].now
      /\ w.from = x /\ w.copy = c
  BY <1>2, <1>3, <1>5, <1>6 DEF CallLocals
<1>8. Is(p, "push") /\ work' = [work EXCEPT ![p] = w]
  BY <1>1, <1>2, <1>3, <1>4, <1>6 DEF PushFails, CalTypeOK, CallLocals
<1>9. HasPushed(p, w) /\ Answers(work[p], w)
  BY <1>1, <1>3, <1>5, <1>7, <1>8 DEF HasPushed, Answers
<1>b. happened' \in 0 .. MaxHappenings
  <2>1. Happens /\ happened \in 0 .. MaxHappenings
    BY DEF PushFails, CalTypeOK
  <2> QED BY <2>1, HappensIsBounded
<1>u. UNCHANGED <<doc, token, doubled, unseen, adrift, behind>>
  BY DEF PushFails
<1>o. orphans \subseteq Entries
  BY DEF CalTypeOK
<1>10. CASE UNCHANGED <<cal, clock, orphans>>
  <2>1. EntriesGoOn /\ NewsOf(w) /\ ChangesEntry(work[p])
    BY <1>5, <1>7, <1>10, NoEntryChanges DEF NewsOf, ChangesEntry
  <2>2. PushStep(p)
    BY <1>7, <1>9, <1>10, <1>u, <2>1 DEF PushStep
  <2> QED BY <1>b, <1>o, <1>10, <2>2, PushedTypes
<1>11. ASSUME NEW y \in Entries, NEW v \in EntryDocs, v.etag = clock + 2, v.state # "unused",
              cal' = [cal EXCEPT ![y] = v], Advance,
              \/ y = x /\ cal[y].state = "live" /\ v.event \in {work[p].e, cal[y].event} /\ orphans' = orphans
              \/ cal[y].state = "unused" /\ v.event = work[p].e /\ orphans' = orphans \cup {y}
       PROVE  PushStep(p) /\ CalTypeOK'
  <2>1. EntriesGoOn
    BY <1>11, EntryChanges DEF Advance
  <2>2. /\ \A z \in Entries : z # y => cal'[z] = cal[z]
        /\ y = x \/ y \in orphans'
    BY <1>11 DEF CalTypeOK
  <2>3. NewsOf(w)
    BY <1>5, <1>7, <2>2 DEF NewsOf
  <2>4. orphans \subseteq orphans' /\ orphans' \subseteq Entries
    BY <1>11 DEF CalTypeOK
  <2>5. EntryBecomes(y, v)
    BY <1>11 DEF EntryBecomes, Advance
  <2>6. ChangesEntry(work[p])
    BY <1>1, <1>3, <1>11, <2>5 DEF ChangesEntry
  <2>7. PushStep(p)
    BY <1>7, <1>9, <1>u, <2>1, <2>3, <2>4, <2>6 DEF PushStep
  <2> QED BY <1>b, <2>4, <2>7, PushedTypes
<1>12. clock + 2 \in Nat
  BY DEF CalTypeOK
<1>13. CASE /\ x # 0 /\ cal[x].state = "live" /\ Advance /\ UNCHANGED orphans
            /\ cal' = [cal EXCEPT ![x].value = d.value, ![x].event = work[p].e, ![x].etag = clock + 2,
                         ![x].meet = IF @ = "none" /\ d.meet = 0 THEN "on" ELSE @]
  <2>1. x \in Entries /\ cal[x] \in EntryDocs
    BY <1>2, <1>3, <1>13 DEF CalTypeOK
  <2>2. PICK v : v = [cal[x] EXCEPT !.value = d.value, !.event = work[p].e, !.etag = clock + 2,
                   !.meet = IF cal[x].meet = "none" /\ d.meet = 0 THEN "on" ELSE cal[x].meet]
    OBVIOUS
  <2>3. v \in EntryDocs /\ v.etag = clock + 2 /\ v.state = "live" /\ v.event = work[p].e
    BY <1>2, <1>12, <1>13, <2>1, <2>2 DEF EntryDocs
  <2>4. cal' = [cal EXCEPT ![x] = v]
    BY <1>13, <2>1, <2>2 DEF CalTypeOK, EntryDocs
  <2> QED BY <1>11, <1>13, <2>1, <2>3, <2>4
<1>14. CASE /\ x # 0 /\ cal[x].state = "live" /\ Advance /\ UNCHANGED orphans
            /\ cal' = [cal EXCEPT ![x].state = "deleted", ![x].etag = clock + 2]
  <2>1. x \in Entries /\ cal[x] \in EntryDocs
    BY <1>2, <1>3, <1>14 DEF CalTypeOK
  <2>2. PICK v : v = [cal[x] EXCEPT !.state = "deleted", !.etag = clock + 2]
    OBVIOUS
  <2>3. v \in EntryDocs /\ v.etag = clock + 2 /\ v.state = "deleted" /\ v.event = cal[x].event
    BY <1>12, <2>1, <2>2 DEF EntryDocs
  <2>4. cal' = [cal EXCEPT ![x] = v]
    BY <1>14, <2>1, <2>2 DEF CalTypeOK, EntryDocs
  <2> QED BY <1>11, <1>14, <2>1, <2>3, <2>4
<1>15. ASSUME NEW y \in Entries, IsNewEntry(y), Advance, orphans' = orphans \cup {y},
              cal' = [cal EXCEPT ![y] = [state |-> "live", event |-> work[p].e,
                        value |-> d.value, etag |-> clock + 2, meet |-> "on"]]
       PROVE  PushStep(p) /\ CalTypeOK'
  <2>1. PICK v : v = [state |-> "live", event |-> work[p].e,
                      value |-> d.value, etag |-> clock + 2, meet |-> "on"]
    OBVIOUS
  <2>2. v \in EntryDocs /\ v.etag = clock + 2 /\ v.state = "live" /\ v.event = work[p].e
    BY <1>2, <1>12, <2>1 DEF EntryDocs
  <2>3. cal' = [cal EXCEPT ![y] = v]
    BY <1>15, <2>1
  <2>4. cal[y].state = "unused"
    BY <1>15 DEF IsNewEntry
  <2> QED BY <1>11, <1>15, <2>2, <2>3, <2>4
<1> QED BY <1>1, <1>3, <1>10, <1>13, <1>14, <1>15 DEF PushFails
-----------------------------------------------------------------------------
(* The other steps of a call, by what they leave of its locals.                  *)
Copies == [e : CalEvents, copy : Docs]
Retries(w, todo) ==
    \/ w = Resting /\ todo = {}
    \/ \E d \in todo :
         /\ w.pc = "push" /\ w.e = d.e /\ w.copy = d.copy /\ w.todo = todo \ {d}
         /\ w.items = {} /\ w.next = 0 /\ w.from = 0 /\ w.now = 0

LEMMA RetryLocals ==
    ASSUME NEW p, NEW todo \in SUBSET Copies, RetryNext(p, todo)
    PROVE  \E w \in CallLocals : Retries(w, todo) /\ work' = [work EXCEPT ![p] = w]
                                 /\ (w.pc \in {"push", "mark"} => w.e \in CalEvents)
<1>1. CASE todo = {}
  BY <1>1, RestingIsLocals DEF RetryNext, Retries, Resting
<1>2. CASE todo # {}
  <2>1. PICK d \in todo : work' = [work EXCEPT
           ![p] = [Resting EXCEPT !.pc = "push", !.e = d.e, !.copy = d.copy, !.todo = todo \ {d}]]
    BY <1>2, Zenon DEF RetryNext
  <2>2. PICK w : w = [Resting EXCEPT !.pc = "push", !.e = d.e, !.copy = d.copy, !.todo = todo \ {d}]
    OBVIOUS
  <2>3. d.e \in CalEvents /\ d.copy \in Docs /\ todo \ {d} \in SUBSET Copies
    BY DEF Copies
  <2>4. w \in CallLocals
    BY <2>2, <2>3, RestingIsLocals DEF CallLocals, Copies
  <2>5. /\ w.pc = "push" /\ w.e = d.e /\ w.copy = d.copy /\ w.todo = todo \ {d}
        /\ w.items = {} /\ w.next = 0 /\ w.from = 0 /\ w.now = 0
    BY <2>2 DEF Resting
  <2> QED BY <2>1, <2>2, <2>3, <2>4, <2>5 DEF Retries
<1> QED BY <1>1, <1>2

LEMMA PendingCopies == CalTypeOK => Pending \in SUBSET Copies
  BY DEF CalTypeOK, Pending, Copies

(* An entry is dealt with; the rest of the call is as it was.                    *)
HasDealtWith(p, w, i) ==
    /\ Is(p, "items") /\ i \in work[p].items /\ work' = [work EXCEPT ![p] = w]
    /\ w.items = work[p].items \ {i}
    /\ w.next = work[p].next /\ w.todo = work[p].todo /\ w.now = work[p].now

LEMMA AppliedLocals ==
    ASSUME CalTypeOK, NEW p \in CalCalls, Is(p, "items"), NEW i \in work[p].items, Applied(p, i)
    PROVE  \E w \in CallLocals : /\ HasDealtWith(p, w, i) /\ w.pc = "items"
                                 /\ w.e = work[p].e /\ w.copy = work[p].copy
                                 /\ i.x \in Entries /\ i.entry \in EntryDocs
<1>1. PICK w : w = [work[p] EXCEPT !.items = work[p].items \ {i}]
  OBVIOUS
<1>2. work[p] \in CallLocals
  BY DEF CalTypeOK
<1>3. i \in [x : Entries, entry : EntryDocs]
  BY <1>2 DEF CallLocals
<1>4. work[p].items \ {i} \in SUBSET [x : Entries, entry : EntryDocs]
  BY <1>2 DEF CallLocals
<1>5. /\ w \in CallLocals /\ w.pc = work[p].pc /\ w.e = work[p].e /\ w.copy = work[p].copy
      /\ w.items = work[p].items \ {i}
      /\ w.next = work[p].next /\ w.todo = work[p].todo /\ w.now = work[p].now
  BY <1>1, <1>2, <1>4 DEF CallLocals
<1>6. work' = [work EXCEPT ![p] = w]
  BY <1>1, <1>2 DEF Applied, CalTypeOK, CallLocals
<1> QED BY <1>3, <1>5, <1>6 DEF HasDealtWith, Is

(* The types after a step that writes at most one event.                         *)
LEMMA WriteTypes ==
    ASSUME CalTypeOK, NEW p \in CalCalls, NEW w \in CallLocals, work' = [work EXCEPT ![p] = w],
           w.pc \in {"push", "mark"} => w.e \in CalEvents,
           doc' \in [CalEvents -> Docs], UNCHANGED <<cal, clock>>, token' \in Nat,
           HistoryTypes'
    PROVE  CalTypeOK'
<1>1. /\ work' \in [CalCalls -> CallLocals]
      /\ \A q \in CalCalls : work'[q].pc \in {"push", "mark"} => work'[q].e \in CalEvents
  BY CallTypes
<1> QED BY <1>1 DEF CalTypeOK, HistoryTypes

LEMMA TheHistoryTypes == CalTypeOK => HistoryTypes
  BY DEF CalTypeOK, HistoryTypes

LEMMA SameHistoryTypes ==
    ASSUME CalTypeOK, UNCHANGED histories, happened' = happened \/ Happens PROVE HistoryTypes'
  BY TheHistoryTypes, HappensIsBounded DEF HistoryTypes, histories

LEMMA MarkTypes ==
    ASSUME CalTypeOK, NEW p \in CalCalls, Mark(p)
    PROVE  /\ CalTypeOK'
           /\ \E w \in CallLocals :
                /\ work' = [work EXCEPT ![p] = w]
                /\ \/ work[p].next = 0 /\ Retries(w, work[p].todo)
                   \/ /\ work[p].next # 0 /\ w.pc = "items" /\ w.e = 0 /\ w.copy = NoDoc /\ w.from = 0
                      /\ w.items = work[p].items /\ w.next = work[p].next
                      /\ w.todo = work[p].todo /\ w.now = work[p].now
<1>1. work[p] \in CallLocals /\ work[p].e \in CalEvents /\ Is(p, "mark")
  BY DEF CalTypeOK, Mark, Is
<1>2. work[p].copy \in Docs /\ work[p].todo \in SUBSET Copies /\ work[p].copy.link \in Entries \cup {0}
  BY <1>1 DEF CallLocals, Copies, Docs
<1>3. PICK w \in CallLocals :
        /\ work' = [work EXCEPT ![p] = w] /\ (w.pc \in {"push", "mark"} => w.e \in CalEvents)
        /\ \/ work[p].next = 0 /\ Retries(w, work[p].todo)
           \/ /\ work[p].next # 0 /\ w.pc = "items" /\ w.e = 0 /\ w.copy = NoDoc /\ w.from = 0
              /\ w.items = work[p].items /\ w.next = work[p].next
              /\ w.todo = work[p].todo /\ w.now = work[p].now
  <2>1. CASE work[p].next = 0
    <3>1. RetryNext(p, work[p].todo)
      BY <2>1 DEF Mark
    <3> QED BY <1>2, <2>1, <3>1, RetryLocals
  <2>2. CASE work[p].next # 0
    <3>1. PICK w : w = [work[p] EXCEPT !.e = 0, !.copy = NoDoc, !.from = 0, !.pc = "items"]
      OBVIOUS
    <3>2. /\ w \in CallLocals /\ w.pc = "items" /\ w.e = 0 /\ w.copy = NoDoc /\ w.from = 0
          /\ w.items = work[p].items /\ w.next = work[p].next
          /\ w.todo = work[p].todo /\ w.now = work[p].now
      BY <1>1, <3>1, NoDocIsADoc DEF CallLocals
    <3>3. work' = [work EXCEPT ![p] = w]
      BY <1>1, <2>2, <3>1 DEF Mark, CallLocals, CalTypeOK
    <3> QED BY <2>2, <3>2, <3>3
  <2> QED BY <2>1, <2>2
<1>4. doc' \in [CalEvents -> Docs] /\ UNCHANGED <<cal, clock>> /\ token' \in Nat
  BY <1>1, <1>2 DEF Mark, CalTypeOK
<1>5. orphans' \subseteq Entries /\ unseen' \subseteq Entries
  <2>1. doc[work[p].e].link \in Entries \cup {0}
    BY <1>1 DEF CalTypeOK, Docs
  <2> QED BY <1>2, <2>1 DEF Mark, CalTypeOK
<1>6. doubled' \subseteq CalEvents /\ adrift' \subseteq CalEvents
  BY <1>1 DEF Mark, CalTypeOK, LinkedTo
<1>7. behind' \subseteq CalCalls \X CalEvents /\ happened' \in 0 .. MaxHappenings
  <2>1. behind' = NowBehind(p, work[p].e) /\ happened' = happened
    BY DEF Mark
  <2>2. behind \subseteq CalCalls \X CalEvents /\ happened \in 0 .. MaxHappenings
    BY DEF CalTypeOK
  <2> QED BY <1>1, <2>1, <2>2, BehindHasCopies
<1>8. HistoryTypes'
  BY <1>5, <1>6, <1>7 DEF HistoryTypes
<1> QED BY <1>3, <1>4, <1>8, WriteTypes
-----------------------------------------------------------------------------
(* The pull's steps: an entry i is dealt with, and an event e is written, or none. *)
Writes(p, e, d) ==
    e \in CalEvents /\ d \in Docs /\ doc' = [doc EXCEPT ![e] = d] /\ behind' = NowBehind(p, e)
DealsWith(p, w, i) ==
    /\ w \in CallLocals /\ HasDealtWith(p, w, i) /\ w.pc = "items"
    /\ w.e = work[p].e /\ w.copy = work[p].copy
    /\ i.x \in Entries /\ i.entry \in EntryDocs

DeletesLinked(p, i) ==
    \/ UNCHANGED <<doc, behind>> /\ LinkedTo(i.x) = {} /\ i.x \in unseen'
    \/ \E e, d : Writes(p, e, d) /\ doc[e].link = i.x /\ d.status = "cancelled"
                 /\ d.link = 0 /\ d.updated = work[p].now /\ d.etag = 0

LEMMA FoundIsAnEvent ==
    ASSUME CalTypeOK, NEW i, i.x \in Entries, i.entry \in EntryDocs, NEW e \in FindLinked(i)
    PROVE  e \in CalEvents /\ doc[e].link \in {0, i.x} /\ (doc[e].link = 0 => doc[e].status # "none")
  BY CalendarAssumption DEF FindLinked, LinkedTo, EntryDocs

LEMMA ApplyDeletedWrites ==
    ASSUME CalTypeOK, NEW p \in CalCalls, ApplyDeleted(p)
    PROVE  /\ CalTypeOK'
           /\ \E w, i : DealsWith(p, w, i) /\ i.entry.state = "deleted" /\ DeletesLinked(p, i)
<1>1. PICK i \in work[p].items :
        /\ Is(p, "items") /\ i.entry.state = "deleted"
        /\ unseen' = IF LinkedTo(i.x) = {} THEN unseen \cup {i.x} ELSE unseen
        /\ IF LinkedTo(i.x) = {} THEN UNCHANGED <<doc, behind>>
           ELSE \E e \in LinkedTo(i.x) :
                  /\ doc' = [doc EXCEPT ![e].status = "cancelled", ![e].link = 0, ![e].etag = 0,
                                        ![e].sync = "synced", ![e].updated = work[p].now]
                  /\ behind' = NowBehind(p, e)
        /\ Applied(p, i)
        /\ UNCHANGED <<cal, token, clock, orphans, doubled, adrift, happened>>
  BY Zenon DEF ApplyDeleted
<1>2. PICK w \in CallLocals : DealsWith(p, w, i)
  BY <1>1, AppliedLocals DEF DealsWith
<1>3. work[p].now \in Nat
  BY DEF CalTypeOK, CallLocals
<1>4. DeletesLinked(p, i)
  <2>1. CASE LinkedTo(i.x) = {}
    BY <1>1, <2>1 DEF DeletesLinked
  <2>2. CASE LinkedTo(i.x) # {}
    <3>1. PICK e \in LinkedTo(i.x) :
            /\ doc' = [doc EXCEPT ![e].status = "cancelled", ![e].link = 0, ![e].etag = 0,
                                  ![e].sync = "synced", ![e].updated = work[p].now]
            /\ behind' = NowBehind(p, e)
      BY <1>1, <2>2
    <3>2. e \in CalEvents /\ doc[e] \in Docs /\ doc[e].link = i.x
      BY DEF CalTypeOK, LinkedTo
    <3>3. PICK d : d = [doc[e] EXCEPT !.status = "cancelled", !.link = 0, !.etag = 0,
                                      !.sync = "synced", !.updated = work[p].now]
      OBVIOUS
    <3>4. d \in Docs /\ d.status = "cancelled" /\ d.link = 0 /\ d.updated = work[p].now /\ d.etag = 0
      BY <1>3, <3>2, <3>3 DEF Docs
    <3>5. doc' = [doc EXCEPT ![e] = d]
      BY <3>1, <3>2, <3>3 DEF CalTypeOK, Docs
    <3> QED BY <3>1, <3>2, <3>4, <3>5 DEF Writes, DeletesLinked
  <2> QED BY <2>1, <2>2
<1>5. doc' \in [CalEvents -> Docs] /\ behind' \subseteq CalCalls \X CalEvents
  <2>1. behind \subseteq CalCalls \X CalEvents /\ doc \in [CalEvents -> Docs]
    BY DEF CalTypeOK
  <2> QED BY <1>4, <2>1, BehindHasCopies DEF Writes, DeletesLinked
<1>6. HistoryTypes'
  BY <1>1, <1>2, <1>5, TheHistoryTypes DEF HistoryTypes, DealsWith
<1>7. work' = [work EXCEPT ![p] = w] /\ w.pc = "items"
  BY <1>2 DEF DealsWith, HasDealtWith
<1>8. UNCHANGED <<cal, clock>> /\ token' \in Nat
  BY <1>1 DEF CalTypeOK
<1>9. CalTypeOK'
  BY <1>5, <1>6, <1>7, <1>8, WriteTypes
<1> QED BY <1>1, <1>2, <1>4, <1>9

LEMMA ApplyNewerWrites ==
    ASSUME CalTypeOK, NEW p \in CalCalls, ApplyNewer(p)
    PROVE  /\ CalTypeOK'
           /\ \E w, i, e, d : DealsWith(p, w, i) /\ i.entry.state = "live"
                /\ Writes(p, e, d) /\ doc[e].link \in {0, i.x}
                /\ (doc[e].link = 0 => doc[e].status # "none")
                /\ d.status = doc[e].status /\ d.link = i.x /\ d.updated = i.entry.etag
                /\ doc[e].updated <= i.entry.etag /\ orphans' = orphans \ {i.x}
                /\ e \in FindLinked(i) /\ d.value = i.entry.value /\ d.etag = i.entry.etag
                /\ adrift' = IF doc[e].status = "live" THEN adrift \ {e} ELSE adrift \cup {e}
<1>0. PICK i \in work[p].items : \E e \in FindLinked(i) :
        /\ Is(p, "items") /\ i.entry.state = "live" /\ i.entry.value # AllDay
        /\ i.entry.etag # doc[e].etag
        /\ doc[e].updated <= i.entry.etag
        /\ doc' = [doc EXCEPT ![e].value = i.entry.value, ![e].link = i.x,
                              ![e].etag = i.entry.etag, ![e].sync = "synced",
                              ![e].updated = i.entry.etag]
        /\ orphans' = orphans \ {i.x}
        /\ adrift' = IF doc[e].status = "live" THEN adrift \ {e} ELSE adrift \cup {e}
        /\ behind' = NowBehind(p, e)
        /\ Applied(p, i)
        /\ UNCHANGED <<cal, token, clock, doubled, unseen, happened>>
  BY Zenon DEF ApplyNewer
<1>1. PICK e \in FindLinked(i) :
        /\ Is(p, "items") /\ i.entry.state = "live" /\ i.entry.value # AllDay
        /\ i.entry.etag # doc[e].etag
        /\ doc[e].updated <= i.entry.etag
        /\ doc' = [doc EXCEPT ![e].value = i.entry.value, ![e].link = i.x,
                              ![e].etag = i.entry.etag, ![e].sync = "synced",
                              ![e].updated = i.entry.etag]
        /\ orphans' = orphans \ {i.x}
        /\ adrift' = IF doc[e].status = "live" THEN adrift \ {e} ELSE adrift \cup {e}
        /\ behind' = NowBehind(p, e)
        /\ Applied(p, i)
        /\ UNCHANGED <<cal, token, clock, doubled, unseen, happened>>
  BY <1>0
<1>2. PICK w \in CallLocals : DealsWith(p, w, i)
  BY <1>1, AppliedLocals DEF DealsWith
<1>3. i.x \in Entries /\ i.entry.etag \in Nat /\ i.entry.value \in Contents /\ i.entry \in EntryDocs
  BY <1>2 DEF DealsWith, EntryDocs
<1>4. /\ e \in CalEvents /\ doc[e].link \in {0, i.x} /\ doc[e] \in Docs
      /\ doc[e].link = 0 => doc[e].status # "none"
  BY <1>3, FoundIsAnEvent DEF CalTypeOK
<1>5. PICK d : d = [doc[e] EXCEPT !.value = i.entry.value, !.link = i.x, !.etag = i.entry.etag,
                                  !.sync = "synced", !.updated = i.entry.etag]
  OBVIOUS
<1>6. /\ d \in Docs /\ d.status = doc[e].status /\ d.link = i.x /\ d.updated = i.entry.etag
      /\ d.value = i.entry.value /\ d.etag = i.entry.etag
  BY <1>3, <1>4, <1>5 DEF Docs
<1>7. doc' = [doc EXCEPT ![e] = d]
  BY <1>1, <1>4, <1>5 DEF CalTypeOK, Docs
<1>8. Writes(p, e, d)
  BY <1>1, <1>4, <1>6, <1>7 DEF Writes
<1>9. doc' \in [CalEvents -> Docs] /\ behind' \subseteq CalCalls \X CalEvents
  <2>1. behind \subseteq CalCalls \X CalEvents /\ doc \in [CalEvents -> Docs]
    BY DEF CalTypeOK
  <2> QED BY <1>8, <2>1, BehindHasCopies DEF Writes
<1>10. HistoryTypes'
  BY <1>1, <1>4, <1>9, TheHistoryTypes DEF HistoryTypes
<1>11. work' = [work EXCEPT ![p] = w] /\ w.pc = "items"
  BY <1>2 DEF DealsWith, HasDealtWith
<1>12. UNCHANGED <<cal, clock>> /\ token' \in Nat
  BY <1>1 DEF CalTypeOK
<1>13. CalTypeOK'
  BY <1>9, <1>10, <1>11, <1>12, WriteTypes
<1> QED BY <1>1, <1>2, <1>4, <1>6, <1>8, <1>13

LEMMA ImportNewWrites ==
    ASSUME CalTypeOK, NEW p \in CalCalls, ImportNew(p)
    PROVE  /\ CalTypeOK'
           /\ \E w, i, e, d : DealsWith(p, w, i) /\ i.entry.state = "live"
                /\ Writes(p, e, d) /\ doc[e].status = "none"
                /\ d.status = "live" /\ d.link = i.x /\ d.updated = i.entry.etag
                /\ orphans' = orphans \ {i.x}
                /\ FindLinked(i) = {} /\ d.value = i.entry.value /\ d.etag = i.entry.etag
                /\ doubled' = IF i.entry.event # 0 THEN doubled \cup {e, i.entry.event} ELSE doubled
<1>1. PICK i \in work[p].items, e \in CalEvents :
        /\ Is(p, "items") /\ i.entry.state = "live" /\ i.entry.value \in Values
        /\ FindLinked(i) = {}
        /\ IsNewEvent(e)
        /\ doc' = [doc EXCEPT ![e] = [NoDoc EXCEPT
             !.status = "live", !.value = i.entry.value, !.link = i.x, !.etag = i.entry.etag,
             !.sync = "synced", !.updated = i.entry.etag]]
        /\ doubled' = IF i.entry.event # 0 THEN doubled \cup {e, i.entry.event} ELSE doubled
        /\ orphans' = orphans \ {i.x}
        /\ behind' = NowBehind(p, e)
        /\ Applied(p, i)
        /\ UNCHANGED <<cal, token, clock, unseen, adrift, happened>>
  BY DEF ImportNew
<1>2. PICK w \in CallLocals : DealsWith(p, w, i)
  BY <1>1, AppliedLocals DEF DealsWith
<1>3. /\ i.x \in Entries /\ i.entry.etag \in Nat /\ i.entry.value \in Contents
      /\ i.entry.event \in CalEvents \cup {0}
  BY <1>2 DEF DealsWith, EntryDocs
<1>4. PICK d : d = [NoDoc EXCEPT
             !.status = "live", !.value = i.entry.value, !.link = i.x, !.etag = i.entry.etag,
             !.sync = "synced", !.updated = i.entry.etag]
  OBVIOUS
<1>5. /\ d \in Docs /\ d.status = "live" /\ d.link = i.x /\ d.updated = i.entry.etag
      /\ d.value = i.entry.value /\ d.etag = i.entry.etag
  BY <1>3, <1>4, NoDocIsADoc DEF Docs
<1>6. doc' = [doc EXCEPT ![e] = d] /\ doc[e].status = "none"
  BY <1>1, <1>4 DEF IsNewEvent
<1>7. Writes(p, e, d)
  BY <1>1, <1>5, <1>6 DEF Writes
<1>8. doc' \in [CalEvents -> Docs] /\ behind' \subseteq CalCalls \X CalEvents
  <2>1. behind \subseteq CalCalls \X CalEvents /\ doc \in [CalEvents -> Docs]
    BY DEF CalTypeOK
  <2> QED BY <1>7, <2>1, BehindHasCopies DEF Writes
<1>9. HistoryTypes'
  BY <1>1, <1>3, <1>8, TheHistoryTypes DEF HistoryTypes
<1>10. work' = [work EXCEPT ![p] = w] /\ w.pc = "items"
  BY <1>2 DEF DealsWith, HasDealtWith
<1>11. UNCHANGED <<cal, clock>> /\ token' \in Nat
  BY <1>1 DEF CalTypeOK
<1>12. CalTypeOK'
  BY <1>8, <1>9, <1>10, <1>11, WriteTypes
<1> QED BY <1>1, <1>2, <1>5, <1>6, <1>7, <1>12

MayPassOver(i) ==
    /\ i.entry.state = "live"
    /\ i.entry.value = AllDay \/ FindLinked(i) = {} \/ \E e \in FindLinked(i) : i.entry.etag = doc[e].etag

LEMMA PassOverDeals ==
    ASSUME CalTypeOK, NEW p \in CalCalls, PassOver(p)
    PROVE  CalTypeOK' /\ \E w, i : DealsWith(p, w, i) /\ MayPassOver(i)
<1>1. PICK i \in work[p].items : Is(p, "items") /\ Applied(p, i) /\ MayPassOver(i)
  BY DEF PassOver, MayPassOver
<1>2. PICK w \in CallLocals : DealsWith(p, w, i)
  BY <1>1, AppliedLocals DEF DealsWith
<1>3. work' = [work EXCEPT ![p] = w] /\ w.pc = "items"
  BY <1>2 DEF DealsWith, HasDealtWith
<1>4. doc' = doc /\ UNCHANGED <<cal, clock>> /\ token' = token /\ UNCHANGED histories /\ happened' = happened
  BY DEF PassOver
<1>5. HistoryTypes'
  BY <1>4, SameHistoryTypes
<1>6. CalTypeOK'
  BY <1>3, <1>4, <1>5, WriteTypes DEF CalTypeOK
<1> QED BY <1>1, <1>2, <1>6

LEMMA PushBackPushes ==
    ASSUME CalTypeOK, NEW p \in CalCalls, PushBack(p)
    PROVE  /\ CalTypeOK'
           /\ \E w \in CallLocals : \E i, e :
                /\ HasDealtWith(p, w, i) /\ w.pc = "push" /\ w.e = e /\ w.copy = doc[e]
                /\ e \in CalEvents /\ (doc[e].link = 0 => doc[e].status # "none")
                /\ e \in FindLinked(i) /\ i.entry.state = "live" /\ i.entry.etag < doc[e].updated
<1>0. PICK i \in work[p].items : \E e \in FindLinked(i) :
        /\ Is(p, "items") /\ i.entry.state = "live" /\ i.entry.value # AllDay
        /\ i.entry.etag # doc[e].etag
        /\ doc[e].updated > i.entry.etag
        /\ work' = [work EXCEPT ![p].items = @ \ {i}, ![p].pc = "push",
                      ![p].e = e, ![p].copy = doc[e]]
        /\ UNCHANGED <<doc, cal, token, clock, histories, happened>>
  BY Zenon DEF PushBack
<1>1. PICK e \in FindLinked(i) :
        /\ Is(p, "items") /\ i.entry.state = "live" /\ doc[e].updated > i.entry.etag
        /\ work' = [work EXCEPT ![p].items = @ \ {i}, ![p].pc = "push",
                      ![p].e = e, ![p].copy = doc[e]]
        /\ UNCHANGED <<doc, cal, token, clock, histories, happened>>
  BY <1>0
<1>2. work[p] \in CallLocals /\ i \in [x : Entries, entry : EntryDocs]
  BY DEF CalTypeOK, CallLocals
<1>3. i.x \in Entries /\ i.entry \in EntryDocs
  BY <1>2
<1>4. e \in CalEvents /\ (doc[e].link = 0 => doc[e].status # "none") /\ doc[e] \in Docs
  BY <1>3, FoundIsAnEvent DEF CalTypeOK
<1>5. PICK w : w = [work[p] EXCEPT !.items = work[p].items \ {i}, !.pc = "push", !.e = e, !.copy = doc[e]]
  OBVIOUS
<1>6. work[p].items \ {i} \in SUBSET [x : Entries, entry : EntryDocs]
  BY <1>2 DEF CallLocals
<1>7. /\ w \in CallLocals /\ w.items = work[p].items \ {i} /\ w.pc = "push" /\ w.e = e /\ w.copy = doc[e]
      /\ w.next = work[p].next /\ w.todo = work[p].todo /\ w.now = work[p].now
  BY <1>2, <1>4, <1>5, <1>6 DEF CallLocals
<1>8. work' = [work EXCEPT ![p] = w]
  BY <1>1, <1>2, <1>5 DEF CalTypeOK, CallLocals
<1>9. HasDealtWith(p, w, i)
  BY <1>1, <1>7, <1>8 DEF HasDealtWith
<1>10. HistoryTypes'
  BY <1>1, SameHistoryTypes
<1>11. CalTypeOK'
  <2>1. doc' \in [CalEvents -> Docs] /\ UNCHANGED <<cal, clock>> /\ token' \in Nat
    BY <1>1 DEF CalTypeOK
  <2> QED BY <1>4, <1>7, <1>8, <1>10, <2>1, WriteTypes
<1>12. i.entry.etag < doc[e].updated
  <2>1. i.entry.etag \in Nat /\ doc[e].updated \in Nat
    BY <1>3, <1>4 DEF EntryDocs, Docs
  <2> QED BY <1>1, <2>1
<1> QED BY <1>1, <1>4, <1>7, <1>9, <1>11, <1>12

(* The pull begins with what changed, or with all there is.                      *)
HasListed(p, w, xs) ==
    /\ Is(p, "idle") /\ work' = [work EXCEPT ![p] = w]
    /\ xs \subseteq Entries /\ w.items = {[x |-> x, entry |-> cal[x]] : x \in xs}
    /\ w.pc = "items" /\ w.now = clock + 1 /\ w.next = clock
    /\ w.e = work[p].e /\ w.copy = work[p].copy /\ w.todo = work[p].todo

LEMMA ListedLocals ==
    ASSUME CalTypeOK, NEW p \in CalCalls, Is(p, "idle"), NEW xs \in SUBSET Entries, Listed(p, xs)
    PROVE  \E w \in CallLocals : HasListed(p, w, xs)
<1>1. PICK is : is = {[x |-> x, entry |-> cal[x]] : x \in xs}
  OBVIOUS
<1>2. is \in SUBSET [x : Entries, entry : EntryDocs]
  BY <1>1 DEF CalTypeOK
<1>3. work[p] \in CallLocals /\ clock \in Nat /\ clock + 1 \in Nat
  BY DEF CalTypeOK
<1>4. PICK w : w = [work[p] EXCEPT !.pc = "items", !.now = clock + 1, !.next = clock, !.items = is]
  OBVIOUS
<1>5. /\ w \in CallLocals /\ w.pc = "items" /\ w.now = clock + 1 /\ w.items = is /\ w.next = clock
      /\ w.e = work[p].e /\ w.copy = work[p].copy /\ w.todo = work[p].todo
  BY <1>2, <1>3, <1>4 DEF CallLocals
<1>6. work' = [work EXCEPT ![p] = w]
  BY <1>1, <1>3, <1>4 DEF Listed, CalTypeOK, CallLocals
<1> QED BY <1>1, <1>5, <1>6 DEF HasListed

(* What changed since the token is listed, or is a deletion that goes unseen.     *)
ListsChanges(xs) == \A x \in Entries :
    cal[x].etag > token => x \in xs \/ x \in unseen' \/ cal[x].state = "unused"

LEMMA FetchLists ==
    ASSUME CalTypeOK, NEW p \in CalCalls, Fetch(p) \/ FetchAll(p)
    PROVE  /\ CalTypeOK' /\ UNCHANGED <<doc, cal, clock, orphans, doubled, behind>>
           /\ \E w \in CallLocals : \E xs : HasListed(p, w, xs) /\ ListsChanges(xs)
<1>1. PICK xs \in SUBSET Entries : Is(p, "idle") /\ Listed(p, xs) /\ ListsChanges(xs)
  <2>1. \A x \in Entries : cal[x].state \in {"unused", "live", "deleted"}
    BY DEF CalTypeOK, EntryDocs
  <2>2. CASE Fetch(p)
    BY <2>2 DEF Fetch, ListsChanges
  <2>3. CASE FetchAll(p)
    BY <2>1, <2>3 DEF FetchAll, ListsChanges
  <2> QED BY <2>2, <2>3
<1>2. PICK w \in CallLocals : HasListed(p, w, xs)
  BY <1>1, ListedLocals
<1>3. work' = [work EXCEPT ![p] = w] /\ w.pc = "items"
  BY <1>2 DEF HasListed
<1>4. UNCHANGED <<doc, cal, clock, token, orphans, doubled, adrift, behind>>
  BY DEF Fetch, FetchAll, histories
<1>5. unseen' \subseteq Entries
  BY DEF Fetch, FetchAll, histories, CalTypeOK
<1>6. happened' \in 0 .. MaxHappenings
  <2>1. Happens \/ happened' = happened
    BY DEF Fetch, FetchAll
  <2> QED BY <2>1, HappensIsBounded DEF CalTypeOK
<1>7. HistoryTypes'
  BY <1>4, <1>5, <1>6, TheHistoryTypes DEF HistoryTypes
<1>8. CalTypeOK'
  BY <1>3, <1>4, <1>7, WriteTypes DEF CalTypeOK
<1> QED BY <1>1, <1>2, <1>4, <1>8

(* The pull ends, or fails, and what is pending is pushed.                       *)
LEMMA PullEnds ==
    ASSUME CalTypeOK, NEW p \in CalCalls, EndPull(p) \/ PullFails(p)
    PROVE  /\ CalTypeOK' /\ UNCHANGED <<doc, cal, clock, orphans, doubled, behind>>
           /\ Is(p, "idle") \/ Is(p, "items")
           /\ \E w \in CallLocals : Retries(w, Pending) /\ work' = [work EXCEPT ![p] = w]
<1>1. RetryNext(p, Pending) /\ (Is(p, "idle") \/ Is(p, "items"))
  BY DEF EndPull, PullFails
<1>2. Pending \in SUBSET Copies
  BY PendingCopies
<1>3. PICK w \in CallLocals : Retries(w, Pending) /\ work' = [work EXCEPT ![p] = w]
                              /\ (w.pc \in {"push", "mark"} => w.e \in CalEvents)
  BY <1>1, <1>2, RetryLocals
<1>4. UNCHANGED <<doc, cal, clock>> /\ UNCHANGED histories /\ (Happens \/ happened' = happened)
  BY DEF EndPull, PullFails
<1>5. token' \in Nat
  BY DEF EndPull, PullFails, CalTypeOK, CallLocals
<1>6. HistoryTypes'
  BY <1>4, SameHistoryTypes
<1>7. CalTypeOK'
  BY <1>3, <1>4, <1>5, <1>6, WriteTypes DEF CalTypeOK
<1> QED BY <1>1, <1>3, <1>4, <1>7 DEF histories

LEMMA CalDieTypes ==
    ASSUME CalTypeOK, NEW p \in CalCalls, CalDie(p)
    PROVE  /\ CalTypeOK' /\ UNCHANGED <<doc, cal, clock, doubled>>
           /\ work' = [work EXCEPT ![p] = Resting] /\ orphans \subseteq orphans'
<1>1. /\ doc' = doc /\ UNCHANGED <<cal, clock>> /\ token' = token /\ UNCHANGED <<doubled, unseen>>
      /\ work' = [work EXCEPT ![p] = Resting] /\ Happens
  BY DEF CalDie
<1>2. work[p].copy.link \in Entries \cup {0} /\ work[p].e \in CalEvents \cup {0}
      /\ (Is(p, "mark") => work[p].e \in CalEvents)
  BY DEF CalTypeOK, CallLocals, Docs, Is
<1>3. orphans' \subseteq Entries
  <2>1. CASE Is(p, "mark")
    <3>1. doc[work[p].e].link \in Entries \cup {0}
      BY <1>2, <2>1 DEF CalTypeOK, Docs
    <3> QED BY <1>2, <2>1, <3>1 DEF CalDie, CalTypeOK
  <2>2. CASE ~Is(p, "mark")
    BY <2>2 DEF CalDie, CalTypeOK
  <2> QED BY <2>1, <2>2
<1>4. adrift' \subseteq CalEvents /\ behind' \subseteq CalCalls \X CalEvents
  BY <1>2 DEF CalDie, CalTypeOK
<1>5. HistoryTypes'
  BY <1>1, <1>3, <1>4, TheHistoryTypes, HappensIsBounded DEF HistoryTypes
<1>6. Resting.pc = "idle"
  BY DEF Resting
<1>7. doc' \in [CalEvents -> Docs] /\ token' \in Nat
  BY <1>1 DEF CalTypeOK
<1>8. CalTypeOK'
  BY <1>1, <1>5, <1>6, <1>7, RestingIsLocals, WriteTypes
<1>9. orphans \subseteq orphans'
  BY DEF CalDie
<1> QED BY <1>1, <1>8, <1>9

LEMMA SyncEventPushes ==
    ASSUME CalTypeOK, NEW p \in CalCalls, SyncEvent(p)
    PROVE  /\ CalTypeOK'
           /\ \E w \in CallLocals : \E e \in CalEvents :
                /\ w = [work[p] EXCEPT !.pc = "push", !.e = e, !.copy = doc[e]]
                /\ work' = [work EXCEPT ![p] = w] /\ doc[e].status # "none"
<1>1. PICK e \in CalEvents :
        /\ doc[e].status # "none" /\ Happens
        /\ work' = [work EXCEPT ![p].pc = "push", ![p].e = e, ![p].copy = doc[e]]
        /\ UNCHANGED <<doc, cal, token, clock, histories>>
  BY DEF SyncEvent
<1>2. PICK w : w = [work[p] EXCEPT !.pc = "push", !.e = e, !.copy = doc[e]]
  OBVIOUS
<1>3. w \in CallLocals /\ w.e = e
  BY <1>2 DEF CallLocals, CalTypeOK
<1>4. work' = [work EXCEPT ![p] = w]
  BY <1>1, <1>2 DEF CalTypeOK, CallLocals
<1>5. HistoryTypes'
  BY <1>1, SameHistoryTypes
<1>6. doc' \in [CalEvents -> Docs] /\ UNCHANGED <<cal, clock>> /\ token' \in Nat
  BY <1>1 DEF CalTypeOK
<1>7. CalTypeOK'
  BY <1>3, <1>4, <1>5, <1>6, WriteTypes
<1> QED BY <1>1, <1>2, <1>3, <1>4, <1>7

(* What a screen saves: the event as it changed it, at this time.                *)
ScreenSaves(p) == \E e \in CalEvents, d \in Docs :
    /\ SaveAndPush(p, e, d) /\ d.updated = clock + 2 /\ d.status # "none"
    /\ d.link = IF doc[e].status = "none" THEN 0 ELSE doc[e].link
    /\ d.etag \in {0, doc[e].etag}
    /\ doc[e].status = "cancelled" /\ d.status = "live" => d.value = doc[e].value

LEMMA ScreensSave ==
    ASSUME CalTypeOK, NEW p \in CalCalls,
           CreateEvent(p) \/ UpdateEvent(p) \/ CancelEvent(p) \/ RestoreEvent(p)
    PROVE  ScreenSaves(p)
<1>1. PICK t \in Nat : t = clock + 2
  BY DEF CalTypeOK
<1>2. \A e \in CalEvents : doc[e] \in Docs
  BY DEF CalTypeOK
<1>3. \A v \in Values : v \in Contents
  BY DEF Contents
<1>4. CASE CreateEvent(p)
  <2>1. PICK e \in CalEvents, v \in Values : IsNewEvent(e) /\
          SaveAndPush(p, e, [NoDoc EXCEPT !.status = "live", !.value = v, !.updated = t])
    BY <1>1, <1>4 DEF CreateEvent
  <2>2. PICK d : d = [NoDoc EXCEPT !.status = "live", !.value = v, !.updated = t]
    OBVIOUS
  <2>3. d \in Docs /\ d.updated = t /\ d.status = "live" /\ d.link = 0 /\ d.etag = 0
    BY <1>3, <2>2, NoDocIsADoc DEF Docs, NoDoc
  <2>4. SaveAndPush(p, e, d) /\ doc[e].status = "none"
    BY <2>1, <2>2 DEF IsNewEvent
  <2> QED BY <1>1, <2>3, <2>4 DEF ScreenSaves
<1>5. CASE UpdateEvent(p)
  <2>1. PICK e \in CalEvents, v \in Values : doc[e].status # "none" /\
          SaveAndPush(p, e, [doc[e] EXCEPT !.value = v, !.updated = t])
    BY <1>1, <1>5 DEF UpdateEvent
  <2>2. PICK d : d = [doc[e] EXCEPT !.value = v, !.updated = t]
    OBVIOUS
  <2>3. /\ d \in Docs /\ d.updated = t /\ d.status = doc[e].status /\ d.link = doc[e].link
        /\ d.etag = doc[e].etag
    BY <1>2, <1>3, <2>2 DEF Docs
  <2>4. SaveAndPush(p, e, d)
    BY <2>1, <2>2
  <2> QED BY <1>1, <2>1, <2>3, <2>4 DEF ScreenSaves
<1>6. CASE CancelEvent(p)
  <2>1. PICK e \in CalEvents : doc[e].status = "live" /\
          SaveAndPush(p, e, [doc[e] EXCEPT !.status = "cancelled", !.updated = t])
    BY <1>1, <1>6 DEF CancelEvent
  <2>2. PICK d : d = [doc[e] EXCEPT !.status = "cancelled", !.updated = t]
    OBVIOUS
  <2>3. /\ d \in Docs /\ d.updated = t /\ d.status = "cancelled" /\ d.link = doc[e].link
        /\ d.etag = doc[e].etag
    BY <1>2, <2>2 DEF Docs
  <2>4. SaveAndPush(p, e, d)
    BY <2>1, <2>2
  <2> QED BY <1>1, <2>1, <2>3, <2>4 DEF ScreenSaves
<1>7. CASE RestoreEvent(p)
  <2>1. PICK e \in CalEvents : doc[e].status = "cancelled" /\
          SaveAndPush(p, e, [doc[e] EXCEPT !.status = "live", !.updated = t])
    BY <1>1, <1>7 DEF RestoreEvent
  <2>2. PICK d : d = [doc[e] EXCEPT !.status = "live", !.updated = t]
    OBVIOUS
  <2>3. /\ d \in Docs /\ d.updated = t /\ d.status = "live" /\ d.link = doc[e].link
        /\ d.value = doc[e].value /\ d.etag = doc[e].etag
    BY <1>2, <2>2 DEF Docs
  <2>4. SaveAndPush(p, e, d)
    BY <2>1, <2>2
  <2> QED BY <1>1, <2>1, <2>3, <2>4 DEF ScreenSaves
<1> QED BY <1>4, <1>5, <1>6, <1>7

LEMMA UpdateOtherWrites ==
    ASSUME CalTypeOK, NEW p \in CalCalls, UpdateOther(p)
    PROVE  /\ CalTypeOK'
           /\ \E e, d : Writes(p, e, d) /\ d.updated = clock + 2 /\ d.status = doc[e].status
                        /\ d.link = doc[e].link /\ doc[e].status # "none"
                        /\ d.value = doc[e].value /\ d.etag = doc[e].etag /\ d.sync = doc[e].sync
           /\ Is(p, "idle") /\ clock' = clock + 2 /\ UNCHANGED <<cal, work, orphans, doubled>>
<1>1. PICK e \in CalEvents : doc[e].status # "none" /\ doc' = [doc EXCEPT ![e].updated = clock + 2]
                             /\ behind' = NowBehind(p, e)
  BY DEF UpdateOther
<1>2. Is(p, "idle") /\ clock' = clock + 2 /\ UNCHANGED <<cal, token, work, orphans, doubled, unseen, adrift>>
      /\ Happens
  BY DEF UpdateOther, Advance
<1>3. PICK t \in Nat : t = clock + 2
  BY DEF CalTypeOK
<1>4. PICK d : d = [doc[e] EXCEPT !.updated = t]
  OBVIOUS
<1>5. /\ d \in Docs /\ d.updated = t /\ d.status = doc[e].status /\ d.link = doc[e].link
      /\ d.value = doc[e].value /\ d.etag = doc[e].etag /\ d.sync = doc[e].sync
  BY <1>3, <1>4 DEF Docs, CalTypeOK
<1>6. doc' = [doc EXCEPT ![e] = d]
  BY <1>1, <1>3, <1>4 DEF Docs, CalTypeOK
<1>7. Writes(p, e, d)
  BY <1>1, <1>5, <1>6 DEF Writes
<1>8. behind' \subseteq CalCalls \X CalEvents /\ happened' \in 0 .. MaxHappenings
  <2>1. behind \subseteq CalCalls \X CalEvents /\ happened \in 0 .. MaxHappenings
    BY DEF CalTypeOK
  <2> QED BY <1>1, <1>2, <2>1, BehindHasCopies, HappensIsBounded
<1>9. CalTypeOK'
  BY <1>2, <1>3, <1>5, <1>6, <1>8 DEF CalTypeOK
<1> QED BY <1>1, <1>2, <1>3, <1>5, <1>7, <1>9

(* The calendar's users; a copy carries the id of an event that has a twin then. *)
UsersChange == \E y, n : EntryBecomes(y, n) /\
    \/ cal[y].state = "live" /\ n.event = cal[y].event
    \/ cal[y].state = "unused" /\ n.state = "live"
UsersStep ==
    /\ EntriesGoOn /\ UsersChange
    /\ UNCHANGED <<doc, token, work, orphans, unseen, adrift, behind>> /\ doubled \subseteq doubled'
    /\ \A x \in Entries : cal'[x].state = "live" /\ cal'[x].event # 0 =>
         \/ cal[x].state = "live" /\ cal'[x].event = cal[x].event
         \/ cal'[x].event \in doubled'

LEMMA UsersGoOn == ASSUME CalTypeOK, User PROVE CalTypeOK' /\ UsersStep
<1>1. UserStep
  BY DEF User, UserEdit, UserDelete, UserAdd, UserCopy
<1>2. PICK t \in Nat : t = clock + 2 /\ clock' = t
  BY <1>1 DEF UserStep, Advance, CalTypeOK
<1>3. UNCHANGED <<doc, token, work, orphans, unseen, adrift, behind>> /\ happened' \in 0 .. MaxHappenings
  <2>1. Happens /\ happened \in 0 .. MaxHappenings
    BY <1>1 DEF UserStep, CalTypeOK
  <2> QED BY <1>1, <2>1, HappensIsBounded DEF UserStep
<1>4. \A x \in Entries : cal[x] \in EntryDocs
  BY DEF CalTypeOK
<1>5. ASSUME NEW x \in Entries, NEW v \in EntryDocs, v.etag = t, v.state # "unused",
             cal' = [cal EXCEPT ![x] = v], doubled \subseteq doubled', doubled' \subseteq CalEvents,
             \/ cal[x].state = "live" /\ v.event = cal[x].event
             \/ cal[x].state = "unused" /\ v.state = "live" /\ (v.event = 0 \/ v.event \in doubled')
      PROVE  CalTypeOK' /\ UsersStep
  <2>1. EntriesGoOn
    BY <1>2, <1>5, EntryChanges
  <2>2. cal'[x] = v /\ \A y \in Entries : y # x => cal'[y] = cal[y]
    BY <1>5 DEF CalTypeOK
  <2>3. \A y \in Entries : cal'[y].state = "live" /\ cal'[y].event # 0 =>
          \/ cal[y].state = "live" /\ cal'[y].event = cal[y].event
          \/ cal'[y].event \in doubled'
    BY <1>5, <2>2
  <2>4. CalTypeOK'
    BY <1>2, <1>3, <1>5, <2>1 DEF CalTypeOK, EntriesGoOn
  <2>5. EntryBecomes(x, v)
    BY <1>2, <1>5 DEF EntryBecomes
  <2>6. UsersChange
    BY <1>5, <2>5 DEF UsersChange
  <2> QED BY <1>3, <1>5, <2>1, <2>3, <2>4, <2>6 DEF UsersStep
<1>6. doubled \subseteq CalEvents
  BY DEF CalTypeOK
<1>7. CASE UserEdit
  <2>1. PICK x \in Entries, c \in Contents : cal[x].state = "live"
          /\ cal' = [cal EXCEPT ![x].value = c, ![x].etag = t] /\ doubled' = doubled
    BY <1>2, <1>7 DEF UserEdit
  <2>2. PICK v : v = [cal[x] EXCEPT !.value = c, !.etag = t]
    OBVIOUS
  <2>3. v \in EntryDocs /\ v.etag = t /\ v.state = "live" /\ v.event = cal[x].event
    BY <1>4, <2>1, <2>2 DEF EntryDocs
  <2>4. cal' = [cal EXCEPT ![x] = v]
    BY <1>4, <2>1, <2>2 DEF EntryDocs, CalTypeOK
  <2> QED BY <1>5, <1>6, <2>1, <2>3, <2>4
<1>8. CASE UserDelete
  <2>1. PICK x \in Entries : cal[x].state = "live"
          /\ cal' = [cal EXCEPT ![x].state = "deleted", ![x].etag = t] /\ doubled' = doubled
    BY <1>2, <1>8 DEF UserDelete
  <2>2. PICK v : v = [cal[x] EXCEPT !.state = "deleted", !.etag = t]
    OBVIOUS
  <2>3. v \in EntryDocs /\ v.etag = t /\ v.state = "deleted" /\ v.event = cal[x].event
    BY <1>4, <2>1, <2>2 DEF EntryDocs
  <2>4. cal' = [cal EXCEPT ![x] = v]
    BY <1>4, <2>1, <2>2 DEF EntryDocs, CalTypeOK
  <2> QED BY <1>5, <1>6, <2>1, <2>3, <2>4
<1>9. CASE UserAdd
  <2>1. PICK x \in Entries, c \in Contents : IsNewEntry(x) /\ doubled' = doubled
          /\ cal' = [cal EXCEPT ![x] = [Unused EXCEPT !.state = "live", !.value = c, !.etag = t]]
    BY <1>2, <1>9 DEF UserAdd
  <2>2. PICK v : v = [Unused EXCEPT !.state = "live", !.value = c, !.etag = t]
    OBVIOUS
  <2>3. v \in EntryDocs /\ v.etag = t /\ v.state = "live" /\ v.event = 0
    BY <2>2, NoDocIsADoc DEF EntryDocs, Unused
  <2>4. cal[x].state = "unused"
    BY <2>1 DEF IsNewEntry
  <2>5. cal' = [cal EXCEPT ![x] = v]
    BY <2>1, <2>2
  <2> QED BY <1>5, <1>6, <2>1, <2>3, <2>4, <2>5
<1>10. CASE UserCopy
  <2>1. PICK x \in Entries, y \in Entries : cal[x].state = "live" /\ IsNewEntry(y)
          /\ cal' = [cal EXCEPT ![y] = [cal[x] EXCEPT !.meet = "none", !.etag = t]]
          /\ doubled' = doubled \cup ({cal[x].event} \ {0})
    BY <1>2, <1>10 DEF UserCopy
  <2>2. PICK v : v = [cal[x] EXCEPT !.meet = "none", !.etag = t]
    OBVIOUS
  <2>3. v \in EntryDocs /\ v.etag = t /\ v.state = "live" /\ v.event = cal[x].event
        /\ cal[x].event \in CalEvents \cup {0}
    BY <1>4, <2>1, <2>2 DEF EntryDocs
  <2>4. cal[y].state = "unused"
    BY <2>1 DEF IsNewEntry
  <2>5. cal' = [cal EXCEPT ![y] = v]
    BY <2>1, <2>2
  <2>6. doubled \subseteq doubled' /\ doubled' \subseteq CalEvents /\ (v.event = 0 \/ v.event \in doubled')
    BY <1>6, <2>1, <2>3
  <2> QED BY <1>5, <2>3, <2>4, <2>5, <2>6
<1> QED BY <1>7, <1>8, <1>9, <1>10 DEF User
-----------------------------------------------------------------------------
(* What keeps the parts of the invariant.                                        *)
EveryEntryIsKnown == \A x \in Entries :
    cal[x].state = "live" /\ cal[x].event # 0 =>
      \/ cal[x].event \in doubled \/ x \in orphans
      \/ \E e \in CalEvents : doc[e].link = x
      \/ \E p \in CalCalls : work[p].pc = "mark" /\ work[p].copy.link = x

LEMMA KnownIsNotForgotten == EveryEntryIsKnown <=> NoEntryForgotten
  BY DEF EveryEntryIsKnown, NoEntryForgotten, HasTwin, LinkedTo, Is

LEMMA SyncInitHolds == CalInit => SyncInv
<1> SUFFICES ASSUME CalInit PROVE SyncInv
  OBVIOUS
<1> USE DEF CalInit
<1>1. NoDoc.updated = 0 /\ NoDoc.link = 0 /\ NoDoc.status = "none"
      /\ Unused.etag = 0 /\ Unused.state = "unused" /\ Unused.event = 0
  BY DEF NoDoc, Unused
<1>2. CallsFit
  BY DEF CallsFit, LocalsFit, Resting
<1>3. CallsWereTrue
  BY <1>1 DEF CallsWereTrue, LocalsWereTrue, DocWasTrue, IsUsed, Resting
<1>4. CopiesAreCurrent
  BY CalendarAssumption DEF CopiesAreCurrent, CopyIsCurrent, Resting
<1>5. DocsAreTrue
  BY <1>1 DEF DocsAreTrue, DocWasTrue, IsUsed
<1>6. EntriesAreTrue
  BY <1>1 DEF EntriesAreTrue
<1>7. NoEntryForgotten
  BY <1>1 DEF NoEntryForgotten
<1> QED BY <1>2, <1>3, <1>4, <1>5, <1>6, <1>7 DEF SyncInv

LEMMA CalendarStays ==
    ASSUME CalTypeOK, cal' = cal, clock' \in Nat, clock <= clock' PROVE EntriesGoOn
  BY DEF EntriesGoOn, CalTypeOK

LEMMA UsedStays ==
    ASSUME EntriesGoOn, NEW x \in Entries \cup {0}, IsUsed(x) PROVE IsUsed(x)'
  BY DEF EntriesGoOn, IsUsed

LEMMA DocStaysTrue ==
    ASSUME CalTypeOK, EntriesGoOn, NEW d \in Docs, DocWasTrue(d) PROVE DocWasTrue(d)'
<1>1. IsUsed(d.link)'
  <2>1. PICK x : x = d.link
    OBVIOUS
  <2>2. x \in Entries \cup {0} /\ IsUsed(x)
    BY <2>1 DEF Docs, DocWasTrue
  <2> QED BY <2>1, <2>2, UsedStays
<1>2. d.updated \in Nat /\ clock \in Nat /\ clock' \in Nat /\ clock <= clock' /\ d.updated <= clock + 1
  BY DEF Docs, CalTypeOK, EntriesGoOn, DocWasTrue
<1>3. d.updated <= clock' + 1
  BY <1>2
<1> QED BY <1>1, <1>3 DEF DocWasTrue

LEMMA LocalsStayTrue ==
    ASSUME CalTypeOK, EntriesGoOn, NEW w \in CallLocals, LocalsWereTrue(w) PROVE LocalsWereTrue(w)'
<1>1. w.now <= clock' + 1
  <2>1. w.now \in Nat /\ clock \in Nat /\ clock' \in Nat /\ clock <= clock' /\ w.now <= clock + 1
    BY DEF CallLocals, CalTypeOK, EntriesGoOn, LocalsWereTrue
  <2> QED BY <2>1
<1>2. DocWasTrue(w.copy)'
  <2>1. PICK d \in Docs : d = w.copy
    BY DEF CallLocals
  <2> QED BY <2>1, DocStaysTrue DEF LocalsWereTrue
<1>3. ASSUME NEW d \in w.todo PROVE DocWasTrue(d.copy)'
  <2>1. PICK c \in Docs : c = d.copy
    BY DEF CallLocals
  <2> QED BY <2>1, DocStaysTrue DEF LocalsWereTrue
<1>4. ASSUME NEW i \in w.items PROVE ItemWasTrue(i)'
  <2>1. ItemWasTrue(i) /\ i.x \in Entries /\ i.entry \in EntryDocs
    BY DEF LocalsWereTrue, CallLocals
  <2>2. i.entry.etag \in Nat /\ clock \in Nat /\ clock' \in Nat /\ clock <= clock'
    BY <2>1 DEF EntryDocs, CalTypeOK, EntriesGoOn
  <2>3. i.entry.etag <= clock'
    BY <2>1, <2>2 DEF ItemWasTrue
  <2> QED BY <2>1, <2>3 DEF ItemWasTrue, EntriesGoOn
<1>5. w.pc = "mark" /\ w.copy.link # w.from => w.from = 0 \/ cal'[w.from].state = "deleted"
  BY DEF LocalsWereTrue, CallLocals, EntriesGoOn
<1> QED BY <1>1, <1>2, <1>3, <1>4, <1>5 DEF LocalsWereTrue

LEMMA CallsStayTrue ==
    ASSUME CalTypeOK, CallsWereTrue, EntriesGoOn, NEW p \in CalCalls, NEW w \in CallLocals,
           work' = [work EXCEPT ![p] = w], LocalsWereTrue(w)'
    PROVE  CallsWereTrue'
<1> SUFFICES ASSUME NEW q \in CalCalls PROVE LocalsWereTrue(work[q])'
  BY DEF CallsWereTrue
<1>1. PICK v \in CallLocals : v = work[q]
  BY DEF CalTypeOK
<1>2. LocalsWereTrue(v)'
  BY <1>1, LocalsStayTrue DEF CallsWereTrue
<1>3. work'[q] = IF q = p THEN w ELSE v
  BY <1>1 DEF CalTypeOK
<1> QED BY <1>2, <1>3

LEMMA RestStaysTrue ==
    ASSUME CalTypeOK, CallsWereTrue, EntriesGoOn, work' = work PROVE CallsWereTrue'
<1> SUFFICES ASSUME NEW q \in CalCalls PROVE LocalsWereTrue(work[q])'
  BY DEF CallsWereTrue
<1>1. PICK v \in CallLocals : v = work[q]
  BY DEF CalTypeOK
<1>2. LocalsWereTrue(v)'
  BY <1>1, LocalsStayTrue DEF CallsWereTrue
<1> QED BY <1>1, <1>2

LEMMA CallsStayFit ==
    ASSUME CalTypeOK, CallsFit, NEW p \in CalCalls, NEW w, work' = [work EXCEPT ![p] = w], LocalsFit(w)
    PROVE  CallsFit'
<1> SUFFICES ASSUME NEW q \in CalCalls PROVE LocalsFit(work[q])'
  BY DEF CallsFit
<1>1. PICK v : v = work[q]
  OBVIOUS
<1>2. LocalsFit(v)
  BY <1>1 DEF CallsFit
<1>3. work'[q] = IF q = p THEN w ELSE v
  BY <1>1 DEF CalTypeOK
<1> QED BY <1>2, <1>3 DEF LocalsFit

LEMMA CopiesStay ==
    ASSUME CalTypeOK, CopiesAreCurrent, NEW p \in CalCalls, NEW w, work' = [work EXCEPT ![p] = w],
           UNCHANGED <<doc, behind>>,
           \A e \in CalEvents :
             IF <<p, e>> \in behind THEN HoldsCopy(w, e) ELSE CopyIsCurrent(w, e)
    PROVE  CopiesAreCurrent'
<1>1. \A q \in CalCalls : work'[q] = IF q = p THEN w ELSE work[q]
  BY DEF CalTypeOK
<1>2. ASSUME NEW q \in CalCalls, NEW f \in CalEvents
      PROVE  IF <<q, f>> \in behind' THEN HoldsCopy(work'[q], f) ELSE CopyIsCurrent(work[q], f)'
  <2>1. PICK v : v = IF q = p THEN w ELSE work[q]
    OBVIOUS
  <2>2. IF <<q, f>> \in behind THEN HoldsCopy(v, f) ELSE CopyIsCurrent(v, f)
    BY <2>1 DEF CopiesAreCurrent
  <2>3. work'[q] = v
    BY <1>1, <2>1
  <2> QED BY <2>2, <2>3 DEF HoldsCopy, CopyIsCurrent
<1> QED BY <1>2 DEF CopiesAreCurrent, HoldsCopy

LEMMA CopiesAfterWrite ==
    ASSUME CalTypeOK, CopiesAreCurrent, NEW p \in CalCalls, NEW w, work' = [work EXCEPT ![p] = w],
           NEW e, NEW d, Writes(p, e, d),
           \A f \in CalEvents \ {e} :
             IF <<p, f>> \in behind THEN HoldsCopy(w, f) ELSE CopyIsCurrent(w, f),
           w.e = e => SameChange(w.copy, d),
           \A c \in w.todo : c.e = e => SameChange(c.copy, d)
    PROVE  CopiesAreCurrent'
<1>1. \A q \in CalCalls : work'[q] = IF q = p THEN w ELSE work[q]
  BY DEF CalTypeOK
<1>2. e \in CalEvents /\ \A f \in CalEvents : doc'[f] = IF f = e THEN d ELSE doc[f]
  BY DEF Writes, CalTypeOK
<1>3. behind' = NowBehind(p, e)
  BY DEF Writes
<1>4. ASSUME NEW q \in CalCalls, NEW f \in CalEvents, q # p
      PROVE  IF <<q, f>> \in behind' THEN HoldsCopy(work'[q], f) ELSE CopyIsCurrent(work[q], f)'
  <2>1. work'[q] = work[q] /\ (<<q, f>> \in behind' <=> <<q, f>> \in behind \/ (f = e /\ Holds(q, e)))
    BY <1>1, <1>3, <1>4 DEF NowBehind
  <2>2. IF <<q, f>> \in behind THEN HoldsCopy(work[q], f) ELSE CopyIsCurrent(work[q], f)
    BY DEF CopiesAreCurrent
  <2>3. CASE f = e
    BY <2>1, <2>2, <2>3 DEF HoldsCopy, Holds, CopyIsCurrent
  <2>4. CASE f # e
    BY <1>2, <2>1, <2>2, <2>4 DEF HoldsCopy, CopyIsCurrent
  <2> QED BY <2>3, <2>4
<1>5. ASSUME NEW f \in CalEvents
      PROVE  IF <<p, f>> \in behind' THEN HoldsCopy(work'[p], f) ELSE CopyIsCurrent(work[p], f)'
  <2>1. work'[p] = w /\ (<<p, f>> \in behind' <=> <<p, f>> \in behind /\ f # e)
    BY <1>1, <1>3 DEF NowBehind
  <2>2. CASE f = e
    BY <1>2, <2>1, <2>2 DEF CopyIsCurrent
  <2>3. CASE f # e
    BY <1>2, <2>1, <2>3 DEF HoldsCopy, CopyIsCurrent
  <2> QED BY <2>2, <2>3
<1> QED BY <1>4, <1>5 DEF CopiesAreCurrent

LEMMA DocsStayTrue ==
    ASSUME CalTypeOK, DocsAreTrue, EntriesGoOn, doc' = doc PROVE DocsAreTrue'
<1> SUFFICES ASSUME NEW f \in CalEvents
             PROVE  DocWasTrue(doc[f])' /\ (doc'[f].status = "none" => doc'[f] = NoDoc)
  BY DEF DocsAreTrue
<1>1. PICK c \in Docs : c = doc[f]
  BY DEF CalTypeOK
<1>2. DocWasTrue(c)'
  BY <1>1, DocStaysTrue DEF DocsAreTrue
<1> QED BY <1>1, <1>2 DEF DocsAreTrue

LEMMA DocsAfterWrite ==
    ASSUME CalTypeOK, DocsAreTrue, EntriesGoOn, NEW p, NEW e, NEW d, Writes(p, e, d),
           DocWasTrue(d)', d.status # "none"
    PROVE  DocsAreTrue'
<1> SUFFICES ASSUME NEW f \in CalEvents
             PROVE  DocWasTrue(doc[f])' /\ (doc'[f].status = "none" => doc'[f] = NoDoc)
  BY DEF DocsAreTrue
<1>1. PICK c \in Docs : c = doc[f]
  BY DEF CalTypeOK
<1>2. DocWasTrue(c)'
  BY <1>1, DocStaysTrue DEF DocsAreTrue
<1>3. doc'[f] = IF f = e THEN d ELSE c
  BY <1>1 DEF Writes, CalTypeOK
<1> QED BY <1>1, <1>2, <1>3 DEF DocsAreTrue

LEMMA EntriesStayTrue == ASSUME CalTypeOK, EntriesAreTrue, EntriesGoOn PROVE EntriesAreTrue'
<1> SUFFICES ASSUME NEW x \in Entries
             PROVE  cal'[x].etag <= clock' /\ (cal'[x].state = "unused" => cal'[x].etag = 0)
  BY DEF EntriesAreTrue
<1>1. CASE cal'[x] = cal[x]
  <2>1. cal[x].etag \in Nat /\ clock \in Nat /\ clock' \in Nat /\ clock <= clock' /\ cal[x].etag <= clock
    BY DEF CalTypeOK, EntryDocs, EntriesGoOn, EntriesAreTrue
  <2> QED BY <1>1, <2>1 DEF EntriesAreTrue
<1>2. CASE cal'[x] # cal[x]
  BY <1>2 DEF EntriesGoOn
<1> QED BY <1>1, <1>2
-----------------------------------------------------------------------------
(* Every step keeps the invariant.                                               *)
LEMMA RestingFits ==
    /\ LocalsFit(Resting)
    /\ Resting.copy = NoDoc /\ Resting.e = 0 /\ Resting.todo = {} /\ Resting.items = {}
    /\ Resting.pc = "idle" /\ Resting.next = 0 /\ Resting.now = 0 /\ Resting.from = 0
  BY DEF LocalsFit, Resting

LEMMA RestingWasTrue == clock \in Nat => LocalsWereTrue(Resting)
  BY RestingFits DEF LocalsWereTrue, DocWasTrue, IsUsed, NoDoc

(* A call at rest has no copies, so none is behind.                              *)
LEMMA IdleHoldsNothing ==
    ASSUME CallsFit, CopiesAreCurrent, NEW p \in CalCalls, Is(p, "idle")
    PROVE  work[p] = Resting /\ \A f \in CalEvents : <<p, f>> \notin behind
<1>1. work[p] = Resting
  BY DEF CallsFit, LocalsFit, Is
<1>2. \A f \in CalEvents : ~HoldsCopy(Resting, f)
  BY RestingFits, CalendarAssumption DEF HoldsCopy
<1> QED BY <1>1, <1>2 DEF CopiesAreCurrent

LEMMA SavedKeeps ==
    ASSUME CalTypeOK, SyncInv, NEW p \in CalCalls, ScreenSaves(p)
    PROVE  CalTypeOK' /\ SyncInv'
<1>1. PICK e \in CalEvents, d \in Docs :
        /\ SaveAndPush(p, e, d) /\ d.updated = clock + 2 /\ d.status # "none"
        /\ d.link = IF doc[e].status = "none" THEN 0 ELSE doc[e].link
  BY DEF ScreenSaves
<1>2. CalTypeOK'
  BY <1>1, SavedTypes
<1>3. PICK w \in CallLocals :
        HasSaved(p, w, e, d)
  BY <1>1, SavedTypes
<1>0. work' = [work EXCEPT ![p] = w] /\ w = [work[p] EXCEPT !.pc = "push", !.e = e, !.copy = d]
  BY <1>3 DEF HasSaved
<1>4. work[p] = Resting /\ \A f \in CalEvents : <<p, f>> \notin behind
  BY <1>1, IdleHoldsNothing DEF SaveAndPush, SyncInv
<1>5. /\ w.pc = "push" /\ w.e = e /\ w.copy = d /\ w.todo = {} /\ w.items = {} /\ w.next = 0
      /\ w.now = 0 /\ w.from = 0
  BY <1>0, <1>4 DEF Resting
<1>6. cal' = cal /\ clock' = clock + 2 /\ clock \in Nat /\ UNCHANGED <<orphans, doubled>>
  BY <1>1 DEF SaveAndPush, Advance, CalTypeOK
<1>7. EntriesGoOn
  BY <1>6, CalendarStays
<1>8. Writes(p, e, d)
  BY <1>1 DEF SaveAndPush, Writes
<1>9. DocWasTrue(d)'
  BY <1>1, <1>6 DEF DocWasTrue, IsUsed, SyncInv, DocsAreTrue
<1>10. CallsFit'
  <2>1. LocalsFit(w)
    BY <1>1, <1>5 DEF LocalsFit
  <2> QED BY <1>0, <2>1, CallsStayFit DEF SyncInv
<1>11. CallsWereTrue'
  <2>1. LocalsWereTrue(w)'
    BY <1>5, <1>6, <1>9 DEF LocalsWereTrue
  <2> QED BY <1>0, <1>7, <2>1, CallsStayTrue DEF SyncInv
<1>12. CopiesAreCurrent'
  <2>1. \A f \in CalEvents \ {e} :
          IF <<p, f>> \in behind THEN HoldsCopy(w, f) ELSE CopyIsCurrent(w, f)
    BY <1>4, <1>5 DEF CopyIsCurrent
  <2>2. (w.e = e => SameChange(w.copy, d)) /\ \A c \in w.todo : c.e = e => SameChange(c.copy, d)
    BY <1>5 DEF SameChange
  <2> QED BY <1>0, <1>8, <2>1, <2>2, CopiesAfterWrite DEF SyncInv
<1>13. DocsAreTrue'
  BY <1>1, <1>7, <1>8, <1>9, DocsAfterWrite DEF SyncInv
<1>14. EntriesAreTrue'
  BY <1>7, EntriesStayTrue DEF SyncInv
<1>15. EveryEntryIsKnown'
  <2> SUFFICES ASSUME NEW x \in Entries, cal[x].state = "live", cal[x].event # 0,
                      cal[x].event \notin doubled, x \notin orphans
               PROVE  \/ \E f \in CalEvents : doc'[f].link = x
                      \/ \E q \in CalCalls : work'[q].pc = "mark" /\ work'[q].copy.link = x
    BY <1>6 DEF EveryEntryIsKnown
  <2>1. \/ \E f \in CalEvents : doc[f].link = x
        \/ \E q \in CalCalls : work[q].pc = "mark" /\ work[q].copy.link = x
    BY KnownIsNotForgotten DEF SyncInv, EveryEntryIsKnown
  <2>2. CASE \E f \in CalEvents : doc[f].link = x
    <3>1. PICK f \in CalEvents : doc[f].link = x
      BY <2>2
    <3>2. f = e => d.link = x
      BY <1>1, <3>1, CalendarAssumption DEF SyncInv, DocsAreTrue, NoDoc
    <3>3. doc'[f] = IF f = e THEN d ELSE doc[f]
      BY <1>8 DEF Writes, CalTypeOK
    <3> QED BY <3>1, <3>2, <3>3
  <2>3. CASE \E q \in CalCalls : work[q].pc = "mark" /\ work[q].copy.link = x
    <3>1. PICK q \in CalCalls : work[q].pc = "mark" /\ work[q].copy.link = x
      BY <2>3
    <3>2. q # p
      BY <1>4, <3>1, RestingFits
    <3> QED BY <1>0, <3>1, <3>2 DEF CalTypeOK
  <2> QED BY <2>1, <2>2, <2>3
<1>16. NoEntryForgotten'
  BY <1>15, KnownIsNotForgotten, PTL
<1> QED BY <1>2, <1>10, <1>11, <1>12, <1>13, <1>14, <1>16 DEF SyncInv

LEMMA SyncEventKeeps ==
    ASSUME CalTypeOK, SyncInv, NEW p \in CalCalls, SyncEvent(p)
    PROVE  CalTypeOK' /\ SyncInv'
<1>2. CalTypeOK'
  BY SyncEventPushes
<1>3. PICK w \in CallLocals, e \in CalEvents :
        /\ w = [work[p] EXCEPT !.pc = "push", !.e = e, !.copy = doc[e]]
        /\ work' = [work EXCEPT ![p] = w] /\ doc[e].status # "none"
  BY SyncEventPushes
<1>4. work[p] = Resting /\ \A f \in CalEvents : <<p, f>> \notin behind
  BY IdleHoldsNothing DEF SyncEvent, SyncInv
<1>5. /\ w.pc = "push" /\ w.e = e /\ w.copy = doc[e] /\ w.todo = {} /\ w.items = {} /\ w.next = 0
      /\ w.now = 0 /\ w.from = 0
  BY <1>3, <1>4 DEF Resting
<1>6. UNCHANGED <<doc, cal, clock, orphans, doubled, behind>> /\ clock \in Nat
  BY DEF SyncEvent, histories, CalTypeOK
<1>7. EntriesGoOn
  BY <1>6, CalendarStays
<1>8. LocalsFit(w)
  BY <1>3, <1>5 DEF LocalsFit
<1>9. LocalsWereTrue(w)
  BY <1>5, <1>6 DEF LocalsWereTrue, SyncInv, DocsAreTrue
<1>10. LocalsWereTrue(w)'
  BY <1>7, <1>9, LocalsStayTrue
<1>11. \A f \in CalEvents : IF <<p, f>> \in behind THEN HoldsCopy(w, f) ELSE CopyIsCurrent(w, f)
  BY <1>4, <1>5 DEF CopyIsCurrent, SameChange
<1>12. CallsFit' /\ CallsWereTrue'
  BY <1>3, <1>7, <1>8, <1>10, CallsStayFit, CallsStayTrue DEF SyncInv
<1>13. CopiesAreCurrent'
  BY <1>3, <1>6, <1>11, CopiesStay DEF SyncInv
<1>14. DocsAreTrue' /\ EntriesAreTrue'
  BY <1>6, <1>7, DocsStayTrue, EntriesStayTrue DEF SyncInv
<1>15. EveryEntryIsKnown'
  <2>1. \A q \in CalCalls : work[q].pc = "mark" => work'[q] = work[q]
    BY <1>3, <1>4, RestingFits DEF CalTypeOK
  <2> QED BY <1>6, <2>1, KnownIsNotForgotten DEF SyncInv, EveryEntryIsKnown
<1>16. NoEntryForgotten'
  BY <1>15, KnownIsNotForgotten, PTL
<1> QED BY <1>2, <1>12, <1>13, <1>14, <1>16 DEF SyncInv

LEMMA UpdateOtherKeeps ==
    ASSUME CalTypeOK, SyncInv, NEW p \in CalCalls, UpdateOther(p)
    PROVE  CalTypeOK' /\ SyncInv'
<1>1. PICK e, d : Writes(p, e, d) /\ d.updated = clock + 2 /\ d.status = doc[e].status
                  /\ d.link = doc[e].link /\ doc[e].status # "none"
  BY UpdateOtherWrites
<1>2. CalTypeOK' /\ Is(p, "idle") /\ clock' = clock + 2 /\ UNCHANGED <<cal, work, orphans, doubled>>
  BY UpdateOtherWrites
<1>3. e \in CalEvents /\ clock \in Nat /\ work' = [work EXCEPT ![p] = work[p]] /\ work[p] \in CallLocals
  BY <1>1, <1>2 DEF Writes, CalTypeOK
<1>4. work[p] = Resting /\ \A f \in CalEvents : <<p, f>> \notin behind
  BY <1>2, IdleHoldsNothing DEF SyncInv
<1>5. EntriesGoOn
  BY <1>2, <1>3, CalendarStays
<1>6. DocWasTrue(d)'
  BY <1>1, <1>2, <1>3 DEF DocWasTrue, IsUsed, SyncInv, DocsAreTrue
<1>7. CallsFit' /\ CallsWereTrue'
  <2>1. CallsFit'
    BY <1>2 DEF CallsFit, SyncInv
  <2> QED BY <1>2, <1>5, <2>1, RestStaysTrue DEF SyncInv
<1>8. CopiesAreCurrent'
  <2>1. PICK w : w = Resting
    OBVIOUS
  <2>2. \A f \in CalEvents \ {e} :
          IF <<p, f>> \in behind THEN HoldsCopy(w, f) ELSE CopyIsCurrent(w, f)
    BY <1>4, <2>1, RestingFits, CalendarAssumption DEF CopyIsCurrent
  <2>3. (w.e = e => SameChange(w.copy, d)) /\ \A c \in w.todo : c.e = e => SameChange(c.copy, d)
    BY <1>3, <2>1, RestingFits, CalendarAssumption
  <2> QED BY <1>1, <1>3, <1>4, <2>1, <2>2, <2>3, CopiesAfterWrite DEF SyncInv
<1>9. DocsAreTrue' /\ EntriesAreTrue'
  BY <1>1, <1>5, <1>6, DocsAfterWrite, EntriesStayTrue DEF SyncInv
<1>10. EveryEntryIsKnown'
  <2>1. \A f \in CalEvents : doc'[f].link = doc[f].link
    BY <1>1 DEF Writes, CalTypeOK
  <2> QED BY <1>2, <2>1, KnownIsNotForgotten DEF SyncInv, EveryEntryIsKnown
<1>11. NoEntryForgotten'
  BY <1>10, KnownIsNotForgotten, PTL
<1> QED BY <1>2, <1>7, <1>8, <1>9, <1>11 DEF SyncInv

LEMMA PushKeeps ==
    ASSUME CalTypeOK, SyncInv, NEW p \in CalCalls, PushStep(p)
    PROVE  SyncInv'
<1>1. PICK w \in CallLocals :
        /\ HasPushed(p, w) /\ NewsOf(w) /\ EntriesGoOn
        /\ orphans \subseteq orphans'
        /\ UNCHANGED <<doc, token, doubled, unseen, adrift, behind>>
  BY DEF PushStep
<1>2. PICK v \in CallLocals : v = work[p]
  BY DEF CalTypeOK
<1>3. /\ v.pc = "push" /\ work' = [work EXCEPT ![p] = w]
      /\ w.pc = "mark" /\ w.e = v.e /\ w.items = v.items /\ w.next = v.next /\ w.todo = v.todo
      /\ w.now = v.now /\ w.from = v.copy.link
      /\ w.copy.status = v.copy.status /\ w.copy.updated = v.copy.updated
  BY <1>1, <1>2 DEF HasPushed, Is
<1>4. LocalsFit(v) /\ LocalsWereTrue(v)
  BY <1>2 DEF SyncInv, CallsFit, CallsWereTrue
<1>5. LocalsFit(w)
  BY <1>3, <1>4 DEF LocalsFit
<1>6. LocalsWereTrue(w)'
  <2>1. LocalsWereTrue(v)'
    BY <1>1, <1>4, LocalsStayTrue
  <2>2. w.from \in Entries \cup {0} /\ w.copy.link \in Entries \cup {0}
    BY DEF CallLocals, Docs
  <2>3. IsUsed(w.from)
    BY <1>3, <1>4 DEF LocalsWereTrue, DocWasTrue
  <2>4. IsUsed(w.from)'
    BY <1>1, <2>2, <2>3, UsedStays
  <2>5. w.copy.link # 0 => cal'[w.copy.link].state # "unused"
    BY <1>1, <2>4 DEF NewsOf, IsUsed
  <2>6. w.copy.link # w.from => w.from = 0 \/ cal'[w.from].state = "deleted"
    BY <1>1, <2>2, <2>3 DEF NewsOf, IsUsed, EntriesGoOn
  <2>7. w.copy.updated <= clock' + 1
    BY <1>3, <2>1 DEF LocalsWereTrue, DocWasTrue
  <2> QED BY <1>3, <2>1, <2>5, <2>6, <2>7 DEF LocalsWereTrue, DocWasTrue, IsUsed
<1>7. CallsFit' /\ CallsWereTrue'
  BY <1>1, <1>3, <1>5, <1>6, CallsStayFit, CallsStayTrue DEF SyncInv
<1>8. CopiesAreCurrent'
  <2>1. \A f \in CalEvents : IF <<p, f>> \in behind THEN HoldsCopy(v, f) ELSE CopyIsCurrent(v, f)
    BY <1>2 DEF SyncInv, CopiesAreCurrent
  <2>2. \A f \in CalEvents : IF <<p, f>> \in behind THEN HoldsCopy(w, f) ELSE CopyIsCurrent(w, f)
    BY <1>3, <2>1 DEF HoldsCopy, CopyIsCurrent, SameChange
  <2>3. UNCHANGED <<doc, behind>>
    BY <1>1
  <2> QED BY <1>3, <2>2, <2>3, CopiesStay DEF SyncInv
<1>9. DocsAreTrue' /\ EntriesAreTrue'
  BY <1>1, DocsStayTrue, EntriesStayTrue DEF SyncInv
<1>10. EveryEntryIsKnown'
  <2>1. \A q \in CalCalls : work[q].pc = "mark" => work'[q] = work[q]
    BY <1>2, <1>3 DEF CalTypeOK
  <2>2. work'[p] = w
    BY <1>3 DEF CalTypeOK
  <2> SUFFICES ASSUME NEW x \in Entries, cal'[x].state = "live", cal'[x].event # 0
               PROVE  \/ cal'[x].event \in doubled' \/ x \in orphans'
                      \/ \E f \in CalEvents : doc'[f].link = x
                      \/ \E q \in CalCalls : work'[q].pc = "mark" /\ work'[q].copy.link = x
    BY DEF EveryEntryIsKnown
  <2>3. CASE x \in orphans' \/ w.copy.link = x
    BY <1>3, <2>2, <2>3
  <2>4. CASE cal[x].state = "live" /\ cal'[x].event = cal[x].event
    BY <1>1, <2>1, <2>4, KnownIsNotForgotten DEF SyncInv, EveryEntryIsKnown
  <2> QED BY <1>1, <2>3, <2>4 DEF NewsOf
<1>11. NoEntryForgotten'
  BY <1>10, KnownIsNotForgotten, PTL
<1> QED BY <1>7, <1>8, <1>9, <1>11 DEF SyncInv

LEMMA MarkKeeps ==
    ASSUME CalTypeOK, SyncInv, NEW p \in CalCalls, Mark(p)
    PROVE  CalTypeOK' /\ SyncInv'
<1>1. CalTypeOK'
  BY MarkTypes
<1>2. PICK v \in CallLocals : v = work[p]
  BY DEF CalTypeOK
<1>3. PICK w \in CallLocals :
        /\ work' = [work EXCEPT ![p] = w]
        /\ \/ v.next = 0 /\ Retries(w, v.todo)
           \/ /\ v.next # 0 /\ w.pc = "items" /\ w.e = 0 /\ w.copy = NoDoc /\ w.from = 0
              /\ w.items = v.items /\ w.next = v.next /\ w.todo = v.todo /\ w.now = v.now
  BY <1>2, MarkTypes
<1>4. PICK e, d : e = v.e /\ d = v.copy
  OBVIOUS
<1>5. v.pc = "mark" /\ e \in CalEvents /\ d \in Docs
  BY <1>2, <1>4 DEF Mark, Is, CalTypeOK, CallLocals
<1>6. Writes(p, e, d)
  BY <1>2, <1>4, <1>5 DEF Mark, Writes
<1>7. UNCHANGED <<cal, clock>> /\ clock \in Nat
  BY DEF Mark, CalTypeOK
<1>8. EntriesGoOn
  BY <1>7, CalendarStays
<1>9. LocalsFit(v) /\ LocalsWereTrue(v)
  BY <1>2 DEF SyncInv, CallsFit, CallsWereTrue
<1>10. LocalsFit(w)
  <2>1. CASE v.next # 0
    BY <1>3, <1>9, <2>1 DEF LocalsFit
  <2>2. CASE v.next = 0
    BY <1>3, <1>9, <2>2, RestingFits DEF LocalsFit, Retries
  <2> QED BY <2>1, <2>2
<1>11. LocalsWereTrue(w)'
  <2>1. DocWasTrue(NoDoc)
    BY <1>7 DEF DocWasTrue, NoDoc, IsUsed
  <2>2. CASE v.next # 0
    <3>1. LocalsWereTrue(w)
      BY <1>3, <1>9, <2>1, <2>2 DEF LocalsWereTrue
    <3> QED BY <1>8, <3>1, LocalsStayTrue
  <2>3. CASE v.next = 0
    <3>1. LocalsWereTrue(w)
      BY <1>3, <1>7, <1>9, <2>3, RestingWasTrue DEF LocalsWereTrue, Retries
    <3> QED BY <1>8, <3>1, LocalsStayTrue
  <2> QED BY <2>2, <2>3
<1>12. CallsFit' /\ CallsWereTrue'
  BY <1>3, <1>8, <1>10, <1>11, CallsStayFit, CallsStayTrue DEF SyncInv
<1>13. CopiesAreCurrent'
  <2>1. \A f \in CalEvents : IF <<p, f>> \in behind THEN HoldsCopy(v, f) ELSE CopyIsCurrent(v, f)
    BY <1>2 DEF SyncInv, CopiesAreCurrent
  <2>2. CASE v.next # 0
    <3>1. v.todo = {} /\ w.todo = {} /\ w.e = 0
      BY <1>3, <1>9, <2>2 DEF LocalsFit
    <3>2. \A f \in CalEvents \ {e} :
            IF <<p, f>> \in behind THEN HoldsCopy(w, f) ELSE CopyIsCurrent(w, f)
      BY <1>4, <2>1, <3>1, CalendarAssumption DEF HoldsCopy, CopyIsCurrent
    <3>3. (w.e = e => SameChange(w.copy, d)) /\ \A c \in w.todo : c.e = e => SameChange(c.copy, d)
      BY <1>5, <3>1, CalendarAssumption
    <3> QED BY <1>3, <1>6, <3>2, <3>3, CopiesAfterWrite DEF SyncInv
  <2>3. CASE v.next = 0 /\ w = Resting /\ v.todo = {}
    <3>1. w.todo = {} /\ w.e = 0
      BY <2>3, RestingFits
    <3>2. \A f \in CalEvents \ {e} :
            IF <<p, f>> \in behind THEN HoldsCopy(w, f) ELSE CopyIsCurrent(w, f)
      BY <1>4, <2>1, <2>3, <3>1, CalendarAssumption DEF HoldsCopy, CopyIsCurrent
    <3>3. (w.e = e => SameChange(w.copy, d)) /\ \A c \in w.todo : c.e = e => SameChange(c.copy, d)
      BY <1>5, <3>1, CalendarAssumption
    <3> QED BY <1>3, <1>6, <3>2, <3>3, CopiesAfterWrite DEF SyncInv
  <2>4. ASSUME NEW t \in v.todo, w.e = t.e, w.copy = t.copy, w.todo = v.todo \ {t}
        PROVE  CopiesAreCurrent'
    <3>1. \A f \in CalEvents \ {e} :
            IF <<p, f>> \in behind THEN HoldsCopy(w, f) ELSE CopyIsCurrent(w, f)
      BY <1>4, <2>1, <2>4 DEF HoldsCopy, CopyIsCurrent
    <3>2. (w.e = e => SameChange(w.copy, d)) /\ \A c \in w.todo : c.e = e => SameChange(c.copy, d)
      BY <1>4, <1>9, <2>4 DEF LocalsFit
    <3> QED BY <1>3, <1>6, <3>1, <3>2, CopiesAfterWrite DEF SyncInv
  <2> QED BY <1>3, <2>2, <2>3, <2>4 DEF Retries
<1>14. DocsAreTrue' /\ EntriesAreTrue'
  <2>1. DocWasTrue(d)'
    BY <1>4, <1>5, <1>8, <1>9, DocStaysTrue DEF LocalsWereTrue
  <2>2. d.status # "none"
    BY <1>4, <1>5, <1>9 DEF LocalsFit
  <2> QED BY <1>6, <1>8, <2>1, <2>2, DocsAfterWrite, EntriesStayTrue DEF SyncInv
<1>15. EveryEntryIsKnown'
  <2>1. doubled \subseteq doubled'
    BY DEF Mark
  <2>2. orphans' = (orphans \cup ({doc[e].link} \ {0, v.from})) \ {d.link}
    BY <1>2, <1>4 DEF Mark
  <2>3. \A f \in CalEvents : doc'[f] = IF f = e THEN d ELSE doc[f]
    BY <1>6 DEF Writes, CalTypeOK
  <2>4. \A q \in CalCalls : q # p => work'[q] = work[q]
    BY <1>3 DEF CalTypeOK
  <2> SUFFICES ASSUME NEW x \in Entries, cal[x].state = "live", cal[x].event # 0,
                      cal[x].event \notin doubled, d.link # x
               PROVE  \/ x \in orphans'
                      \/ \E f \in CalEvents : doc'[f].link = x
                      \/ \E q \in CalCalls : work'[q].pc = "mark" /\ work'[q].copy.link = x
    BY <1>5, <1>7, <2>1, <2>3 DEF EveryEntryIsKnown
  <2>5. \/ x \in orphans
        \/ \E f \in CalEvents : doc[f].link = x
        \/ \E q \in CalCalls : work[q].pc = "mark" /\ work[q].copy.link = x
    BY KnownIsNotForgotten DEF SyncInv, EveryEntryIsKnown
  <2>6. CASE x \in orphans
    BY <2>2, <2>6
  <2>7. CASE \E f \in CalEvents : doc[f].link = x
    <3>1. x = v.from => d.link = v.from
      BY <1>4, <1>5, <1>9, CalendarAssumption DEF LocalsWereTrue
    <3>2. x # 0
      BY CalendarAssumption
    <3> QED BY <2>2, <2>3, <2>7, <3>1, <3>2
  <2>8. CASE \E q \in CalCalls : work[q].pc = "mark" /\ work[q].copy.link = x
    BY <1>2, <1>4, <2>4, <2>8
  <2> QED BY <2>5, <2>6, <2>7, <2>8
<1>16. NoEntryForgotten'
  BY <1>15, KnownIsNotForgotten, PTL
<1> QED BY <1>1, <1>12, <1>13, <1>14, <1>16 DEF SyncInv

(* A call in the pull holds no copy, so none is behind.                          *)
LEMMA PullHoldsNothing ==
    ASSUME CallsFit, CopiesAreCurrent, NEW p \in CalCalls, Is(p, "items")
    PROVE  work[p].e = 0 /\ work[p].todo = {} /\ \A f \in CalEvents : <<p, f>> \notin behind
<1>1. work[p].e = 0 /\ work[p].todo = {}
  BY DEF CallsFit, LocalsFit, Is
<1>2. \A f \in CalEvents : ~HoldsCopy(work[p], f)
  BY <1>1, CalendarAssumption DEF HoldsCopy
<1> QED BY <1>1, <1>2 DEF CopiesAreCurrent

LEMMA CallStepKeepsKnown ==
    ASSUME CalTypeOK, SyncInv, NEW p \in CalCalls, NEW w, work' = [work EXCEPT ![p] = w],
           ~Is(p, "mark"), UNCHANGED <<doc, cal, doubled>>, orphans \subseteq orphans'
    PROVE  NoEntryForgotten'
<1>1. \A q \in CalCalls : work[q].pc = "mark" => work'[q] = work[q]
  BY DEF CalTypeOK, Is
<1>2. EveryEntryIsKnown'
  BY <1>1, KnownIsNotForgotten DEF SyncInv, EveryEntryIsKnown
<1> QED BY <1>2, KnownIsNotForgotten, PTL

(* A step of one call that writes no event and no entry.                         *)
LEMMA QuietCallKeeps ==
    ASSUME CalTypeOK, SyncInv, NEW p \in CalCalls, NEW w \in CallLocals, ~Is(p, "mark"),
           work' = [work EXCEPT ![p] = w], UNCHANGED <<doc, cal, clock, doubled, orphans, behind>>,
           LocalsFit(w), LocalsWereTrue(w),
           \A f \in CalEvents : IF <<p, f>> \in behind THEN HoldsCopy(w, f) ELSE CopyIsCurrent(w, f)
    PROVE  SyncInv'
<1>1. EntriesGoOn
  BY NoEntryChanges
<1>2. LocalsWereTrue(w)'
  BY <1>1, LocalsStayTrue
<1>3. CallsFit' /\ CallsWereTrue'
  BY <1>1, <1>2, CallsStayFit, CallsStayTrue DEF SyncInv
<1>4. CopiesAreCurrent'
  <2>1. UNCHANGED <<doc, behind>>
    OBVIOUS
  <2> QED BY <2>1, CopiesStay DEF SyncInv
<1>5. DocsAreTrue' /\ EntriesAreTrue'
  BY <1>1, DocsStayTrue, EntriesStayTrue DEF SyncInv
<1>6. NoEntryForgotten'
  <2>1. UNCHANGED <<doc, cal, doubled>> /\ orphans \subseteq orphans'
    OBVIOUS
  <2> QED BY <2>1, CallStepKeepsKnown
<1> QED BY <1>3, <1>4, <1>5, <1>6 DEF SyncInv

LEMMA FetchKeeps ==
    ASSUME CalTypeOK, SyncInv, NEW p \in CalCalls, Fetch(p) \/ FetchAll(p)
    PROVE  CalTypeOK' /\ SyncInv'
<1>1. CalTypeOK' /\ UNCHANGED <<doc, cal, clock, doubled, orphans, behind>>
  BY FetchLists
<1>2. PICK w \in CallLocals : \E xs : HasListed(p, w, xs) /\ ListsChanges(xs)
  BY FetchLists
<1>3. PICK xs : HasListed(p, w, xs)
  BY <1>2
<1>4. work[p] = Resting /\ Is(p, "idle") /\ \A f \in CalEvents : <<p, f>> \notin behind
  BY <1>3, IdleHoldsNothing DEF SyncInv, HasListed
<1>5. /\ work' = [work EXCEPT ![p] = w] /\ xs \subseteq Entries
      /\ w.items = {[x |-> x, entry |-> cal[x]] : x \in xs}
      /\ w.pc = "items" /\ w.now = clock + 1 /\ w.e = 0 /\ w.copy = NoDoc /\ w.todo = {}
  BY <1>3, <1>4, RestingFits DEF HasListed
<1>6. LocalsFit(w)
  BY <1>5 DEF LocalsFit
<1>7. LocalsWereTrue(w)
  <2>1. ASSUME NEW i \in w.items PROVE ItemWasTrue(i)
    BY <1>5 DEF ItemWasTrue, SyncInv, EntriesAreTrue
  <2>2. DocWasTrue(NoDoc) /\ w.now <= clock + 1
    BY <1>5 DEF DocWasTrue, NoDoc, IsUsed, CalTypeOK
  <2> QED BY <1>5, <2>1, <2>2 DEF LocalsWereTrue
<1>8. \A f \in CalEvents : IF <<p, f>> \in behind THEN HoldsCopy(w, f) ELSE CopyIsCurrent(w, f)
  BY <1>4, <1>5, CalendarAssumption DEF CopyIsCurrent
<1>9. ~Is(p, "mark")
  BY <1>4 DEF Is
<1>10. SyncInv'
  BY <1>1, <1>5, <1>6, <1>7, <1>8, <1>9, QuietCallKeeps
<1> QED BY <1>1, <1>10

LEMMA PullEndKeeps ==
    ASSUME CalTypeOK, SyncInv, NEW p \in CalCalls, EndPull(p) \/ PullFails(p)
    PROVE  CalTypeOK' /\ SyncInv'
<1>1. CalTypeOK' /\ UNCHANGED <<doc, cal, clock, doubled, orphans, behind>> /\ ~Is(p, "mark")
  BY PullEnds DEF Is
<1>2. PICK w \in CallLocals : Retries(w, Pending) /\ work' = [work EXCEPT ![p] = w]
  BY PullEnds
<1>3. \A f \in CalEvents : <<p, f>> \notin behind
  BY PullEnds, IdleHoldsNothing, PullHoldsNothing DEF SyncInv
<1>4. \A c \in Pending : c.e \in CalEvents /\ c.copy = doc[c.e] /\ c.copy.status # "none"
  BY DEF Pending, Unsynced, LacksMeet
<1>5. \A b, c \in Pending : b.e = c.e => b = c
  BY DEF Pending
<1>6. CASE w = Resting
  <2>1. LocalsFit(w) /\ LocalsWereTrue(w)
    BY <1>6, RestingFits, RestingWasTrue DEF CalTypeOK
  <2>2. \A f \in CalEvents : IF <<p, f>> \in behind THEN HoldsCopy(w, f) ELSE CopyIsCurrent(w, f)
    BY <1>3, <1>6, RestingFits, CalendarAssumption DEF CopyIsCurrent
  <2>3. SyncInv'
    BY <1>1, <1>2, <2>1, <2>2, QuietCallKeeps
  <2> QED BY <1>1, <2>3
<1>7. ASSUME NEW t \in Pending, w.pc = "push", w.e = t.e, w.copy = t.copy, w.todo = Pending \ {t},
             w.items = {}, w.next = 0, w.from = 0, w.now = 0
      PROVE  CalTypeOK' /\ SyncInv'
  <2>1. LocalsFit(w)
    BY <1>4, <1>5, <1>7 DEF LocalsFit
  <2>2. LocalsWereTrue(w)
    <3>1. \A c \in Pending : DocWasTrue(c.copy)
      BY <1>4 DEF SyncInv, DocsAreTrue
    <3> QED BY <1>7, <3>1 DEF LocalsWereTrue, CalTypeOK
  <2>3. \A f \in CalEvents : IF <<p, f>> \in behind THEN HoldsCopy(w, f) ELSE CopyIsCurrent(w, f)
    BY <1>3, <1>4, <1>7 DEF CopyIsCurrent, SameChange
  <2>4. SyncInv'
    BY <1>1, <1>2, <2>1, <2>2, <2>3, QuietCallKeeps
  <2> QED BY <1>1, <2>4
<1> QED BY <1>2, <1>6, <1>7 DEF Retries

LEMMA CalDieKeeps ==
    ASSUME CalTypeOK, SyncInv, NEW p \in CalCalls, CalDie(p)
    PROVE  CalTypeOK' /\ SyncInv'
<1>1. /\ CalTypeOK' /\ UNCHANGED <<doc, cal, clock, doubled>>
      /\ work' = [work EXCEPT ![p] = Resting] /\ orphans \subseteq orphans'
  BY CalDieTypes
<1>2. EntriesGoOn
  BY <1>1, NoEntryChanges
<1>3. CallsFit' /\ CallsWereTrue'
  <2>1. LocalsWereTrue(Resting)
    BY RestingWasTrue DEF CalTypeOK
  <2>2. PICK w \in CallLocals : w = Resting
    BY RestingIsLocals
  <2>3. LocalsWereTrue(w)' /\ LocalsFit(w)
    BY <1>2, <2>1, <2>2, RestingFits, LocalsStayTrue
  <2> QED BY <1>1, <1>2, <2>2, <2>3, CallsStayFit, CallsStayTrue DEF SyncInv
<1>4. CopiesAreCurrent'
  <2>1. behind' = behind \ ({p} \X CalEvents)
    BY DEF CalDie
  <2>2. \A q \in CalCalls : work'[q] = IF q = p THEN Resting ELSE work[q]
    BY <1>1 DEF CalTypeOK
  <2>3. ASSUME NEW q \in CalCalls, NEW f \in CalEvents
        PROVE  IF <<q, f>> \in behind' THEN HoldsCopy(work'[q], f) ELSE CopyIsCurrent(work[q], f)'
    <3>1. CASE q = p
      BY <1>1, <2>1, <2>2, <3>1, RestingFits, CalendarAssumption DEF CopyIsCurrent
    <3>2. CASE q # p
      <4>1. work'[q] = work[q] /\ (<<q, f>> \in behind' <=> <<q, f>> \in behind)
        BY <2>1, <2>2, <3>2
      <4> QED BY <1>1, <4>1 DEF SyncInv, CopiesAreCurrent, HoldsCopy, CopyIsCurrent
    <3> QED BY <3>1, <3>2
  <2> QED BY <2>3 DEF CopiesAreCurrent
<1>5. DocsAreTrue' /\ EntriesAreTrue'
  BY <1>1, <1>2, DocsStayTrue, EntriesStayTrue DEF SyncInv
<1>6. EveryEntryIsKnown'
  <2>1. \A q \in CalCalls : q # p => work'[q] = work[q]
    BY <1>1 DEF CalTypeOK
  <2>2. work[p].pc = "mark" /\ work[p].copy.link # 0 =>
          work[p].copy.link \in orphans' \/ (work[p].e \in CalEvents /\ doc[work[p].e].link = work[p].copy.link)
    BY DEF CalDie, CalTypeOK, Is
  <2>3. \A x \in Entries : x # 0
    BY CalendarAssumption
  <2> QED BY <1>1, <2>1, <2>2, <2>3, KnownIsNotForgotten DEF SyncInv, EveryEntryIsKnown
<1>7. NoEntryForgotten'
  BY <1>6, KnownIsNotForgotten, PTL
<1> QED BY <1>1, <1>3, <1>4, <1>5, <1>7 DEF SyncInv

LEMMA UsersKeep == ASSUME CalTypeOK, SyncInv, User PROVE CalTypeOK' /\ SyncInv'
<1>1. CalTypeOK' /\ UsersStep
  BY UsersGoOn
<1>2. /\ EntriesGoOn /\ UNCHANGED <<doc, work, orphans, behind>> /\ doubled \subseteq doubled'
      /\ \A x \in Entries : cal'[x].state = "live" /\ cal'[x].event # 0 =>
           \/ cal[x].state = "live" /\ cal'[x].event = cal[x].event
           \/ cal'[x].event \in doubled'
  BY <1>1 DEF UsersStep
<1>3. CallsFit' /\ CopiesAreCurrent'
  BY <1>2 DEF SyncInv, CallsFit, LocalsFit, CopiesAreCurrent, HoldsCopy, CopyIsCurrent
<1>4. CallsWereTrue' /\ DocsAreTrue' /\ EntriesAreTrue'
  BY <1>2, RestStaysTrue, DocsStayTrue, EntriesStayTrue DEF SyncInv
<1>5. EveryEntryIsKnown'
  BY <1>2, KnownIsNotForgotten DEF SyncInv, EveryEntryIsKnown
<1>6. NoEntryForgotten'
  BY <1>5, KnownIsNotForgotten, PTL
<1> QED BY <1>1, <1>3, <1>4, <1>6 DEF SyncInv

(* A call that deals with an entry; what it listed was true.                     *)
LEMMA DealtLocals ==
    ASSUME CalTypeOK, SyncInv, NEW p \in CalCalls, NEW w, NEW i, DealsWith(p, w, i)
    PROVE  /\ LocalsFit(w) /\ LocalsWereTrue(w) /\ ItemWasTrue(i)
           /\ w.e = 0 /\ w.todo = {} /\ w.now = work[p].now
           /\ w \in CallLocals /\ work' = [work EXCEPT ![p] = w]
           /\ ~Is(p, "mark") /\ \A f \in CalEvents : <<p, f>> \notin behind
           /\ i.x \in Entries /\ i.x # 0 /\ i.entry \in EntryDocs
<1>1. PICK v \in CallLocals : v = work[p]
  BY DEF CalTypeOK
<1>2. LocalsFit(v) /\ LocalsWereTrue(v)
  BY <1>1 DEF SyncInv, CallsFit, CallsWereTrue
<1>3. /\ v.pc = "items" /\ i \in v.items /\ work' = [work EXCEPT ![p] = w] /\ w \in CallLocals
      /\ w.items = v.items \ {i} /\ w.next = v.next /\ w.todo = v.todo /\ w.now = v.now
      /\ w.pc = "items" /\ w.e = v.e /\ w.copy = v.copy
      /\ i.x \in Entries /\ i.entry \in EntryDocs
  BY <1>1 DEF DealsWith, HasDealtWith, Is
<1>4. v.e = 0 /\ v.todo = {} /\ \A f \in CalEvents : <<p, f>> \notin behind
  BY <1>1, <1>3, PullHoldsNothing DEF SyncInv, Is
<1>5. LocalsFit(w)
  BY <1>3, <1>4 DEF LocalsFit
<1>6. LocalsWereTrue(w) /\ ItemWasTrue(i)
  BY <1>2, <1>3 DEF LocalsWereTrue
<1> QED BY <1>1, <1>3, <1>4, <1>5, <1>6, CalendarAssumption DEF Is

LEMMA PassOverKeeps ==
    ASSUME CalTypeOK, SyncInv, NEW p \in CalCalls, PassOver(p)
    PROVE  CalTypeOK' /\ SyncInv'
<1>1. PICK w, i : DealsWith(p, w, i)
  BY PassOverDeals
<1>2. CalTypeOK' /\ UNCHANGED <<doc, cal, clock, doubled, orphans, behind>>
  BY PassOverDeals DEF PassOver, histories
<1>3. /\ LocalsFit(w) /\ LocalsWereTrue(w) /\ ~Is(p, "mark") /\ w.e = 0 /\ w.todo = {}
      /\ w \in CallLocals /\ work' = [work EXCEPT ![p] = w]
      /\ \A f \in CalEvents : <<p, f>> \notin behind
  BY <1>1, DealtLocals
<1>4. \A f \in CalEvents : IF <<p, f>> \in behind THEN HoldsCopy(w, f) ELSE CopyIsCurrent(w, f)
  BY <1>3, CalendarAssumption DEF CopyIsCurrent
<1>5. SyncInv'
  BY <1>2, <1>3, <1>4, QuietCallKeeps
<1> QED BY <1>2, <1>5

LEMMA PushBackKeeps ==
    ASSUME CalTypeOK, SyncInv, NEW p \in CalCalls, PushBack(p)
    PROVE  CalTypeOK' /\ SyncInv'
<1>1. CalTypeOK' /\ UNCHANGED <<doc, cal, clock, doubled, orphans, behind>>
  BY PushBackPushes DEF PushBack, histories
<1>2. PICK w \in CallLocals : \E i, e :
        /\ HasDealtWith(p, w, i) /\ w.pc = "push" /\ w.e = e /\ w.copy = doc[e]
        /\ e \in CalEvents /\ (doc[e].link = 0 => doc[e].status # "none")
  BY PushBackPushes
<1>3. PICK i, e :
        /\ HasDealtWith(p, w, i) /\ w.pc = "push" /\ w.e = e /\ w.copy = doc[e]
        /\ e \in CalEvents /\ (doc[e].link = 0 => doc[e].status # "none")
  BY <1>2
<1>4. PICK v \in CallLocals : v = work[p]
  BY DEF CalTypeOK
<1>5. /\ v.pc = "items" /\ i \in v.items /\ work' = [work EXCEPT ![p] = w] /\ ~Is(p, "mark")
      /\ w.items = v.items \ {i} /\ w.next = v.next /\ w.todo = v.todo /\ w.now = v.now
  BY <1>3, <1>4 DEF HasDealtWith, Is
<1>6. v.todo = {} /\ \A f \in CalEvents : <<p, f>> \notin behind
  BY <1>4, <1>5, PullHoldsNothing DEF SyncInv, Is
<1>7. doc[e].status # "none" /\ DocWasTrue(doc[e])
  BY <1>3 DEF SyncInv, DocsAreTrue, NoDoc
<1>8. LocalsFit(w)
  BY <1>3, <1>5, <1>6, <1>7 DEF LocalsFit
<1>9. LocalsWereTrue(w)
  BY <1>3, <1>4, <1>5, <1>6, <1>7 DEF LocalsWereTrue, SyncInv, CallsWereTrue
<1>10. \A f \in CalEvents : IF <<p, f>> \in behind THEN HoldsCopy(w, f) ELSE CopyIsCurrent(w, f)
  BY <1>3, <1>5, <1>6 DEF CopyIsCurrent, SameChange
<1>11. SyncInv'
  BY <1>1, <1>5, <1>8, <1>9, <1>10, QuietCallKeeps
<1> QED BY <1>1, <1>11

(* The pull writes an event as the calendar has it.                              *)
LEMMA PullWriteKeeps ==
    ASSUME CalTypeOK, SyncInv, NEW p \in CalCalls, NEW w, NEW i, DealsWith(p, w, i),
           UNCHANGED <<cal, clock>>, NEW e, NEW d, Writes(p, e, d),
           d.status # "none", d.updated <= clock + 1, d.link = 0 \/ (d.link = i.x /\ i.entry.state = "live"),
           doubled \subseteq doubled', orphans' \in {orphans, orphans \ {d.link}},
           doc[e].link \in {0, d.link} \/ cal[doc[e].link].state = "deleted"
    PROVE  SyncInv'
<1>1. /\ LocalsFit(w) /\ LocalsWereTrue(w) /\ ItemWasTrue(i) /\ w.e = 0 /\ w.todo = {}
      /\ w \in CallLocals /\ work' = [work EXCEPT ![p] = w] /\ ~Is(p, "mark")
      /\ \A f \in CalEvents : <<p, f>> \notin behind
  BY DealtLocals
<1>2. EntriesGoOn
  BY NoEntryChanges
<1>3. DocWasTrue(d)'
  BY <1>1 DEF DocWasTrue, IsUsed, ItemWasTrue
<1>4. LocalsWereTrue(w)'
  BY <1>1, <1>2, LocalsStayTrue
<1>5. CallsFit' /\ CallsWereTrue'
  BY <1>1, <1>2, <1>4, CallsStayFit, CallsStayTrue DEF SyncInv
<1>6. e \in CalEvents /\ \A f \in CalEvents : doc'[f] = IF f = e THEN d ELSE doc[f]
  BY DEF Writes, CalTypeOK
<1>7. CopiesAreCurrent'
  <2>1. \A f \in CalEvents \ {e} :
          IF <<p, f>> \in behind THEN HoldsCopy(w, f) ELSE CopyIsCurrent(w, f)
    BY <1>1, CalendarAssumption DEF CopyIsCurrent
  <2>2. (w.e = e => SameChange(w.copy, d)) /\ \A c \in w.todo : c.e = e => SameChange(c.copy, d)
    BY <1>1, <1>6, CalendarAssumption
  <2> QED BY <1>1, <2>1, <2>2, CopiesAfterWrite DEF SyncInv
<1>8. DocsAreTrue' /\ EntriesAreTrue'
  BY <1>2, <1>3, DocsAfterWrite, EntriesStayTrue DEF SyncInv
<1>9. EveryEntryIsKnown'
  <2>1. \A q \in CalCalls : work[q].pc = "mark" => work'[q] = work[q]
    BY <1>1 DEF CalTypeOK, Is
  <2>2. \A x \in Entries : x # 0
    BY CalendarAssumption
  <2> SUFFICES ASSUME NEW x \in Entries, cal[x].state = "live", cal[x].event # 0,
                      cal[x].event \notin doubled, d.link # x
               PROVE  \/ x \in orphans'
                      \/ \E f \in CalEvents : doc'[f].link = x
                      \/ \E q \in CalCalls : work'[q].pc = "mark" /\ work'[q].copy.link = x
    BY <1>6 DEF EveryEntryIsKnown
  <2>3. \/ x \in orphans
        \/ \E f \in CalEvents : doc[f].link = x
        \/ \E q \in CalCalls : work[q].pc = "mark" /\ work[q].copy.link = x
    BY KnownIsNotForgotten DEF SyncInv, EveryEntryIsKnown
  <2>4. \A f \in CalEvents : doc[f].link = x => doc'[f].link = x
    BY <1>6, <2>2
  <2> QED BY <2>1, <2>3, <2>4
<1>10. NoEntryForgotten'
  BY <1>9, KnownIsNotForgotten, PTL
<1> QED BY <1>5, <1>7, <1>8, <1>10 DEF SyncInv

LEMMA ApplyDeletedKeeps ==
    ASSUME CalTypeOK, SyncInv, NEW p \in CalCalls, ApplyDeleted(p)
    PROVE  CalTypeOK' /\ SyncInv'
<1>1. CalTypeOK' /\ UNCHANGED <<cal, clock, orphans, doubled>>
  BY ApplyDeletedWrites DEF ApplyDeleted
<1>2. PICK w, i : DealsWith(p, w, i) /\ i.entry.state = "deleted" /\ DeletesLinked(p, i)
  BY ApplyDeletedWrites
<1>3. /\ LocalsFit(w) /\ LocalsWereTrue(w) /\ ItemWasTrue(i) /\ w.e = 0 /\ w.todo = {}
      /\ w \in CallLocals /\ work' = [work EXCEPT ![p] = w] /\ ~Is(p, "mark") /\ w.now = work[p].now
      /\ \A f \in CalEvents : <<p, f>> \notin behind
  BY <1>2, DealtLocals
<1>4. CASE UNCHANGED <<doc, behind>>
  <2>1. \A f \in CalEvents : IF <<p, f>> \in behind THEN HoldsCopy(w, f) ELSE CopyIsCurrent(w, f)
    BY <1>3, CalendarAssumption DEF CopyIsCurrent
  <2>2. UNCHANGED <<doc, cal, clock, doubled, orphans, behind>>
    BY <1>1, <1>4
  <2>3. SyncInv'
    BY <1>3, <2>1, <2>2, QuietCallKeeps
  <2> QED BY <1>1, <2>3
<1>5. ASSUME NEW e, NEW d, Writes(p, e, d), doc[e].link = i.x, d.status = "cancelled",
             d.link = 0, d.updated = work[p].now
      PROVE  SyncInv'
  <2>1. d.updated <= clock + 1
    BY <1>3, <1>5 DEF LocalsWereTrue
  <2>2. cal[doc[e].link].state = "deleted"
    BY <1>2, <1>3, <1>5 DEF ItemWasTrue
  <2>3. UNCHANGED <<cal, clock>> /\ doubled \subseteq doubled' /\ orphans' \in {orphans, orphans \ {d.link}}
    BY <1>1
  <2> QED BY <1>2, <1>5, <2>1, <2>2, <2>3, PullWriteKeeps
<1>6. (UNCHANGED <<doc, behind>>) \/
      \E e, d : Writes(p, e, d) /\ doc[e].link = i.x /\ d.status = "cancelled"
                /\ d.link = 0 /\ d.updated = work[p].now
  BY <1>2 DEF DeletesLinked
<1> QED BY <1>1, <1>4, <1>5, <1>6

LEMMA ApplyNewerKeeps ==
    ASSUME CalTypeOK, SyncInv, NEW p \in CalCalls, ApplyNewer(p)
    PROVE  CalTypeOK' /\ SyncInv'
<1>1. CalTypeOK' /\ UNCHANGED <<cal, clock, doubled>>
  BY ApplyNewerWrites DEF ApplyNewer
<1>2. PICK w, i, e, d :
        /\ DealsWith(p, w, i) /\ i.entry.state = "live"
        /\ Writes(p, e, d) /\ doc[e].link \in {0, i.x}
        /\ (doc[e].link = 0 => doc[e].status # "none")
        /\ d.status = doc[e].status /\ d.link = i.x /\ d.updated = i.entry.etag
        /\ doc[e].updated <= i.entry.etag /\ orphans' = orphans \ {i.x}
  BY ApplyNewerWrites
<1>3. ItemWasTrue(i) /\ i.entry \in EntryDocs /\ i.x # 0
  BY <1>2, DealtLocals
<1>4. d.updated <= clock + 1
  <2>1. i.entry.etag \in Nat /\ clock \in Nat /\ i.entry.etag <= clock
    BY <1>3 DEF ItemWasTrue, EntryDocs, CalTypeOK
  <2> QED BY <1>2, <2>1
<1>5. d.status # "none"
  BY <1>2, <1>3 DEF SyncInv, DocsAreTrue, Writes, NoDoc
<1>6. SyncInv'
  BY <1>1, <1>2, <1>4, <1>5, PullWriteKeeps
<1> QED BY <1>1, <1>6

LEMMA ImportNewKeeps ==
    ASSUME CalTypeOK, SyncInv, NEW p \in CalCalls, ImportNew(p)
    PROVE  CalTypeOK' /\ SyncInv'
<1>1. CalTypeOK' /\ UNCHANGED <<cal, clock>> /\ doubled \subseteq doubled'
  BY ImportNewWrites DEF ImportNew
<1>2. PICK w, i, e, d :
        /\ DealsWith(p, w, i) /\ i.entry.state = "live"
        /\ Writes(p, e, d) /\ doc[e].status = "none"
        /\ d.status = "live" /\ d.link = i.x /\ d.updated = i.entry.etag
        /\ orphans' = orphans \ {i.x}
  BY ImportNewWrites
<1>3. ItemWasTrue(i) /\ i.entry \in EntryDocs
  BY <1>2, DealtLocals
<1>4. d.updated <= clock + 1
  <2>1. i.entry.etag \in Nat /\ clock \in Nat /\ i.entry.etag <= clock
    BY <1>3 DEF ItemWasTrue, EntryDocs, CalTypeOK
  <2> QED BY <1>2, <2>1
<1>5. doc[e].link = 0
  BY <1>2 DEF SyncInv, DocsAreTrue, Writes, NoDoc
<1>6. SyncInv'
  BY <1>1, <1>2, <1>4, <1>5, PullWriteKeeps
<1> QED BY <1>1, <1>6

LEMMA SyncStep == CalTypeOK /\ SyncInv /\ [CalNext]_calvars => CalTypeOK' /\ SyncInv'
<1> SUFFICES ASSUME CalTypeOK, SyncInv, [CalNext]_calvars PROVE CalTypeOK' /\ SyncInv'
  OBVIOUS
<1>1. CASE UNCHANGED calvars
  <2> USE <1>1 DEF calvars, histories
  <2>1. CalTypeOK'
    BY DEF CalTypeOK
  <2>2. CallsFit' /\ CopiesAreCurrent'
    BY DEF SyncInv, CallsFit, LocalsFit, CopiesAreCurrent, HoldsCopy, CopyIsCurrent
  <2>3. EntriesGoOn
    BY NoEntryChanges
  <2>4. CallsWereTrue' /\ DocsAreTrue' /\ EntriesAreTrue'
    BY <2>3, RestStaysTrue, DocsStayTrue, EntriesStayTrue DEF SyncInv
  <2>5. EveryEntryIsKnown'
    BY KnownIsNotForgotten DEF SyncInv, EveryEntryIsKnown
  <2>6. NoEntryForgotten'
    BY <2>5, KnownIsNotForgotten, PTL
  <2> QED BY <2>1, <2>2, <2>4, <2>6 DEF SyncInv
<1>2. ASSUME NEW p \in CalCalls, ScreenCall(p) PROVE CalTypeOK' /\ SyncInv'
  BY <1>2, ScreensSave, SavedKeeps, SyncEventKeeps, UpdateOtherKeeps DEF ScreenCall
<1>3. ASSUME NEW p \in CalCalls, Pull(p) PROVE CalTypeOK' /\ SyncInv'
  BY <1>3, FetchKeeps, PullEndKeeps DEF Pull
<1>4. ASSUME NEW p \in CalCalls, CalProceed(p) PROVE CalTypeOK' /\ SyncInv'
  <2>1. PushDelete(p) \/ PushPatch(p) \/ PushInsert(p) \/ PushFails(p) => CalTypeOK' /\ SyncInv'
    BY PushDeletePushes, PushPatchPushes, PushInsertPushes, PushFailsPushes, PushKeeps
  <2>2. Mark(p) \/ EndPull(p) => CalTypeOK' /\ SyncInv'
    BY MarkKeeps, PullEndKeeps
  <2>3. ApplyDeleted(p) \/ ApplyNewer(p) \/ ImportNew(p) => CalTypeOK' /\ SyncInv'
    BY ApplyDeletedKeeps, ApplyNewerKeeps, ImportNewKeeps
  <2>4. PushBack(p) \/ PassOver(p) => CalTypeOK' /\ SyncInv'
    BY PushBackKeeps, PassOverKeeps
  <2> QED BY <1>4, <2>1, <2>2, <2>3, <2>4 DEF CalProceed
<1>5. ASSUME NEW p \in CalCalls, CalDie(p) PROVE CalTypeOK' /\ SyncInv'
  BY <1>5, CalDieKeeps
<1>6. ASSUME User PROVE CalTypeOK' /\ SyncInv'
  BY <1>6, UsersKeep
<1> QED BY <1>1, <1>2, <1>3, <1>4, <1>5, <1>6 DEF CalNext, CalCalls

LEMMA SyncInvHolds == CalInit /\ [][CalNext]_calvars => [](CalTypeOK /\ SyncInv)
  BY SyncInitTypes, SyncInitHolds, SyncStep, PTL

(* An entry made for an event is named by an event, or about to be, or its answer *)
(* was lost (push_event): in any run of any number of calls.                      *)
THEOREM NoneForgotten == CalSpec => []NoEntryForgotten
<1>1. SyncInv => NoEntryForgotten
  BY DEF SyncInv
<1> QED BY <1>1, SyncInvHolds, PTL DEF CalSpec
-----------------------------------------------------------------------------
(* What a step may undo.                                                         *)
MayUndo(e) ==
    Undoes(e, doc'[e]) =>
      \/ IsRestored(e, doc'[e]) \/ IsDeletion(e, doc'[e])
      \/ \E p \in CalCalls : Is(p, "mark") /\ work[p].e = e /\ <<p, e>> \in behind

LEMMA WritesOne ==
    ASSUME CalTypeOK, NEW p, NEW e, NEW d, Writes(p, e, d), NEW f \in CalEvents
    PROVE  /\ e \in CalEvents /\ d \in Docs /\ doc'[f] = IF f = e THEN d ELSE doc[f]
           /\ doc[f] \in Docs /\ doc[f].updated \in Nat /\ d.updated \in Nat
  BY DEF Writes, CalTypeOK, Docs

LEMMA SameIsNoUndo ==
    ASSUME CalTypeOK, NEW f \in CalEvents, doc'[f] = doc[f] PROVE MayUndo(f)
<1>1. doc[f].updated \in Nat
  BY DEF CalTypeOK, Docs
<1> QED BY <1>1 DEF MayUndo, Undoes

(* An event is written with a later time of change and is not brought back.       *)
LEMMA LaterIsNoUndo ==
    ASSUME CalTypeOK, NEW p, NEW e, NEW d, Writes(p, e, d), NEW f \in CalEvents,
           doc[e].updated <= d.updated,
           ~(doc[e].status = "cancelled" /\ d.status = "live") \/ IsRestored(e, d)
    PROVE  MayUndo(f)
<1>1. CASE f = e
  BY <1>1, WritesOne DEF MayUndo, Undoes
<1>2. CASE f # e
  BY <1>2, WritesOne, SameIsNoUndo
<1> QED BY <1>1, <1>2

LEMMA UndoStep == CalTypeOK /\ SyncInv /\ [CalNext]_calvars => \A e \in CalEvents : MayUndo(e)
<1> SUFFICES ASSUME CalTypeOK, SyncInv, [CalNext]_calvars, NEW f \in CalEvents PROVE MayUndo(f)
  OBVIOUS
<1>1. \A e \in CalEvents : doc[e].updated \in Nat /\ clock \in Nat /\ doc[e].updated <= clock + 1
  BY DEF CalTypeOK, Docs, SyncInv, DocsAreTrue, DocWasTrue
<1>2. ASSUME NEW p \in CalCalls, ScreenCall(p) PROVE MayUndo(f)
  <2>1. CASE ScreenSaves(p)
    <3>1. PICK e \in CalEvents, d \in Docs :
            /\ SaveAndPush(p, e, d) /\ d.updated = clock + 2 /\ d.status # "none"
            /\ doc[e].status = "cancelled" /\ d.status = "live" => d.value = doc[e].value
      BY <2>1 DEF ScreenSaves
    <3>2. Writes(p, e, d)
      BY <3>1 DEF SaveAndPush, Writes
    <3>3. doc[e].updated <= d.updated
      BY <1>1, <3>1
    <3>4. ~(doc[e].status = "cancelled" /\ d.status = "live") \/ IsRestored(e, d)
      BY <3>1 DEF IsRestored
    <3> QED BY <3>2, <3>3, <3>4, LaterIsNoUndo
  <2>2. CASE SyncEvent(p)
    BY <2>2, SameIsNoUndo DEF SyncEvent
  <2>3. CASE UpdateOther(p)
    <3>1. PICK e, d : Writes(p, e, d) /\ d.updated = clock + 2 /\ d.status = doc[e].status
      BY <2>3, UpdateOtherWrites
    <3>2. doc[e].updated <= d.updated
      BY <1>1, <3>1 DEF Writes
    <3> QED BY <3>1, <3>2, LaterIsNoUndo
  <2> QED BY <1>2, <2>1, <2>2, <2>3, ScreensSave DEF ScreenCall
<1>3. ASSUME NEW p \in CalCalls, Pull(p) PROVE MayUndo(f)
  BY <1>3, SameIsNoUndo DEF Pull, Fetch, FetchAll, PullFails
<1>4. ASSUME NEW p \in CalCalls, CalProceed(p) PROVE MayUndo(f)
  <2>1. CASE PushDelete(p) \/ PushPatch(p) \/ PushInsert(p) \/ PushFails(p)
    <3>1. PushStep(p)
      BY <2>1, PushDeletePushes, PushPatchPushes, PushInsertPushes, PushFailsPushes
    <3> QED BY <3>1, SameIsNoUndo DEF PushStep
  <2>2. CASE Mark(p)
    <3>1. PICK e, d : e = work[p].e /\ d = work[p].copy
      OBVIOUS
    <3>2. work[p].pc = "mark" /\ e \in CalEvents /\ d \in Docs /\ doc' = [doc EXCEPT ![e] = d]
      BY <2>2, <3>1 DEF Mark, Is, CalTypeOK, CallLocals
    <3>3. CASE <<p, e>> \in behind /\ f = e
      BY <3>1, <3>2, <3>3 DEF MayUndo, Is
    <3>4. CASE <<p, e>> \notin behind /\ f = e
      <4>1. SameChange(d, doc[e])
        BY <3>1, <3>2, <3>4 DEF SyncInv, CopiesAreCurrent, CopyIsCurrent
      <4>2. doc'[e] = d
        BY <3>2 DEF CalTypeOK
      <4> QED BY <1>1, <3>2, <3>4, <4>1, <4>2 DEF MayUndo, Undoes, SameChange
    <3>5. CASE f # e
      BY <3>2, <3>5, SameIsNoUndo DEF CalTypeOK
    <3> QED BY <3>3, <3>4, <3>5
  <2>3. CASE ApplyDeleted(p)
    <3>1. PICK w, i : DealsWith(p, w, i) /\ i.entry.state = "deleted" /\ DeletesLinked(p, i)
      BY <2>3, ApplyDeletedWrites
    <3>2. CASE doc' = doc
      BY <3>2, SameIsNoUndo
    <3>3. CASE doc' # doc
      <4>1. PICK e, d : Writes(p, e, d) /\ doc[e].link = i.x /\ d.status = "cancelled"
        BY <3>1, <3>3 DEF DeletesLinked
      <4>2. cal[i.x].state = "deleted" /\ i.x # 0
        BY <3>1, DealtLocals DEF ItemWasTrue
      <4>3. IsDeletion(e, d)
        BY <4>1, <4>2 DEF IsDeletion
      <4>4. CASE f = e
        BY <4>1, <4>3, <4>4, WritesOne DEF MayUndo
      <4>5. CASE f # e
        BY <4>1, <4>5, WritesOne, SameIsNoUndo
      <4> QED BY <4>4, <4>5
    <3> QED BY <3>2, <3>3
  <2>4. CASE ApplyNewer(p)
    <3>1. PICK w, i, e, d :
            /\ Writes(p, e, d) /\ d.status = doc[e].status /\ d.updated = i.entry.etag
            /\ doc[e].updated <= i.entry.etag
      BY <2>4, ApplyNewerWrites
    <3>2. doc[e].updated <= d.updated
      BY <3>1
    <3> QED BY <3>1, <3>2, LaterIsNoUndo
  <2>5. CASE ImportNew(p)
    <3>1. PICK w, i, e, d : Writes(p, e, d) /\ doc[e].status = "none"
      BY <2>5, ImportNewWrites
    <3>2. doc[e].updated = 0 /\ d.updated \in Nat
      BY <3>1 DEF Writes, SyncInv, DocsAreTrue, NoDoc, Docs
    <3>3. doc[e].updated <= d.updated
      BY <3>2
    <3> QED BY <3>1, <3>3, LaterIsNoUndo
  <2>6. CASE PushBack(p) \/ PassOver(p) \/ EndPull(p)
    BY <2>6, SameIsNoUndo DEF PushBack, PassOver, EndPull
  <2> QED BY <1>4, <2>1, <2>2, <2>3, <2>4, <2>5, <2>6 DEF CalProceed
<1>5. ASSUME NEW p \in CalCalls, CalDie(p) PROVE MayUndo(f)
  BY <1>5, SameIsNoUndo DEF CalDie
<1>6. ASSUME User PROVE MayUndo(f)
  <2>1. doc' = doc
    BY <1>6 DEF User, UserEdit, UserDelete, UserAdd, UserCopy, UserStep
  <2> QED BY <2>1, SameIsNoUndo
<1>7. CASE UNCHANGED calvars
  BY <1>7, SameIsNoUndo DEF calvars
<1> QED BY <1>2, <1>3, <1>4, <1>5, <1>6, <1>7 DEF CalNext, CalCalls

LEMMA NobodyElseUndoes == CalInit /\ [][CalNext]_calvars => OnlyStaleCallsUndo
<1>1. CalTypeOK /\ SyncInv /\ [CalNext]_calvars =>
        [\A e \in CalEvents : Undoes(e, doc'[e]) =>
           \/ IsRestored(e, doc'[e]) \/ IsDeletion(e, doc'[e])
           \/ \E p \in CalCalls : Is(p, "mark") /\ work[p].e = e /\ <<p, e>> \in behind]_calvars
  BY UndoStep DEF MayUndo
<1> QED BY <1>1, SyncInvHolds, PTL DEF OnlyStaleCallsUndo

(* An event comes back to life, or to an older time of change, only by a user's   *)
(* restore, a deletion in the calendar or a copy that another call has outdated   *)
(* (push_event): the later change wins, for any calls, ticks and listings.        *)
THEOREM UndoHolds == CalSpec => OnlyStaleCallsUndo
BY NobodyElseUndoes, PTL DEF CalSpec
-----------------------------------------------------------------------------
(* The schedule and the calendar keep step.                                      *)
-----------------------------------------------------------------------------
(* The tick runs one at a time.                                                *)
OneTick == \A p, q \in Ticks : p = q

(* A call's copy of event e has entry y; its list has x, for an event or none.   *)
Copied(w, e, y) == (w.e = e /\ w.copy.link = y) \/ \E d \in w.todo : d.e = e /\ d.copy.link = y
Lists(w, x, g) == \E i \in w.items : i.x = x /\ i.entry.state = "live" /\ i.entry.event = g
OnlyCopied(w, e, x) == \A y \in Entries \cup {0} : Copied(w, e, y) => y = x

(* Who names entry x: events, copies of them, the calendar, lists of it.       *)
IsLive(x) == cal[x].state = "live"
IsListed(x, g) == \E p \in CalCalls : Lists(work[p], x, g)
Links(e, x) == doc[e].link = x \/ \E p \in CalCalls : Copied(work[p], e, x)
Names(e, x) == Links(e, x) \/ cal[x].event = e \/ IsListed(x, e)
Twins(e, f) == e \in doubled /\ f \in doubled

(* A live entry is named by one event, a listed one linked by the event the list *)
(* says, and no two events have one; unless users or two pushes made them twins. *)
LiveEntryOfOne == \A x \in Entries, e, f \in CalEvents :
    IsLive(x) /\ e # f /\ Names(e, x) /\ Names(f, x) => Twins(e, f)
ListedEntryOfOne == \A x \in Entries, e, f \in CalEvents :
    IsListed(x, e) /\ e # f /\ Links(f, x) => Twins(e, f)
DocsShareNone == \A x \in Entries, e, f \in CalEvents :
    e # f /\ doc[e].link = x /\ doc[f].link = x => Twins(e, f)

(* An entry a user added is known to the event that imported it and to no other. *)
AddedIsKnown == \A x \in Entries, e \in CalEvents :
    /\ IsLive(x) /\ (cal[x].event = 0 \/ IsListed(x, 0))
    /\ Links(e, x) \/ cal[x].event = e
    => doc[e].link = x /\ \A p \in CalCalls : OnlyCopied(work[p], e, x)
ListedIsNamed == \A x \in Entries, e \in CalEvents : IsListed(x, e) => cal[x].event # 0

(* An answer that is to be saved names an entry made for its event; if its copy *)
(* is not behind, no other event has that entry.                               *)
IsAnswered(w) == w.pc = "mark" /\ w.copy.sync = "synced" /\ w.copy.link # 0
AnswerIsNamed(w, e, x) ==
    /\ cal[x].event # 0
    /\ IsLive(x) => cal[x].event = e \/ e \in doubled
AnswerIsOwn(w, e, x) ==
    /\ \A f \in CalEvents : f # e /\ Links(f, x) => Twins(e, f)
    /\ doc[e].link # x => ~IsListed(x, 0)
    /\ w.copy.etag = cal[x].etag \/ doc[e].etag # cal[x].etag
AnswersAreOwn == \A p \in CalCalls : IsAnswered(work[p]) =>
    /\ AnswerIsNamed(work[p], work[p].e, work[p].copy.link)
    /\ <<p, work[p].e>> \notin behind => AnswerIsOwn(work[p], work[p].e, work[p].copy.link)

(* A copy that is not behind has the event's entry until it is answered.         *)
LinkIsCurrent(w, e) ==
    /\ w.pc = "push" /\ w.e = e => w.copy.link = doc[e].link
    /\ \A d \in w.todo : d.e = e => d.copy.link = doc[e].link
LinksAreCurrent == \A p \in CalCalls, e \in CalEvents :
    <<p, e>> \notin behind => LinkIsCurrent(work[p], e)

(* Nobody has a copy of an event that was never made.                          *)
CopiesAreOfMade == \A p \in CalCalls, e \in CalEvents :
    HoldsCopy(work[p], e) => doc[e].status # "none"

(* What a call has listed is what there is, or that has changed since.           *)
IsClocked(w) ==
    /\ w.copy.etag <= clock /\ \A d \in w.todo : d.copy.etag <= clock
    /\ w.next <= clock /\ (w.next # 0 => token <= w.next) /\ (w.next = 0 => w.items = {})
    /\ \A i \in w.items :
         /\ i.entry.etag <= w.next
         /\ cal[i.x] = i.entry \/ w.next < cal[i.x].etag
         /\ \A j \in w.items : i.x = j.x => i = j
Clocks ==
    /\ token <= clock /\ 0 < clock
    /\ \A e \in CalEvents : doc[e].etag <= clock
    /\ \A p \in CalCalls : IsClocked(work[p]) /\ (work[p].next # 0 => p \in Ticks)

(* An entry is one event's own.                                                *)
OwnInv ==
    /\ Clocks /\ CopiesAreOfMade /\ LinksAreCurrent
    /\ LiveEntryOfOne /\ ListedEntryOfOne /\ DocsShareNone
    /\ AddedIsKnown /\ ListedIsNamed /\ AnswersAreOwn
-----------------------------------------------------------------------------
(* At first nothing names anything.                                            *)
LEMMA OwnInitHolds == CalInit => OwnInv
<1> SUFFICES ASSUME CalInit PROVE OwnInv
  OBVIOUS
<1> USE CalendarAssumption DEF CalInit
<1>1. /\ NoDoc.link = 0 /\ NoDoc.etag = 0 /\ Resting.e = 0 /\ Resting.todo = {} /\ Resting.items = {}
      /\ Resting.next = 0 /\ Resting.copy = NoDoc /\ Resting.pc = "idle" /\ Unused.state = "unused"
  BY DEF NoDoc, Resting, Unused
<1>2. \A e \in CalEvents : ~HoldsCopy(Resting, e) /\ \A y : ~Copied(Resting, e, y)
  BY <1>1 DEF HoldsCopy, Copied
<1>3. \A x, g : ~Lists(Resting, x, g)
  BY <1>1 DEF Lists
<1>4. Clocks
  BY <1>1 DEF Clocks, IsClocked
<1>5. CopiesAreOfMade /\ LinksAreCurrent
  BY <1>1, <1>2 DEF CopiesAreOfMade, LinksAreCurrent, LinkIsCurrent
<1>6. \A x \in Entries : ~IsLive(x) /\ \A e \in CalEvents : ~Links(e, x)
  BY <1>1, <1>2 DEF IsLive, Links
<1>7. LiveEntryOfOne /\ ListedEntryOfOne /\ AddedIsKnown
  BY <1>6 DEF LiveEntryOfOne, ListedEntryOfOne, AddedIsKnown
<1>8. DocsShareNone
  BY <1>1 DEF DocsShareNone
<1>9. ListedIsNamed
  BY <1>3 DEF ListedIsNamed, IsListed
<1>10. AnswersAreOwn
  BY <1>1 DEF AnswersAreOwn, IsAnswered
<1> QED BY <1>4, <1>5, <1>7, <1>8, <1>9, <1>10 DEF OwnInv
-----------------------------------------------------------------------------
(* What a step leaves of it.                                                     *)
NewEtags == \A x \in Entries : cal'[x] = cal[x] \/ clock < cal'[x].etag

(* Of two lists that are being worked through one is the other.                *)
LEMMA PullsOfOne ==
    ASSUME OneTick, Clocks, NEW p \in CalCalls, NEW q \in CalCalls,
           work[p].next # 0 \/ work[p].items # {}, work[q].next # 0 \/ work[q].items # {}
    PROVE  p = q
  BY DEF Clocks, IsClocked, OneTick

(* Entries that change meanwhile are new to every call.                        *)
LEMMA ClockedStays ==
    ASSUME CalTypeOK, EntriesGoOn, NewEtags, token' = token, NEW w \in CallLocals, IsClocked(w)
    PROVE  IsClocked(w)'
<1>1. /\ clock \in Nat /\ clock' \in Nat /\ clock <= clock' /\ w.next \in Nat /\ w.copy.etag \in Nat
      /\ \A x \in Entries : cal'[x].etag \in Nat
  BY DEF CalTypeOK, CallLocals, Docs, EntriesGoOn, EntryDocs
<1>2. w.copy.etag <= clock' /\ w.next <= clock'
  BY <1>1 DEF IsClocked
<1>3. ASSUME NEW d \in w.todo PROVE d.copy.etag <= clock'
  <2>1. d.copy.etag \in Nat /\ d.copy.etag <= clock
    BY DEF CallLocals, Docs, IsClocked
  <2> QED BY <1>1, <2>1
<1>4. ASSUME NEW i \in w.items PROVE cal'[i.x] = i.entry \/ w.next < cal'[i.x].etag
  <2>1. i.x \in Entries
    BY DEF CallLocals
  <2>2. CASE cal'[i.x] = cal[i.x]
    BY <2>2 DEF IsClocked
  <2>3. CASE clock < cal'[i.x].etag
    BY <1>1, <2>1, <2>3 DEF IsClocked
  <2> QED BY <2>1, <2>2, <2>3 DEF NewEtags
<1> QED BY <1>2, <1>3, <1>4 DEF IsClocked

(* A step of one call: the token stays, unless it is the tick's.                 *)
LEMMA ClocksStay ==
    ASSUME CalTypeOK, Clocks, EntriesGoOn, NewEtags, token' = token,
           NEW p \in CalCalls, NEW w \in CallLocals, work' = [work EXCEPT ![p] = w],
           IsClocked(w)', w.next # 0 => p \in Ticks,
           \A e \in CalEvents : doc'[e].etag <= clock'
    PROVE  Clocks'
<1>1. token' <= clock' /\ 0 < clock'
  BY DEF Clocks, EntriesGoOn, CalTypeOK
<1>2. ASSUME NEW q \in CalCalls PROVE IsClocked(work[q])' /\ (work'[q].next # 0 => q \in Ticks)
  <2>1. PICK v \in CallLocals : v = work[q]
    BY DEF CalTypeOK
  <2>2. IsClocked(v)'
    BY <2>1, ClockedStays DEF Clocks
  <2>3. work'[q] = IF q = p THEN w ELSE v
    BY <2>1 DEF CalTypeOK
  <2> QED BY <2>1, <2>2, <2>3 DEF Clocks
<1> QED BY <1>1, <1>2 DEF Clocks

(* No event says an etag that is still to come.                                *)
LEMMA DocsStayClocked ==
    ASSUME CalTypeOK, Clocks, EntriesGoOn, doc' = doc
    PROVE  \A e \in CalEvents : doc'[e].etag <= clock'
<1> SUFFICES ASSUME NEW e \in CalEvents PROVE doc[e].etag <= clock'
  OBVIOUS
<1>1. doc[e].etag \in Nat /\ clock \in Nat /\ clock' \in Nat /\ clock <= clock' /\ doc[e].etag <= clock
  BY DEF CalTypeOK, Docs, EntriesGoOn, Clocks
<1> QED BY <1>1

LEMMA DocsClockedAfterWrite ==
    ASSUME CalTypeOK, Clocks, EntriesGoOn, NEW p, NEW e, NEW d, Writes(p, e, d), d.etag <= clock'
    PROVE  \A f \in CalEvents : doc'[f].etag <= clock'
<1> SUFFICES ASSUME NEW f \in CalEvents PROVE doc'[f].etag <= clock'
  OBVIOUS
<1>1. doc[f].etag \in Nat /\ clock \in Nat /\ clock' \in Nat /\ clock <= clock' /\ doc[f].etag <= clock
  BY DEF CalTypeOK, Docs, EntriesGoOn, Clocks
<1>2. doc'[f] = IF f = e THEN d ELSE doc[f]
  BY DEF Writes, CalTypeOK
<1> QED BY <1>1, <1>2
-----------------------------------------------------------------------------
(* A call's new locals name no entry and list none that they did not before, but *)
(* what the event says now and what the calendar has.                            *)
TakesOn(p, w) ==
    /\ work' = [work EXCEPT ![p] = w] /\ w \in CallLocals /\ w.pc # "mark"
    /\ \A e \in CalEvents, y \in Entries \cup {0} :
         Copied(w, e, y) => Copied(work[p], e, y) \/ doc'[e].link = y
    /\ \A x \in Entries, g \in CalEvents \cup {0} :
         Lists(w, x, g) => Lists(work[p], x, g) \/ (IsLive(x) /\ cal[x].event = g)
LinkComesFrom(p, e) ==
    \/ doc'[e].link = doc[e].link
    \/ Copied(work[p], e, doc'[e].link)
    \/ doc'[e].link = 0 /\ cal[doc[e].link].state = "deleted"

(* An event written makes the copies others have of it old.                      *)
OthersGrowOld(p) == \A q \in CalCalls, e \in CalEvents :
    q # p /\ HoldsCopy(work[q], e) /\ <<q, e>> \notin behind' => <<q, e>> \notin behind /\ doc'[e] = doc[e]

LEMMA WriteMakesOld ==
    ASSUME CalTypeOK, NEW p \in CalCalls, NEW e, NEW d, Writes(p, e, d) PROVE OthersGrowOld(p)
  BY DEF OthersGrowOld, Writes, NowBehind, Holds, HoldsCopy, CalTypeOK

(* Who names an entry after a step of call p, and who lists it.                *)
LEMMA LinksAfter ==
    ASSUME CalTypeOK, NEW p \in CalCalls, NEW w, work' = [work EXCEPT ![p] = w],
           NEW e \in CalEvents, NEW x \in Entries, Links(e, x)'
    PROVE  doc'[e].link = x \/ Copied(w, e, x) \/ \E q \in CalCalls : q # p /\ Copied(work[q], e, x)
<1>1. \A q \in CalCalls : work'[q] = IF q = p THEN w ELSE work[q]
  BY DEF CalTypeOK
<1>2. CASE doc'[e].link = x
  BY <1>2
<1>3. CASE \E q \in CalCalls : Copied(work'[q], e, x)
  BY <1>1, <1>3
<1> QED BY <1>2, <1>3 DEF Links, Copied

LEMMA ListedAfter ==
    ASSUME CalTypeOK, NEW p \in CalCalls, NEW w, work' = [work EXCEPT ![p] = w],
           NEW x \in Entries, NEW g, IsListed(x, g)'
    PROVE  Lists(w, x, g) \/ \E q \in CalCalls : q # p /\ Lists(work[q], x, g)
<1>1. \A q \in CalCalls : work'[q] = IF q = p THEN w ELSE work[q]
  BY DEF CalTypeOK
<1>2. \E q \in CalCalls : Lists(work'[q], x, g)
  BY DEF IsListed, Lists
<1> QED BY <1>1, <1>2
-----------------------------------------------------------------------------
NoNewLinks == \A x \in Entries, e \in CalEvents : Links(e, x)' => Links(e, x)
NewListsAreTrue == \A x \in Entries, g \in CalEvents \cup {0} :
    IsListed(x, g)' => IsListed(x, g) \/ (IsLive(x) /\ cal[x].event = g)

(* Locals that take nothing new on name and list nothing new.                  *)
LEMMA NothingNewIsListed ==
    ASSUME CalTypeOK, NEW p \in CalCalls, NEW w, TakesOn(p, w) PROVE NewListsAreTrue
<1> SUFFICES ASSUME NEW x \in Entries, NEW g \in CalEvents \cup {0}, IsListed(x, g)'
             PROVE  IsListed(x, g) \/ (IsLive(x) /\ cal[x].event = g)
  BY DEF NewListsAreTrue
<1>1. work' = [work EXCEPT ![p] = w]
  BY DEF TakesOn
<1>2. Lists(w, x, g) \/ \E q \in CalCalls : q # p /\ Lists(work[q], x, g)
  BY <1>1, ListedAfter
<1> QED BY <1>2 DEF TakesOn, IsListed

LEMMA NothingNewIsLinked ==
    ASSUME CalTypeOK, NEW p \in CalCalls, NEW w, TakesOn(p, w), NEW x \in Entries, NEW e \in CalEvents,
           LinkComesFrom(p, e), Links(e, x)'
    PROVE  Links(e, x)
<1>1. work' = [work EXCEPT ![p] = w] /\ x # 0
  BY CalendarAssumption DEF TakesOn
<1>2. doc'[e].link = x \/ Copied(w, e, x) \/ \E q \in CalCalls : q # p /\ Copied(work[q], e, x)
  BY <1>1, LinksAfter
<1>3. doc'[e].link = x => Links(e, x)
  BY <1>1 DEF LinkComesFrom, Links
<1>4. Copied(w, e, x) => Links(e, x)
  BY <1>3 DEF TakesOn, Links
<1> QED BY <1>2, <1>3, <1>4 DEF Links
-----------------------------------------------------------------------------
(* An entry that no one has made is named by none; one that a pull has dealt with *)
(* is on no list.                                                                *)
LEMMA UnusedIsUnnamed ==
    ASSUME CalTypeOK, SyncInv, NEW y \in Entries, cal[y].state = "unused"
    PROVE  (\A e : e \in CalEvents => ~Links(e, y)) /\ \A g : ~IsListed(y, g)
<1>1. y # 0
  BY CalendarAssumption
<1>2. ASSUME NEW e \in CalEvents PROVE doc[e].link # y
  BY <1>1 DEF SyncInv, DocsAreTrue, DocWasTrue, IsUsed
<1>3. ASSUME NEW p \in CalCalls, NEW e \in CalEvents PROVE ~Copied(work[p], e, y)
  BY <1>1 DEF SyncInv, CallsWereTrue, LocalsWereTrue, DocWasTrue, IsUsed, Copied
<1>4. ASSUME NEW p \in CalCalls, NEW g PROVE ~Lists(work[p], y, g)
  BY DEF SyncInv, CallsWereTrue, LocalsWereTrue, ItemWasTrue, Lists
<1> QED BY <1>2, <1>3, <1>4 DEF Links, IsListed

(* One list has an entry once.                                                 *)
LEMMA DealtIsOnly ==
    ASSUME CalTypeOK, Clocks, OneTick, NEW p \in CalCalls, NEW i \in work[p].items, NEW g, IsListed(i.x, g)
    PROVE  g = i.entry.event /\ i.entry.state = "live"
<1>1. PICK q \in CalCalls : Lists(work[q], i.x, g)
  BY DEF IsListed
<1>2. PICK j \in work[q].items : j.x = i.x /\ j.entry.state = "live" /\ j.entry.event = g
  BY <1>1 DEF Lists
<1>3. q = p
  BY <1>2, PullsOfOne
<1>4. i = j
  BY <1>2, <1>3 DEF Clocks, IsClocked
<1> QED BY <1>2, <1>4

LEMMA DealtIsGone ==
    ASSUME CalTypeOK, Clocks, OneTick, NEW p \in CalCalls, NEW w, NEW i, HasDealtWith(p, w, i), i.x \in Entries
    PROVE  \A g : ~IsListed(i.x, g)'
<1>1. i \in work[p].items /\ work' = [work EXCEPT ![p] = w] /\ w.items = work[p].items \ {i}
  BY DEF HasDealtWith
<1> SUFFICES ASSUME NEW g, IsListed(i.x, g)' PROVE FALSE
  OBVIOUS
<1>2. PICK x \in Entries : x = i.x
  OBVIOUS
<1>3. IsListed(x, g)'
  BY <1>2 DEF IsListed, Lists
<1>4. Lists(w, x, g) \/ \E q \in CalCalls : q # p /\ Lists(work[q], x, g)
  BY <1>1, <1>3, ListedAfter
<1>5. CASE Lists(w, x, g)
  <2>1. PICK j \in w.items : j.x = x
    BY <1>5 DEF Lists
  <2> QED BY <1>1, <1>2, <2>1 DEF Clocks, IsClocked
<1>6. CASE \E q \in CalCalls : q # p /\ Lists(work[q], x, g)
  <2>1. PICK q \in CalCalls : q # p /\ Lists(work[q], x, g)
    BY <1>6
  <2>2. work[q].items # {}
    BY <2>1 DEF Lists
  <2> QED BY <1>1, <2>1, <2>2, PullsOfOne
<1> QED BY <1>4, <1>5, <1>6
-----------------------------------------------------------------------------
(* An event comes to an entry it did not have only as the entry leaves the list,  *)
(* and with it come no two.                                                      *)
Newcomer(e, x) ==
    /\ \A g \in CalEvents \cup {0} : ~IsListed(x, g)'
    /\ doc'[e] # doc[e]
    /\ \A f \in CalEvents : f # e /\ IsLive(x) /\ Names(f, x) => Twins(e, f)'
    /\ \A f \in CalEvents : f # e /\ Links(f, x) /\ (doc[f].link = x \/ ~IsListed(x, 0)) => Twins(e, f)'
    /\ IsLive(x) /\ cal[x].event = 0 =>
         doc'[e].link = x /\ \A p \in CalCalls : OnlyCopied(work[p], e, x)'
NewLinksAreRight ==
    \/ NoNewLinks
    \/ \E e \in CalEvents, x \in Entries : Newcomer(e, x) /\
         \A y \in Entries, f \in CalEvents : Links(f, y)' => Links(f, y) \/ (f = e /\ y = x)
LinkStays(p, e) == doc[e].link = 0 \/ LinkComesFrom(p, e)

(* A link is an old one or that of the newcomer.                               *)
LEMMA LinksAreOldOrNew ==
    ASSUME NewLinksAreRight, NEW x \in Entries, NEW e \in CalEvents, Links(e, x)'
    PROVE  Links(e, x) \/ (Newcomer(e, x) /\ \A f \in CalEvents : f # e /\ Links(f, x)' => Links(f, x))
  BY DEF NewLinksAreRight, NoNewLinks

(* A step of a call that changes no entry.                                       *)
LEMMA OwnEntriesStay ==
    ASSUME CalTypeOK, LiveEntryOfOne, ListedEntryOfOne, ListedIsNamed, NewLinksAreRight, NewListsAreTrue,
           cal' = cal, doubled \subseteq doubled'
    PROVE  LiveEntryOfOne' /\ ListedEntryOfOne' /\ ListedIsNamed'
<1>1. ASSUME NEW x \in Entries, NEW e \in CalEvents, IsLive(x), Names(e, x)'
      PROVE  Names(e, x) \/ (Newcomer(e, x) /\ \A f \in CalEvents : f # e /\ Links(f, x)' => Links(f, x))
  <2>1. Links(e, x)' \/ cal[x].event = e \/ IsListed(x, e)'
    BY <1>1 DEF Names
  <2> QED BY <2>1, LinksAreOldOrNew DEF Names, NewListsAreTrue
<1>2. ASSUME NEW x \in Entries, NEW e \in CalEvents, NEW f \in CalEvents, e # f,
             IsLive(x)', Names(e, x)', Names(f, x)'
      PROVE  Twins(e, f)'
  <2>1. IsLive(x)
    BY <1>2 DEF IsLive
  <2>2. CASE Names(e, x) /\ Names(f, x)
    <3>1. Twins(e, f)
      BY <1>2, <2>1, <2>2 DEF LiveEntryOfOne
    <3> QED BY <3>1 DEF Twins
  <2>3. ASSUME NEW c \in CalEvents, NEW d \in CalEvents, c # d, Newcomer(c, x), Names(d, x)',
               \A g \in CalEvents : g # c /\ Links(g, x)' => Links(g, x)
        PROVE  Twins(c, d)'
    <3>1. Links(d, x)' \/ cal[x].event = d \/ IsListed(x, d)'
      BY <2>3 DEF Names
    <3>2. Names(d, x)
      BY <2>3, <3>1 DEF Names, Newcomer
    <3> QED BY <2>1, <2>3, <3>2 DEF Newcomer
  <2> QED BY <1>1, <1>2, <2>1, <2>2, <2>3 DEF Twins
<1>3. ASSUME NEW x \in Entries, NEW e \in CalEvents, NEW f \in CalEvents, e # f,
             IsListed(x, e)', Links(f, x)'
      PROVE  Twins(e, f)'
  <2>1. Links(f, x)
    BY <1>3, LinksAreOldOrNew DEF Newcomer
  <2>2. IsListed(x, e) \/ (IsLive(x) /\ cal[x].event = e)
    BY <1>3 DEF NewListsAreTrue
  <2>3. Twins(e, f)
    BY <1>3, <2>1, <2>2 DEF ListedEntryOfOne, LiveEntryOfOne, Names
  <2> QED BY <2>3 DEF Twins
<1>4. ASSUME NEW x \in Entries, NEW e \in CalEvents, IsListed(x, e)' PROVE cal'[x].event # 0
  BY <1>4, CalendarAssumption DEF NewListsAreTrue, ListedIsNamed
<1> QED BY <1>2, <1>3, <1>4 DEF LiveEntryOfOne, ListedEntryOfOne, ListedIsNamed

(* An added entry stays with the event that imported it.                         *)
LEMMA AddedStaysKnown ==
    ASSUME CalTypeOK, AddedIsKnown, NEW p \in CalCalls, NEW w, TakesOn(p, w),
           cal' = cal, NewLinksAreRight, NewListsAreTrue,
           NEW x \in Entries, NEW e \in CalEvents, LinkStays(p, e),
           IsLive(x)', cal'[x].event = 0 \/ IsListed(x, 0)', Links(e, x)' \/ cal'[x].event = e
    PROVE  doc'[e].link = x /\ \A q \in CalCalls : OnlyCopied(work[q], e, x)'
<1>1. IsLive(x) /\ x # 0 /\ (cal[x].event = 0 \/ IsListed(x, 0))
  BY CalendarAssumption DEF IsLive, NewListsAreTrue
<1>2. CASE ~(Links(e, x) \/ cal[x].event = e)
  <2>1. Newcomer(e, x)
    BY <1>2, LinksAreOldOrNew
  <2> QED BY <1>1, <2>1 DEF Newcomer
<1>3. CASE Links(e, x) \/ cal[x].event = e
  <2>1. doc[e].link = x /\ \A q \in CalCalls : OnlyCopied(work[q], e, x)
    BY <1>1, <1>3 DEF AddedIsKnown
  <2>2. doc'[e].link = x
    <3>1. CASE Copied(work[p], e, doc'[e].link)
      <4>0. PICK v \in CallLocals : v = work[p]
        BY DEF CalTypeOK
      <4>1. PICK y : y = doc'[e].link
        OBVIOUS
      <4>2. Copied(v, e, y) /\ OnlyCopied(v, e, x)
        BY <2>1, <3>1, <4>0, <4>1
      <4>3. y \in Entries \cup {0}
        BY <4>2 DEF Copied, CallLocals, Docs
      <4> QED BY <4>1, <4>2, <4>3 DEF OnlyCopied
    <3>2. CASE cal[doc[e].link].state = "deleted"
      BY <1>1, <2>1, <3>2 DEF IsLive
    <3> QED BY <1>1, <2>1, <3>1, <3>2 DEF LinkStays, LinkComesFrom
  <2>3. OnlyCopied(w, e, x)
    BY <2>1, <2>2 DEF OnlyCopied, TakesOn
  <2>4. \A q \in CalCalls : work'[q] = IF q = p THEN w ELSE work[q]
    BY DEF CalTypeOK, TakesOn
  <2>5. \A q \in CalCalls : OnlyCopied(work'[q], e, x)
    BY <2>1, <2>3, <2>4
  <2> QED BY <2>2, <2>5 DEF OnlyCopied, Copied
<1> QED BY <1>2, <1>3

(* An answer is of the event's own entry still, or its copy is behind.           *)
LEMMA AnswersStayOwn ==
    ASSUME CalTypeOK, AnswersAreOwn, NEW p \in CalCalls, NEW w, TakesOn(p, w), OthersGrowOld(p),
           cal' = cal, doubled \subseteq doubled', NewLinksAreRight, NewListsAreTrue
    PROVE  AnswersAreOwn'
<1> SUFFICES ASSUME NEW q \in CalCalls, IsAnswered(work[q])'
             PROVE  /\ AnswerIsNamed(work[q], work[q].e, work[q].copy.link)'
                    /\ (<<q, work[q].e>> \notin behind)' =>
                         AnswerIsOwn(work[q], work[q].e, work[q].copy.link)'
  BY DEF AnswersAreOwn
<1>1. PICK v \in CallLocals : v = work[q]
  BY DEF CalTypeOK
<1>2. work'[q] = IF q = p THEN w ELSE v
  BY <1>1 DEF CalTypeOK, TakesOn
<1>3. q # p /\ work'[q] = v /\ v.pc = "mark" /\ IsAnswered(v)
  BY <1>2 DEF IsAnswered, TakesOn
<1>4. PICK e, x : e = v.e /\ x = v.copy.link
  OBVIOUS
<1>5. e \in CalEvents /\ x \in Entries
  BY <1>1, <1>3, <1>4 DEF CalTypeOK, CallLocals, Docs, IsAnswered
<1>6. AnswerIsNamed(v, e, x) /\ (<<q, e>> \notin behind => AnswerIsOwn(v, e, x))
  BY <1>1, <1>3, <1>4 DEF AnswersAreOwn
<1>7. AnswerIsNamed(v, e, x)'
  BY <1>6 DEF AnswerIsNamed, IsLive
<1>8. ASSUME <<q, e>> \notin behind' PROVE AnswerIsOwn(v, e, x)'
  <2>1. <<q, e>> \notin behind /\ doc'[e] = doc[e]
    BY <1>1, <1>3, <1>4, <1>5, <1>8 DEF OthersGrowOld, HoldsCopy
  <2>2. AnswerIsOwn(v, e, x) /\ Links(e, x)
    BY <1>1, <1>4, <1>6, <2>1 DEF Links, Copied
  <2>3. ASSUME NEW f \in CalEvents, f # e, Links(f, x)' PROVE Twins(e, f)'
    <3>1. CASE Links(f, x)
      BY <2>2, <2>3, <3>1 DEF AnswerIsOwn, Twins
    <3>2. CASE Newcomer(f, x)
      BY <1>5, <2>2, <2>3, <3>2 DEF Newcomer, AnswerIsOwn, Twins
    <3> QED BY <1>5, <2>3, <3>1, <3>2, LinksAreOldOrNew
  <2>4. ASSUME doc'[e].link # x, IsListed(x, 0)' PROVE FALSE
    BY <1>5, <1>6, <2>1, <2>2, <2>4 DEF AnswerIsOwn, AnswerIsNamed, NewListsAreTrue
  <2>5. v.copy.etag = cal'[x].etag \/ doc'[e].etag # cal'[x].etag
    BY <2>1, <2>2 DEF AnswerIsOwn
  <2> QED BY <2>3, <2>4, <2>5 DEF AnswerIsOwn
<1> QED BY <1>3, <1>4, <1>7, <1>8 DEF AnswerIsNamed, AnswerIsOwn, IsLive

(* So all that is said of entries and answers stays.                           *)
LEMMA OwnStays ==
    ASSUME CalTypeOK, OwnInv, NEW p \in CalCalls, NEW w, TakesOn(p, w), OthersGrowOld(p),
           cal' = cal, doubled \subseteq doubled', NewLinksAreRight,
           \A e \in CalEvents : LinkStays(p, e)
    PROVE  LiveEntryOfOne' /\ ListedEntryOfOne' /\ ListedIsNamed' /\ AddedIsKnown' /\ AnswersAreOwn'
<1>1. NewListsAreTrue
  BY NothingNewIsListed
<1>2. LiveEntryOfOne' /\ ListedEntryOfOne' /\ ListedIsNamed' /\ AnswersAreOwn'
  BY <1>1, OwnEntriesStay, AnswersStayOwn DEF OwnInv
<1>3. AddedIsKnown'
  BY <1>1, AddedStaysKnown DEF OwnInv, AddedIsKnown
<1> QED BY <1>2, <1>3
-----------------------------------------------------------------------------
(* Copies that are not behind keep up with their events, and events stay made. *)
LEMMA LinksStayCurrent ==
    ASSUME CalTypeOK, LinksAreCurrent, NEW p \in CalCalls, NEW w, work' = [work EXCEPT ![p] = w],
           OthersGrowOld(p), \A e \in CalEvents : <<p, e>> \notin behind' => LinkIsCurrent(w, e)'
    PROVE  LinksAreCurrent'
<1> SUFFICES ASSUME NEW q \in CalCalls, NEW e \in CalEvents, <<q, e>> \notin behind'
             PROVE  LinkIsCurrent(work[q], e)'
  BY DEF LinksAreCurrent
<1>1. PICK v : v = work[q]
  OBVIOUS
<1>2. work'[q] = IF q = p THEN w ELSE v
  BY <1>1 DEF CalTypeOK
<1>3. CASE q = p
  BY <1>2, <1>3 DEF LinkIsCurrent
<1>4. CASE q # p /\ HoldsCopy(v, e)
  <2>1. LinkIsCurrent(v, e) /\ doc'[e] = doc[e]
    BY <1>1, <1>4 DEF OthersGrowOld, LinksAreCurrent
  <2> QED BY <1>2, <1>4, <2>1 DEF LinkIsCurrent
<1>5. CASE q # p /\ ~HoldsCopy(v, e)
  BY <1>2, <1>5 DEF LinkIsCurrent, HoldsCopy
<1> QED BY <1>3, <1>4, <1>5

LEMMA CopiesStayOfMade ==
    ASSUME CalTypeOK, CopiesAreOfMade, NEW p \in CalCalls, NEW w, work' = [work EXCEPT ![p] = w],
           \A e \in CalEvents : doc[e].status # "none" => doc'[e].status # "none",
           \A e \in CalEvents : HoldsCopy(w, e) => doc'[e].status # "none"
    PROVE  CopiesAreOfMade'
<1> SUFFICES ASSUME NEW q \in CalCalls, NEW e \in CalEvents, HoldsCopy(work[q], e)'
             PROVE  doc'[e].status # "none"
  BY DEF CopiesAreOfMade
<1>1. PICK v : v = work[q]
  OBVIOUS
<1>2. work'[q] = IF q = p THEN w ELSE v
  BY <1>1 DEF CalTypeOK
<1>3. HoldsCopy(IF q = p THEN w ELSE v, e)
  BY <1>2 DEF HoldsCopy
<1> QED BY <1>1, <1>3 DEF CopiesAreOfMade

(* A step of a call that changes no entry and keeps what it says of events true. *)
LEMMA OwnHolds ==
    ASSUME CalTypeOK, OwnInv, NEW p \in CalCalls, NEW w, TakesOn(p, w), OthersGrowOld(p),
           cal' = cal, doubled \subseteq doubled', NewLinksAreRight,
           \A e \in CalEvents : LinkStays(p, e), DocsShareNone', Clocks',
           \A e \in CalEvents : doc[e].status # "none" => doc'[e].status # "none",
           \A e \in CalEvents : HoldsCopy(w, e) => doc'[e].status # "none",
           \A e \in CalEvents : <<p, e>> \notin behind' => LinkIsCurrent(w, e)'
    PROVE  OwnInv'
<1>1. work' = [work EXCEPT ![p] = w]
  BY DEF TakesOn
<1>2. LinksAreCurrent' /\ CopiesAreOfMade'
  BY <1>1, LinksStayCurrent, CopiesStayOfMade DEF OwnInv
<1>3. LiveEntryOfOne' /\ ListedEntryOfOne' /\ ListedIsNamed' /\ AddedIsKnown' /\ AnswersAreOwn'
  BY OwnStays
<1> QED BY <1>2, <1>3 DEF OwnInv

(* A step that leaves the events, too, as they are.                              *)
LEMMA QuietStepIsOwn ==
    ASSUME CalTypeOK, OwnInv, NEW p \in CalCalls, NEW w, TakesOn(p, w),
           UNCHANGED <<doc, cal, doubled>>, Clocks',
           \A q \in CalCalls, e \in CalEvents : q # p /\ <<q, e>> \notin behind' => <<q, e>> \notin behind,
           \A e \in CalEvents : HoldsCopy(w, e) => doc[e].status # "none",
           \A e \in CalEvents : <<p, e>> \notin behind' => LinkIsCurrent(w, e)
    PROVE  OwnInv'
<1>1. OthersGrowOld(p)
  BY DEF OthersGrowOld
<1>2. \A e \in CalEvents : LinkComesFrom(p, e) /\ LinkStays(p, e)
  BY DEF LinkComesFrom, LinkStays
<1>3. NewLinksAreRight
  BY <1>2, NothingNewIsLinked DEF NewLinksAreRight, NoNewLinks
<1>4. DocsShareNone'
  BY DEF OwnInv, DocsShareNone, Twins
<1>5. \A e \in CalEvents : <<p, e>> \notin behind' => LinkIsCurrent(w, e)'
  BY DEF LinkIsCurrent
<1> QED BY <1>1, <1>2, <1>3, <1>4, <1>5, OwnHolds

(* A step that writes one event, with its link or with none.                     *)
LEMMA WriteIsOwn ==
    ASSUME CalTypeOK, OwnInv, EntriesGoOn, NEW p \in CalCalls, NEW w, TakesOn(p, w),
           NEW e, NEW d, Writes(p, e, d), d.status # "none",
           cal' = cal, token' = token, doubled \subseteq doubled', NewLinksAreRight, LinkStays(p, e),
           d.link \in {doc[e].link, 0} \/ DocsShareNone', d.etag <= clock',
           IsClocked(w)', w.next # 0 => p \in Ticks,
           \A f \in CalEvents : HoldsCopy(w, f) => doc'[f].status # "none",
           \A f \in CalEvents : <<p, f>> \notin behind' => LinkIsCurrent(w, f)'
    PROVE  OwnInv'
<1>1. \A f \in CalEvents : doc'[f] = IF f = e THEN d ELSE doc[f]
  BY WritesOne
<1>2. \A f \in CalEvents : LinkStays(p, f)
  BY <1>1 DEF LinkStays, LinkComesFrom
<1>3. DocsShareNone'
  <2>1. CASE d.link \in {doc[e].link, 0}
    <3> SUFFICES ASSUME NEW x \in Entries, NEW f \in CalEvents, NEW g \in CalEvents,
                        f # g, doc'[f].link = x, doc'[g].link = x
                 PROVE  Twins(f, g)'
      BY DEF DocsShareNone
    <3>1. x # 0
      BY CalendarAssumption
    <3>2. doc[f].link = x /\ doc[g].link = x
      BY <1>1, <2>1, <3>1
    <3> QED BY <3>2 DEF OwnInv, DocsShareNone, Twins
  <2> QED BY <2>1
<1>4. Clocks'
  <2>1. \A f \in CalEvents : doc'[f].etag <= clock'
    BY DocsClockedAfterWrite DEF OwnInv
  <2>2. NewEtags /\ work' = [work EXCEPT ![p] = w] /\ w \in CallLocals
    BY DEF NewEtags, TakesOn
  <2> QED BY <2>1, <2>2, ClocksStay DEF OwnInv
<1>5. \A f \in CalEvents : doc[f].status # "none" => doc'[f].status # "none"
  BY <1>1
<1>6. OthersGrowOld(p)
  BY WriteMakesOld
<1> QED BY <1>2, <1>3, <1>4, <1>5, <1>6, OwnHolds
-----------------------------------------------------------------------------
(* The steps that write neither an event nor an entry.                           *)
LEMMA QuietClocks ==
    ASSUME CalTypeOK, Clocks, NEW p \in CalCalls, NEW w \in CallLocals, work' = [work EXCEPT ![p] = w],
           UNCHANGED <<doc, cal, clock, token>>, IsClocked(w), w.next # 0 => p \in Ticks
    PROVE  Clocks'
<1>1. EntriesGoOn /\ NewEtags
  BY NoEntryChanges DEF NewEtags
<1>2. IsClocked(w)'
  BY <1>1, ClockedStays
<1>3. \A e \in CalEvents : doc'[e].etag <= clock'
  BY <1>1, DocsStayClocked
<1> QED BY <1>1, <1>2, <1>3, ClocksStay

(* A call at rest, one that begins to push, and one that begins to pull.       *)
LEMMA RestingIsClocked == clock \in Nat => IsClocked(Resting)
  BY RestingFits DEF IsClocked, NoDoc

LEMMA SyncEventIsOwn ==
    ASSUME CalTypeOK, SyncInv, OwnInv, NEW p \in CalCalls, SyncEvent(p) PROVE OwnInv'
<1>1. PICK w \in CallLocals : \E e \in CalEvents :
        /\ w = [work[p] EXCEPT !.pc = "push", !.e = e, !.copy = doc[e]]
        /\ work' = [work EXCEPT ![p] = w] /\ doc[e].status # "none"
  BY SyncEventPushes
<1>2. PICK e \in CalEvents :
        /\ w = [work[p] EXCEPT !.pc = "push", !.e = e, !.copy = doc[e]]
        /\ work' = [work EXCEPT ![p] = w] /\ doc[e].status # "none"
  BY <1>1
<1>3. work[p] = Resting
  BY IdleHoldsNothing DEF SyncEvent, SyncInv
<1>4. /\ w.pc = "push" /\ w.e = e /\ w.copy = doc[e]
      /\ w.todo = {} /\ w.items = {} /\ w.next = 0
  BY <1>2, <1>3 DEF Resting
<1>5. UNCHANGED <<doc, cal, doubled, behind, clock, token>>
  BY DEF SyncEvent, histories
<1>6. TakesOn(p, w)
  BY <1>2, <1>4, <1>5 DEF TakesOn, Copied, Lists
<1>7. IsClocked(w)
  BY <1>4 DEF IsClocked, OwnInv, Clocks, CalTypeOK
<1>8. Clocks'
  BY <1>2, <1>4, <1>5, <1>7, QuietClocks DEF OwnInv
<1>9. \A f \in CalEvents : LinkIsCurrent(w, f) /\ (HoldsCopy(w, f) => doc[f].status # "none")
  BY <1>2, <1>4 DEF LinkIsCurrent, HoldsCopy
<1> QED BY <1>5, <1>6, <1>8, <1>9, QuietStepIsOwn

LEMMA FetchIsOwn ==
    ASSUME CalTypeOK, SyncInv, OwnInv, NEW p \in CalCalls, p \in Ticks, Fetch(p) \/ FetchAll(p) PROVE OwnInv'
<1>1. UNCHANGED <<doc, cal, clock, doubled, behind, token>>
  BY FetchLists DEF Fetch, FetchAll
<1>2. PICK w \in CallLocals : \E xs : HasListed(p, w, xs) /\ ListsChanges(xs)
  BY FetchLists
<1>3. PICK xs : HasListed(p, w, xs)
  BY <1>2
<1>4. work[p] = Resting
  BY <1>3, IdleHoldsNothing DEF SyncInv, HasListed
<1>5. /\ work' = [work EXCEPT ![p] = w] /\ xs \subseteq Entries
      /\ w.items = {[x |-> x, entry |-> cal[x]] : x \in xs}
      /\ w.pc = "items" /\ w.next = clock /\ w.e = 0 /\ w.copy = NoDoc /\ w.todo = {}
  BY <1>3, <1>4, RestingFits DEF HasListed
<1>6. ASSUME NEW i \in w.items PROVE i.x \in Entries /\ i.entry = cal[i.x]
  BY <1>5
<1>7. TakesOn(p, w)
  <2>1. ASSUME NEW e \in CalEvents, NEW y PROVE ~Copied(w, e, y)
    BY <1>5, CalendarAssumption DEF Copied
  <2>2. ASSUME NEW x, NEW g, Lists(w, x, g) PROVE IsLive(x) /\ cal[x].event = g
    BY <1>6, <2>2 DEF Lists, IsLive
  <2> QED BY <1>5, <2>1, <2>2 DEF TakesOn
<1>8. IsClocked(w)
  <2>1. NoDoc.etag = 0 /\ clock \in Nat /\ token <= clock
    BY DEF NoDoc, CalTypeOK, OwnInv, Clocks
  <2>2. ASSUME NEW i \in w.items PROVE i.entry.etag <= w.next /\ cal[i.x] = i.entry
    BY <1>5, <1>6 DEF SyncInv, EntriesAreTrue
  <2>3. ASSUME NEW i \in w.items, NEW j \in w.items, i.x = j.x PROVE i = j
    BY <1>5, <2>3
  <2>4. w.next <= clock /\ w.copy.etag <= clock /\ w.todo = {} /\ w.next # 0 /\ token <= w.next
    BY <1>5, <2>1 DEF OwnInv, Clocks
  <2> QED BY <2>2, <2>3, <2>4 DEF IsClocked
<1>9. Clocks'
  BY <1>1, <1>5, <1>8, QuietClocks DEF OwnInv
<1>10. \A f \in CalEvents : LinkIsCurrent(w, f) /\ ~HoldsCopy(w, f)
  BY <1>5, CalendarAssumption DEF LinkIsCurrent, HoldsCopy
<1> QED BY <1>1, <1>7, <1>9, <1>10, QuietStepIsOwn

(* What is pending is copied as it is.                                         *)
LEMMA RetriesWhatIsPending ==
    ASSUME CalTypeOK, OwnInv, NEW p \in CalCalls, NEW w \in CallLocals,
           Retries(w, Pending), work' = [work EXCEPT ![p] = w], UNCHANGED <<doc, cal, clock>>
    PROVE  /\ TakesOn(p, w) /\ IsClocked(w)' /\ w.next = 0 /\ w.items = {}
           /\ \A f \in CalEvents : LinkIsCurrent(w, f) /\ (HoldsCopy(w, f) => doc[f].status # "none")
<1>1. \A c \in Pending : c.e \in CalEvents /\ c.copy = doc[c.e] /\ c.copy.status # "none"
  BY DEF Pending, Unsynced, LacksMeet
<1>2. CASE w = Resting
  <2>1. \A f \in CalEvents : ~HoldsCopy(w, f) /\ \A y : ~Copied(w, f, y)
    BY <1>2, RestingFits, CalendarAssumption DEF HoldsCopy, Copied
  <2>2. \A x, g : ~Lists(w, x, g)
    BY <1>2, RestingFits DEF Lists
  <2>3. \A f \in CalEvents : LinkIsCurrent(w, f)
    BY <1>2, RestingFits DEF LinkIsCurrent
  <2>4. IsClocked(w)'
    BY <1>2, RestingFits DEF IsClocked, NoDoc, CalTypeOK
  <2> QED BY <1>2, <2>1, <2>2, <2>3, <2>4, RestingFits DEF TakesOn
<1>3. ASSUME NEW d \in Pending, w.pc = "push", w.e = d.e, w.copy = d.copy, w.todo = Pending \ {d},
             w.items = {}, w.next = 0
      PROVE  /\ TakesOn(p, w) /\ IsClocked(w)' /\ w.next = 0 /\ w.items = {}
             /\ \A f \in CalEvents : LinkIsCurrent(w, f) /\ (HoldsCopy(w, f) => doc[f].status # "none")
  <2>1. \A f \in CalEvents : \A y : Copied(w, f, y) => doc'[f].link = y
    BY <1>1, <1>3 DEF Copied
  <2>2. \A x, g : ~Lists(w, x, g)
    BY <1>3 DEF Lists
  <2>3. \A f \in CalEvents : LinkIsCurrent(w, f) /\ (HoldsCopy(w, f) => doc[f].status # "none")
    BY <1>1, <1>3 DEF LinkIsCurrent, HoldsCopy
  <2>4. IsClocked(w)'
    <3>1. clock \in Nat /\ clock' = clock /\ 0 <= clock /\ \A f \in CalEvents : doc[f].etag <= clock
      BY DEF CalTypeOK, OwnInv, Clocks
    <3>2. w.copy.etag <= clock' /\ \A c \in w.todo : c.copy.etag <= clock'
      BY <1>1, <1>3, <3>1
    <3> QED BY <1>3, <3>1, <3>2 DEF IsClocked
  <2> QED BY <1>3, <2>1, <2>2, <2>3, <2>4 DEF TakesOn
<1> QED BY <1>2, <1>3, RestingFits DEF Retries

LEMMA PullEndIsOwn ==
    ASSUME CalTypeOK, SyncInv, OwnInv, OneTick, NEW p \in CalCalls, EndPull(p) \/ PullFails(p) PROVE OwnInv'
<1>1. UNCHANGED <<doc, cal, clock, doubled, behind>>
  BY PullEnds
<1>2. PICK w \in CallLocals : Retries(w, Pending) /\ work' = [work EXCEPT ![p] = w]
  BY PullEnds
<1>3. /\ TakesOn(p, w) /\ IsClocked(w)' /\ w.next = 0
      /\ \A f \in CalEvents : LinkIsCurrent(w, f) /\ (HoldsCopy(w, f) => doc[f].status # "none")
  BY <1>1, <1>2, RetriesWhatIsPending
<1>4. token' \in {token, work[p].next}
  BY DEF EndPull, PullFails
<1>5. Clocks'
  <2>1. token' <= clock' /\ 0 < clock' /\ \A e \in CalEvents : doc'[e].etag <= clock'
    BY <1>1, <1>4 DEF OwnInv, Clocks, IsClocked
  <2>2. ASSUME NEW q \in CalCalls PROVE IsClocked(work[q])' /\ (work'[q].next # 0 => q \in Ticks)
    <3>1. PICK v \in CallLocals : v = work[q]
      BY DEF CalTypeOK
    <3>2. work'[q] = IF q = p THEN w ELSE v
      BY <1>2, <3>1 DEF CalTypeOK
    <3>3. CASE q = p
      BY <1>3, <3>2, <3>3 DEF IsClocked
    <3>4. CASE q # p
      <4>1. IsClocked(v) /\ (v.next # 0 => q \in Ticks) /\ v.next \in Nat
        BY <3>1 DEF OwnInv, Clocks, CallLocals
      <4>2. v.next # 0 => token' <= v.next
        <5>1. CASE token' = token
          BY <4>1, <5>1 DEF IsClocked
        <5>2. CASE token' = work[p].next /\ work[p].next # 0
          BY <3>1, <3>4, <5>2, PullsOfOne DEF OwnInv
        <5>3. CASE token' = 0
          BY <4>1, <5>3
        <5> QED BY <1>4, <5>1, <5>2, <5>3
      <4>3. IsClocked(v)'
        BY <1>1, <4>1, <4>2 DEF IsClocked
      <4> QED BY <3>2, <3>4, <4>1, <4>3 DEF IsClocked
    <3> QED BY <3>3, <3>4
  <2> QED BY <2>1, <2>2 DEF Clocks
<1> QED BY <1>1, <1>3, <1>5, QuietStepIsOwn

(* A call that dies has nothing any more.                                      *)
LEMMA CalDieIsOwn ==
    ASSUME CalTypeOK, SyncInv, OwnInv, NEW p \in CalCalls, CalDie(p) PROVE OwnInv'
<1>1. UNCHANGED <<doc, cal, clock, doubled, token>> /\ work' = [work EXCEPT ![p] = Resting]
      /\ behind' = behind \ ({p} \X CalEvents)
  BY CalDieTypes DEF CalDie
<1>2. \A f \in CalEvents : ~HoldsCopy(Resting, f) /\ (\A y : ~Copied(Resting, f, y)) /\ LinkIsCurrent(Resting, f)
  BY RestingFits, CalendarAssumption DEF HoldsCopy, Copied, LinkIsCurrent
<1>3. TakesOn(p, Resting)
  BY <1>1, <1>2, RestingFits, RestingIsLocals DEF TakesOn, Lists
<1>4. Clocks'
  BY <1>1, QuietClocks, RestingIsClocked, RestingIsLocals, RestingFits DEF OwnInv, CalTypeOK
<1> QED BY <1>1, <1>2, <1>3, <1>4, QuietStepIsOwn
-----------------------------------------------------------------------------
(* The steps of the pull that deal with an entry.                                *)
LEMMA DealStaysClocked ==
    ASSUME CalTypeOK, OwnInv, NEW p \in CalCalls, NEW w \in CallLocals, NEW i,
           HasDealtWith(p, w, i), w.copy.etag <= clock, w.todo = {}, UNCHANGED <<cal, clock, token>>
    PROVE  IsClocked(w) /\ IsClocked(w)' /\ (w.next # 0 => p \in Ticks)
<1>1. IsClocked(w)
  BY DEF HasDealtWith, OwnInv, Clocks, IsClocked
<1>2. IsClocked(w)'
  BY <1>1 DEF IsClocked
<1> QED BY <1>1, <1>2 DEF HasDealtWith, OwnInv, Clocks

(* What all of them leave of the locals.                                       *)
LEMMA DealIsTaken ==
    ASSUME CalTypeOK, SyncInv, OwnInv, NEW p \in CalCalls, NEW w, NEW i, DealsWith(p, w, i),
           UNCHANGED <<cal, clock, token>>
    PROVE  /\ w \in CallLocals /\ work' = [work EXCEPT ![p] = w] /\ HasDealtWith(p, w, i)
           /\ i \in work[p].items /\ i.x \in Entries /\ TakesOn(p, w)
           /\ IsClocked(w) /\ IsClocked(w)' /\ (w.next # 0 => p \in Ticks)
           /\ \A f \in CalEvents : ~HoldsCopy(w, f) /\ LinkIsCurrent(w, f) /\ LinkIsCurrent(w, f)'
                                   /\ \A y : ~Copied(w, f, y)
           /\ cal[i.x] = i.entry \/ i.entry.etag < cal[i.x].etag
<1>1. /\ w.e = 0 /\ w.todo = {} /\ w \in CallLocals /\ work' = [work EXCEPT ![p] = w]
      /\ i.x \in Entries
  BY DealtLocals
<1>2. HasDealtWith(p, w, i) /\ w.pc = "items" /\ w.copy = work[p].copy /\ i \in work[p].items
      /\ w.items = work[p].items \ {i}
  BY DEF DealsWith, HasDealtWith
<1>3. \A f \in CalEvents : ~HoldsCopy(w, f) /\ LinkIsCurrent(w, f) /\ LinkIsCurrent(w, f)'
                           /\ \A y : ~Copied(w, f, y)
  BY <1>1, <1>2, CalendarAssumption DEF HoldsCopy, LinkIsCurrent, Copied
<1>4. TakesOn(p, w)
  BY <1>1, <1>2, <1>3 DEF TakesOn, Lists
<1>5. IsClocked(work[p]) /\ w.copy.etag <= clock
  BY <1>2 DEF OwnInv, Clocks, IsClocked
<1>6. IsClocked(w) /\ IsClocked(w)' /\ (w.next # 0 => p \in Ticks)
  BY <1>1, <1>2, <1>5, DealStaysClocked
<1>7. cal[i.x] = i.entry \/ i.entry.etag < cal[i.x].etag
  <2>1. /\ i.entry.etag \in Nat /\ work[p].next \in Nat /\ cal[i.x].etag \in Nat
    BY <1>1, <1>2 DEF CalTypeOK, CallLocals, EntryDocs
  <2> QED BY <1>2, <1>5, <2>1 DEF IsClocked
<1> QED BY <1>1, <1>2, <1>3, <1>4, <1>6, <1>7

LEMMA PassOverIsOwn ==
    ASSUME CalTypeOK, SyncInv, OwnInv, NEW p \in CalCalls, PassOver(p) PROVE OwnInv'
<1>1. PICK w, i : DealsWith(p, w, i) /\ MayPassOver(i)
  BY PassOverDeals
<1>2. UNCHANGED <<doc, cal, clock, token, doubled, behind>>
  BY DEF PassOver, histories
<1>3. Clocks'
  BY <1>1, <1>2, DealIsTaken, QuietClocks DEF OwnInv
<1> QED BY <1>1, <1>2, <1>3, DealIsTaken, QuietStepIsOwn

LEMMA PushBackIsOwn ==
    ASSUME CalTypeOK, SyncInv, OwnInv, NEW p \in CalCalls, PushBack(p) PROVE OwnInv'
<1>1. PICK w \in CallLocals : \E i, e :
        /\ HasDealtWith(p, w, i) /\ w.pc = "push" /\ w.e = e /\ w.copy = doc[e]
        /\ e \in CalEvents /\ (doc[e].link = 0 => doc[e].status # "none")
        /\ e \in FindLinked(i) /\ i.entry.state = "live" /\ i.entry.etag < doc[e].updated
  BY PushBackPushes
<1>2. PICK i, e :
        /\ HasDealtWith(p, w, i) /\ w.pc = "push" /\ w.e = e /\ w.copy = doc[e]
        /\ e \in CalEvents /\ (doc[e].link = 0 => doc[e].status # "none")
  BY <1>1
<1>3. UNCHANGED <<doc, cal, clock, token, doubled, behind>>
  BY DEF PushBack, histories
<1>4. work' = [work EXCEPT ![p] = w] /\ w.items \subseteq work[p].items /\ w.todo = {}
  BY <1>2, PullHoldsNothing DEF HasDealtWith, SyncInv
<1>5. TakesOn(p, w)
  BY <1>2, <1>3, <1>4 DEF TakesOn, Copied, Lists
<1>6. Clocks'
  <2>1. w.copy.etag <= clock
    BY <1>2 DEF OwnInv, Clocks
  <2> QED BY <1>2, <1>3, <1>4, <2>1, DealStaysClocked, QuietClocks DEF OwnInv
<1>7. doc[e].status # "none"
  BY <1>2 DEF SyncInv, DocsAreTrue, NoDoc
<1>8. \A f \in CalEvents : LinkIsCurrent(w, f) /\ (HoldsCopy(w, f) => doc[f].status # "none")
  BY <1>2, <1>4, <1>7 DEF LinkIsCurrent, HoldsCopy
<1> QED BY <1>3, <1>5, <1>6, <1>8, QuietStepIsOwn

(* A deletion takes a link away, and the entry is gone.                        *)
LEMMA ApplyDeletedIsOwn ==
    ASSUME CalTypeOK, SyncInv, OwnInv, NEW p \in CalCalls, ApplyDeleted(p) PROVE OwnInv'
<1>1. PICK w, i : DealsWith(p, w, i) /\ i.entry.state = "deleted" /\ DeletesLinked(p, i)
  BY ApplyDeletedWrites
<1>2. UNCHANGED <<cal, clock, token, doubled>>
  BY DEF ApplyDeleted
<1>3. CASE UNCHANGED <<doc, behind>>
  <2>1. Clocks'
    BY <1>1, <1>2, <1>3, DealIsTaken, QuietClocks DEF OwnInv
  <2> QED BY <1>1, <1>2, <1>3, <2>1, DealIsTaken, QuietStepIsOwn
<1>4. ASSUME NEW e, NEW d, Writes(p, e, d), doc[e].link = i.x, d.status = "cancelled", d.link = 0, d.etag = 0
      PROVE  OwnInv'
  <2>1. cal[i.x].state = "deleted"
    BY <1>1, DealtLocals DEF ItemWasTrue
  <2>2. doc'[e].link = 0 /\ e \in CalEvents
    BY <1>4 DEF Writes, CalTypeOK
  <2>3. \A f \in CalEvents : LinkComesFrom(p, f)
    BY <1>4, <2>1, <2>2, WritesOne DEF LinkComesFrom
  <2>4. NewLinksAreRight
    BY <1>1, <1>2, <2>3, DealIsTaken, NothingNewIsLinked DEF NewLinksAreRight, NoNewLinks
  <2>5. EntriesGoOn /\ clock' \in Nat
    BY <1>2, NoEntryChanges DEF CalTypeOK
  <2>6. d.etag <= clock' /\ LinkStays(p, e)
    BY <1>4, <2>2, <2>3, <2>5 DEF LinkStays
  <2> QED BY <1>1, <1>2, <1>4, <2>4, <2>5, <2>6, DealIsTaken, WriteIsOwn
<1> QED BY <1>1, <1>3, <1>4 DEF DeletesLinked

(* An event gets the entry the pull deals with.                                  *)
LEMMA NewcomerIsOwn ==
    ASSUME CalTypeOK, SyncInv, OwnInv, NEW p \in CalCalls, NEW w, NEW i, DealsWith(p, w, i),
           NEW e, NEW d, Writes(p, e, d), d.link = i.x, d.status # "none", d.etag = i.entry.etag,
           doc[e].link = 0, Newcomer(e, i.x), UNCHANGED <<cal, clock, token>>, doubled \subseteq doubled'
    PROVE  OwnInv'
<1>1. PICK x \in Entries : x = i.x
  BY DealIsTaken
<1>2. /\ work' = [work EXCEPT ![p] = w] /\ TakesOn(p, w) /\ e \in CalEvents
      /\ \A f \in CalEvents : doc'[f] = IF f = e THEN d ELSE doc[f]
  BY DealIsTaken DEF Writes, CalTypeOK
<1>3. ASSUME NEW y \in Entries, NEW f \in CalEvents, Links(f, y)' PROVE Links(f, y) \/ (f = e /\ y = x)
  <2>1. doc'[f].link = y \/ Copied(w, f, y) \/ \E q \in CalCalls : q # p /\ Copied(work[q], f, y)
    BY <1>2, <1>3, LinksAfter
  <2> QED BY <1>1, <1>2, <2>1, DealIsTaken DEF Links
<1>4. NewLinksAreRight
  BY <1>1, <1>2, <1>3 DEF NewLinksAreRight
<1>5. DocsShareNone'
  <2> SUFFICES ASSUME NEW y \in Entries, NEW f \in CalEvents, NEW g \in CalEvents,
                      f # g, doc'[f].link = y, doc'[g].link = y
               PROVE  Twins(f, g)'
    BY DEF DocsShareNone
  <2>1. CASE f # e /\ g # e
    BY <1>2, <2>1 DEF OwnInv, DocsShareNone, Twins
  <2>2. ASSUME NEW h \in CalEvents, h # e, doc[h].link = x PROVE Twins(e, h)'
    <3>1. Links(h, x)
      BY <2>2 DEF Links
    <3> QED BY <1>1, <2>2, <3>1 DEF Newcomer
  <2>3. CASE f = e
    BY <1>1, <1>2, <2>2, <2>3 DEF Twins
  <2>4. CASE g = e
    BY <1>1, <1>2, <2>2, <2>4 DEF Twins
  <2> QED BY <2>1, <2>3, <2>4
<1>6. EntriesGoOn /\ LinkStays(p, e)
  BY NoEntryChanges DEF LinkStays
<1>7. d.etag <= clock'
  <2>1. /\ i.entry.etag \in Nat /\ work[p].next \in Nat /\ clock \in Nat
        /\ i.entry.etag <= work[p].next /\ work[p].next <= clock
    BY DealIsTaken DEF CalTypeOK, CallLocals, EntryDocs, OwnInv, Clocks, IsClocked
  <2> QED BY <2>1
<1> QED BY <1>2, <1>4, <1>5, <1>6, <1>7, DealIsTaken, WriteIsOwn

(* The entry found is the event's own, or was made for it and nobody else has it. *)
LEMMA ApplyNewerIsOwn ==
    ASSUME CalTypeOK, SyncInv, OwnInv, OneTick, NEW p \in CalCalls, ApplyNewer(p) PROVE OwnInv'
<1>1. PICK w, i, e, d : DealsWith(p, w, i) /\ i.entry.state = "live"
        /\ Writes(p, e, d) /\ doc[e].link \in {0, i.x}
        /\ (doc[e].link = 0 => doc[e].status # "none")
        /\ d.status = doc[e].status /\ d.link = i.x
        /\ e \in FindLinked(i) /\ d.etag = i.entry.etag
  BY ApplyNewerWrites
<1>2. UNCHANGED <<cal, clock, token, doubled>>
  BY DEF ApplyNewer
<1>3. i.x \in Entries /\ i.x # 0 /\ i.entry \in EntryDocs /\ i \in work[p].items /\ HasDealtWith(p, w, i)
  BY <1>1, <1>2, DealIsTaken, DealtLocals
<1>4. e \in CalEvents /\ d.status # "none"
  BY <1>1, <1>3 DEF Writes, SyncInv, DocsAreTrue, NoDoc
<1>5. CASE doc[e].link = i.x
  <2>1. \A f \in CalEvents : LinkComesFrom(p, f)
    BY <1>1, <1>5, WritesOne DEF LinkComesFrom
  <2>2. NewLinksAreRight
    BY <1>1, <1>2, <2>1, DealIsTaken, NothingNewIsLinked DEF NewLinksAreRight, NoNewLinks
  <2>3. EntriesGoOn
    BY <1>2, NoEntryChanges
  <2>4. d.etag <= clock'
    <3>1. /\ i.entry.etag \in Nat /\ work[p].next \in Nat /\ clock \in Nat
          /\ i.entry.etag <= work[p].next /\ work[p].next <= clock
      BY <1>3 DEF CalTypeOK, CallLocals, EntryDocs, OwnInv, Clocks, IsClocked
    <3> QED BY <1>1, <1>2, <3>1
  <2>5. LinkStays(p, e) /\ d.link \in {doc[e].link, 0}
    BY <1>1, <1>4, <1>5, <2>1 DEF LinkStays
  <2> QED BY <1>1, <1>2, <1>4, <2>2, <2>3, <2>4, <2>5, DealIsTaken, WriteIsOwn
<1>6. CASE doc[e].link = 0
  <2>1. PICK x \in Entries : x = i.x /\ x # 0
    BY <1>3
  <2>2. i.entry.event = e
    BY <1>1, <1>6, <2>1 DEF FindLinked, LinkedTo
  <2>3. IsListed(x, e)
    BY <1>1, <1>3, <2>1, <2>2 DEF IsListed, Lists
  <2>4. \A g : ~IsListed(x, g)'
    BY <1>3, <2>1, DealtIsGone DEF OwnInv
  <2>5. doc'[e].link = x
    BY <1>1, <1>4, <2>1, WritesOne
  <2>6. \A f \in CalEvents : f # e /\ IsLive(x) /\ Names(f, x) => Twins(e, f)'
    BY <1>2, <1>4, <2>3 DEF OwnInv, LiveEntryOfOne, Names, Twins
  <2>7. \A f \in CalEvents : f # e /\ Links(f, x) => Twins(e, f)'
    BY <1>2, <1>4, <2>3 DEF OwnInv, ListedEntryOfOne, Twins
  <2>8. cal[x].event # 0
    BY <1>4, <2>3 DEF OwnInv, ListedIsNamed
  <2>9. Newcomer(e, i.x)
    BY <1>6, <2>1, <2>4, <2>5, <2>6, <2>7, <2>8 DEF Newcomer
  <2> QED BY <1>1, <1>2, <1>4, <1>6, <2>9, NewcomerIsOwn
<1> QED BY <1>1, <1>5, <1>6

(* An entry of no event becomes that of a new one; a copy makes twins.         *)
LEMMA ImportNewIsOwn ==
    ASSUME CalTypeOK, SyncInv, OwnInv, OneTick, NEW p \in CalCalls, ImportNew(p) PROVE OwnInv'
<1>1. PICK w, i, e, d : DealsWith(p, w, i) /\ i.entry.state = "live"
        /\ Writes(p, e, d) /\ doc[e].status = "none" /\ d.status = "live" /\ d.link = i.x
        /\ FindLinked(i) = {} /\ d.etag = i.entry.etag
        /\ doubled' = IF i.entry.event # 0 THEN doubled \cup {e, i.entry.event} ELSE doubled
  BY ImportNewWrites
<1>2. UNCHANGED <<cal, clock, token>>
  BY DEF ImportNew
<1>3. i.x \in Entries /\ i.x # 0 /\ i.entry \in EntryDocs /\ i \in work[p].items /\ HasDealtWith(p, w, i)
  BY <1>1, <1>2, DealIsTaken, DealtLocals
<1>4. e \in CalEvents /\ doc[e].link = 0 /\ d.status # "none"
  BY <1>1 DEF Writes, SyncInv, DocsAreTrue, NoDoc
<1>5. PICK x \in Entries : x = i.x /\ x # 0
  BY <1>3
<1>6. PICK g : g = i.entry.event
  OBVIOUS
<1>7. IsListed(x, g) /\ g \in CalEvents \cup {0}
  BY <1>1, <1>3, <1>5, <1>6 DEF IsListed, Lists, EntryDocs
<1>8. \A h : ~IsListed(x, h)'
  BY <1>3, <1>5, DealtIsGone DEF OwnInv
<1>9. doc'[e].link = x /\ doc'[e].status = "live"
  BY <1>1, <1>4, <1>5, WritesOne
<1>10. CASE g # 0
  <2>1. e \in doubled' /\ g \in doubled' /\ g \in CalEvents /\ doubled \subseteq doubled'
    BY <1>1, <1>6, <1>7, <1>10
  <2>2. ASSUME NEW f \in CalEvents, Links(f, x) \/ (IsLive(x) /\ Names(f, x)) PROVE Twins(e, f)'
    <3>1. f # g => f \in doubled
      BY <1>7, <2>1, <2>2 DEF OwnInv, LiveEntryOfOne, ListedEntryOfOne, Names, Twins
    <3> QED BY <2>1, <3>1 DEF Twins
  <2>3. cal[x].event # 0
    BY <1>7, <2>1 DEF OwnInv, ListedIsNamed
  <2>4. Newcomer(e, i.x)
    BY <1>1, <1>5, <1>8, <1>9, <2>2, <2>3 DEF Newcomer
  <2> QED BY <1>1, <1>2, <1>4, <2>1, <2>4, NewcomerIsOwn
<1>11. CASE g = 0
  <2>1. LinkedTo(x) = {} /\ doubled' = doubled /\ IsListed(x, 0)
    BY <1>1, <1>5, <1>6, <1>7, <1>11 DEF FindLinked
  <2>2. \A f \in CalEvents : doc[f].link # x
    BY <2>1 DEF LinkedTo
  <2>3. \A f \in CalEvents : ~IsListed(x, f)
    BY <1>3, <1>5, <1>6, <1>11, DealtIsOnly, CalendarAssumption DEF OwnInv
  <2>4. ASSUME NEW f \in CalEvents, IsLive(x), Names(f, x) PROVE FALSE
    BY <2>1, <2>2, <2>3, <2>4 DEF Names, OwnInv, AddedIsKnown
  <2>5. \A q \in CalCalls : \A y : ~Copied(work[q], e, y)
    BY <1>1, <1>4 DEF OwnInv, CopiesAreOfMade, Copied, HoldsCopy
  <2>6. \A q \in CalCalls : OnlyCopied(work[q], e, x)'
    <3>1. ASSUME NEW q \in CalCalls PROVE \A y : ~Copied(work'[q], e, y)
      <4>1. work'[q] = IF q = p THEN w ELSE work[q]
        BY <1>3 DEF HasDealtWith, CalTypeOK
      <4> QED BY <1>1, <1>2, <1>4, <2>5, <4>1, DealIsTaken
    <3> QED BY <3>1 DEF OnlyCopied, Copied
  <2>7. Newcomer(e, i.x)
    BY <1>1, <1>5, <1>8, <1>9, <2>1, <2>2, <2>4, <2>6 DEF Newcomer
  <2> QED BY <1>1, <1>2, <1>4, <2>1, <2>7, NewcomerIsOwn
<1> QED BY <1>10, <1>11
-----------------------------------------------------------------------------
(* The saves.                                                                    *)
LEMMA SavedIsOwn ==
    ASSUME CalTypeOK, SyncInv, OwnInv, NEW p \in CalCalls, ScreenSaves(p) PROVE OwnInv'
<1>1. PICK e \in CalEvents, d \in Docs :
        /\ SaveAndPush(p, e, d) /\ d.updated = clock + 2 /\ d.status # "none"
        /\ d.link = IF doc[e].status = "none" THEN 0 ELSE doc[e].link
        /\ d.etag \in {0, doc[e].etag}
  BY DEF ScreenSaves
<1>2. PICK w \in CallLocals : HasSaved(p, w, e, d)
  BY <1>1, SavedTypes
<1>3. work[p] = Resting
  BY <1>1, IdleHoldsNothing DEF SyncInv, SaveAndPush
<1>4. /\ work' = [work EXCEPT ![p] = w] /\ w.pc = "push" /\ w.e = e /\ w.copy = d
      /\ w.todo = {} /\ w.items = {} /\ w.next = 0
  BY <1>2, <1>3 DEF HasSaved, Resting
<1>5. UNCHANGED <<cal, token, doubled>> /\ clock' = clock + 2 /\ Writes(p, e, d)
  BY <1>1 DEF SaveAndPush, Advance, Writes
<1>6. EntriesGoOn
  BY <1>5, CalendarStays DEF CalTypeOK
<1>7. d.link = doc[e].link
  BY <1>1 DEF SyncInv, DocsAreTrue, NoDoc
<1>8. \A f \in CalEvents : doc'[f] = IF f = e THEN d ELSE doc[f]
  BY <1>5, WritesOne
<1>9. TakesOn(p, w)
  BY <1>4, <1>8 DEF TakesOn, Copied, Lists
<1>10. \A f \in CalEvents : LinkComesFrom(p, f)
  BY <1>7, <1>8 DEF LinkComesFrom
<1>11. NewLinksAreRight /\ LinkStays(p, e)
  BY <1>9, <1>10, NothingNewIsLinked DEF NewLinksAreRight, NoNewLinks, LinkStays
<1>12. d.etag <= clock' /\ 0 <= clock' /\ token <= clock'
  <2>1. /\ doc[e].etag \in Nat /\ clock \in Nat /\ token \in Nat
        /\ doc[e].etag <= clock /\ token <= clock
    BY DEF CalTypeOK, Docs, OwnInv, Clocks
  <2> QED BY <1>1, <1>5, <2>1
<1>13. IsClocked(w)'
  BY <1>4, <1>12 DEF IsClocked
<1>14. \A f \in CalEvents : LinkIsCurrent(w, f)' /\ (HoldsCopy(w, f) => doc'[f].status # "none")
  BY <1>1, <1>4, <1>8 DEF LinkIsCurrent, HoldsCopy
<1> QED BY <1>1, <1>4, <1>5, <1>6, <1>7, <1>9, <1>11, <1>12, <1>13, <1>14, WriteIsOwn

(* A change the calendar does not show.                                        *)
LEMMA UpdateOtherIsOwn ==
    ASSUME CalTypeOK, SyncInv, OwnInv, NEW p \in CalCalls, UpdateOther(p) PROVE OwnInv'
<1>1. PICK e, d : Writes(p, e, d) /\ d.status = doc[e].status
                  /\ d.link = doc[e].link /\ doc[e].status # "none" /\ d.etag = doc[e].etag
  BY UpdateOtherWrites
<1>2. /\ Is(p, "idle") /\ clock' = clock + 2 /\ UNCHANGED <<cal, work, doubled, token>>
  BY UpdateOtherWrites DEF UpdateOther
<1>3. work[p] = Resting /\ work' = [work EXCEPT ![p] = Resting]
  <2>1. work[p] = Resting
    BY <1>2, IdleHoldsNothing DEF SyncInv
  <2> QED BY <1>2, <2>1 DEF CalTypeOK
<1>4. EntriesGoOn
  BY <1>2, CalendarStays DEF CalTypeOK
<1>5. \A f \in CalEvents : ~HoldsCopy(Resting, f) /\ (\A y : ~Copied(Resting, f, y)) /\ LinkIsCurrent(Resting, f)'
  BY RestingFits, CalendarAssumption DEF HoldsCopy, Copied, LinkIsCurrent
<1>6. TakesOn(p, Resting)
  BY <1>3, <1>5, RestingFits, RestingIsLocals DEF TakesOn, Lists
<1>7. \A f \in CalEvents : LinkComesFrom(p, f)
  BY <1>1, WritesOne DEF LinkComesFrom
<1>8. NewLinksAreRight /\ LinkStays(p, e)
  BY <1>1, <1>6, <1>7, NothingNewIsLinked DEF NewLinksAreRight, NoNewLinks, LinkStays, Writes
<1>9. d.etag <= clock' /\ 0 <= clock'
  <2>1. doc[e].etag \in Nat /\ clock \in Nat /\ doc[e].etag <= clock
    BY <1>1 DEF CalTypeOK, Docs, OwnInv, Clocks, Writes
  <2> QED BY <1>1, <1>2, <2>1
<1>10. IsClocked(Resting)'
  BY <1>9, RestingFits DEF IsClocked, NoDoc
<1> QED BY <1>1, <1>2, <1>3, <1>4, <1>5, <1>6, <1>8, <1>9, <1>10, RestingFits, WriteIsOwn

(* A call goes on to the next copy, to the rest of its list, or ends.            *)
LEMMA MarksOn ==
    ASSUME CalTypeOK, SyncInv, NEW p \in CalCalls, Mark(p)
    PROVE  \E w \in CallLocals :
             /\ work' = [work EXCEPT ![p] = w] /\ w.pc # "mark"
             /\ w.items \subseteq work[p].items /\ w.next \in {0, work[p].next}
             /\ w.items = {} \/ w.next # 0
             /\ w.items = work[p].items \/ work[p].next = 0
             /\ w.next = work[p].next
             /\ w.todo \subseteq work[p].todo
             /\ (w.e = 0 /\ w.copy = NoDoc) \/ (\E c \in work[p].todo : w.e = c.e /\ w.copy = c.copy)
             /\ ~HoldsCopy(w, work[p].e)
<1>1. PICK v \in CallLocals : v = work[p]
  BY DEF CalTypeOK
<1>2. PICK w \in CallLocals :
        /\ work' = [work EXCEPT ![p] = w]
        /\ \/ v.next = 0 /\ Retries(w, v.todo)
           \/ /\ v.next # 0 /\ w.pc = "items" /\ w.e = 0 /\ w.copy = NoDoc /\ w.from = 0
              /\ w.items = v.items /\ w.next = v.next /\ w.todo = v.todo /\ w.now = v.now
  BY <1>1, MarkTypes
<1>3. LocalsFit(v) /\ v.e \in CalEvents /\ v.e # 0
  BY <1>1, CalendarAssumption DEF SyncInv, CallsFit, Mark, Is, CalTypeOK
<1>4. CASE v.next # 0
  BY <1>1, <1>2, <1>3, <1>4 DEF LocalsFit, HoldsCopy
<1>5. CASE v.next = 0 /\ w = Resting
  BY <1>1, <1>2, <1>3, <1>5, RestingFits DEF HoldsCopy
<1>6. ASSUME NEW c \in v.todo, v.next = 0, w.pc = "push", w.e = c.e, w.copy = c.copy, w.todo = v.todo \ {c},
             w.items = {}, w.next = 0
      PROVE  ~HoldsCopy(w, v.e)
  BY <1>3, <1>6 DEF LocalsFit, HoldsCopy
<1> QED BY <1>1, <1>2, <1>4, <1>5, <1>6 DEF Retries

(* An answer is saved: another event with its entry becomes its twin.          *)
LEMMA MarkIsOwn ==
    ASSUME CalTypeOK, SyncInv, OwnInv, NEW p \in CalCalls, Mark(p) PROVE OwnInv'
<1>1. PICK v \in CallLocals : v = work[p]
  BY DEF CalTypeOK
<1>2. PICK w \in CallLocals :
        /\ work' = [work EXCEPT ![p] = w] /\ w.pc # "mark"
        /\ w.items \subseteq v.items
        /\ w.items = {} \/ w.next # 0
        /\ w.next = v.next
        /\ w.todo \subseteq v.todo
        /\ (w.e = 0 /\ w.copy = NoDoc) \/ (\E c \in v.todo : w.e = c.e /\ w.copy = c.copy)
        /\ ~HoldsCopy(w, v.e)
  BY <1>1, MarksOn
<1>3. PICK e : e = v.e
  OBVIOUS
<1>4. PICK d : d = v.copy
  OBVIOUS
<1>5. v.pc = "mark" /\ e \in CalEvents /\ d \in Docs
  BY <1>1, <1>3, <1>4 DEF Mark, Is, CalTypeOK, CallLocals
<1>6. Writes(p, e, d)
  BY <1>1, <1>3, <1>4, <1>5 DEF Mark, Writes
<1>7. UNCHANGED <<cal, clock, token>> /\ clock \in Nat /\ doubled \subseteq doubled'
  BY DEF Mark, CalTypeOK
<1>8. EntriesGoOn
  BY <1>7, CalendarStays
<1>9. \A f \in CalEvents : doc'[f] = IF f = e THEN d ELSE doc[f]
  BY <1>6, WritesOne
<1>10. \A f \in CalEvents : \A y : Copied(w, f, y) => Copied(v, f, y) /\ f # e
  BY <1>2, <1>3, CalendarAssumption DEF Copied, HoldsCopy
<1>11. TakesOn(p, w)
  BY <1>1, <1>2, <1>10 DEF TakesOn, Lists
<1>12. \A f \in CalEvents : LinkComesFrom(p, f)
  BY <1>1, <1>3, <1>4, <1>9 DEF LinkComesFrom, Copied
<1>13. NewLinksAreRight /\ LinkStays(p, e)
  BY <1>5, <1>11, <1>12, NothingNewIsLinked DEF NewLinksAreRight, NoNewLinks, LinkStays
<1>14. DocsShareNone'
  <2> SUFFICES ASSUME NEW x \in Entries, NEW f \in CalEvents, NEW g \in CalEvents,
                      f # g, doc'[f].link = x, doc'[g].link = x
               PROVE  Twins(f, g)'
    BY DEF DocsShareNone
  <2>0. x # 0
    BY CalendarAssumption
  <2>1. CASE f # e /\ g # e
    BY <1>7, <1>9, <2>1 DEF OwnInv, DocsShareNone, Twins
  <2>2. ASSUME NEW h \in CalEvents, h # e, d.link = x, doc[h].link = x PROVE Twins(e, h)'
    <3>1. h \in LinkedTo(d.link) \ {e} /\ d.link # 0
      BY <2>0, <2>2 DEF LinkedTo
    <3>2. doubled' = doubled \cup (LinkedTo(d.link) \cup {e})
      BY <1>1, <1>3, <1>4, <3>1 DEF Mark
    <3> QED BY <3>1, <3>2 DEF Twins
  <2> QED BY <1>9, <2>1, <2>2 DEF Twins
<1>15. IsClocked(w)' /\ (w.next # 0 => p \in Ticks) /\ d.etag <= clock'
  <2>1. IsClocked(v) /\ (v.next # 0 => p \in Ticks)
    BY <1>1 DEF OwnInv, Clocks
  <2>2. w.copy.etag <= clock
    BY <1>2, <1>7, <2>1 DEF IsClocked, NoDoc
  <2>3. w.next = 0 => w.items = {}
    BY <1>2
  <2>4. IsClocked(w)'
    BY <1>2, <1>7, <2>1, <2>2, <2>3 DEF IsClocked
  <2> QED BY <1>2, <1>4, <1>7, <2>1, <2>4 DEF IsClocked
<1>16. ASSUME NEW f \in CalEvents PROVE HoldsCopy(w, f) => doc'[f].status # "none"
  <2>1. HoldsCopy(w, f) => HoldsCopy(v, f) /\ f # e
    BY <1>2, <1>3, CalendarAssumption DEF HoldsCopy
  <2> QED BY <1>1, <1>9, <2>1 DEF OwnInv, CopiesAreOfMade
<1>17. ASSUME NEW f \in CalEvents, <<p, f>> \notin behind' PROVE LinkIsCurrent(w, f)'
  <2>1. CASE f = e
    BY <1>2, <1>3, <2>1 DEF LinkIsCurrent, HoldsCopy
  <2>2. CASE f # e
    <3>1. LinkIsCurrent(v, f)
      BY <1>1, <1>6, <1>17, <2>2 DEF Writes, NowBehind, OwnInv, LinksAreCurrent
    <3> QED BY <1>2, <1>9, <2>2, <3>1, CalendarAssumption DEF LinkIsCurrent
  <2> QED BY <2>1, <2>2
<1>18. d.status # "none"
  BY <1>1, <1>4, <1>5 DEF SyncInv, CallsFit, LocalsFit
<1> QED BY <1>2, <1>6, <1>7, <1>8, <1>11, <1>13, <1>14, <1>15, <1>16, <1>17, <1>18, WriteIsOwn
-----------------------------------------------------------------------------
(* A step that changes an entry leaves it with whom it had: what is new is named  *)
(* by the event it was made for.                                                 *)
ChangesRight ==
    /\ UNCHANGED <<doc, behind>> /\ doubled \subseteq doubled' /\ NewEtags
    /\ \A x \in Entries : cal[x].state # "unused" =>
         /\ \A e \in CalEvents : Links(e, x)' => Links(e, x)
         /\ IsLive(x)' => IsLive(x)
         /\ cal'[x].event = cal[x].event \/ (cal'[x].event \in CalEvents /\ Links(cal'[x].event, x))
    /\ \A x \in Entries : cal[x].state = "unused" => \A e \in CalEvents : Links(e, x)' => cal'[x].event = e
    /\ \A x \in Entries, g \in CalEvents \cup {0} : IsListed(x, g)' => IsListed(x, g)
    /\ \A x \in Entries, e \in CalEvents :
         IsLive(x)' /\ doc[e].link = x /\ (\A q \in CalCalls : OnlyCopied(work[q], e, x))
           => \A q \in CalCalls : OnlyCopied(work[q], e, x)'

(* An entry that is new is named by its event alone.                           *)
LEMMA NamesAfterChange ==
    ASSUME CalTypeOK, SyncInv, ChangesRight, NEW x \in Entries, NEW e \in CalEvents, IsLive(x)', Names(e, x)'
    PROVE  IF cal[x].state = "unused" THEN cal'[x].event = e ELSE IsLive(x) /\ Names(e, x)
<1>1. Links(e, x)' \/ cal'[x].event = e \/ IsListed(x, e)'
  BY DEF Names
<1>2. CASE cal[x].state = "unused"
  BY <1>1, <1>2, UnusedIsUnnamed DEF ChangesRight
<1>3. CASE cal[x].state # "unused"
  BY <1>1, <1>3 DEF ChangesRight, Names
<1> QED BY <1>2, <1>3

LEMMA OwnAfterChange ==
    ASSUME CalTypeOK, SyncInv, OwnInv, ChangesRight
    PROVE  LiveEntryOfOne' /\ ListedEntryOfOne' /\ ListedIsNamed' /\ AddedIsKnown' /\ DocsShareNone'
<1>1. ASSUME NEW x \in Entries, NEW e \in CalEvents, NEW f \in CalEvents, e # f,
             IsLive(x)', Names(e, x)', Names(f, x)'
      PROVE  Twins(e, f)'
  <2>1. IsLive(x) /\ Names(e, x) /\ Names(f, x)
    BY <1>1, NamesAfterChange
  <2> QED BY <1>1, <2>1 DEF OwnInv, LiveEntryOfOne, Twins, ChangesRight
<1>2. ASSUME NEW x \in Entries, NEW e \in CalEvents, NEW f \in CalEvents, e # f,
             IsListed(x, e)', Links(f, x)'
      PROVE  Twins(e, f)'
  <2>1. IsListed(x, e) /\ cal[x].state # "unused"
    BY <1>2, UnusedIsUnnamed DEF ChangesRight
  <2>2. Links(f, x)
    BY <1>2, <2>1 DEF ChangesRight
  <2> QED BY <1>2, <2>1, <2>2 DEF OwnInv, ListedEntryOfOne, Twins, ChangesRight
<1>3. ASSUME NEW x \in Entries, NEW e \in CalEvents, IsListed(x, e)' PROVE cal'[x].event # 0
  <2>1. IsListed(x, e) /\ cal[x].state # "unused"
    BY <1>3, UnusedIsUnnamed DEF ChangesRight
  <2> QED BY <2>1, CalendarAssumption DEF OwnInv, ListedIsNamed, ChangesRight
<1>4. ASSUME NEW x \in Entries, NEW e \in CalEvents, IsLive(x)', cal'[x].event = 0 \/ IsListed(x, 0)',
             Links(e, x)' \/ cal'[x].event = e
      PROVE  doc'[e].link = x /\ \A q \in CalCalls : OnlyCopied(work[q], e, x)'
  <2>0. e # 0
    BY CalendarAssumption
  <2>1. CASE cal[x].state = "unused"
    BY <1>4, <2>0, <2>1, UnusedIsUnnamed DEF ChangesRight
  <2>2. CASE cal[x].state # "unused"
    <3>1. IsLive(x) /\ (Links(e, x) \/ cal[x].event = e)
      BY <1>4, <2>2 DEF ChangesRight
    <3>2. cal[x].event = 0 \/ IsListed(x, 0)
      BY <1>4, <2>2, CalendarAssumption DEF ChangesRight
    <3>3. doc[e].link = x /\ \A q \in CalCalls : OnlyCopied(work[q], e, x)
      BY <3>1, <3>2 DEF OwnInv, AddedIsKnown
    <3> QED BY <1>4, <3>3 DEF ChangesRight
  <2> QED BY <2>1, <2>2
<1>5. DocsShareNone'
  BY DEF OwnInv, DocsShareNone, Twins, ChangesRight
<1> QED BY <1>1, <1>2, <1>3, <1>4, <1>5 DEF LiveEntryOfOne, ListedEntryOfOne, ListedIsNamed, AddedIsKnown

(* An answer stays right while entries change.                                 *)
LEMMA AnswerStaysOwn ==
    ASSUME CalTypeOK, SyncInv, OwnInv, ChangesRight, NEW q \in CalCalls, work'[q] = work[q], IsAnswered(work[q])
    PROVE  /\ AnswerIsNamed(work[q], work[q].e, work[q].copy.link)'
           /\ (<<q, work[q].e>> \notin behind)' => AnswerIsOwn(work[q], work[q].e, work[q].copy.link)'
<1>1. PICK v \in CallLocals : v = work[q]
  BY DEF CalTypeOK
<1>2. PICK e, x : e = v.e /\ x = v.copy.link
  OBVIOUS
<1>3. e \in CalEvents /\ x \in Entries /\ x # 0
  BY <1>1, <1>2 DEF CalTypeOK, CallLocals, Docs, IsAnswered
<1>4. cal[x].state # "unused" /\ Links(e, x)
  BY <1>1, <1>2, <1>3 DEF SyncInv, CallsWereTrue, LocalsWereTrue, DocWasTrue, IsUsed, Links, Copied
<1>5. AnswerIsNamed(v, e, x) /\ (<<q, e>> \notin behind => AnswerIsOwn(v, e, x))
  BY <1>1, <1>2 DEF OwnInv, AnswersAreOwn
<1>6. AnswerIsNamed(v, e, x)'
  <2>1. cal'[x].event # 0
    BY <1>3, <1>4, <1>5, CalendarAssumption DEF AnswerIsNamed, ChangesRight
  <2>2. ASSUME IsLive(x)' PROVE cal'[x].event = e \/ e \in doubled'
    <3>1. IsLive(x) /\ (cal[x].event = e \/ e \in doubled)
      BY <1>3, <1>4, <1>5, <2>2 DEF AnswerIsNamed, ChangesRight
    <3>2. ASSUME cal'[x].event \in CalEvents, Links(cal'[x].event, x), cal'[x].event # e PROVE e \in doubled'
      <4>1. PICK g \in CalEvents : g = cal'[x].event
        BY <3>2
      <4>2. Twins(e, g)
        BY <1>3, <1>4, <3>1, <3>2, <4>1 DEF OwnInv, LiveEntryOfOne, Names
      <4> QED BY <4>2 DEF Twins, ChangesRight
    <3> QED BY <1>3, <1>4, <3>1, <3>2 DEF ChangesRight
  <2> QED BY <2>1, <2>2 DEF AnswerIsNamed
<1>7. ASSUME <<q, e>> \notin behind' PROVE AnswerIsOwn(v, e, x)'
  <2>1. AnswerIsOwn(v, e, x)
    BY <1>5, <1>7 DEF ChangesRight
  <2>2. ASSUME NEW f \in CalEvents, f # e, Links(f, x)' PROVE Twins(e, f)'
    BY <1>3, <1>4, <2>1, <2>2 DEF AnswerIsOwn, Twins, ChangesRight
  <2>3. doc'[e].link # x => ~IsListed(x, 0)'
    BY <1>3, <2>1 DEF AnswerIsOwn, ChangesRight
  <2>4. v.copy.etag = cal'[x].etag \/ doc'[e].etag # cal'[x].etag
    <3>1. CASE cal'[x] = cal[x]
      BY <2>1, <3>1 DEF AnswerIsOwn, ChangesRight
    <3>2. CASE clock < cal'[x].etag
      <4>1. doc[e].etag \in Nat /\ clock \in Nat /\ doc[e].etag <= clock
        BY <1>3 DEF CalTypeOK, Docs, OwnInv, Clocks
      <4> QED BY <3>2, <4>1 DEF ChangesRight
    <3> QED BY <1>3, <3>1, <3>2 DEF ChangesRight, NewEtags
  <2> QED BY <2>2, <2>3, <2>4 DEF AnswerIsOwn
<1> QED BY <1>1, <1>2, <1>6, <1>7 DEF AnswerIsNamed, AnswerIsOwn, IsLive

(* The users: an entry gets a new etag, and keeps its event or has none.       *)
LEMMA EntryBecomesNew ==
    ASSUME CalTypeOK, NEW y, NEW n, EntryBecomes(y, n)
    PROVE  NewEtags /\ y \in Entries /\ \A x \in Entries : cal'[x] = IF x = y THEN n ELSE cal[x]
<1>1. y \in Entries /\ \A x \in Entries : cal'[x] = IF x = y THEN n ELSE cal[x]
  BY DEF EntryBecomes, CalTypeOK
<1>2. clock \in Nat /\ n.etag = clock + 2
  BY DEF EntryBecomes, CalTypeOK
<1> QED BY <1>1, <1>2 DEF NewEtags

LEMMA UserIsOwn ==
    ASSUME CalTypeOK, SyncInv, OwnInv, User PROVE OwnInv'
<1>1. UsersStep
  BY UsersGoOn
<1>2. PICK y, n : EntryBecomes(y, n) /\
        \/ cal[y].state = "live" /\ n.event = cal[y].event
        \/ cal[y].state = "unused" /\ n.state = "live"
  BY <1>1 DEF UsersStep, UsersChange
<1>3. NewEtags /\ y \in Entries /\ \A x \in Entries : cal'[x] = IF x = y THEN n ELSE cal[x]
  BY <1>2, EntryBecomesNew
<1>4. UNCHANGED <<doc, token, work, behind>> /\ doubled \subseteq doubled' /\ EntriesGoOn
  BY <1>1 DEF UsersStep
<1>5. \A x \in Entries, e \in CalEvents : Links(e, x)' <=> Links(e, x)
  BY <1>4 DEF Links, Copied
<1>6. \A x \in Entries, g \in CalEvents \cup {0} : IsListed(x, g)' <=> IsListed(x, g)
  BY <1>4 DEF IsListed, Lists
<1>7. \A x \in Entries, e \in CalEvents, q \in CalCalls : OnlyCopied(work[q], e, x)' <=> OnlyCopied(work[q], e, x)
  BY <1>4 DEF OnlyCopied, Copied
<1>8. ChangesRight
  BY <1>2, <1>3, <1>4, <1>5, <1>6, <1>7, UnusedIsUnnamed DEF ChangesRight, IsLive
<1>9. AnswersAreOwn'
  BY <1>4, <1>8, AnswerStaysOwn DEF AnswersAreOwn, IsAnswered
<1>10. LinksAreCurrent' /\ CopiesAreOfMade'
  BY <1>4 DEF OwnInv, LinksAreCurrent, LinkIsCurrent, CopiesAreOfMade, HoldsCopy
<1>11. Clocks'
  <2>1. ASSUME NEW q \in CalCalls PROVE IsClocked(work[q])' /\ (work'[q].next # 0 => q \in Ticks)
    <3>1. PICK v \in CallLocals : v = work[q]
      BY DEF CalTypeOK
    <3>2. IsClocked(v)'
      BY <1>3, <1>4, <3>1, ClockedStays DEF OwnInv, Clocks
    <3> QED BY <1>4, <3>1, <3>2 DEF OwnInv, Clocks, IsClocked
  <2>2. \A e \in CalEvents : doc'[e].etag <= clock'
    BY <1>4, DocsStayClocked DEF OwnInv
  <2>3. token' <= clock' /\ 0 < clock'
    BY <1>4 DEF OwnInv, Clocks, EntriesGoOn, CalTypeOK
  <2> QED BY <2>1, <2>2, <2>3 DEF Clocks
<1> QED BY <1>8, <1>9, <1>10, <1>11, OwnAfterChange DEF OwnInv

(* A call to Google has ended.                                                   *)
LEMMA PushChangesRight ==
    ASSUME CalTypeOK, SyncInv, OwnInv, NEW p \in CalCalls, NEW w \in CallLocals,
           HasPushed(p, w), NewsOf(w), EntriesGoOn, ChangesEntry(work[p]), Answers(work[p], w),
           UNCHANGED <<doc, doubled, behind>>
    PROVE  ChangesRight
<1>1. PICK v \in CallLocals : v = work[p]
  BY DEF CalTypeOK
<1>2. /\ v.pc = "push" /\ work' = [work EXCEPT ![p] = w] /\ w.e = v.e /\ w.items = v.items
      /\ w.todo = v.todo /\ w.from = v.copy.link
  BY <1>1 DEF HasPushed, Is
<1>3. v.e \in CalEvents /\ v.copy.link \in Entries \cup {0}
  BY <1>1, <1>2 DEF CalTypeOK, CallLocals, Docs
<1>4. NewEtags
  <2>1. CASE UNCHANGED <<cal, clock>>
    BY <2>1 DEF NewEtags
  <2>2. CASE \E y, n : EntryBecomes(y, n)
    BY <2>2, EntryBecomesNew
  <2> QED BY <2>1, <2>2 DEF ChangesEntry
<1>5. \A q \in CalCalls : work'[q] = IF q = p THEN w ELSE work[q]
  BY <1>2 DEF CalTypeOK
<1>6. w.copy.link \in {0, v.copy.link} \/
      (cal[w.copy.link].state = "unused" /\ cal'[w.copy.link].event = v.e)
  BY <1>1 DEF Answers
<1>7. ASSUME NEW x \in Entries, NEW f \in CalEvents, Links(f, x)'
      PROVE  Links(f, x) \/ (cal[x].state = "unused" /\ cal'[x].event = f)
  <2>1. doc[f].link = x \/ Copied(w, f, x) \/ \E q \in CalCalls : q # p /\ Copied(work[q], f, x)
    BY <1>2, <1>7, LinksAfter
  <2>2. CASE Copied(w, f, x)
    <3>1. x # 0
      BY CalendarAssumption
    <3>2. Copied(v, f, x) \/ (f = v.e /\ x = w.copy.link /\ w.copy.link \notin {0, v.copy.link})
      BY <1>2, <2>2, <3>1 DEF Copied
    <3> QED BY <1>1, <1>6, <3>2 DEF Links
  <2> QED BY <2>1, <2>2 DEF Links
<1>8. ASSUME NEW x \in Entries, cal[x].state # "unused"
      PROVE  /\ IsLive(x)' => IsLive(x)
             /\ cal'[x].event = cal[x].event \/ (cal'[x].event \in CalEvents /\ Links(cal'[x].event, x))
  <2>1. CASE UNCHANGED <<cal, clock>>
    BY <2>1 DEF IsLive
  <2>2. ASSUME NEW y, NEW n, EntryBecomes(y, n),
               \/ cal[y].state = "live" /\ y = v.copy.link /\ n.event \in {v.e, cal[y].event}
               \/ cal[y].state = "unused"
        PROVE  /\ IsLive(x)' => IsLive(x)
               /\ cal'[x].event = cal[x].event \/ (cal'[x].event \in CalEvents /\ Links(cal'[x].event, x))
    <3>1. cal'[x] = IF x = y THEN n ELSE cal[x]
      BY <2>2, EntryBecomesNew
    <3>2. CASE x # y
      BY <3>1, <3>2 DEF IsLive
    <3>3. CASE x = y
      <4>1. IsLive(x) /\ x = v.copy.link /\ cal'[x].event \in {v.e, cal[x].event}
        BY <1>8, <2>2, <3>1, <3>3 DEF IsLive
      <4>2. Links(v.e, x)
        BY <1>1, <4>1 DEF Links, Copied
      <4> QED BY <1>3, <4>1, <4>2
    <3> QED BY <3>2, <3>3
  <2> QED BY <1>1, <2>1, <2>2 DEF ChangesEntry
<1>9. ASSUME NEW x \in Entries, NEW g \in CalEvents \cup {0}, IsListed(x, g)' PROVE IsListed(x, g)
  <2>1. Lists(w, x, g) \/ \E q \in CalCalls : q # p /\ Lists(work[q], x, g)
    BY <1>2, <1>9, ListedAfter
  <2> QED BY <1>1, <1>2, <2>1 DEF IsListed, Lists
<1>10. ASSUME NEW x \in Entries, NEW f \in CalEvents, IsLive(x)', doc[f].link = x,
              \A q \in CalCalls : OnlyCopied(work[q], f, x)
       PROVE  \A q \in CalCalls : OnlyCopied(work[q], f, x)'
  <2>1. x # 0 /\ cal[x].state \notin {"unused", "deleted"}
    BY <1>10, CalendarAssumption DEF SyncInv, DocsAreTrue, DocWasTrue, IsUsed, EntriesGoOn, IsLive
  <2>2. OnlyCopied(v, f, x)
    BY <1>1, <1>10
  <2>3. f = v.e => w.copy.link = x
    <3> SUFFICES ASSUME f = v.e PROVE w.copy.link = x
      OBVIOUS
    <3>1. w.from = x
      BY <1>2, <1>3, <2>2 DEF OnlyCopied, Copied
    <3>2. ASSUME w.copy.link # w.from PROVE FALSE
      BY <1>10, <2>1, <3>1, <3>2 DEF NewsOf, IsLive
    <3> QED BY <3>1, <3>2
  <2>4. OnlyCopied(w, f, x)
    BY <1>2, <2>2, <2>3 DEF OnlyCopied, Copied
  <2>5. \A q \in CalCalls : OnlyCopied(work'[q], f, x)
    BY <1>5, <1>10, <2>4
  <2> QED BY <2>5 DEF OnlyCopied, Copied
<1> QED BY <1>4, <1>7, <1>8, <1>9, <1>10, UnusedIsUnnamed DEF ChangesRight

(* Google's answer is of an entry that is the event's own.                     *)
LEMMA NewAnswerIsOwn ==
    ASSUME CalTypeOK, SyncInv, OwnInv, NEW p \in CalCalls, NEW w \in CallLocals,
           HasPushed(p, w), EntriesGoOn, ChangesRight, Answers(work[p], w), IsAnswered(w)
    PROVE  /\ AnswerIsNamed(w, w.e, w.copy.link)'
           /\ <<p, w.e>> \notin behind => AnswerIsOwn(w, w.e, w.copy.link)'
<1>1. PICK v \in CallLocals : v = work[p]
  BY DEF CalTypeOK
<1>2. PICK e, x : e = v.e /\ x = w.copy.link
  OBVIOUS
<1>3. v.pc = "push" /\ w.e = e
  BY <1>1, <1>2 DEF HasPushed, Is
<1>4. e \in CalEvents /\ x \in Entries /\ x # 0 /\ e # 0
  BY <1>1, <1>2, <1>3, CalendarAssumption DEF CalTypeOK, CallLocals, Docs, IsAnswered
<1>5. /\ x = v.copy.link \/ cal[x].state = "unused"
      /\ IsLive(x)' /\ cal'[x].event = e /\ cal'[x].etag = w.copy.etag
  BY <1>1, <1>2, <1>4 DEF Answers, IsAnswered, IsLive
<1>6. AnswerIsNamed(w, e, x)'
  BY <1>4, <1>5 DEF AnswerIsNamed
<1>7. ASSUME <<p, e>> \notin behind PROVE AnswerIsOwn(w, e, x)'
  <2>1. CASE cal[x].state = "unused"
    <3>1. \A f \in CalEvents : Links(f, x)' => f = e
      BY <1>4, <1>5, <2>1 DEF ChangesRight
    <3>2. ~IsListed(x, 0)'
      BY <1>4, <2>1, UnusedIsUnnamed DEF ChangesRight
    <3> QED BY <1>5, <3>1, <3>2 DEF AnswerIsOwn
  <2>2. CASE cal[x].state # "unused"
    <3>1. Links(e, x) /\ doc[e].link = x
      BY <1>1, <1>2, <1>3, <1>4, <1>5, <1>7, <2>2 DEF OwnInv, LinksAreCurrent, LinkIsCurrent, Links
    <3>2. ASSUME NEW f \in CalEvents, f # e, Links(f, x)' PROVE Twins(e, f)'
      <4>1. IsLive(x) /\ Links(f, x)
        BY <1>4, <1>5, <2>2, <3>2 DEF ChangesRight
      <4>2. Twins(e, f)
        BY <1>4, <3>1, <3>2, <4>1 DEF OwnInv, LiveEntryOfOne, Names
      <4> QED BY <4>2 DEF Twins, ChangesRight
    <3> QED BY <1>5, <3>1, <3>2 DEF AnswerIsOwn, ChangesRight
  <2> QED BY <2>1, <2>2
<1> QED BY <1>2, <1>3, <1>6, <1>7 DEF AnswerIsNamed, AnswerIsOwn, IsLive

LEMMA PushIsOwn ==
    ASSUME CalTypeOK, SyncInv, OwnInv, CalTypeOK', NEW p \in CalCalls, PushStep(p) PROVE OwnInv'
<1>1. PICK w \in CallLocals :
        /\ HasPushed(p, w) /\ NewsOf(w) /\ EntriesGoOn
        /\ ChangesEntry(work[p]) /\ Answers(work[p], w)
        /\ UNCHANGED <<doc, token, doubled, unseen, adrift, behind>>
  BY DEF PushStep
<1>2. ChangesRight
  BY <1>1, PushChangesRight
<1>3. PICK v \in CallLocals : v = work[p]
  BY DEF CalTypeOK
<1>4. /\ v.pc = "push" /\ work' = [work EXCEPT ![p] = w] /\ w.pc = "mark" /\ w.e = v.e /\ w.items = v.items
      /\ w.todo = v.todo /\ w.next = v.next
  BY <1>1, <1>3 DEF HasPushed, Is
<1>5. \A q \in CalCalls : work'[q] = IF q = p THEN w ELSE work[q]
  BY <1>4 DEF CalTypeOK
<1>6. AnswersAreOwn'
  <2> SUFFICES ASSUME NEW q \in CalCalls, IsAnswered(work[q])'
               PROVE  /\ AnswerIsNamed(work[q], work[q].e, work[q].copy.link)'
                      /\ (<<q, work[q].e>> \notin behind)' =>
                           AnswerIsOwn(work[q], work[q].e, work[q].copy.link)'
    BY DEF AnswersAreOwn
  <2>1. CASE q = p
    <3>1. work'[q] = w /\ IsAnswered(w)
      BY <1>5, <2>1 DEF IsAnswered
    <3>2. /\ AnswerIsNamed(w, w.e, w.copy.link)'
          /\ <<p, w.e>> \notin behind => AnswerIsOwn(w, w.e, w.copy.link)'
      BY <1>1, <1>2, <3>1, NewAnswerIsOwn
    <3> QED BY <1>1, <2>1, <3>1, <3>2 DEF AnswerIsNamed, AnswerIsOwn, IsLive
  <2>2. CASE q # p
    <3>1. work'[q] = work[q] /\ IsAnswered(work[q])
      BY <1>5, <2>2 DEF IsAnswered
    <3> QED BY <1>2, <3>1, AnswerStaysOwn
  <2> QED BY <2>1, <2>2
<1>7. LinksAreCurrent'
  <2>1. \A f \in CalEvents : <<p, f>> \notin behind' => LinkIsCurrent(w, f)'
    BY <1>1, <1>3, <1>4 DEF OwnInv, LinksAreCurrent, LinkIsCurrent
  <2>2. OthersGrowOld(p)
    BY <1>1 DEF OthersGrowOld
  <2> QED BY <1>4, <2>1, <2>2, LinksStayCurrent DEF OwnInv
<1>8. CopiesAreOfMade'
  <2>1. \A f \in CalEvents : HoldsCopy(w, f) => doc'[f].status # "none"
    BY <1>1, <1>3, <1>4 DEF OwnInv, CopiesAreOfMade, HoldsCopy
  <2> QED BY <1>1, <1>4, <2>1, CopiesStayOfMade DEF OwnInv
<1>9. Clocks'
  <2>1. NewEtags
    BY <1>2 DEF ChangesRight
  <2>2. IsClocked(v) /\ (v.next # 0 => p \in Ticks)
    BY <1>3 DEF OwnInv, Clocks
  <2>3. IsClocked(v)'
    BY <1>1, <2>1, <2>2, ClockedStays
  <2>4. w.copy.etag <= clock'
    <3>1. CASE w.copy.etag \in {0, v.copy.etag}
      BY <1>1, <2>3, <3>1 DEF IsClocked, EntriesGoOn
    <3>2. CASE w.copy.link \in Entries /\ cal'[w.copy.link].etag = w.copy.etag
      <4>1. cal'[w.copy.link].etag <= clock'
        <5>1. /\ cal[w.copy.link].etag <= clock /\ clock <= clock' /\ cal[w.copy.link].etag \in Nat
              /\ clock \in Nat /\ clock' \in Nat
          BY <1>1, <3>2 DEF SyncInv, EntriesAreTrue, EntriesGoOn, CalTypeOK, EntryDocs
        <5>2. CASE cal'[w.copy.link] = cal[w.copy.link]
          BY <5>1, <5>2
        <5>3. CASE cal'[w.copy.link] # cal[w.copy.link]
          BY <1>1, <3>2, <5>3 DEF EntriesGoOn
        <5> QED BY <5>2, <5>3
      <4> QED BY <3>2, <4>1
    <3> QED BY <1>1, <1>3, <3>1, <3>2 DEF Answers
  <2>5. IsClocked(w)'
    BY <1>4, <2>3, <2>4 DEF IsClocked
  <2>6. \A f \in CalEvents : doc'[f].etag <= clock'
    BY <1>1, DocsStayClocked DEF OwnInv
  <2> QED BY <1>1, <1>4, <2>1, <2>2, <2>5, <2>6, ClocksStay DEF OwnInv
<1> QED BY <1>2, <1>6, <1>7, <1>8, <1>9, OwnAfterChange DEF OwnInv
-----------------------------------------------------------------------------
(* Entries are of one event after every step.                                  *)
LEMMA OwnStep == ASSUME OneTick, CalTypeOK, SyncInv, OwnInv, [CalNext]_calvars PROVE OwnInv'
<1>1. CASE UNCHANGED calvars
  <2> USE <1>1 DEF calvars, histories
  <2>1. CopiesAreOfMade' /\ LinksAreCurrent' /\ DocsShareNone'
    BY DEF OwnInv, CopiesAreOfMade, LinksAreCurrent, LinkIsCurrent, HoldsCopy, DocsShareNone, Twins
  <2>2. LiveEntryOfOne' /\ ListedEntryOfOne' /\ ListedIsNamed'
    BY DEF OwnInv, LiveEntryOfOne, ListedEntryOfOne, ListedIsNamed, IsLive, Names, Links, Copied,
           IsListed, Lists, Twins
  <2>3. AddedIsKnown'
    BY DEF OwnInv, AddedIsKnown, IsLive, Links, Copied, IsListed, Lists, OnlyCopied
  <2>4. AnswersAreOwn'
    BY DEF OwnInv, AnswersAreOwn, IsAnswered, AnswerIsNamed, AnswerIsOwn, IsLive, Links, Copied,
           IsListed, Lists, Twins
  <2>5. Clocks'
    BY DEF OwnInv, Clocks, IsClocked
  <2> QED BY <2>1, <2>2, <2>3, <2>4, <2>5 DEF OwnInv
<1>2. ASSUME NEW p \in CalCalls, ScreenCall(p) PROVE OwnInv'
  BY <1>2, ScreensSave, SavedIsOwn, SyncEventIsOwn, UpdateOtherIsOwn DEF ScreenCall
<1>3. ASSUME NEW p \in Ticks, Pull(p) PROVE OwnInv'
  BY <1>3, FetchIsOwn, PullEndIsOwn DEF Pull, CalCalls
<1>4. ASSUME NEW p \in CalCalls, CalProceed(p) PROVE OwnInv'
  <2>1. CASE PushDelete(p) \/ PushPatch(p) \/ PushInsert(p) \/ PushFails(p)
    BY <2>1, PushDeletePushes, PushPatchPushes, PushInsertPushes, PushFailsPushes, PushIsOwn
  <2>2. CASE Mark(p) \/ EndPull(p)
    BY <2>2, MarkIsOwn, PullEndIsOwn
  <2>3. CASE ApplyDeleted(p) \/ ApplyNewer(p) \/ ImportNew(p)
    BY <2>3, ApplyDeletedIsOwn, ApplyNewerIsOwn, ImportNewIsOwn
  <2>4. CASE PushBack(p) \/ PassOver(p)
    BY <2>4, PushBackIsOwn, PassOverIsOwn
  <2> QED BY <1>4, <2>1, <2>2, <2>3, <2>4 DEF CalProceed
<1>5. ASSUME NEW p \in CalCalls, CalDie(p) PROVE OwnInv'
  BY <1>5, CalDieIsOwn
<1>6. CASE User
  BY <1>6, UserIsOwn
<1> QED BY <1>1, <1>2, <1>3, <1>4, <1>5, <1>6 DEF CalNext, CalCalls
-----------------------------------------------------------------------------
(* A change of entry x is still to be listed, or is on the list as it is.        *)
IsDue(x) ==
    /\ token < cal[x].etag
    /\ \A p \in CalCalls : work[p].next # 0 =>
         work[p].next < cal[x].etag \/ [x |-> x, entry |-> cal[x]] \in work[p].items

(* What event e says as d is in the calendar, or the calendar's change will come. *)
IsSame(e, d) ==
    \/ e \in doubled \/ d.link \in unseen \/ cal[d.link].value = AllDay
    \/ IsLive(d.link) /\ cal[d.link].value = d.value
Awaits(d) == IsDue(d.link) /\ d.etag # cal[d.link].etag
Fits(e, d) == d.sync = "synced" =>
    \/ d.status = "cancelled" /\ d.link = 0
    \/ d.status = "live" /\ d.link # 0 /\ (IsSame(e, d) \/ Awaits(d))

IsBusy(e) == \E p \in CalCalls : work[p].e = e
DocsFit == \A e \in CalEvents :
    doc[e].status # "none" => e \in adrift \/ IsBusy(e) \/ Fits(e, doc[e])

(* The same of an answer that is to be saved.                                    *)
AnswerAwaits(d) == Awaits(d) /\ d.updated < cal[d.link].etag
AnswerFits(w, e, l) == w.pc = "mark" /\ w.copy.sync = "synced" =>
    \/ w.copy.status = "cancelled" /\ w.copy.link = 0
    \/ /\ w.copy.status = "live" /\ w.copy.link # 0
       /\ IsSame(e, w.copy) \/ AnswerAwaits(w.copy) \/ l \notin {0, w.copy.link}
AnswersFit == \A p \in CalCalls :
    work[p].pc = "mark" => <<p, work[p].e>> \in behind \/ AnswerFits(work[p], work[p].e, doc[work[p].e].link)

MirrorInv == DocsFit /\ AnswersFit
-----------------------------------------------------------------------------
(* At first there is nothing to fit.                                           *)
LEMMA MirrorInitHolds == CalInit => MirrorInv
  BY DEF CalInit, MirrorInv, DocsFit, AnswersFit, NoDoc, Resting

(* What fits goes on to, while its entry stays and its change is not dealt with.  *)
SameGoesOn == doubled \subseteq doubled' /\ unseen \subseteq unseen'
DueGoesOn(x) == IsDue(x) => IsDue(x)' \/ x \in unseen'

LEMMA FitGoesOn ==
    ASSUME SameGoesOn, NEW e, NEW d, cal'[d.link] = cal[d.link], DueGoesOn(d.link), Fits(e, d)
    PROVE  Fits(e, d)'
<1>1. IsSame(e, d) => IsSame(e, d)'
  BY DEF IsSame, SameGoesOn, IsLive
<1>2. Awaits(d) => Awaits(d)' \/ IsSame(e, d)'
  <2>1. PICK x : x = d.link
    OBVIOUS
  <2>2. IsDue(x) => IsDue(x)' \/ x \in unseen'
    BY <2>1 DEF DueGoesOn, IsDue
  <2> QED BY <2>1, <2>2 DEF Awaits, IsSame, IsDue
<1> QED BY <1>1, <1>2 DEF Fits

LEMMA AnswerGoesOn ==
    ASSUME SameGoesOn, NEW w, NEW e, NEW l, cal'[w.copy.link] = cal[w.copy.link], DueGoesOn(w.copy.link),
           AnswerFits(w, e, l)
    PROVE  AnswerFits(w, e, l)'
<1>1. IsSame(e, w.copy) => IsSame(e, w.copy)'
  BY DEF IsSame, SameGoesOn, IsLive
<1>2. AnswerAwaits(w.copy) => AnswerAwaits(w.copy)' \/ IsSame(e, w.copy)'
  <2>1. PICK x : x = w.copy.link
    OBVIOUS
  <2>2. IsDue(x) => IsDue(x)' \/ x \in unseen'
    BY <2>1 DEF DueGoesOn, IsDue
  <2> QED BY <2>1, <2>2 DEF AnswerAwaits, Awaits, IsSame, IsDue
<1> QED BY <1>1, <1>2 DEF AnswerFits

(* The calls' part of it, whatever their locals become but their lists.          *)
LEMMA DueStays ==
    ASSUME CalTypeOK, NEW p \in CalCalls, NEW w, work' = [work EXCEPT ![p] = w], NEW x \in Entries,
           cal'[x] = cal[x], token' = token \/ token' < cal[x].etag, IsDue(x),
           w.next # 0 => w.next < cal[x].etag \/ [x |-> x, entry |-> cal[x]] \in w.items
    PROVE  IsDue(x)'
<1>1. \A q \in CalCalls : work'[q] = IF q = p THEN w ELSE work[q]
  BY DEF CalTypeOK
<1> QED BY <1>1 DEF IsDue

(* An entry that changes is to be listed.                                        *)
LEMMA ChangeIsDue ==
    ASSUME CalTypeOK, Clocks, NEW x \in Entries, clock < cal'[x].etag, cal'[x].etag \in Nat, token' = token,
           \A q \in CalCalls : work'[q].next = work[q].next
    PROVE  IsDue(x)'
<1>1. clock \in Nat /\ token \in Nat /\ token <= clock
  BY DEF CalTypeOK, Clocks
<1>2. \A q \in CalCalls : work[q].next \in Nat /\ work[q].next <= clock
  BY DEF CalTypeOK, CallLocals, Clocks, IsClocked
<1>3. \A q \in CalCalls : work[q].next < cal'[x].etag
  BY <1>1, <1>2
<1> QED BY <1>1, <1>3 DEF IsDue

(* An event still fits while entries change, or its entry is due.              *)
LEMMA FitAfterChange ==
    ASSUME CalTypeOK, CalTypeOK', Clocks, SameGoesOn, NewEtags, token' = token,
           \A q \in CalCalls : work'[q].next = work[q].next /\ work'[q].items = work[q].items,
           NEW e, NEW d \in Docs, d.etag <= clock
    PROVE  /\ Fits(e, d) => Fits(e, d)'
           /\ d.link # 0 /\ cal'[d.link] # cal[d.link] => Awaits(d)'
           /\ d.link # 0 => DueGoesOn(d.link)
<1>1. d.link \in Entries \cup {0} /\ d.etag \in Nat /\ clock \in Nat
  BY DEF Docs, CalTypeOK
<1>2. ASSUME NEW x \in Entries, cal'[x] # cal[x] PROVE IsDue(x)' /\ d.etag # cal'[x].etag
  <2>1. clock < cal'[x].etag /\ cal'[x].etag \in Nat
    BY <1>2 DEF NewEtags, CalTypeOK, EntryDocs
  <2>2. IsDue(x)'
    BY <2>1, ChangeIsDue
  <2> QED BY <1>1, <2>1, <2>2
<1>3. ASSUME NEW x \in Entries, IsDue(x) PROVE IsDue(x)'
  <2>1. CASE cal'[x] = cal[x]
    BY <1>3, <2>1 DEF IsDue
  <2> QED BY <1>2, <2>1
<1>4. ASSUME d.link # 0, cal'[d.link] # cal[d.link] PROVE Awaits(d)'
  <2>1. PICK x \in Entries : x = d.link
    BY <1>1, <1>4
  <2> QED BY <1>2, <1>4, <2>1 DEF Awaits, IsDue
<1>5. ASSUME d.link # 0 PROVE DueGoesOn(d.link)
  <2>1. PICK x \in Entries : x = d.link
    BY <1>1, <1>5
  <2> QED BY <1>3, <2>1 DEF DueGoesOn, IsDue
<1>6. Fits(e, d) => Fits(e, d)'
  <2>1. CASE d.link = 0
    BY <2>1 DEF Fits
  <2>2. CASE d.link # 0 /\ cal'[d.link] = cal[d.link]
    BY <1>5, <2>2, FitGoesOn
  <2>3. CASE d.link # 0 /\ cal'[d.link] # cal[d.link]
    BY <1>4, <2>3 DEF Fits
  <2> QED BY <2>1, <2>2, <2>3
<1> QED BY <1>4, <1>5, <1>6
-----------------------------------------------------------------------------
(* A step of call p that writes event e, or none: the rest goes on to fit.        *)
OldFitsStay(w, e) == \A f \in CalEvents, d \in Docs :
    f \notin {e, w.e} /\ d = doc[f] /\ d.status # "none" /\ Fits(f, d) => Fits(f, d)'
OldAnswersStay(p, e) == \A q \in CalCalls, v \in CallLocals, l \in Entries \cup {0} :
    /\ q # p /\ v = work[q] /\ v.pc = "mark" /\ v.e # e /\ <<q, v.e>> \notin behind
    /\ l = doc[v.e].link /\ AnswerFits(v, v.e, l)
    => AnswerFits(v, v.e, l)'

LEMMA MirrorHolds ==
    ASSUME CalTypeOK, MirrorInv, NEW p \in CalCalls, NEW w, work' = [work EXCEPT ![p] = w], NEW e,
           \A f \in CalEvents \ {e} : doc'[f] = doc[f] /\ (f \in adrift => f \in adrift'),
           e \in CalEvents /\ doc'[e].status # "none" => e \in adrift' \/ IsBusy(e)' \/ Fits(e, doc[e])',
           work[p].e \in {0, e, w.e} \/ work[p].e \in adrift',
           \A q \in CalCalls, f \in CalEvents : q # p /\ <<q, f>> \in behind => <<q, f>> \in behind',
           \A q \in CalCalls : q # p /\ work[q].pc = "mark" /\ work[q].e = e => <<q, e>> \in behind',
           OldFitsStay(w, e), OldAnswersStay(p, e),
           w.pc = "mark" => (<<p, w.e>> \in behind)' \/ AnswerFits(w, w.e, doc[w.e].link)'
    PROVE  MirrorInv'
<1>1. \A q \in CalCalls : work'[q] = IF q = p THEN w ELSE work[q]
  BY DEF CalTypeOK
<1>2. ASSUME NEW f \in CalEvents, doc'[f].status # "none" PROVE f \in adrift' \/ IsBusy(f)' \/ Fits(f, doc[f])'
  <2>1. CASE f = e
    BY <1>2, <2>1
  <2>2. CASE f # e
    <3>1. doc'[f] = doc[f] /\ doc[f] \in Docs /\ f # 0
      BY <2>2, CalendarAssumption DEF CalTypeOK
    <3>2. PICK d \in Docs : d = doc[f] /\ d = doc'[f]
      BY <3>1
    <3>3. CASE f \in adrift
      BY <2>2, <3>3
    <3>4. CASE IsBusy(f)
      <4>1. PICK q \in CalCalls : work[q].e = f
        BY <3>4 DEF IsBusy
      <4>2. CASE q = p
        BY <1>1, <2>2, <3>1, <4>1, <4>2 DEF IsBusy
      <4>3. CASE q # p
        BY <1>1, <4>1, <4>3 DEF IsBusy
      <4> QED BY <4>2, <4>3
    <3>5. CASE w.e = f
      BY <1>1, <3>5 DEF IsBusy
    <3>6. CASE Fits(f, doc[f]) /\ w.e # f
      <4>1. Fits(f, d)'
        BY <1>2, <2>2, <3>2, <3>6 DEF OldFitsStay
      <4> QED BY <3>2, <4>1 DEF Fits, IsSame, Awaits, IsDue, IsLive
    <3> QED BY <1>2, <3>1, <3>3, <3>4, <3>5, <3>6 DEF MirrorInv, DocsFit
  <2> QED BY <2>1, <2>2
<1>3. ASSUME NEW q \in CalCalls, work'[q].pc = "mark"
      PROVE  <<q, work'[q].e>> \in behind' \/ AnswerFits(work[q], work[q].e, doc[work[q].e].link)'
  <2>1. CASE q = p
    <3>1. work'[q] = w
      BY <1>1, <2>1
    <3> QED BY <1>3, <2>1, <3>1 DEF AnswerFits, AnswerAwaits, IsSame, Awaits, IsDue, IsLive
  <2>2. CASE q # p
    <3>1. PICK v \in CallLocals : v = work[q] /\ v = work'[q]
      BY <1>1, <2>2 DEF CalTypeOK
    <3>2. v.e \in CalEvents
      BY <1>3, <3>1 DEF CalTypeOK
    <3>3. CASE v.e = e
      BY <1>3, <2>2, <3>1, <3>3
    <3>4. CASE <<q, v.e>> \in behind
      BY <2>2, <3>1, <3>2, <3>4
    <3>5. CASE v.e # e /\ <<q, v.e>> \notin behind
      <4>1. PICK l \in Entries \cup {0} : l = doc[v.e].link /\ l = doc'[v.e].link
        BY <3>2, <3>5 DEF CalTypeOK, Docs
      <4>2. AnswerFits(v, v.e, l)
        BY <1>3, <3>1, <3>5, <4>1 DEF MirrorInv, AnswersFit
      <4>3. AnswerFits(v, v.e, l)'
        BY <1>3, <2>2, <3>1, <3>5, <4>1, <4>2 DEF OldAnswersStay
      <4> QED BY <3>1, <4>1, <4>3 DEF AnswerFits, AnswerAwaits, IsSame, Awaits, IsDue, IsLive
    <3> QED BY <3>3, <3>4, <3>5
  <2> QED BY <2>1, <2>2
<1> QED BY <1>2, <1>3 DEF MirrorInv, DocsFit, AnswersFit

(* Nothing that is due is dealt with.                                            *)
LEMMA OldStaysIfDue ==
    ASSUME CalTypeOK, SyncInv, cal' = cal, SameGoesOn,
           \A x \in Entries : cal[x].state # "unused" => DueGoesOn(x)
    PROVE  \A p, w, e : OldFitsStay(w, e) /\ OldAnswersStay(p, e)
<1> SUFFICES ASSUME NEW p, NEW w, NEW e PROVE OldFitsStay(w, e) /\ OldAnswersStay(p, e)
  OBVIOUS
<1>1. OldFitsStay(w, e)
  <2> SUFFICES ASSUME NEW f \in CalEvents, NEW d \in Docs, d = doc[f], Fits(f, d) PROVE Fits(f, d)'
    BY DEF OldFitsStay
  <2>1. CASE d.link = 0
    BY <2>1 DEF Fits
  <2>2. CASE d.link # 0
    <3>1. DueGoesOn(d.link)
      BY <2>2 DEF SyncInv, DocsAreTrue, DocWasTrue, IsUsed, Docs
    <3> QED BY <3>1, FitGoesOn
  <2> QED BY <2>1, <2>2
<1>2. OldAnswersStay(p, e)
  <2> SUFFICES ASSUME NEW q \in CalCalls, NEW v \in CallLocals, NEW l, v = work[q], AnswerFits(v, v.e, l)
               PROVE  AnswerFits(v, v.e, l)'
    BY DEF OldAnswersStay
  <2>1. CASE v.copy.link = 0
    BY <2>1 DEF AnswerFits
  <2>2. CASE v.copy.link # 0
    <3>1. DueGoesOn(v.copy.link)
      BY <2>2 DEF SyncInv, CallsWereTrue, LocalsWereTrue, DocWasTrue, IsUsed, CallLocals, Docs
    <3> QED BY <3>1, AnswerGoesOn
  <2> QED BY <2>1, <2>2
<1> QED BY <1>1, <1>2
-----------------------------------------------------------------------------
(* The steps that write neither an event nor an entry.                           *)
LEMMA QuietMirrors ==
    ASSUME CalTypeOK, MirrorInv, NEW p \in CalCalls, NEW w, work' = [work EXCEPT ![p] = w],
           doc' = doc, adrift \subseteq adrift', w.pc # "mark",
           work[p].e \in {0, w.e} \/ work[p].e \in adrift',
           \A q \in CalCalls, f \in CalEvents : q # p /\ <<q, f>> \in behind => <<q, f>> \in behind',
           OldFitsStay(w, 0), OldAnswersStay(p, 0)
    PROVE  MirrorInv'
<1>1. 0 \notin CalEvents
  BY CalendarAssumption
<1>2. \A q \in CalCalls : work[q].pc = "mark" => work[q].e # 0
  BY <1>1 DEF CalTypeOK
<1> QED BY <1>1, <1>2, MirrorHolds

(* A call that begins to push or to pull, ends, or dies.                       *)
LEMMA SyncEventMirrors ==
    ASSUME CalTypeOK, SyncInv, MirrorInv, NEW p \in CalCalls, SyncEvent(p) PROVE MirrorInv'
<1>1. PICK w \in CallLocals : \E e \in CalEvents :
        /\ w = [work[p] EXCEPT !.pc = "push", !.e = e, !.copy = doc[e]]
        /\ work' = [work EXCEPT ![p] = w] /\ doc[e].status # "none"
  BY SyncEventPushes
<1>2. work[p] = Resting
  BY IdleHoldsNothing DEF SyncEvent, SyncInv
<1>3. work' = [work EXCEPT ![p] = w] /\ w.pc = "push" /\ w.next = 0 /\ work[p].e = 0
  BY <1>1, <1>2 DEF Resting
<1>4. UNCHANGED <<doc, cal, token, doubled, unseen, adrift, behind>>
  BY DEF SyncEvent, histories
<1>5. \A x \in Entries : DueGoesOn(x)
  BY <1>3, <1>4, DueStays DEF DueGoesOn
<1>6. OldFitsStay(w, 0) /\ OldAnswersStay(p, 0)
  BY <1>4, <1>5, OldStaysIfDue DEF SameGoesOn
<1> QED BY <1>3, <1>4, <1>6, QuietMirrors

LEMMA FetchMirrors ==
    ASSUME CalTypeOK, SyncInv, MirrorInv, NEW p \in CalCalls, Fetch(p) \/ FetchAll(p) PROVE MirrorInv'
<1>1. UNCHANGED <<doc, cal, doubled, behind, token, adrift>> /\ unseen \subseteq unseen'
  BY FetchLists DEF Fetch, FetchAll, histories
<1>2. PICK w \in CallLocals : \E xs : HasListed(p, w, xs) /\ ListsChanges(xs)
  BY FetchLists
<1>3. PICK xs : HasListed(p, w, xs) /\ ListsChanges(xs)
  BY <1>2
<1>4. work[p] = Resting
  BY <1>3, IdleHoldsNothing DEF SyncInv, HasListed
<1>5. /\ work' = [work EXCEPT ![p] = w] /\ w.pc = "items" /\ work[p].e = 0
      /\ w.items = {[x |-> x, entry |-> cal[x]] : x \in xs}
  BY <1>3, <1>4, RestingFits DEF HasListed
<1>6. ASSUME NEW x \in Entries, cal[x].state # "unused", IsDue(x) PROVE IsDue(x)' \/ x \in unseen'
  <2>1. x \in xs \/ x \in unseen'
    BY <1>3, <1>6 DEF ListsChanges, IsDue
  <2> QED BY <1>1, <1>5, <1>6, <2>1, DueStays
<1>7. OldFitsStay(w, 0) /\ OldAnswersStay(p, 0)
  BY <1>1, <1>6, OldStaysIfDue DEF SameGoesOn, DueGoesOn
<1> QED BY <1>1, <1>5, <1>7, QuietMirrors

LEMMA PullEndMirrors ==
    ASSUME CalTypeOK, SyncInv, MirrorInv, NEW p \in CalCalls, EndPull(p) \/ PullFails(p) PROVE MirrorInv'
<1>1. UNCHANGED <<doc, cal, doubled, behind, unseen, adrift>>
  BY DEF EndPull, PullFails, histories
<1>2. PICK w \in CallLocals : Retries(w, Pending) /\ work' = [work EXCEPT ![p] = w]
  BY PullEnds
<1>3. w.next = 0 /\ w.pc # "mark"
  BY <1>2, RestingFits DEF Retries
<1>4. work[p].e = 0
  BY PullEnds, IdleHoldsNothing, PullHoldsNothing, RestingFits DEF SyncInv
<1>5. ASSUME NEW x \in Entries, IsDue(x) PROVE IsDue(x)'
  <2>1. token' = token \/ token' < cal[x].etag
    <3>1. CASE EndPull(p) /\ work[p].next # 0
      BY <1>5, <3>1 DEF EndPull, IsDue
    <3>2. CASE EndPull(p) /\ work[p].next = 0
      BY <1>5, <3>2 DEF EndPull, IsDue, CalTypeOK, EntryDocs
    <3>3. CASE PullFails(p)
      BY <3>3 DEF PullFails
    <3> QED BY <3>1, <3>2, <3>3
  <2> QED BY <1>1, <1>2, <1>3, <1>5, <2>1, DueStays
<1>6. OldFitsStay(w, 0) /\ OldAnswersStay(p, 0)
  BY <1>1, <1>5, OldStaysIfDue DEF SameGoesOn, DueGoesOn
<1> QED BY <1>1, <1>2, <1>3, <1>4, <1>6, QuietMirrors

LEMMA CalDieMirrors ==
    ASSUME CalTypeOK, SyncInv, MirrorInv, NEW p \in CalCalls, CalDie(p) PROVE MirrorInv'
<1>1. /\ UNCHANGED <<doc, cal, token, doubled, unseen>> /\ work' = [work EXCEPT ![p] = Resting]
      /\ behind' = behind \ ({p} \X CalEvents) /\ adrift \subseteq adrift'
      /\ work[p].e # 0 => work[p].e \in adrift'
  BY DEF CalDie
<1>2. \A x \in Entries : DueGoesOn(x)
  BY <1>1, RestingFits, DueStays DEF DueGoesOn
<1>3. OldFitsStay(Resting, 0) /\ OldAnswersStay(p, 0)
  BY <1>1, <1>2, OldStaysIfDue DEF SameGoesOn
<1> QED BY <1>1, <1>3, RestingFits, QuietMirrors
-----------------------------------------------------------------------------
(* The saves.                                                                    *)
LEMMA SavedMirrors ==
    ASSUME CalTypeOK, SyncInv, MirrorInv, NEW p \in CalCalls, ScreenSaves(p) PROVE MirrorInv'
<1>1. PICK e \in CalEvents, d \in Docs : SaveAndPush(p, e, d)
  BY DEF ScreenSaves
<1>2. PICK w \in CallLocals : HasSaved(p, w, e, d)
  BY <1>1, SavedTypes
<1>3. work[p] = Resting
  BY <1>1, IdleHoldsNothing DEF SyncInv, SaveAndPush
<1>4. work' = [work EXCEPT ![p] = w] /\ w.pc = "push" /\ w.e = e /\ w.next = 0 /\ work[p].e = 0
  BY <1>2, <1>3 DEF HasSaved, Resting
<1>5. UNCHANGED <<cal, token, doubled, unseen, adrift>> /\ Writes(p, e, d)
  BY <1>1 DEF SaveAndPush, Writes
<1>6. \A x \in Entries : DueGoesOn(x)
  BY <1>4, <1>5, DueStays DEF DueGoesOn
<1>7. OldFitsStay(w, e) /\ OldAnswersStay(p, e)
  BY <1>5, <1>6, OldStaysIfDue DEF SameGoesOn
<1>8. IsBusy(e)'
  BY <1>4 DEF IsBusy, CalTypeOK
<1>9. \A f \in CalEvents \ {e} : doc'[f] = doc[f]
  BY <1>5, WritesOne
<1>10. /\ \A q \in CalCalls, f \in CalEvents : q # p /\ <<q, f>> \in behind => <<q, f>> \in behind'
       /\ \A q \in CalCalls : q # p /\ work[q].pc = "mark" /\ work[q].e = e => <<q, e>> \in behind'
  BY <1>5 DEF Writes, NowBehind, Holds
<1> QED BY <1>4, <1>5, <1>7, <1>8, <1>9, <1>10, MirrorHolds

(* A change the calendar does not show makes no answer right or wrong.         *)
LEMMA UpdateOtherMirrors ==
    ASSUME CalTypeOK, SyncInv, MirrorInv, NEW p \in CalCalls, UpdateOther(p) PROVE MirrorInv'
<1>1. PICK e, d : Writes(p, e, d) /\ d.status = doc[e].status /\ d.link = doc[e].link /\ doc[e].status # "none"
                  /\ d.value = doc[e].value /\ d.etag = doc[e].etag /\ d.sync = doc[e].sync
  BY UpdateOtherWrites
<1>2. Is(p, "idle") /\ UNCHANGED <<cal, work, doubled, token, unseen, adrift>>
  BY DEF UpdateOther
<1>3. work[p] = Resting /\ work' = [work EXCEPT ![p] = Resting]
  <2>1. work[p] = Resting
    BY <1>2, IdleHoldsNothing DEF SyncInv
  <2> QED BY <1>2, <2>1 DEF CalTypeOK
<1>4. \A x \in Entries : DueGoesOn(x)
  BY <1>2 DEF DueGoesOn, IsDue
<1>5. OldFitsStay(Resting, e) /\ OldAnswersStay(p, e)
  BY <1>2, <1>4, OldStaysIfDue DEF SameGoesOn
<1>6. e \in CalEvents /\ doc'[e] = d /\ \A f \in CalEvents \ {e} : doc'[f] = doc[f]
  <2>1. e \in CalEvents
    BY <1>1 DEF Writes
  <2> QED BY <1>1, <2>1, WritesOne
<1>7. e \in adrift' \/ IsBusy(e)' \/ Fits(e, doc[e])'
  <2>1. e \in adrift \/ IsBusy(e) \/ Fits(e, doc[e])
    BY <1>1, <1>6 DEF MirrorInv, DocsFit
  <2>2. Fits(e, doc[e]) => Fits(e, d)
    BY <1>1 DEF Fits, IsSame, Awaits
  <2>3. Fits(e, d) => Fits(e, d)'
    BY <1>2 DEF Fits, IsSame, Awaits, IsDue, IsLive
  <2>4. Fits(e, d)' => Fits(e, doc[e])'
    BY <1>6 DEF Fits, IsSame, Awaits, IsDue, IsLive
  <2> QED BY <1>2, <2>1, <2>2, <2>3, <2>4 DEF IsBusy
<1>8. /\ \A q \in CalCalls, f \in CalEvents : q # p /\ <<q, f>> \in behind => <<q, f>> \in behind'
      /\ \A q \in CalCalls : q # p /\ work[q].pc = "mark" /\ work[q].e = e => <<q, e>> \in behind'
  BY <1>1 DEF Writes, NowBehind, Holds
<1> QED BY <1>2, <1>3, <1>5, <1>6, <1>7, <1>8, RestingFits, MirrorHolds
-----------------------------------------------------------------------------
(* The steps that change an entry.                                               *)
LEMMA AnswerAfterChange ==
    ASSUME CalTypeOK, CalTypeOK', Clocks, SameGoesOn, NewEtags, token' = token,
           \A q \in CalCalls : work'[q].next = work[q].next /\ work'[q].items = work[q].items,
           \A x \in Entries : cal'[x] = cal[x] \/ clock + 1 < cal'[x].etag,
           NEW v \in CallLocals, v.copy.etag <= clock, v.copy.updated <= clock + 1,
           NEW e, NEW l, AnswerFits(v, e, l)
    PROVE  AnswerFits(v, e, l)'
<1>1. PICK d \in Docs : d = v.copy
  BY DEF CallLocals
<1>2. d.link \in Entries \cup {0} /\ d.updated \in Nat /\ clock \in Nat
  BY DEF Docs, CalTypeOK
<1>3. CASE d.link = 0
  BY <1>1, <1>3 DEF AnswerFits
<1>4. CASE d.link # 0 /\ cal'[d.link] = cal[d.link]
  <2>1. DueGoesOn(d.link)
    BY <1>1, <1>4, FitAfterChange
  <2> QED BY <1>1, <1>4, <2>1, AnswerGoesOn
<1>5. CASE d.link # 0 /\ cal'[d.link] # cal[d.link]
  <2>1. Awaits(d)'
    BY <1>1, <1>5, FitAfterChange
  <2>2. d.updated < cal'[d.link].etag
    <3>1. cal'[d.link].etag \in Nat
      BY <1>2, <1>5 DEF CalTypeOK, EntryDocs
    <3> QED BY <1>1, <1>2, <1>5, <3>1
  <2>3. AnswerAwaits(v.copy)'
    BY <1>1, <2>1, <2>2 DEF AnswerAwaits, Awaits, IsDue
  <2> QED BY <2>3 DEF AnswerFits
<1> QED BY <1>2, <1>3, <1>4, <1>5

LEMMA OldStaysAfterChange ==
    ASSUME CalTypeOK, CalTypeOK', SyncInv, OwnInv, SameGoesOn, NewEtags, token' = token,
           \A q \in CalCalls : work'[q].next = work[q].next /\ work'[q].items = work[q].items,
           \A x \in Entries : cal'[x] = cal[x] \/ clock + 1 < cal'[x].etag
    PROVE  \A p, w, e : OldFitsStay(w, e) /\ OldAnswersStay(p, e)
<1> SUFFICES ASSUME NEW p, NEW w, NEW e PROVE OldFitsStay(w, e) /\ OldAnswersStay(p, e)
  OBVIOUS
<1>1. OldFitsStay(w, e)
  <2> SUFFICES ASSUME NEW f \in CalEvents, NEW d \in Docs, d = doc[f], Fits(f, d) PROVE Fits(f, d)'
    BY DEF OldFitsStay
  <2>1. d.etag <= clock
    BY DEF OwnInv, Clocks
  <2> QED BY <2>1, FitAfterChange DEF OwnInv
<1>2. OldAnswersStay(p, e)
  <2> SUFFICES ASSUME NEW q \in CalCalls, NEW v \in CallLocals, NEW l, v = work[q], AnswerFits(v, v.e, l)
               PROVE  AnswerFits(v, v.e, l)'
    BY DEF OldAnswersStay
  <2>1. v.copy.etag <= clock
    BY DEF OwnInv, Clocks, IsClocked
  <2>2. v.copy.updated <= clock + 1
    BY DEF SyncInv, CallsWereTrue, LocalsWereTrue, DocWasTrue
  <2> QED BY <2>1, <2>2, AnswerAfterChange DEF OwnInv
<1> QED BY <1>1, <1>2

(* An entry that changes is newer than any save.                               *)
LEMMA BecomesNewer ==
    ASSUME CalTypeOK, NEW y, NEW n, EntryBecomes(y, n)
    PROVE  \A x \in Entries : cal'[x] = cal[x] \/ clock + 1 < cal'[x].etag
<1>1. \A x \in Entries : cal'[x] = IF x = y THEN n ELSE cal[x]
  BY EntryBecomesNew
<1>2. clock + 1 < n.etag
  BY DEF EntryBecomes, CalTypeOK
<1> QED BY <1>1, <1>2

(* The users' changes are due.                                                 *)
LEMMA UserMirrors ==
    ASSUME CalTypeOK, SyncInv, OwnInv, MirrorInv, User PROVE MirrorInv'
<1>1. UsersStep /\ CalTypeOK'
  BY UsersGoOn
<1>2. PICK y, n : EntryBecomes(y, n)
  BY <1>1 DEF UsersStep, UsersChange
<1>3. UNCHANGED <<doc, token, work, behind, unseen, adrift>> /\ SameGoesOn
  BY <1>1 DEF UsersStep, SameGoesOn
<1>4. NewEtags /\ \A x \in Entries : cal'[x] = cal[x] \/ clock + 1 < cal'[x].etag
  BY <1>2, EntryBecomesNew, BecomesNewer
<1>5. \A p, w, e : OldFitsStay(w, e) /\ OldAnswersStay(p, e)
  BY <1>1, <1>3, <1>4, OldStaysAfterChange
<1>6. DocsFit'
  <2> SUFFICES ASSUME NEW f \in CalEvents, doc'[f].status # "none"
               PROVE  f \in adrift' \/ IsBusy(f)' \/ Fits(f, doc[f])'
    BY DEF DocsFit
  <2>1. PICK d \in Docs : d = doc[f]
    BY DEF CalTypeOK
  <2>2. CASE Fits(f, d)
    <3>1. PICK w : w = Resting
      OBVIOUS
    <3>2. OldFitsStay(w, 0) /\ f # 0 /\ f # w.e
      BY <1>5, <3>1, RestingFits, CalendarAssumption
    <3>3. Fits(f, d)'
      BY <1>3, <2>1, <2>2, <3>2 DEF OldFitsStay
    <3> QED BY <1>3, <2>1, <3>3 DEF Fits, IsSame, Awaits, IsDue, IsLive
  <2> QED BY <1>3, <2>1, <2>2 DEF MirrorInv, DocsFit, IsBusy
<1>7. AnswersFit'
  <2> SUFFICES ASSUME NEW q \in CalCalls, work'[q].pc = "mark"
               PROVE  (<<q, work[q].e>> \in behind)' \/ AnswerFits(work[q], work[q].e, doc[work[q].e].link)'
    BY DEF AnswersFit
  <2>1. PICK v \in CallLocals : v = work[q] /\ v = work'[q]
    BY <1>3 DEF CalTypeOK
  <2>2. v.e \in CalEvents
    BY <1>3, <2>1 DEF CalTypeOK
  <2>3. PICK l \in Entries \cup {0} : l = doc[v.e].link
    BY <2>2 DEF CalTypeOK, Docs
  <2>4. CASE <<q, v.e>> \notin behind
    <3>1. AnswerFits(v, v.e, l)
      BY <1>3, <2>1, <2>3, <2>4 DEF MirrorInv, AnswersFit
    <3>2. v.copy.etag <= clock
      BY <2>1 DEF OwnInv, Clocks, IsClocked
    <3>3. v.copy.updated <= clock + 1
      BY <2>1 DEF SyncInv, CallsWereTrue, LocalsWereTrue, DocWasTrue
    <3>4. token' = token /\ \A r \in CalCalls : work'[r].next = work[r].next /\ work'[r].items = work[r].items
      BY <1>3
    <3>5. Clocks
      BY DEF OwnInv
    <3>6. AnswerFits(v, v.e, l)'
      BY <1>1, <1>3, <1>4, <3>1, <3>2, <3>3, <3>4, <3>5, AnswerAfterChange
    <3> QED BY <1>3, <2>1, <2>3, <3>6 DEF AnswerFits, AnswerAwaits, IsSame, Awaits, IsDue, IsLive
  <2> QED BY <1>3, <2>1, <2>4
<1> QED BY <1>6, <1>7 DEF MirrorInv

(* Google answers with the entry as it is.                                     *)
LEMMA PushMirrors ==
    ASSUME CalTypeOK, CalTypeOK', SyncInv, OwnInv, MirrorInv, NEW p \in CalCalls, PushStep(p) PROVE MirrorInv'
<1>1. PICK w \in CallLocals :
        /\ HasPushed(p, w) /\ NewsOf(w) /\ EntriesGoOn
        /\ ChangesEntry(work[p]) /\ Answers(work[p], w)
        /\ UNCHANGED <<doc, token, doubled, unseen, adrift, behind>>
  BY DEF PushStep
<1>2. /\ work' = [work EXCEPT ![p] = w] /\ w.pc = "mark" /\ w.e = work[p].e /\ w.items = work[p].items
      /\ w.next = work[p].next
  BY <1>1 DEF HasPushed
<1>3. \A q \in CalCalls : work'[q].next = work[q].next /\ work'[q].items = work[q].items
  BY <1>2 DEF CalTypeOK
<1>4. NewEtags /\ \A x \in Entries : cal'[x] = cal[x] \/ clock + 1 < cal'[x].etag
  <2>1. CASE UNCHANGED <<cal, clock>>
    BY <2>1 DEF NewEtags
  <2>2. CASE \E y, n : EntryBecomes(y, n)
    BY <2>2, EntryBecomesNew, BecomesNewer
  <2> QED BY <1>1, <2>1, <2>2 DEF ChangesEntry
<1>5. OldFitsStay(w, 0) /\ OldAnswersStay(p, 0)
  BY <1>1, <1>3, <1>4, OldStaysAfterChange DEF SameGoesOn
<1>6. AnswerFits(w, w.e, doc[w.e].link)'
  <2>1. CASE w.copy.sync = "error"
    BY <2>1 DEF AnswerFits
  <2>2. CASE w.copy.status = "cancelled" /\ w.copy.link = 0
    BY <2>2 DEF AnswerFits
  <2>3. CASE /\ w.copy.status = "live" /\ w.copy.link \in Entries
             /\ cal'[w.copy.link].state = "live" /\ cal'[w.copy.link].value = w.copy.value
    <3>1. w.copy.link # 0
      BY <2>3, CalendarAssumption
    <3> QED BY <2>3, <3>1 DEF AnswerFits, IsSame, IsLive
  <2> QED BY <1>1, <2>1, <2>2, <2>3 DEF Answers
<1>7. 0 \notin CalEvents /\ \A q \in CalCalls : work[q].pc = "mark" => work[q].e # 0
  BY CalendarAssumption DEF CalTypeOK
<1> QED BY <1>1, <1>2, <1>5, <1>6, <1>7, MirrorHolds

(* An answer that fits is an event that fits, unless it has another entry by now. *)
LEMMA MarkMirrors ==
    ASSUME CalTypeOK, SyncInv, MirrorInv, NEW p \in CalCalls, Mark(p) PROVE MirrorInv'
<1>1. PICK v \in CallLocals : v = work[p]
  BY DEF CalTypeOK
<1>2. PICK w \in CallLocals :
        /\ work' = [work EXCEPT ![p] = w] /\ w.pc # "mark"
        /\ w.items = v.items \/ v.next = 0
        /\ w.next = v.next
  BY <1>1, MarksOn
<1>3. PICK e, d : e = v.e /\ d = v.copy
  OBVIOUS
<1>4. v.pc = "mark" /\ e \in CalEvents /\ d \in Docs
  BY <1>1, <1>3 DEF Mark, Is, CalTypeOK, CallLocals
<1>5. /\ Writes(p, e, d) /\ UNCHANGED <<cal, token, unseen>>
      /\ adrift' = IF <<p, e>> \in behind THEN adrift \cup {e} ELSE adrift \ {e}
      /\ doubled' = doubled \cup
           IF d.link = 0 THEN {}
           ELSE IF LinkedTo(d.link) \ {e} # {} THEN LinkedTo(d.link) \cup {e}
           ELSE IF doc[e].link \notin {0, d.link} THEN {e} ELSE {}
  BY <1>1, <1>3, <1>4 DEF Mark, Writes
<1>6. \A x \in Entries : DueGoesOn(x)
  <2> SUFFICES ASSUME NEW x \in Entries, IsDue(x) PROVE IsDue(x)'
    BY DEF DueGoesOn
  <2>1. v.next # 0 => v.next < cal[x].etag \/ [x |-> x, entry |-> cal[x]] \in v.items
    BY <1>1 DEF IsDue
  <2> QED BY <1>2, <1>5, <2>1, DueStays
<1>7. SameGoesOn
  BY <1>5 DEF SameGoesOn
<1>8. OldFitsStay(w, e) /\ OldAnswersStay(p, e)
  BY <1>5, <1>6, <1>7, OldStaysIfDue
<1>9. \A f \in CalEvents : doc'[f] = IF f = e THEN d ELSE doc[f]
  BY <1>5, WritesOne
<1>10. e \in adrift' \/ Fits(e, doc[e])'
  <2>1. CASE <<p, e>> \in behind
    BY <1>5, <2>1
  <2>2. CASE <<p, e>> \notin behind
    <3>1. AnswerFits(v, e, doc[e].link)
      BY <1>1, <1>3, <1>4, <2>2 DEF MirrorInv, AnswersFit
    <3>2. ASSUME d.link # 0, doc[e].link \notin {0, d.link} PROVE e \in doubled'
      BY <1>5, <3>2
    <3>3. ASSUME d.sync = "synced", d.link # 0, IsSame(e, d) PROVE IsSame(e, d)'
      BY <1>5, <1>7, <3>3 DEF IsSame, SameGoesOn, IsLive
    <3>4. ASSUME d.link # 0, AnswerAwaits(d) PROVE Awaits(d)'
      <4>1. PICK x \in Entries : x = d.link
        BY <1>4, <3>4 DEF Docs
      <4>2. IsDue(x) /\ IsDue(x)'
        <5>1. IsDue(x)
          BY <3>4, <4>1 DEF AnswerAwaits, Awaits
        <5>2. v.next # 0 => v.next < cal[x].etag \/ [x |-> x, entry |-> cal[x]] \in v.items
          BY <1>1, <5>1 DEF IsDue
        <5> QED BY <1>2, <1>5, <5>1, <5>2, DueStays
      <4> QED BY <1>5, <3>4, <4>1, <4>2 DEF AnswerAwaits, Awaits, IsDue
    <3>5. Fits(e, d)'
      <4>1. ASSUME d.link # 0, e \in doubled' PROVE IsSame(e, d)'
        BY <4>1 DEF IsSame
      <4>2. d.sync = "synced" =>
              \/ d.status = "cancelled" /\ d.link = 0
              \/ /\ d.status = "live" /\ d.link # 0
                 /\ IsSame(e, d) \/ AnswerAwaits(d) \/ doc[e].link \notin {0, d.link}
        BY <1>3, <1>4, <3>1 DEF AnswerFits
      <4> QED BY <3>2, <3>3, <3>4, <4>1, <4>2 DEF Fits
    <3> QED BY <1>4, <1>9, <3>5 DEF Fits, IsSame, Awaits, IsDue, IsLive
  <2> QED BY <2>1, <2>2
<1>11. /\ \A q \in CalCalls, f \in CalEvents : q # p /\ <<q, f>> \in behind => <<q, f>> \in behind'
       /\ \A q \in CalCalls : q # p /\ work[q].pc = "mark" /\ work[q].e = e => <<q, e>> \in behind'
  BY <1>5 DEF Writes, NowBehind, Holds
<1>12. \A f \in CalEvents \ {e} : doc'[f] = doc[f] /\ (f \in adrift => f \in adrift')
  BY <1>5, <1>9
<1> QED BY <1>1, <1>2, <1>3, <1>8, <1>10, <1>11, <1>12, MirrorHolds
-----------------------------------------------------------------------------
(* The pull deals with entry i.x: its change is due no more if it is the last.    *)
LEMMA OthersStayDue ==
    ASSUME CalTypeOK, NEW p \in CalCalls, NEW w, NEW i, HasDealtWith(p, w, i), UNCHANGED <<cal, token>>,
           NEW y \in Entries, y # i.x \/ cal[y] # i.entry
    PROVE  DueGoesOn(y)
<1> SUFFICES ASSUME IsDue(y) PROVE IsDue(y)'
  BY DEF DueGoesOn
<1>1. PICK j : j = [x |-> y, entry |-> cal[y]]
  OBVIOUS
<1>2. j # i
  BY <1>1
<1>3. work[p].next # 0 => work[p].next < cal[y].etag \/ j \in work[p].items
  BY <1>1 DEF IsDue
<1>4. w.next # 0 => w.next < cal[y].etag \/ j \in w.items
  BY <1>2, <1>3 DEF HasDealtWith
<1> QED BY <1>1, <1>4, DueStays DEF HasDealtWith

(* What was waiting for it has got it, or has a reason not to.                    *)
IsSettled(f, x) == f \in doubled' \/ x \in unseen' \/ cal[x].value = AllDay
DocsSettled(w, i, e) == \A f \in CalEvents :
    f \notin {e, w.e} /\ doc[f].link = i.x => IsSettled(f, i.x) \/ ~Awaits(doc[f])
AnswersSettled(p, i, e) == \A q \in CalCalls, g \in CalEvents :
    /\ q # p /\ IsAnswered(work[q]) /\ work[q].copy.link = i.x /\ work[q].e = g /\ g # e
    /\ <<q, g>> \notin behind
    => IsSettled(g, i.x) \/ doc[g].link \notin {0, i.x} \/ ~AnswerAwaits(work[q].copy)

(* Who waits for another entry goes on to.                                     *)
LEMMA DealtStays ==
    ASSUME CalTypeOK, SyncInv, NEW p \in CalCalls, NEW w, NEW i, HasDealtWith(p, w, i),
           UNCHANGED <<cal, token>>, SameGoesOn, NEW e,
           cal[i.x] = i.entry => DocsSettled(w, i, e) /\ AnswersSettled(p, i, e)
    PROVE  OldFitsStay(w, e) /\ OldAnswersStay(p, e)
<1>1. OldFitsStay(w, e)
  <2> SUFFICES ASSUME NEW f \in CalEvents, NEW d \in Docs, f \notin {e, w.e}, d = doc[f], Fits(f, d)
               PROVE  Fits(f, d)'
    BY DEF OldFitsStay
  <2>1. CASE d.link = 0
    BY <2>1 DEF Fits
  <2>2. CASE d.link # 0 /\ (d.link # i.x \/ cal[d.link] # i.entry)
    <3>1. DueGoesOn(d.link)
      BY <2>2, OthersStayDue DEF Docs
    <3> QED BY <3>1, FitGoesOn
  <2>3. CASE d.link # 0 /\ d.link = i.x /\ cal[i.x] = i.entry
    <3>1. IsSettled(f, d.link) \/ ~Awaits(d)
      BY <2>3 DEF DocsSettled
    <3>2. IsSettled(f, d.link) => IsSame(f, d)'
      BY DEF IsSettled, IsSame
    <3>3. IsSame(f, d) => IsSame(f, d)'
      BY DEF IsSame, SameGoesOn, IsLive
    <3> QED BY <3>1, <3>2, <3>3 DEF Fits
  <2> QED BY <2>1, <2>2, <2>3
<1>2. OldAnswersStay(p, e)
  <2> SUFFICES ASSUME NEW q \in CalCalls, NEW v \in CallLocals, NEW l \in Entries \cup {0},
                      q # p, v = work[q], v.pc = "mark", v.e # e, <<q, v.e>> \notin behind,
                      l = doc[v.e].link, AnswerFits(v, v.e, l)
               PROVE  AnswerFits(v, v.e, l)'
    BY DEF OldAnswersStay
  <2>1. v.e \in CalEvents /\ v.copy \in Docs
    BY DEF CalTypeOK, CallLocals
  <2>2. CASE v.copy.link = 0 \/ v.copy.sync # "synced"
    BY <2>2 DEF AnswerFits
  <2>3. CASE v.copy.link # 0 /\ (v.copy.link # i.x \/ cal[v.copy.link] # i.entry)
    <3>1. DueGoesOn(v.copy.link)
      BY <2>1, <2>3, OthersStayDue DEF Docs
    <3> QED BY <3>1, AnswerGoesOn
  <2>4. CASE v.copy.sync = "synced" /\ v.copy.link # 0 /\ v.copy.link = i.x /\ cal[i.x] = i.entry
    <3>1. IsAnswered(v)
      BY <2>4 DEF IsAnswered
    <3>2. IsSettled(v.e, v.copy.link) \/ l \notin {0, v.copy.link} \/ ~AnswerAwaits(v.copy)
      BY <2>1, <2>4, <3>1 DEF AnswersSettled
    <3>3. IsSettled(v.e, v.copy.link) => IsSame(v.e, v.copy)'
      BY DEF IsSettled, IsSame
    <3>4. IsSame(v.e, v.copy) => IsSame(v.e, v.copy)'
      BY DEF IsSame, SameGoesOn, IsLive
    <3> QED BY <3>2, <3>3, <3>4 DEF AnswerFits
  <2> QED BY <2>2, <2>3, <2>4
<1> QED BY <1>1, <1>2

(* Of the events that an entry could belong to but the one found, each is doubled. *)
LEMMA FoundSettles ==
    ASSUME CalTypeOK, OwnInv, NEW i, i.x \in Entries, NEW e \in CalEvents,
           doc[e].link = i.x \/ IsListed(i.x, e), doubled \subseteq doubled'
    PROVE  /\ \A f \in CalEvents : f # e /\ doc[f].link = i.x => IsSettled(f, i.x)
           /\ \A q \in CalCalls, g \in CalEvents :
                IsAnswered(work[q]) /\ work[q].copy.link = i.x /\ work[q].e = g /\ g # e
                  /\ <<q, g>> \notin behind => IsSettled(g, i.x)
<1>1. PICK x \in Entries : x = i.x
  OBVIOUS
<1>2. ASSUME NEW f \in CalEvents, f # e, doc[f].link = x PROVE f \in doubled
  <2>1. Links(f, x)
    BY <1>2 DEF Links
  <2>2. doc[e].link = x \/ IsListed(x, e)
    BY <1>1
  <2> QED BY <1>2, <2>1, <2>2 DEF OwnInv, DocsShareNone, ListedEntryOfOne, Twins
<1>3. ASSUME NEW q \in CalCalls, NEW g \in CalEvents, IsAnswered(work[q]), work[q].copy.link = x,
             work[q].e = g, g # e, <<q, g>> \notin behind
      PROVE  g \in doubled
  <2>1. Links(g, x)
    BY <1>3 DEF Links, Copied
  <2>2. CASE doc[e].link = x
    <3>1. Links(e, x)
      BY <2>2 DEF Links
    <3>2. AnswerIsOwn(work[q], g, x)
      BY <1>3 DEF OwnInv, AnswersAreOwn
    <3> QED BY <1>3, <3>1, <3>2 DEF AnswerIsOwn, Twins
  <2>3. CASE IsListed(x, e)
    BY <1>3, <2>1, <2>3 DEF OwnInv, ListedEntryOfOne, Twins
  <2> QED BY <1>1, <2>2, <2>3
<1> QED BY <1>1, <1>2, <1>3 DEF IsSettled

(* Where none is found, no event has the entry, and an answer that names it is of *)
(* an event that has another.                                                    *)
LEMMA NoneFoundSettles ==
    ASSUME CalTypeOK, OwnInv, NEW i, i.x \in Entries, i.entry.state = "live", FindLinked(i) = {},
           cal[i.x] = i.entry, doubled \subseteq doubled', NEW p, NEW w, NEW e
    PROVE  DocsSettled(w, i, e) /\ AnswersSettled(p, i, e)
<1>1. PICK x \in Entries : x = i.x
  OBVIOUS
<1>2. LinkedTo(x) = {} /\ ~(i.entry.event # 0 /\ doc[i.entry.event].status # "none"
                           /\ doc[i.entry.event].link \in {0, x})
  BY <1>1 DEF FindLinked
<1>3. DocsSettled(w, i, e)
  BY <1>1, <1>2 DEF DocsSettled, LinkedTo
<1>4. ASSUME NEW q \in CalCalls, NEW g \in CalEvents, IsAnswered(work[q]), work[q].copy.link = x, work[q].e = g
      PROVE  g \in doubled \/ doc[g].link \notin {0, x}
  <2>1. AnswerIsNamed(work[q], g, x)
    BY <1>4 DEF OwnInv, AnswersAreOwn
  <2>2. g \in doubled \/ i.entry.event = g
    BY <1>1, <2>1 DEF AnswerIsNamed, IsLive
  <2>3. doc[g].status # "none"
    BY <1>4 DEF OwnInv, CopiesAreOfMade, HoldsCopy
  <2> QED BY <1>2, <2>2, <2>3, CalendarAssumption
<1>5. AnswersSettled(p, i, e)
  BY <1>1, <1>4 DEF AnswersSettled, IsSettled
<1> QED BY <1>3, <1>5

(* An event found has the entry, or the list says it was made for it.          *)
LEMMA FoundIsListed ==
    ASSUME CalTypeOK, NEW p \in CalCalls, NEW w, NEW i, HasDealtWith(p, w, i), i.x \in Entries,
           i.entry \in EntryDocs, i.entry.state = "live", NEW e \in FindLinked(i)
    PROVE  e \in CalEvents /\ (doc[e].link = i.x \/ IsListed(i.x, e))
<1>1. e \in CalEvents
  BY FoundIsAnEvent
<1>2. CASE i.entry.event = e
  <2>1. Lists(work[p], i.x, e)
    BY <1>2 DEF HasDealtWith, Lists
  <2> QED BY <1>1, <2>1 DEF IsListed
<1>3. CASE i.entry.event # e
  <2>1. e \in LinkedTo(i.x)
    BY <1>3 DEF FindLinked
  <2> QED BY <1>1, <2>1 DEF LinkedTo
<1> QED BY <1>2, <1>3

(* An event that takes over what the list says of an entry fits: that is what is  *)
(* there, or the entry has changed since and will be listed again.                *)
LEMMA TakenFits ==
    ASSUME CalTypeOK, SyncInv, OwnInv, OneTick, NEW p \in CalCalls, NEW w, NEW i, HasDealtWith(p, w, i),
           i.x \in Entries, i.entry \in EntryDocs, i.entry.state = "live", UNCHANGED <<cal, token>>,
           NEW e, NEW d, d.status = "live", d.link = i.x, d.value = i.entry.value, d.etag = i.entry.etag
    PROVE  Fits(e, d)'
<1>1. PICK x \in Entries : x = i.x /\ x # 0
  BY CalendarAssumption
<1>2. i \in work[p].items /\ work' = [work EXCEPT ![p] = w] /\ w.next = work[p].next
  BY DEF HasDealtWith
<1>3. /\ work[p].next # 0 /\ token <= work[p].next /\ i.entry.etag <= work[p].next
      /\ cal[x] = i.entry \/ work[p].next < cal[x].etag
  BY <1>1, <1>2 DEF OwnInv, Clocks, IsClocked
<1>4. CASE cal[x] = i.entry
  <2>1. IsSame(e, d)'
    BY <1>1, <1>4 DEF IsSame, IsLive
  <2> QED BY <1>1, <2>1 DEF Fits
<1>5. CASE work[p].next < cal[x].etag
  <2>1. work[p].next \in Nat /\ token \in Nat /\ cal[x].etag \in Nat /\ i.entry.etag \in Nat
    BY DEF CalTypeOK, CallLocals, EntryDocs
  <2>2. token < cal[x].etag /\ d.etag # cal[x].etag
    BY <1>3, <1>5, <2>1
  <2>3. ASSUME NEW q \in CalCalls, work'[q].next # 0 PROVE work'[q].next < cal[x].etag
    <3>1. work'[q] = IF q = p THEN w ELSE work[q]
      BY <1>2 DEF CalTypeOK
    <3>2. CASE q = p
      BY <1>2, <1>5, <3>1, <3>2
    <3>3. CASE q # p
      BY <1>3, <2>3, <3>1, <3>3, PullsOfOne DEF OwnInv
    <3> QED BY <3>2, <3>3
  <2>4. Awaits(d)'
    BY <1>1, <2>2, <2>3 DEF Awaits, IsDue
  <2> QED BY <1>1, <2>4 DEF Fits
<1> QED BY <1>3, <1>4, <1>5

(* A save makes the copies that others have old.                               *)
LEMMA OthersFallBehind ==
    ASSUME NEW p, NEW e, NEW d, Writes(p, e, d)
    PROVE  /\ \A q \in CalCalls, f \in CalEvents : q # p /\ <<q, f>> \in behind => <<q, f>> \in behind'
           /\ \A q \in CalCalls : q # p /\ work[q].pc = "mark" /\ work[q].e = e => <<q, e>> \in behind'
  BY DEF Writes, NowBehind, Holds
-----------------------------------------------------------------------------
(* The steps of the pull that deal with an entry.                                *)
LEMMA ApplyNewerMirrors ==
    ASSUME CalTypeOK, SyncInv, OwnInv, MirrorInv, OneTick, NEW p \in CalCalls, ApplyNewer(p) PROVE MirrorInv'
<1>1. PICK w, i, e, d : DealsWith(p, w, i) /\ i.entry.state = "live"
        /\ Writes(p, e, d)
        /\ d.status = doc[e].status /\ d.link = i.x
        /\ e \in FindLinked(i) /\ d.value = i.entry.value /\ d.etag = i.entry.etag
        /\ adrift' = IF doc[e].status = "live" THEN adrift \ {e} ELSE adrift \cup {e}
  BY ApplyNewerWrites
<1>2. UNCHANGED <<cal, clock, token, doubled, unseen>> /\ SameGoesOn
  BY DEF ApplyNewer, SameGoesOn
<1>3. /\ HasDealtWith(p, w, i) /\ i.x \in Entries /\ i.entry \in EntryDocs /\ w.pc = "items"
      /\ work' = [work EXCEPT ![p] = w] /\ work[p].e = 0
  BY <1>1, PullHoldsNothing DEF DealsWith, HasDealtWith, SyncInv
<1>4. e \in CalEvents /\ (doc[e].link = i.x \/ IsListed(i.x, e))
  BY <1>1, <1>3, FoundIsListed
<1>5. \A f \in CalEvents : doc'[f] = IF f = e THEN d ELSE doc[f]
  BY <1>1, WritesOne
<1>6. DocsSettled(w, i, e) /\ AnswersSettled(p, i, e)
  BY <1>2, <1>3, <1>4, FoundSettles DEF DocsSettled, AnswersSettled
<1>7. OldFitsStay(w, e) /\ OldAnswersStay(p, e)
  BY <1>2, <1>3, <1>6, DealtStays
<1>8. e \in adrift' \/ Fits(e, doc[e])'
  <2>1. CASE doc[e].status = "live"
    <3>1. Fits(e, d)'
      BY <1>1, <1>2, <1>3, <2>1, TakenFits
    <3> QED BY <1>4, <1>5, <3>1 DEF Fits, IsSame, Awaits, IsDue, IsLive
  <2> QED BY <1>1, <2>1
<1>9. \A f \in CalEvents \ {e} : doc'[f] = doc[f] /\ (f \in adrift => f \in adrift')
  BY <1>1, <1>5
<1> QED BY <1>1, <1>3, <1>7, <1>8, <1>9, OthersFallBehind, MirrorHolds

(* A new event is as its entry.                                                *)
LEMMA ImportNewMirrors ==
    ASSUME CalTypeOK, SyncInv, OwnInv, MirrorInv, OneTick, NEW p \in CalCalls, ImportNew(p) PROVE MirrorInv'
<1>1. PICK w, i, e, d : DealsWith(p, w, i) /\ i.entry.state = "live"
        /\ Writes(p, e, d) /\ d.status = "live" /\ d.link = i.x
        /\ FindLinked(i) = {} /\ d.value = i.entry.value /\ d.etag = i.entry.etag
        /\ doubled' = IF i.entry.event # 0 THEN doubled \cup {e, i.entry.event} ELSE doubled
  BY ImportNewWrites
<1>2. UNCHANGED <<cal, clock, token, adrift, unseen>> /\ SameGoesOn
  BY <1>1 DEF ImportNew, SameGoesOn
<1>3. /\ HasDealtWith(p, w, i) /\ i.x \in Entries /\ i.entry \in EntryDocs /\ w.pc = "items"
      /\ work' = [work EXCEPT ![p] = w] /\ work[p].e = 0
  BY <1>1, PullHoldsNothing DEF DealsWith, HasDealtWith, SyncInv
<1>4. e \in CalEvents /\ \A f \in CalEvents : doc'[f] = IF f = e THEN d ELSE doc[f]
  <2>1. e \in CalEvents
    BY <1>1 DEF Writes
  <2> QED BY <1>1, <2>1, WritesOne
<1>5. cal[i.x] = i.entry => DocsSettled(w, i, e) /\ AnswersSettled(p, i, e)
  BY <1>1, <1>2, <1>3, NoneFoundSettles DEF SameGoesOn
<1>6. OldFitsStay(w, e) /\ OldAnswersStay(p, e)
  BY <1>2, <1>3, <1>5, DealtStays
<1>7. Fits(e, doc[e])'
  <2>1. Fits(e, d)'
    BY <1>1, <1>2, <1>3, TakenFits
  <2> QED BY <1>4, <2>1 DEF Fits, IsSame, Awaits, IsDue, IsLive
<1>8. \A f \in CalEvents \ {e} : doc'[f] = doc[f] /\ (f \in adrift => f \in adrift')
  BY <1>2, <1>4
<1> QED BY <1>1, <1>3, <1>6, <1>7, <1>8, OthersFallBehind, MirrorHolds

(* An event without an entry is cancelled; an entry without an event is unseen. *)
LEMMA ApplyDeletedMirrors ==
    ASSUME CalTypeOK, SyncInv, OwnInv, MirrorInv, NEW p \in CalCalls, ApplyDeleted(p) PROVE MirrorInv'
<1>1. PICK w, i : DealsWith(p, w, i) /\ DeletesLinked(p, i)
  BY ApplyDeletedWrites
<1>2. UNCHANGED <<cal, clock, token, doubled, adrift>> /\ unseen \subseteq unseen' /\ SameGoesOn
  BY DEF ApplyDeleted, SameGoesOn
<1>3. /\ HasDealtWith(p, w, i) /\ i.x \in Entries /\ w.pc = "items"
      /\ work' = [work EXCEPT ![p] = w] /\ work[p].e = 0
  BY <1>1, PullHoldsNothing DEF DealsWith, HasDealtWith, SyncInv
<1>4. CASE UNCHANGED <<doc, behind>> /\ i.x \in unseen'
  <2>1. DocsSettled(w, i, 0) /\ AnswersSettled(p, i, 0)
    BY <1>4 DEF DocsSettled, AnswersSettled, IsSettled
  <2>2. OldFitsStay(w, 0) /\ OldAnswersStay(p, 0)
    BY <1>2, <1>3, <2>1, DealtStays
  <2> QED BY <1>2, <1>3, <1>4, <2>2, QuietMirrors
<1>5. ASSUME NEW e, NEW d, Writes(p, e, d), doc[e].link = i.x, d.status = "cancelled", d.link = 0
      PROVE  MirrorInv'
  <2>1. e \in CalEvents /\ \A f \in CalEvents : doc'[f] = IF f = e THEN d ELSE doc[f]
    <3>1. e \in CalEvents
      BY <1>5 DEF Writes
    <3> QED BY <1>5, <3>1, WritesOne
  <2>2. DocsSettled(w, i, e) /\ AnswersSettled(p, i, e)
    BY <1>2, <1>3, <1>5, <2>1, FoundSettles DEF DocsSettled, AnswersSettled
  <2>3. OldFitsStay(w, e) /\ OldAnswersStay(p, e)
    BY <1>2, <1>3, <2>2, DealtStays
  <2>4. Fits(e, doc[e])'
    BY <1>5, <2>1 DEF Fits
  <2>5. \A f \in CalEvents \ {e} : doc'[f] = doc[f] /\ (f \in adrift => f \in adrift')
    BY <1>2, <2>1
  <2> QED BY <1>3, <1>5, <2>3, <2>4, <2>5, OthersFallBehind, MirrorHolds
<1> QED BY <1>1, <1>4, <1>5 DEF DeletesLinked

(* An event pushed back is newer than the entry: no answer is in its favour.      *)
LEMMA PushBackMirrors ==
    ASSUME CalTypeOK, SyncInv, OwnInv, MirrorInv, NEW p \in CalCalls, PushBack(p) PROVE MirrorInv'
<1>1. PICK w \in CallLocals : \E i, e :
        /\ HasDealtWith(p, w, i) /\ w.pc = "push" /\ w.e = e /\ w.copy = doc[e]
        /\ e \in CalEvents /\ (doc[e].link = 0 => doc[e].status # "none")
        /\ e \in FindLinked(i) /\ i.entry.state = "live" /\ i.entry.etag < doc[e].updated
  BY PushBackPushes
<1>2. PICK i, e :
        /\ HasDealtWith(p, w, i) /\ w.pc = "push" /\ w.e = e /\ e \in CalEvents
        /\ e \in FindLinked(i) /\ i.entry.state = "live" /\ i.entry.etag < doc[e].updated
  BY <1>1
<1>3. UNCHANGED <<doc, cal, token, doubled, behind, adrift, unseen>> /\ SameGoesOn
  BY DEF PushBack, histories, SameGoesOn
<1>4. /\ work' = [work EXCEPT ![p] = w] /\ work[p].e = 0 /\ i.x \in Entries /\ i.entry \in EntryDocs
  <2>1. work[p] \in CallLocals /\ i \in work[p].items
    BY <1>2 DEF CalTypeOK, HasDealtWith
  <2> QED BY <1>2, <2>1, PullHoldsNothing DEF HasDealtWith, SyncInv, CallLocals
<1>5. doc[e].link = i.x \/ IsListed(i.x, e)
  BY <1>2, <1>4, FoundIsListed
<1>6. /\ \A f \in CalEvents : f # e /\ doc[f].link = i.x => IsSettled(f, i.x)
      /\ \A q \in CalCalls, g \in CalEvents :
           IsAnswered(work[q]) /\ work[q].copy.link = i.x /\ work[q].e = g /\ g # e
             /\ <<q, g>> \notin behind => IsSettled(g, i.x)
  BY <1>2, <1>3, <1>4, <1>5, FoundSettles
<1>7. ASSUME cal[i.x] = i.entry, NEW q \in CalCalls, work[q].e = e, <<q, e>> \notin behind,
             work[q].copy.link = i.x, AnswerAwaits(work[q].copy)
      PROVE  FALSE
  <2>1. work[q].copy.updated = doc[e].updated
    BY <1>2, <1>7 DEF SyncInv, CopiesAreCurrent, CopyIsCurrent, SameChange
  <2>2. work[q].copy.updated < i.entry.etag
    BY <1>7 DEF AnswerAwaits
  <2>3. doc[e].updated \in Nat /\ i.entry.etag \in Nat
    BY <1>2, <1>4 DEF CalTypeOK, Docs, EntryDocs
  <2> QED BY <1>2, <2>1, <2>2, <2>3
<1>8. cal[i.x] = i.entry => DocsSettled(w, i, 0) /\ AnswersSettled(p, i, 0)
  BY <1>2, <1>6, <1>7 DEF DocsSettled, AnswersSettled
<1>9. OldFitsStay(w, 0) /\ OldAnswersStay(p, 0)
  BY <1>2, <1>3, <1>8, DealtStays
<1> QED BY <1>2, <1>3, <1>4, <1>9, QuietMirrors

(* An entry passed over is one the event has already, or one of no event.         *)
LEMMA PassOverMirrors ==
    ASSUME CalTypeOK, SyncInv, OwnInv, MirrorInv, NEW p \in CalCalls, PassOver(p) PROVE MirrorInv'
<1>1. PICK w, i : DealsWith(p, w, i) /\ MayPassOver(i)
  BY PassOverDeals
<1>2. UNCHANGED <<doc, cal, token, doubled, behind, adrift, unseen>> /\ SameGoesOn
  BY DEF PassOver, histories, SameGoesOn
<1>3. /\ HasDealtWith(p, w, i) /\ i.x \in Entries /\ i.entry \in EntryDocs /\ w.pc = "items"
      /\ work' = [work EXCEPT ![p] = w] /\ work[p].e = 0 /\ i.entry.state = "live"
  BY <1>1, PullHoldsNothing DEF DealsWith, HasDealtWith, SyncInv, MayPassOver
<1>4. ASSUME cal[i.x] = i.entry PROVE DocsSettled(w, i, 0) /\ AnswersSettled(p, i, 0)
  <2>1. CASE i.entry.value = AllDay
    BY <1>4, <2>1 DEF DocsSettled, AnswersSettled, IsSettled
  <2>2. CASE FindLinked(i) = {}
    BY <1>2, <1>3, <1>4, <2>2, NoneFoundSettles DEF SameGoesOn
  <2>3. ASSUME NEW e \in FindLinked(i), i.entry.etag = doc[e].etag
        PROVE  DocsSettled(w, i, 0) /\ AnswersSettled(p, i, 0)
    <3>1. e \in CalEvents /\ (doc[e].link = i.x \/ IsListed(i.x, e))
      BY <1>3, FoundIsListed
    <3>2. /\ \A f \in CalEvents : f # e /\ doc[f].link = i.x => IsSettled(f, i.x)
          /\ \A q \in CalCalls, g \in CalEvents :
               IsAnswered(work[q]) /\ work[q].copy.link = i.x /\ work[q].e = g /\ g # e
                 /\ <<q, g>> \notin behind => IsSettled(g, i.x)
      BY <1>2, <1>3, <3>1, FoundSettles
    <3>3. doc[e].link = i.x => ~Awaits(doc[e])
      BY <1>4, <2>3 DEF Awaits
    <3>4. ASSUME NEW q \in CalCalls, IsAnswered(work[q]), work[q].e = e, <<q, e>> \notin behind,
                 work[q].copy.link = i.x
          PROVE  ~AnswerAwaits(work[q].copy)
      <4>1. AnswerIsOwn(work[q], e, i.x)
        BY <3>4 DEF OwnInv, AnswersAreOwn
      <4> QED BY <1>4, <2>3, <3>4, <4>1 DEF AnswerIsOwn, AnswerAwaits, Awaits
    <3> QED BY <3>2, <3>3, <3>4 DEF DocsSettled, AnswersSettled
  <2> QED BY <1>1, <2>1, <2>2, <2>3 DEF MayPassOver
<1>5. OldFitsStay(w, 0) /\ OldAnswersStay(p, 0)
  BY <1>2, <1>3, <1>4, DealtStays
<1> QED BY <1>2, <1>3, <1>5, QuietMirrors
-----------------------------------------------------------------------------
(* Events fit after every step.                                                *)
LEMMA MirrorStep == ASSUME OneTick, CalTypeOK, SyncInv, OwnInv, MirrorInv, [CalNext]_calvars PROVE MirrorInv'
<1>0. CalTypeOK'
  BY SyncStep
<1>1. CASE UNCHANGED calvars
  BY <1>1 DEF calvars, histories, MirrorInv, DocsFit, AnswersFit, IsBusy, Fits, AnswerFits, AnswerAwaits,
         IsSame, Awaits, IsDue, IsLive
<1>2. ASSUME NEW p \in CalCalls, ScreenCall(p) PROVE MirrorInv'
  BY <1>2, ScreensSave, SavedMirrors, SyncEventMirrors, UpdateOtherMirrors DEF ScreenCall
<1>3. ASSUME NEW p \in Ticks, Pull(p) PROVE MirrorInv'
  BY <1>3, FetchMirrors, PullEndMirrors DEF Pull, CalCalls
<1>4. ASSUME NEW p \in CalCalls, CalProceed(p) PROVE MirrorInv'
  <2>1. CASE PushDelete(p) \/ PushPatch(p) \/ PushInsert(p) \/ PushFails(p)
    BY <1>0, <2>1, PushDeletePushes, PushPatchPushes, PushInsertPushes, PushFailsPushes, PushMirrors
  <2>2. CASE Mark(p) \/ EndPull(p)
    BY <2>2, MarkMirrors, PullEndMirrors
  <2>3. CASE ApplyDeleted(p) \/ ApplyNewer(p) \/ ImportNew(p)
    BY <2>3, ApplyDeletedMirrors, ApplyNewerMirrors, ImportNewMirrors
  <2>4. CASE PushBack(p) \/ PassOver(p)
    BY <2>4, PushBackMirrors, PassOverMirrors
  <2> QED BY <1>4, <2>1, <2>2, <2>3, <2>4 DEF CalProceed
<1>5. ASSUME NEW p \in CalCalls, CalDie(p) PROVE MirrorInv'
  BY <1>5, CalDieMirrors
<1>6. CASE User
  BY <1>6, UserMirrors
<1> QED BY <1>1, <1>2, <1>3, <1>4, <1>5, <1>6 DEF CalNext, CalCalls
-----------------------------------------------------------------------------
(* What it comes to.                                                             *)
LEMMA OwnIsOfOne == CalTypeOK /\ OwnInv => EntryOfOne
<1> SUFFICES ASSUME CalTypeOK, OwnInv, NEW x \in Entries PROVE Cardinality(LinkedTo(x)) <= 1 \/ HasTwin(x)
  BY DEF EntryOfOne
<1>1. ASSUME NEW e \in LinkedTo(x), NEW f \in LinkedTo(x), e # f PROVE HasTwin(x)
  BY <1>1 DEF LinkedTo, HasTwin, OwnInv, DocsShareNone, Twins
<1>2. CASE LinkedTo(x) = {}
  BY <1>2, FS_EmptySet
<1>3. ASSUME NEW e \in LinkedTo(x), \A f \in LinkedTo(x) : f = e PROVE Cardinality(LinkedTo(x)) <= 1
  <2>1. LinkedTo(x) = {e}
    BY <1>3
  <2> QED BY <2>1, FS_Singleton
<1> QED BY <1>1, <1>2, <1>3

(* At rest nobody is busy and nothing is due, so what fits is mirrored.        *)
LEMMA RestIsMirrored ==
    ASSUME CalTypeOK, SyncInv, OwnInv, MirrorInv, AtRest, NEW e \in CalEvents,
           doc[e].status # "none", doc[e].sync = "synced"
    PROVE  Mirrored(e) \/ Excused(e)
<1>1. ASSUME NEW p \in CalCalls PROVE work[p].e = 0
  BY IdleHoldsNothing, RestingFits DEF SyncInv, AtRest
<1>2. ~IsBusy(e)
  BY <1>1, CalendarAssumption DEF IsBusy
<1>3. CASE e \in adrift
  BY <1>3 DEF Excused
<1>4. CASE Fits(e, doc[e])
  <2>1. CASE doc[e].status = "cancelled" /\ doc[e].link = 0
    BY <2>1 DEF Mirrored
  <2>2. ASSUME doc[e].status = "live", doc[e].link # 0, IsSame(e, doc[e]) PROVE Mirrored(e) \/ Excused(e)
    <3>1. CASE e \in doubled
      <4>1. e \in LinkedTo(doc[e].link)
        BY DEF LinkedTo
      <4> QED BY <2>2, <3>1, <4>1 DEF Excused, HasTwin
    <3>2. CASE doc[e].link \in unseen \/ cal[doc[e].link].value = AllDay
      BY <2>2, <3>2 DEF Excused
    <3>3. CASE IsLive(doc[e].link) /\ cal[doc[e].link].value = doc[e].value
      BY <2>2, <3>3 DEF Mirrored, IsLive
    <3> QED BY <2>2, <3>1, <3>2, <3>3 DEF IsSame
  <2>3. ASSUME doc[e].link # 0, Awaits(doc[e]) PROVE Excused(e)
    <3>1. PICK x \in Entries : x = doc[e].link
      BY <2>3 DEF CalTypeOK, Docs
    <3>2. e \in LinkedTo(x) /\ x # 0
      BY <2>3, <3>1 DEF LinkedTo
    <3>3. token < cal[x].etag /\ doc[e].etag # cal[x].etag
      BY <2>3, <3>1 DEF Awaits, IsDue
    <3>4. cal[x].etag \in Nat /\ token \in Nat
      BY DEF CalTypeOK, EntryDocs
    <3>5. \/ cal[x].etag <= token
          \/ cal[x].state = "deleted" /\ LinkedTo(x) = {}
          \/ \E f \in LinkedTo(x) : doc[f].etag = cal[x].etag
      BY DEF AtRest
    <3>6. PICK f \in LinkedTo(x) : doc[f].etag = cal[x].etag
      BY <3>2, <3>3, <3>4, <3>5
    <3>7. f # e /\ f \in CalEvents /\ doc[f].link = x
      BY <3>3, <3>6 DEF LinkedTo
    <3>8. e \in doubled
      BY <3>1, <3>7 DEF OwnInv, DocsShareNone, Twins
    <3> QED BY <3>1, <3>2, <3>8 DEF Excused, HasTwin
  <2> QED BY <1>4, <2>1, <2>2, <2>3 DEF Fits
<1> QED BY <1>2, <1>3, <1>4 DEF MirrorInv, DocsFit

(* The three parts.                                                            *)
LEMMA StepIsKept == CalTypeOK /\ SyncInv /\ OwnInv /\ MirrorInv => SyncKeepsStep
<1> SUFFICES ASSUME CalTypeOK, SyncInv, OwnInv, MirrorInv PROVE SyncKeepsStep
  OBVIOUS
<1>1. SyncedMirrors
  BY RestIsMirrored DEF SyncedMirrors
<1>2. EntryOfOne
  BY OwnIsOfOne
<1> QED BY <1>1, <1>2 DEF SyncKeepsStep, SyncInv

LEMMA AtRestTheyKeepStep == ASSUME OneTick PROVE CalInit /\ [][CalNext]_calvars => []SyncKeepsStep
<1>1. CalInit => OwnInv /\ MirrorInv
  BY OwnInitHolds, MirrorInitHolds
<1>2. CalTypeOK /\ SyncInv /\ OwnInv /\ MirrorInv /\ [CalNext]_calvars => (OwnInv /\ MirrorInv)'
  BY OwnStep, MirrorStep
<1> QED BY <1>1, <1>2, StepIsKept, SyncInvHolds, PTL

(* The schedule and the calendar keep step (push_event, apply_item, _find_linked): *)
(* at rest what is marked synced is the same on both sides, no two events share   *)
(* an entry, and none is forgotten, for any events, entries and screens, while    *)
(* the tick runs one at a time.                                                   *)
THEOREM KeepsStep == ASSUME OneTick PROVE CalSpec => []SyncKeepsStep
BY AtRestTheyKeepStep, PTL DEF CalSpec
-----------------------------------------------------------------------------
(* The three of them move in turn (MCCalendar), each as if it were alone.        *)
LEMMA CalendarStep ==
    [CalendarNext]_calendarvars => [CalNext]_calvars /\ [CoNext]_opsvars /\ [LkNext]_lakevars
<1> SUFFICES ASSUME [CalendarNext]_calendarvars
             PROVE  [CalNext]_calvars /\ [CoNext]_opsvars /\ [LkNext]_lakevars
  OBVIOUS
<1>1. CASE UNCHANGED calendarvars
  <2>1. UNCHANGED calvars /\ UNCHANGED opsvars /\ UNCHANGED lakevars
    BY <1>1 DEF calendarvars
  <2> QED BY <2>1
<1>2. CASE CalendarNext
  <2>1. (CalNext /\ UNCHANGED <<opsvars, lakevars>>) \/ (CoNext /\ UNCHANGED <<calvars, lakevars>>)
        \/ (LkNext /\ UNCHANGED <<calvars, opsvars>>)
    BY <1>2, Zenon DEF CalendarNext
  <2> QED BY <2>1
<1> QED BY <1>1, <1>2

LEMMA CalendarIsEach ==
    CalendarSpec => (CalInit /\ [][CalNext]_calvars) /\ CoSpec /\ LkSpec
<1>1. CalendarInit => CalInit /\ CoInit /\ LkInit
  BY DEF CalendarInit
<1> QED BY <1>1, CalendarStep, PTL DEF CalendarSpec, CoSpec, LkSpec

(* Events, entries, questions, envelopes and the locals of calls are well formed, *)
(* for any number of each.                                                        *)
THEOREM CalendarTypes == CalendarSpec => []CalendarTypeOK
<1>1. CalTypeOK /\ CoTypeOK /\ LkTypeOK => CalendarTypeOK
  BY DEF CalendarTypeOK
<1> QED BY <1>1, CalendarIsEach, SyncInvHolds, ChatTypes, LakeTypes, PTL

(* What the three promise holds of them together: the schedule and the calendar   *)
(* keep step, only stale calls undo, a question changes once what it asks for,    *)
(* and nothing is lost on the way to the lake.                                    *)
THEOREM CalendarHolds ==
    ASSUME OneTick
    PROVE  CalendarSpec => []SyncKeepsStep /\ OnlyStaleCallsUndo /\ ChatChangesOnce /\ []LakeIsTrue
BY CalendarIsEach, AtRestTheyKeepStep, NobodyElseUndoes, ChatHolds, LakeHolds, PTL
=============================================================================
