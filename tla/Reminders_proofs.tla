-------------------------- MODULE Reminders_proofs --------------------------
(* Proofs about the delivery engine, for any callers, and about the reminders,   *)
(* for any number of events, stages, members and requests.                       *)
EXTENDS Reminders, FiniteSetTheorems, TLAPS

-----------------------------------------------------------------------------
(* The delivery engine.                                                      *)
-----------------------------------------------------------------------------
LEMMA IdleType == Idle \in Locals /\ Idle.pc = "idle" /\ Idle.todo = {} /\ Idle.job = NoJob
BY SettingsAssumption, BoundsAssumption DEF Idle, Locals, Times

LEMMA NoLogType == NoLog \in LogEntry
BY BoundsAssumption DEF NoLog, LogEntry, Results, Times

(* What an update of some locals leaves of their type. *)
LEMMA LocalsUpdate ==
    ASSUME NEW r \in Locals
    PROVE  /\ r.pc \in {"idle", "decide", "push", "accepted", "unlinked"}
           /\ r.job \in Jobs \cup {NoJob} /\ r.todo \subseteq Members
           /\ r.now \in Times /\ r.settings \in SettingsDocs
           /\ [r EXCEPT !.pc = "push"] \in Locals
           /\ [r EXCEPT !.pc = "unlinked"] \in Locals
           /\ [r EXCEPT !.pc = "accepted"] \in Locals
           /\ \A m \in Members : [r EXCEPT !.todo = @ \ {m}] \in Locals
           /\ \A m \in Members : [r EXCEPT !.pc = "decide", !.todo = @ \ {m}] \in Locals
BY DEF Locals

(* Every step of the engine keeps the types. *)
LEMMA DeliveryTypeStep ==
    ASSUME DTypeOK, [DNext]_dvars
    PROVE  DTypeOK'
<1>1. ASSUME NEW p \in Procs, NEW j \in Jobs, NEW targets \in SUBSET Members,
             NEW clean \in BOOLEAN, NEW now \in 0..clock,
             StartJob(p, j, targets, clean, now)
      PROVE DTypeOK'
  <2>1. [pc |-> "decide", job |-> j, todo |-> targets, now |-> now,
         settings |-> settings] \in Locals
    BY <1>1, BoundsAssumption DEF DTypeOK, Locals, Times
  <2>2. CASE sanity_check_ok(targets, clean)
    <3>1. run' = [run EXCEPT ![p] = [pc |-> "decide", job |-> j, todo |-> targets,
                                    now |-> now, settings |-> settings]]
      BY <1>1, <2>2 DEF StartJob
    <3>2. run' \in [Procs -> Locals]
      BY <2>1, <3>1 DEF DTypeOK
    <3>3. \A q \in Procs : run'[q].pc # "idle" => run'[q].job \in Jobs
      BY <3>1 DEF DTypeOK
    <3> QED BY <1>1, <2>2, <3>2, <3>3 DEF DTypeOK, StartJob, sharedVars, historyVars
  <2>3. CASE ~sanity_check_ok(targets, clean)
    BY <1>1, <2>3 DEF DTypeOK, StartJob, sharedVars, historyVars
  <2> QED BY <2>2, <2>3
<1>2. ASSUME NEW j \in Jobs, SaveJob(j),
             UNCHANGED <<log, run, sharedVars, historyVars>>
      PROVE DTypeOK'
  BY <1>2 DEF DTypeOK, SaveJob, sharedVars, historyVars
<1>3. ASSUME NEW p \in Procs, Block(p) PROVE DTypeOK'
  <2>1. [result |-> "blocked", sent_at |-> run[p].now] \in LogEntry
    BY LocalsUpdate DEF DTypeOK, LogEntry, Results
  <2>2. run' \in [Procs -> Locals]
    <3>1. run[p] \in Locals
      BY DEF DTypeOK
    <3>2. PICK m \in Members : run' = [run EXCEPT ![p] = [run[p] EXCEPT !.todo = run[p].todo \ {m}]]
      BY <1>3 DEF Block
    <3> QED BY <3>1, <3>2, LocalsUpdate DEF DTypeOK
  <2>3. log' \in [Jobs -> [Members -> LogEntry]]
    BY <1>3, <2>1 DEF DTypeOK, Block, WriteLog
  <2>4. \A q \in Procs : run'[q].pc = run[q].pc /\ run'[q].job = run[q].job
    BY <1>3 DEF DTypeOK, Block, Locals
  <2>5. \A q \in Procs : run'[q].pc # "idle" => run'[q].job \in Jobs
    BY <2>4 DEF DTypeOK
  <2>6. UNCHANGED <<clock, settings, linked, jobStatus, delivered, lost, leaked>>
    BY <1>3 DEF Block, sharedVars, historyVars
  <2> QED BY <2>2, <2>3, <2>5, <2>6 DEF DTypeOK
<1>4. ASSUME NEW p \in Procs, Allow(p) PROVE DTypeOK'
  <2>1. run' \in [Procs -> Locals]
    BY <1>4, LocalsUpdate DEF DTypeOK, Allow
  <2> QED BY <1>4, <2>1 DEF DTypeOK, Allow, sharedVars, historyVars
<1>5. ASSUME NEW p \in Procs, SkipUnlinked(p) PROVE DTypeOK'
  <2>1. run' \in [Procs -> Locals]
    BY <1>5, LocalsUpdate DEF DTypeOK, SkipUnlinked
  <2> QED BY <1>5, <2>1 DEF DTypeOK, SkipUnlinked, sharedVars, historyVars
<1>6. ASSUME NEW p \in Procs, NEW m \in linked, run[p].pc = "push", Reach(p, m)
      PROVE /\ delivered' \in [Jobs -> [Members -> Nat]]
            /\ leaked' \in [Procs -> SUBSET Jobs]
  <2>1. run[p].job \in Jobs /\ m \in Members
    BY <1>6, LocalsUpdate DEF DTypeOK
  <2> QED BY <1>6, <2>1 DEF DTypeOK, Reach
<1>7. ASSUME NEW p \in Procs, Push(p) PROVE DTypeOK'
  <2>1. run' \in [Procs -> Locals]
    BY <1>7, LocalsUpdate DEF DTypeOK, Push
  <2> QED BY <1>6, <1>7, <2>1 DEF DTypeOK, Push, sharedVars
<1>8. ASSUME NEW p \in Procs, PushRefused(p) PROVE DTypeOK'
  BY <1>8, IdleType DEF DTypeOK, PushRefused, sharedVars, historyVars
<1>9. ASSUME NEW p \in Procs, PushTimedOut(p) PROVE DTypeOK'
  <2>1. run' \in [Procs -> Locals] /\ lost' \in [Jobs -> [Members -> Nat]]
    BY <1>9, IdleType DEF DTypeOK, PushTimedOut
  <2> QED BY <1>6, <1>9, <2>1, IdleType DEF DTypeOK, PushTimedOut, sharedVars
<1>10. ASSUME NEW p \in Procs, WriteResult(p) PROVE DTypeOK'
  <2>1. /\ [result |-> "ok", sent_at |-> run[p].now] \in LogEntry
        /\ [result |-> "failed", sent_at |-> run[p].now] \in LogEntry
    BY LocalsUpdate DEF DTypeOK, LogEntry, Results
  <2>2. run' \in [Procs -> Locals]
    <3>1. run[p] \in Locals
      BY DEF DTypeOK
    <3>2. PICK m \in Members : run' =
            [run EXCEPT ![p] = [run[p] EXCEPT !.pc = "decide", !.todo = run[p].todo \ {m}]]
      BY <1>10 DEF WriteResult
    <3> QED BY <3>1, <3>2, LocalsUpdate DEF DTypeOK
  <2>3. log' \in [Jobs -> [Members -> LogEntry]]
    BY <1>10, <2>1 DEF DTypeOK, WriteResult, WriteLog
  <2>4. \A q \in Procs : run'[q].job = run[q].job /\ (run'[q].pc # "idle" => run[q].pc # "idle")
    BY <1>10 DEF DTypeOK, WriteResult, Locals
  <2>5. \A q \in Procs : run'[q].pc # "idle" => run'[q].job \in Jobs
    BY <2>4 DEF DTypeOK
  <2>6. UNCHANGED <<clock, settings, linked, jobStatus, delivered, lost, leaked>>
    BY <1>10 DEF WriteResult, sharedVars, historyVars
  <2> QED BY <2>2, <2>3, <2>5, <2>6 DEF DTypeOK
<1>11. ASSUME NEW p \in Procs, FinishJob(p) PROVE DTypeOK'
  BY <1>11, IdleType DEF DTypeOK, FinishJob, sharedVars, historyVars
<1>12. ASSUME NEW p \in Procs, Die(p) PROVE DTypeOK'
  <2>1. lost' \in [Jobs -> [Members -> Nat]]
    <3>1. CASE run[p].pc = "accepted"
      <4>1. PICK m \in Members : lost' = [lost EXCEPT ![run[p].job][m] = @ + 1]
        BY <1>12, <3>1 DEF Die
      <4> QED BY <3>1, <4>1 DEF DTypeOK
    <3>2. CASE run[p].pc # "accepted"
      BY <1>12, <3>2 DEF DTypeOK, Die
    <3> QED BY <3>1, <3>2
  <2>2. run' = [run EXCEPT ![p] = Idle]
    BY <1>12 DEF Die
  <2>3. run' \in [Procs -> Locals]
    BY <2>2, IdleType DEF DTypeOK
  <2>5. \A q \in Procs : run'[q].pc # "idle" => run'[q].job \in Jobs
    BY <2>2, IdleType DEF DTypeOK
  <2>4. UNCHANGED <<clock, settings, linked, jobStatus, log, delivered, leaked>>
    BY <1>12 DEF Die, sharedVars
  <2> QED BY <2>1, <2>3, <2>4, <2>5 DEF DTypeOK
<1>13. ASSUME NEW s \in SettingsDocs, PutSettings(s) PROVE DTypeOK'
  BY <1>13 DEF DTypeOK, PutSettings
<1>14. ASSUME NEW members \in SUBSET Members, SetLinked(members) PROVE DTypeOK'
  BY <1>14 DEF DTypeOK, SetLinked, historyVars
<1>15. ASSUME Elapse PROVE DTypeOK'
  BY <1>15, BoundsAssumption DEF DTypeOK, Elapse, historyVars, Times
<1>16. CASE UNCHANGED dvars
  BY <1>16 DEF DTypeOK, dvars
<1> QED
  BY <1>1, <1>2, <1>3, <1>4, <1>5, <1>7, <1>8, <1>9, <1>10, <1>11, <1>12,
     <1>13, <1>14, <1>15, <1>16 DEF DNext, AnyCaller, AnySave, Continue, Abort

LEMMA DInitTypes == DInit => DTypeOK
BY SettingsAssumption, BoundsAssumption, IdleType, NoLogType DEF DInit, DTypeOK, Times

(* The engine keeps its documents and locals in their types. *)
THEOREM DeliveryTypeOK == DSpec => []DTypeOK
BY DInitTypes, DeliveryTypeStep, PTL DEF DSpec
-----------------------------------------------------------------------------
(* An ok log is never a lie.  Inductively: the messages of a job that got      *)
(* through to a member and were not lost cover the processes still to log one  *)
(* and the ok log itself.                                                      *)
InFlight(j, m) == {p \in Procs : run[p].pc = "accepted" /\ run[p].job = j /\ IsNext(p, m)}
OkLogs(j, m) == IF log[j][m].result = "ok" THEN 1 ELSE 0
Accounted == \A j \in Jobs, m \in Members :
    delivered[j][m] >= lost[j][m] + Cardinality(InFlight(j, m)) + OkLogs(j, m)

LEMMA FlightsAreFinite ==
    \A j \in Jobs, m \in Members :
        IsFiniteSet(InFlight(j, m)) /\ Cardinality(InFlight(j, m)) \in Nat
BY ProcessesAssumption, FS_Subset, FS_CardinalityType DEF InFlight

(* A process that is to log no message, before or after, changes no flight. *)
LEMMA SameFlights ==
    ASSUME DTypeOK, NEW p \in Procs, run[p].pc # "accepted", run'[p].pc # "accepted",
           \A q \in Procs \ {p} : run'[q] = run[q]
    PROVE  \A j, m : InFlight(j, m)' = InFlight(j, m)
BY DEF InFlight, IsNext

LEMMA FlightEnds ==
    ASSUME DTypeOK, NEW p \in Procs, run'[p].pc # "accepted",
           \A q \in Procs \ {p} : run'[q] = run[q]
    PROVE  \A j, m : InFlight(j, m)' = InFlight(j, m) \ {p}
BY DEF InFlight, IsNext

LEMMA NextIsUnique ==
    ASSUME DTypeOK, NEW p \in Procs, NEW m, NEW n, IsNext(p, m), IsNext(p, n)
    PROVE  m = n
<1>1. run[p].todo \subseteq Nat
  BY LocalsUpdate, MembersAssumption DEF DTypeOK
<1> QED BY <1>1 DEF IsNext

LEMMA AccountedInvariant == DSpec => []Accounted
<1>1. DInit => Accounted
  <2> SUFFICES ASSUME DInit, NEW j \in Jobs, NEW m \in Members
               PROVE delivered[j][m] >= lost[j][m] + Cardinality(InFlight(j, m)) + OkLogs(j, m)
    BY DEF Accounted
  <2>1. InFlight(j, m) = {}
    BY IdleType DEF DInit, InFlight
  <2> QED BY <2>1, FS_EmptySet DEF DInit, OkLogs, NoLog
<1>2. ASSUME DTypeOK, Accounted, [DNext]_dvars PROVE Accounted'
  <2> SUFFICES ASSUME NEW j \in Jobs, NEW m \in Members
               PROVE delivered'[j][m] >= lost'[j][m] + Cardinality(InFlight(j, m)') + OkLogs(j, m)'
    BY DEF Accounted
  <2>0. /\ delivered[j][m] >= lost[j][m] + Cardinality(InFlight(j, m)) + OkLogs(j, m)
        /\ delivered[j][m] \in Nat /\ lost[j][m] \in Nat
        /\ Cardinality(InFlight(j, m)) \in Nat /\ IsFiniteSet(InFlight(j, m))
        /\ OkLogs(j, m) \in {0, 1} /\ OkLogs(j, m)' \in {0, 1}
    BY <1>2, FlightsAreFinite DEF Accounted, DTypeOK, OkLogs
  <2>1. ASSUME NEW p \in Procs, run[p].pc # "accepted", run'[p].pc # "accepted",
               \A q \in Procs \ {p} : run'[q] = run[q],
               UNCHANGED <<delivered, lost>>, OkLogs(j, m)' <= OkLogs(j, m)
        PROVE delivered'[j][m] >= lost'[j][m] + Cardinality(InFlight(j, m)') + OkLogs(j, m)'
    <3>1. InFlight(j, m)' = InFlight(j, m)
      BY <1>2, <2>1, SameFlights
    <3> QED BY <2>0, <2>1, <3>1
  <2>2. ASSUME NEW p \in Procs, AnyCaller(p)
        PROVE delivered'[j][m] >= lost'[j][m] + Cardinality(InFlight(j, m)') + OkLogs(j, m)'
    <3>1. UNCHANGED <<log, delivered, lost>>
      BY <2>2 DEF AnyCaller, StartJob, historyVars
    <3>2. CASE UNCHANGED run
      BY <2>0, <3>1, <3>2 DEF InFlight, IsNext, OkLogs
    <3>3. CASE run' # run
      <4>1. PICK i \in Jobs, targets \in SUBSET Members, now \in 0..clock :
              /\ run[p].pc = "idle"
              /\ run' = [run EXCEPT ![p] = [pc |-> "decide", job |-> i, todo |-> targets,
                                           now |-> now, settings |-> settings]]
        BY <2>2, <3>3 DEF AnyCaller, StartJob
      <4> QED BY <1>2, <2>0, <2>1, <3>1, <4>1 DEF DTypeOK, OkLogs
    <3> QED BY <3>2, <3>3
  <2>3. ASSUME NEW p \in Procs, Block(p)
        PROVE delivered'[j][m] >= lost'[j][m] + Cardinality(InFlight(j, m)') + OkLogs(j, m)'
    <3>1. PICK n \in Members :
            /\ run[p].pc = "decide"
            /\ log' = [log EXCEPT ![run[p].job][n] = [result |-> "blocked", sent_at |-> run[p].now]]
            /\ run' = [run EXCEPT ![p] = [run[p] EXCEPT !.todo = run[p].todo \ {n}]]
      BY <2>3 DEF Block, WriteLog
    <3>2. run[p] \in Locals /\ run'[p].pc = "decide"
      BY <1>2, <3>1 DEF DTypeOK, Locals
    <3>3. OkLogs(j, m)' <= OkLogs(j, m)
      BY <1>2, <3>1 DEF DTypeOK, OkLogs
    <3> QED BY <1>2, <2>1, <2>3, <3>1, <3>2, <3>3 DEF DTypeOK, Block, historyVars
  <2>4. ASSUME NEW p \in Procs, Allow(p) \/ SkipUnlinked(p) \/ PushRefused(p) \/ FinishJob(p)
        PROVE delivered'[j][m] >= lost'[j][m] + Cardinality(InFlight(j, m)') + OkLogs(j, m)'
    <3>1. /\ run[p].pc # "accepted"
          /\ \/ run' = [run EXCEPT ![p] = [run[p] EXCEPT !.pc = "push"]]
             \/ run' = [run EXCEPT ![p] = [run[p] EXCEPT !.pc = "unlinked"]]
             \/ run' = [run EXCEPT ![p] = Idle]
      BY <2>4 DEF Allow, SkipUnlinked, PushRefused, FinishJob
    <3>2. run[p] \in Locals
      BY <1>2 DEF DTypeOK
    <3>3. run'[p].pc # "accepted" /\ \A q \in Procs \ {p} : run'[q] = run[q]
      BY <1>2, <3>1, <3>2, IdleType DEF DTypeOK, Locals
    <3>4. UNCHANGED <<log, delivered, lost>>
      BY <2>4 DEF Allow, SkipUnlinked, PushRefused, FinishJob, historyVars
    <3> QED BY <2>0, <2>1, <3>1, <3>3, <3>4 DEF OkLogs
  <2>5. ASSUME NEW p \in Procs, Push(p)
        PROVE delivered'[j][m] >= lost'[j][m] + Cardinality(InFlight(j, m)') + OkLogs(j, m)'
    <3>1. PICK n \in linked :
            /\ run[p].pc = "push" /\ IsNext(p, n)
            /\ delivered' = [delivered EXCEPT ![run[p].job][n] = @ + 1]
            /\ run' = [run EXCEPT ![p] = [run[p] EXCEPT !.pc = "accepted"]]
      BY <2>5 DEF Push, Reach
    <3>2. UNCHANGED <<log, lost>>
      BY <2>5 DEF Push
    <3>3. run[p] \in Locals
      BY <1>2 DEF DTypeOK
    <3>4. /\ run'[p].pc = "accepted" /\ run'[p].job = run[p].job /\ run'[p].todo = run[p].todo
          /\ \A q \in Procs \ {p} : run'[q] = run[q]
      BY <1>2, <3>1, <3>3 DEF DTypeOK, Locals
    <3>5. CASE j = run[p].job /\ m = n
      <4>1. InFlight(j, m)' = InFlight(j, m) \cup {p} /\ p \notin InFlight(j, m)
        BY <3>1, <3>4, <3>5 DEF InFlight, IsNext
      <4>2. Cardinality(InFlight(j, m)') = Cardinality(InFlight(j, m)) + 1
        BY <2>0, <4>1, FS_AddElement
      <4>3. delivered'[j][m] = delivered[j][m] + 1
        BY <1>2, <3>1, <3>5 DEF DTypeOK
      <4> QED BY <2>0, <3>2, <4>2, <4>3 DEF OkLogs
    <3>6. CASE ~(j = run[p].job /\ m = n)
      <4>1. InFlight(j, m)' = InFlight(j, m)
        BY <1>2, <3>1, <3>4, <3>6, NextIsUnique DEF InFlight, IsNext
      <4>2. delivered'[j][m] = delivered[j][m]
        BY <1>2, <3>1, <3>6 DEF DTypeOK
      <4> QED BY <2>0, <3>2, <4>1, <4>2 DEF OkLogs
    <3> QED BY <3>5, <3>6
  <2>6. ASSUME NEW p \in Procs, PushTimedOut(p)
        PROVE delivered'[j][m] >= lost'[j][m] + Cardinality(InFlight(j, m)') + OkLogs(j, m)'
    <3>1. PICK n \in linked \cap Flaky :
            /\ run[p].pc = "push"
            /\ delivered' = [delivered EXCEPT ![run[p].job][n] = @ + 1]
            /\ lost' = [lost EXCEPT ![run[p].job][n] = @ + 1]
            /\ run' = [run EXCEPT ![p] = Idle]
            /\ UNCHANGED log
      BY <2>6 DEF PushTimedOut, Reach
    <3>2. InFlight(j, m)' = InFlight(j, m)
      BY <1>2, <3>1, IdleType, SameFlights DEF DTypeOK
    <3>3. \/ delivered'[j][m] = delivered[j][m] /\ lost'[j][m] = lost[j][m]
          \/ delivered'[j][m] = delivered[j][m] + 1 /\ lost'[j][m] = lost[j][m] + 1
      BY <1>2, <2>0, <3>1 DEF DTypeOK
    <3> QED BY <2>0, <3>1, <3>2, <3>3 DEF OkLogs
  <2>7. ASSUME NEW p \in Procs, WriteResult(p)
        PROVE delivered'[j][m] >= lost'[j][m] + Cardinality(InFlight(j, m)') + OkLogs(j, m)'
    <3>1. PICK n \in Members :
            /\ run[p].pc \in {"accepted", "unlinked"} /\ IsNext(p, n)
            /\ WriteLog(p, n, IF run[p].pc = "accepted" THEN "ok" ELSE "failed")
            /\ run' = [run EXCEPT ![p] =
                         [run[p] EXCEPT !.pc = "decide", !.todo = run[p].todo \ {n}]]
      BY <2>7 DEF WriteResult
    <3>2. UNCHANGED <<delivered, lost>>
      BY <2>7 DEF WriteResult, historyVars
    <3>3. run[p] \in Locals /\ run[p].job \in Jobs
      BY <1>2, <3>1 DEF DTypeOK
    <3>4. run'[p].pc = "decide" /\ \A q \in Procs \ {p} : run'[q] = run[q]
      BY <1>2, <3>1, <3>3 DEF DTypeOK, Locals
    <3>5. InFlight(j, m)' = InFlight(j, m) \ {p}
      BY <1>2, <3>4, FlightEnds
    <3>6. CASE run[p].pc = "accepted" /\ j = run[p].job /\ m = n
      <4>1. p \in InFlight(j, m)
        BY <3>1, <3>6 DEF InFlight
      <4>2. Cardinality(InFlight(j, m)') = Cardinality(InFlight(j, m)) - 1
        BY <2>0, <3>5, <4>1, FS_RemoveElement
      <4> QED BY <2>0, <3>2, <4>2
    <3>7. CASE ~(run[p].pc = "accepted" /\ j = run[p].job /\ m = n)
      <4>1. InFlight(j, m)' = InFlight(j, m)
        BY <1>2, <3>1, <3>5, <3>7, NextIsUnique DEF InFlight
      <4>2. OkLogs(j, m)' <= OkLogs(j, m)
        BY <1>2, <3>1, <3>7 DEF DTypeOK, OkLogs, WriteLog
      <4> QED BY <2>0, <3>2, <4>1, <4>2
    <3> QED BY <3>6, <3>7
  <2>8. ASSUME NEW p \in Procs, Die(p)
        PROVE delivered'[j][m] >= lost'[j][m] + Cardinality(InFlight(j, m)') + OkLogs(j, m)'
    <3>1. UNCHANGED <<log, delivered>> /\ run' = [run EXCEPT ![p] = Idle]
      BY <2>8 DEF Die
    <3>2. InFlight(j, m)' = InFlight(j, m) \ {p}
      BY <1>2, <3>1, IdleType, FlightEnds DEF DTypeOK
    <3>3. CASE run[p].pc # "accepted"
      <4>1. UNCHANGED lost
        BY <2>8, <3>3 DEF Die
      <4>2. InFlight(j, m)' = InFlight(j, m)
        BY <3>2, <3>3 DEF InFlight
      <4> QED BY <2>0, <3>1, <4>1, <4>2 DEF OkLogs
    <3>4. CASE run[p].pc = "accepted"
      <4>1. PICK n \in Members :
              IsNext(p, n) /\ lost' = [lost EXCEPT ![run[p].job][n] = @ + 1]
        BY <2>8, <3>4 DEF Die
      <4>2. CASE j = run[p].job /\ m = n
        <5>1. Cardinality(InFlight(j, m)') = Cardinality(InFlight(j, m)) - 1
          BY <2>0, <3>2, <3>4, <4>1, <4>2, FS_RemoveElement DEF InFlight
        <5>2. lost'[j][m] = lost[j][m] + 1
          BY <1>2, <4>1, <4>2 DEF DTypeOK
        <5> QED BY <2>0, <3>1, <5>1, <5>2 DEF OkLogs
      <4>3. CASE ~(j = run[p].job /\ m = n)
        <5>1. InFlight(j, m)' = InFlight(j, m)
          BY <1>2, <3>2, <4>1, <4>3, NextIsUnique DEF InFlight
        <5>2. lost'[j][m] = lost[j][m]
          BY <1>2, <4>1, <4>3 DEF DTypeOK
        <5> QED BY <2>0, <3>1, <5>1, <5>2 DEF OkLogs
      <4> QED BY <4>2, <4>3
    <3> QED BY <3>3, <3>4
  <2>9. CASE \/ AnySave
             \/ \E s \in SettingsDocs : PutSettings(s)
             \/ \E members \in SUBSET Members : SetLinked(members)
             \/ Elapse
             \/ UNCHANGED dvars
    <3>1. UNCHANGED <<run, log, delivered, lost>>
      BY <2>9 DEF AnySave, PutSettings, SetLinked, Elapse, dvars, historyVars
    <3> QED BY <2>0, <3>1 DEF InFlight, IsNext, OkLogs
  <2> QED
    BY <1>2, <2>2, <2>3, <2>4, <2>5, <2>6, <2>7, <2>8, <2>9 DEF DNext, Continue, Abort
<1> QED BY <1>1, <1>2, DeliveryTypeOK, PTL DEF DSpec

(* The log never says ok of a message that did not get through. *)
THEOREM OkLogIsTrue == DSpec => []OkMeansDelivered
<1>1. DTypeOK /\ Accounted => OkMeansDelivered
  <2> SUFFICES ASSUME DTypeOK, Accounted, NEW j \in Jobs, NEW m \in Members,
                      log[j][m].result = "ok"
               PROVE delivered[j][m] > lost[j][m]
    BY DEF OkMeansDelivered
  <2> QED BY FlightsAreFinite DEF Accounted, OkLogs, DTypeOK
<1> QED BY <1>1, AccountedInvariant, DeliveryTypeOK, PTL
-----------------------------------------------------------------------------
(* One job leaks through the kill switch.  Inductively: while the switch is on, *)
(* a process whose job read it as off has pushed for no other job since, and a  *)
(* process about to push read it as off.                                        *)
KillInv ==
    /\ KillSwitchLeaksOneJob
    /\ \A p \in Procs : run[p].pc = "push" => ~run[p].settings.kill_switch
    /\ settings.kill_switch =>
         \A p \in Procs : run[p].pc # "idle" /\ ~run[p].settings.kill_switch =>
             leaked[p] \subseteq {run[p].job}

(* Steps that push nothing and keep the settings a running job has read. *)
LEMMA QuietStep ==
    ASSUME KillInv, UNCHANGED <<leaked, settings>>, NEW p \in Procs,
           \A q \in Procs \ {p} : run'[q] = run[q],
           \/ run'[p].pc = "idle"
           \/ /\ run[p].pc # "idle" /\ run'[p].job = run[p].job
              /\ run'[p].settings = run[p].settings
              /\ run'[p].pc = "push" => run[p].pc = "push" \/ ~run[p].settings.kill_switch
    PROVE  KillInv'
<1>1. KillSwitchLeaksOneJob'
  BY DEF KillInv, KillSwitchLeaksOneJob
<1>2. \A q \in Procs : run'[q].pc = "push" => ~run'[q].settings.kill_switch
  BY DEF KillInv
<1>3. ASSUME settings.kill_switch, NEW q \in Procs, run'[q].pc # "idle",
             ~run'[q].settings.kill_switch
      PROVE leaked[q] \subseteq {run'[q].job}
  BY <1>3 DEF KillInv
<1> QED BY <1>1, <1>2, <1>3 DEF KillInv

(* A process is never at more than one job that slips through the switch. *)
THEOREM KillSwitchTheorem == DSpec => []KillSwitchLeaksOneJob
<1>1. DInit => KillInv
  BY IdleType DEF DInit, KillInv, KillSwitchLeaksOneJob
<1>2. ASSUME DTypeOK, KillInv, [DNext]_dvars PROVE KillInv'
  <2>0. \A p \in Procs : run[p] \in Locals
    BY <1>2 DEF DTypeOK
  <2>1. ASSUME NEW p \in Procs, NEW j \in Jobs, NEW targets \in SUBSET Members,
               NEW clean \in BOOLEAN, NEW now \in 0..clock,
               StartJob(p, j, targets, clean, now)
        PROVE KillInv'
    <3>1. CASE UNCHANGED run
      BY <1>2, <2>1, <3>1 DEF StartJob, KillInv, KillSwitchLeaksOneJob, sharedVars, historyVars
    <3>2. CASE run' # run
      <4>1. run' = [run EXCEPT ![p] = [pc |-> "decide", job |-> j, todo |-> targets,
                                      now |-> now, settings |-> settings]]
        BY <2>1, <3>2 DEF StartJob
      <4>2. /\ run'[p].pc = "decide" /\ run'[p].settings = settings
            /\ \A q \in Procs \ {p} : run'[q] = run[q]
        BY <1>2, <4>1 DEF DTypeOK
      <4>3. UNCHANGED <<leaked, settings>>
        BY <2>1 DEF StartJob, sharedVars, historyVars
      <4>4. KillSwitchLeaksOneJob'
        BY <1>2, <4>3 DEF KillInv, KillSwitchLeaksOneJob
      <4>5. \A q \in Procs : run'[q].pc = "push" => ~run'[q].settings.kill_switch
        BY <1>2, <4>2 DEF KillInv
      <4>6. ASSUME settings'.kill_switch, NEW q \in Procs, run'[q].pc # "idle",
                   ~run'[q].settings.kill_switch
            PROVE leaked'[q] \subseteq {run'[q].job}
        BY <1>2, <4>2, <4>3, <4>6 DEF KillInv
      <4> QED BY <4>4, <4>5, <4>6 DEF KillInv
    <3> QED BY <3>1, <3>2
  <2>2. ASSUME NEW j \in Jobs, SaveJob(j),
               UNCHANGED <<log, run, sharedVars, historyVars>>
        PROVE KillInv'
    BY <1>2, <2>2 DEF KillInv, KillSwitchLeaksOneJob, sharedVars, historyVars
  <2>3. ASSUME NEW p \in Procs, Block(p) PROVE KillInv'
    <3>1. PICK m \in Members :
            /\ run[p].pc = "decide"
            /\ run' = [run EXCEPT ![p] = [run[p] EXCEPT !.todo = run[p].todo \ {m}]]
      BY <2>3 DEF Block
    <3>2. UNCHANGED <<leaked, settings>>
      BY <2>3 DEF Block, sharedVars, historyVars
    <3>3. /\ \A q \in Procs \ {p} : run'[q] = run[q]
          /\ run'[p].job = run[p].job /\ run'[p].settings = run[p].settings
          /\ run'[p].pc = "decide"
      BY <1>2, <2>0, <3>1 DEF DTypeOK, Locals
    <3> QED BY <1>2, <3>1, <3>2, <3>3, QuietStep
  <2>4. ASSUME NEW p \in Procs, Allow(p) PROVE KillInv'
    <3>1. /\ run[p].pc = "decide" /\ ~run[p].settings.kill_switch
          /\ run' = [run EXCEPT ![p] = [run[p] EXCEPT !.pc = "push"]]
      BY <2>4 DEF Allow, decide_send
    <3>2. UNCHANGED <<leaked, settings>>
      BY <2>4 DEF Allow, sharedVars, historyVars
    <3>3. /\ \A q \in Procs \ {p} : run'[q] = run[q]
          /\ run'[p].job = run[p].job /\ run'[p].settings = run[p].settings
      BY <1>2, <2>0, <3>1 DEF DTypeOK, Locals
    <3> QED BY <1>2, <3>1, <3>2, <3>3, QuietStep
  <2>5. ASSUME NEW p \in Procs, SkipUnlinked(p) PROVE KillInv'
    <3>1. /\ run[p].pc = "push"
          /\ run' = [run EXCEPT ![p] = [run[p] EXCEPT !.pc = "unlinked"]]
      BY <2>5 DEF SkipUnlinked
    <3>2. UNCHANGED <<leaked, settings>>
      BY <2>5 DEF SkipUnlinked, sharedVars, historyVars
    <3>3. /\ \A q \in Procs \ {p} : run'[q] = run[q]
          /\ run'[p].job = run[p].job /\ run'[p].settings = run[p].settings
      BY <1>2, <2>0, <3>1 DEF DTypeOK, Locals
    <3> QED BY <1>2, <3>1, <3>2, <3>3, QuietStep
  <2>6. ASSUME NEW p \in Procs, run[p].pc = "push",
               leaked' = IF settings.kill_switch
                         THEN [leaked EXCEPT ![p] = @ \cup {run[p].job}] ELSE leaked
        PROVE /\ KillSwitchLeaksOneJob'
              /\ \A q \in Procs \ {p} : leaked'[q] = leaked[q]
              /\ settings.kill_switch => leaked'[p] \subseteq {run[p].job}
    <3>1. settings.kill_switch => leaked[p] \subseteq {run[p].job}
      BY <1>2, <2>6 DEF KillInv
    <3> QED BY <1>2, <2>6, <3>1 DEF KillInv, KillSwitchLeaksOneJob, DTypeOK
  <2>7. ASSUME NEW p \in Procs, Push(p) PROVE KillInv'
    <3>1. /\ run[p].pc = "push" /\ settings' = settings
          /\ leaked' = IF settings.kill_switch
                       THEN [leaked EXCEPT ![p] = @ \cup {run[p].job}] ELSE leaked
          /\ run' = [run EXCEPT ![p] = [run[p] EXCEPT !.pc = "accepted"]]
      BY <2>7 DEF Push, Reach, sharedVars
    <3>2. /\ \A q \in Procs \ {p} : run'[q] = run[q]
          /\ run'[p].job = run[p].job /\ run'[p].pc = "accepted"
      BY <1>2, <2>0, <3>1 DEF DTypeOK, Locals
    <3>3. /\ KillSwitchLeaksOneJob'
          /\ \A q \in Procs \ {p} : leaked'[q] = leaked[q]
          /\ settings.kill_switch => leaked'[p] \subseteq {run[p].job}
      BY <2>6, <3>1
    <3> QED BY <1>2, <3>1, <3>2, <3>3 DEF KillInv
  <2>8. ASSUME NEW p \in Procs, PushTimedOut(p) PROVE KillInv'
    <3>1. /\ run[p].pc = "push" /\ settings' = settings
          /\ leaked' = IF settings.kill_switch
                       THEN [leaked EXCEPT ![p] = @ \cup {run[p].job}] ELSE leaked
          /\ run' = [run EXCEPT ![p] = Idle]
      BY <2>8 DEF PushTimedOut, Reach, sharedVars
    <3>2. /\ \A q \in Procs \ {p} : run'[q] = run[q]
          /\ run'[p].pc = "idle"
      BY <1>2, <3>1, IdleType DEF DTypeOK
    <3>3. /\ KillSwitchLeaksOneJob'
          /\ \A q \in Procs \ {p} : leaked'[q] = leaked[q]
      BY <2>6, <3>1
    <3> QED BY <1>2, <3>1, <3>2, <3>3 DEF KillInv
  <2>9. ASSUME NEW p \in Procs, WriteResult(p) PROVE KillInv'
    <3>1. PICK m \in Members :
            /\ run[p].pc \in {"accepted", "unlinked"}
            /\ run' = [run EXCEPT ![p] =
                         [run[p] EXCEPT !.pc = "decide", !.todo = run[p].todo \ {m}]]
      BY <2>9 DEF WriteResult
    <3>2. UNCHANGED <<leaked, settings>>
      BY <2>9 DEF WriteResult, sharedVars, historyVars
    <3>3. /\ \A q \in Procs \ {p} : run'[q] = run[q]
          /\ run'[p].job = run[p].job /\ run'[p].settings = run[p].settings
          /\ run'[p].pc = "decide"
      BY <1>2, <2>0, <3>1 DEF DTypeOK, Locals
    <3> QED BY <1>2, <3>1, <3>2, <3>3, QuietStep
  <2>10. ASSUME NEW p \in Procs, PushRefused(p) \/ FinishJob(p) \/ Die(p) PROVE KillInv'
    <3>1. UNCHANGED <<leaked, settings>> /\ run' = [run EXCEPT ![p] = Idle]
      BY <2>10 DEF PushRefused, FinishJob, Die, sharedVars, historyVars
    <3>2. run'[p].pc = "idle" /\ \A q \in Procs \ {p} : run'[q] = run[q]
      BY <1>2, <3>1, IdleType DEF DTypeOK
    <3> QED BY <1>2, <3>1, <3>2, QuietStep
  <2>11. ASSUME NEW s \in SettingsDocs, PutSettings(s) PROVE KillInv'
    BY <1>2, <2>11 DEF KillInv, KillSwitchLeaksOneJob, PutSettings
  <2>12. CASE \/ \E members \in SUBSET Members : SetLinked(members)
              \/ Elapse
              \/ UNCHANGED dvars
    <3>1. UNCHANGED <<run, leaked, settings>>
      BY <2>12 DEF SetLinked, Elapse, dvars, historyVars
    <3> QED BY <1>2, <3>1 DEF KillInv, KillSwitchLeaksOneJob
  <2> QED
    BY <1>2, <2>1, <2>2, <2>3, <2>4, <2>5, <2>7, <2>8, <2>9, <2>10, <2>11, <2>12
    DEF DNext, AnyCaller, AnySave, Continue, Abort
<1>3. KillInv => KillSwitchLeaksOneJob
  BY DEF KillInv
<1> QED BY <1>1, <1>2, <1>3, DeliveryTypeOK, PTL DEF DSpec
-----------------------------------------------------------------------------
(* The requests.                                                             *)
-----------------------------------------------------------------------------
(* No request is stamped with a time to come. *)
NotBeforeNow == \A p \in Procs : began[p] <= clock

LEMMA JobsOfEvents ==
    /\ \A e \in Events, s \in Stages : stage_job_id(e, s) \in Jobs
    /\ \A e \in Events : SummaryJob(e) \in Jobs /\ ManualJob(e) \in Jobs
    /\ \A e \in Events, t \in Times : LiffJob(e, t) \in Jobs
BY EventJobsAssumption DEF EventJobs

LEMMA TargetsAreMembers ==
    ASSUME RequestTypeOK, linked \subseteq Members
    PROVE  /\ Deliverable \subseteq Members
           /\ \A e \in Events : unanswered_member_ids(e) \subseteq Members
           /\ \A e \in Events, f \in Forms, s \in Stages : StageTargets(e, f, s) \subseteq Members
<1>1. Deliverable \subseteq Members
  BY DEF RequestTypeOK, Deliverable
<1>2. \A f : resolve_targets(f) \subseteq Members
  BY <1>1 DEF resolve_targets
<1>3. \A e \in Events : unanswered_member_ids(e) \subseteq Members
  BY <1>2 DEF unanswered_member_ids
<1>4. ASSUME NEW e \in Events, NEW f \in Forms, NEW s \in Stages
      PROVE StageTargets(e, f, s) \subseteq Members
  <2>1. Audience[s] \in {"all", "unanswered", "attendees"}
    BY PolicyAssumption
  <2> QED BY <1>2, <1>3, <2>1 DEF StageTargets, resolve_audience
<1> QED BY <1>1, <1>3, <1>4

LEMMA InitTypes == Init => DInit /\ RequestTypeOK /\ NotBeforeNow
BY BoundsAssumption DEF Init, DInit, RequestTypeOK, NotBeforeNow, Statuses, Answers, Times

(* Every step of a request or of the environment is a step of the engine, or   *)
(* leaves it alone.                                                            *)
LEMMA EngineStep ==
    ASSUME DTypeOK, RequestTypeOK, NotBeforeNow, [Next]_vars
    PROVE  [DNext]_dvars
<1>1. ASSUME NEW j \in Jobs, SaveJob(j),
             UNCHANGED <<log, run, sharedVars, historyVars>>
      PROVE DNext
  BY <1>1 DEF DNext, AnySave
<1>2. ASSUME NEW p \in Procs, PlanStage(p) PROVE DNext
  <2>1. PICK l \in listed[p], s \in Stages : SaveJob(stage_job_id(l.event, s))
    BY <1>2 DEF PlanStage
  <2>2. l.event \in Events
    BY <1>2, <2>1 DEF RequestTypeOK, Listing
  <2>3. UNCHANGED <<log, run, sharedVars, historyVars>>
    BY <1>2 DEF PlanStage
  <2> QED BY <1>1, <2>1, <2>2, <2>3, JobsOfEvents
<1>3. ASSUME NEW p \in Procs, plan_summary_notification(p) PROVE DNext
  <2>1. PICK l \in listed[p] : SaveJob(SummaryJob(l.event))
    BY <1>3 DEF plan_summary_notification
  <2>2. l.event \in Events
    BY <1>3, <2>1 DEF RequestTypeOK, Listing
  <2>3. UNCHANGED <<log, run, sharedVars, historyVars>>
    BY <1>3 DEF plan_summary_notification
  <2> QED BY <1>1, <2>1, <2>2, <2>3, JobsOfEvents
<1>4. ASSUME NEW p \in Procs, SaveRemind(p) PROVE DNext
  <2>1. PICK q \in queue[p] : SaveJob(q.job)
    BY <1>4 DEF SaveRemind
  <2>2. q.job \in Jobs
    BY <1>4, <2>1 DEF RequestTypeOK, Queued
  <2>3. UNCHANGED <<log, run, sharedVars, historyVars>>
    BY <1>4 DEF SaveRemind
  <2> QED BY <1>1, <2>1, <2>2, <2>3
<1>5. ASSUME NEW p \in Procs, RunJob(p) PROVE DNext
  <2>1. PICK q \in queue[p] :
          StartJob(p, q.job, q.targets, Clean(p, q),
                   IF p \in Ticks THEN began[p] ELSE clock)
    BY <1>5 DEF RunJob
  <2>2. q.event \in Events /\ q.job \in Jobs /\ q.targets \in SUBSET Members
    BY <1>5, <2>1 DEF RequestTypeOK, Queued
  <2>3. Clean(p, q) \in BOOLEAN
    <3>1. form[q.event].clean \in BOOLEAN
      BY <2>2, FormsAssumption DEF RequestTypeOK
    <3>2. q.clean \in BOOLEAN
      BY <1>5, <2>1 DEF RequestTypeOK, Queued
    <3> QED BY <3>1, <3>2 DEF Clean
  <2>4. (IF p \in Ticks THEN began[p] ELSE clock) \in 0..clock
    BY BoundsAssumption DEF RequestTypeOK, NotBeforeNow, DTypeOK, Times
  <2> QED BY <2>1, <2>2, <2>3, <2>4 DEF DNext, AnyCaller
<1>6. ASSUME NEW p \in Procs, ContinueJob(p) PROVE DNext
  BY <1>6 DEF ContinueJob, DNext
<1>7. ASSUME NEW p \in Procs, AbortRequest(p) PROVE DNext
  BY <1>7 DEF AbortRequest, DNext, Abort
<1>8. ASSUME NEW p \in Procs, Crash(p) PROVE [DNext]_dvars
  BY <1>8 DEF Crash, DNext, Abort
<1>9. ASSUME NEW p \in Procs,
             ListOpen(p) \/ PlanNothing(p) \/ EndRequest(p)
               \/ BeginTick(p) \/ (\E e \in Events : CloseEvent(p, e) \/ CheckRemind(p, e))
      PROVE UNCHANGED dvars
  BY <1>9 DEF ListOpen, PlanNothing, EndRequest, BeginTick, CloseEvent, CheckRemind
<1>10. ASSUME NEW e \in Events, UpdateEvent(e) \/ CancelEvent(e) \/ RestoreEvent(e)
       PROVE UNCHANGED dvars
  BY <1>10 DEF UpdateEvent, CancelEvent, RestoreEvent
<1>11. ASSUME NEW e \in Events, manual_remind(e) PROVE DNext
  BY <1>1, <1>11, JobsOfEvents DEF manual_remind
<1>12. ASSUME NEW e \in Events, NEW m \in Members, RecordAttendance(e, m) PROVE UNCHANGED dvars
  BY <1>12 DEF RecordAttendance
<1>13. ASSUME NEW m \in Members, UpdateMember(m) PROVE UNCHANGED dvars
  BY <1>13 DEF UpdateMember
<1>14. ASSUME NEW m \in Members, LinkMember(m) PROVE DNext
  <2>1. PICK members : members \subseteq Members /\ SetLinked(members)
    BY <1>14 DEF LinkMember, DTypeOK
  <2> QED BY <2>1 DEF DNext
<1>15. ASSUME SaveSettings PROVE DNext
  BY <1>15 DEF SaveSettings, DNext
<1>16. ASSUME PassTime PROVE DNext
  BY <1>16 DEF PassTime, DNext
<1>17. CASE UNCHANGED vars
  BY <1>17 DEF vars
<1>18. ASSUME NEW p \in Procs, Proceed(p) PROVE [DNext]_dvars
  BY <1>2, <1>3, <1>4, <1>5, <1>6, <1>9, <1>18 DEF Proceed
<1>19. CASE Environment
  BY <1>10, <1>11, <1>12, <1>13, <1>14, <1>15, <1>16, <1>19 DEF Environment
<1> QED
  BY <1>7, <1>8, <1>9, <1>17, <1>18, <1>19, ProcsAssumption DEF Next

(* Every step keeps the types of the requests and of the documents. *)
LEMMA RequestTypeStep ==
    ASSUME TypeOK, NotBeforeNow, [Next]_vars
    PROVE  RequestTypeOK' /\ NotBeforeNow'
<1>0. DTypeOK /\ RequestTypeOK /\ linked \subseteq Members /\ clock \in Times
  BY DEF TypeOK, DTypeOK
<1>1. ASSUME UNCHANGED <<eventVars, requestVars, sinceVars, closes>>, edits' \in Nat,
             crashes' \in Nat, clock' = clock \/ clock' = clock + 1
      PROVE RequestTypeOK' /\ NotBeforeNow'
  <2>1. RequestTypeOK'
    BY <1>0, <1>1 DEF RequestTypeOK, eventVars, requestVars, sinceVars
  <2>2. NotBeforeNow'
    BY <1>0, <1>1, BoundsAssumption DEF RequestTypeOK, NotBeforeNow, requestVars, Times
  <2> QED BY <2>1, <2>2
<1>2. ASSUME NEW p \in Procs, UNCHANGED <<eventVars, sinceVars, closes, edits, clock>>,
             crashes' \in Nat,
             phase' = [phase EXCEPT ![p] = phase'[p]],
             phase'[p] \in {"idle", "begun", "closing", "checked", "busy"},
             \/ began' = began
             \/ began' = [began EXCEPT ![p] = 0]
             \/ began' = [began EXCEPT ![p] = clock],
             listed' = [listed EXCEPT ![p] = listed'[p]], listed'[p] \subseteq Listing,
             queue' = [queue EXCEPT ![p] = queue'[p]], queue'[p] \subseteq Queued
      PROVE RequestTypeOK' /\ NotBeforeNow'
  <2>1. 0 \in Times /\ \A t \in Times : 0 <= t /\ t <= t
    BY BoundsAssumption DEF Times
  <2>2. /\ phase' \in [Procs -> {"idle", "begun", "closing", "checked", "busy"}]
        /\ began' \in [Procs -> Times]
        /\ listed' \in [Procs -> SUBSET Listing]
        /\ queue' \in [Procs -> SUBSET Queued]
    <3>1. phase' \in [Procs -> {"idle", "begun", "closing", "checked", "busy"}]
      BY <1>0, <1>2 DEF RequestTypeOK
    <3>2. began' \in [Procs -> Times]
      BY <1>0, <1>2, <2>1 DEF RequestTypeOK
    <3>3. listed' \in [Procs -> SUBSET Listing]
      BY <1>0, <1>2 DEF RequestTypeOK
    <3>4. queue' \in [Procs -> SUBSET Queued]
      BY <1>0, <1>2 DEF RequestTypeOK
    <3> QED BY <3>1, <3>2, <3>3, <3>4
  <2>3. NotBeforeNow'
    BY <1>0, <1>2, <2>1 DEF NotBeforeNow, RequestTypeOK
  <2> QED BY <1>0, <1>2, <2>2, <2>3 DEF RequestTypeOK, eventVars, sinceVars
<1>3. ASSUME NEW p \in Ticks, BeginTick(p) PROVE RequestTypeOK' /\ NotBeforeNow'
  <2>1. p \in Procs /\ phase' = [phase EXCEPT ![p] = "begun"]
        /\ began' = [began EXCEPT ![p] = clock] /\ listed' = listed /\ queue' = queue
    BY <1>3, ProcsAssumption DEF BeginTick
  <2>2. UNCHANGED <<eventVars, sinceVars, closes, edits, crashes, clock>>
    BY <1>3 DEF BeginTick, boundVars, dvars
  <2> QED BY <1>0, <1>2, <2>1, <2>2 DEF RequestTypeOK
<1>4. ASSUME NEW p \in Procs, ListOpen(p) PROVE RequestTypeOK' /\ NotBeforeNow'
  <2>1. {[event |-> e, form |-> form[e]] : e \in {x \in Events : status[x] = "open"}}
          \subseteq Listing
    BY <1>0 DEF RequestTypeOK, Listing
  <2>2. /\ phase' \in [Procs -> {"idle", "begun", "closing", "checked", "busy"}]
        /\ listed' \in [Procs -> SUBSET Listing]
        /\ touched' \in [Procs -> SUBSET Events]
        /\ replied' \in [Procs -> SUBSET (Events \X Members)]
    BY <1>0, <1>4, <2>1 DEF ListOpen, RequestTypeOK
  <2>3. UNCHANGED <<eventVars, began, queue, boundVars, clock>>
    BY <1>4 DEF ListOpen, dvars
  <2> QED BY <1>0, <2>2, <2>3 DEF RequestTypeOK, NotBeforeNow, eventVars, boundVars
<1>5. ASSUME NEW p \in Procs, PlanStage(p) PROVE RequestTypeOK' /\ NotBeforeNow'
  <2>1. PICK l \in listed[p], s \in Stages :
          /\ queue' = [queue EXCEPT ![p] = queue[p] \cup
               {[event |-> l.event, job |-> stage_job_id(l.event, s),
                 targets |-> StageTargets(l.event, l.form, s), clean |-> l.form.clean]}]
          /\ listed' = [listed EXCEPT ![p] = listed[p] \ {l}]
    BY <1>5 DEF PlanStage
  <2>2. l \in Listing /\ l.event \in Events /\ l.form \in Forms
    BY <1>0, <2>1 DEF RequestTypeOK, Listing
  <2>3. [event |-> l.event, job |-> stage_job_id(l.event, s),
         targets |-> StageTargets(l.event, l.form, s), clean |-> l.form.clean] \in Queued
    BY <1>0, <2>2, JobsOfEvents, TargetsAreMembers, FormsAssumption DEF Queued
  <2>4. UNCHANGED <<eventVars, phase, began, sinceVars, boundVars, clock>>
    BY <1>5 DEF PlanStage, sharedVars
  <2> QED BY <1>0, <1>2, <2>1, <2>3, <2>4 DEF RequestTypeOK, boundVars
<1>6. ASSUME NEW p \in Procs, PlanNothing(p) PROVE RequestTypeOK' /\ NotBeforeNow'
  <2>1. PICK l \in listed[p] : listed' = [listed EXCEPT ![p] = listed[p] \ {l}]
    BY <1>6 DEF PlanNothing
  <2>2. UNCHANGED <<eventVars, phase, began, queue, sinceVars, boundVars, clock>>
    BY <1>6 DEF PlanNothing, dvars
  <2> QED BY <1>0, <1>2, <2>1, <2>2 DEF RequestTypeOK, boundVars
<1>7. ASSUME NEW p \in Procs, RunJob(p) PROVE RequestTypeOK' /\ NotBeforeNow'
  <2>1. PICK q \in queue[p] :
          /\ queue' = [queue EXCEPT ![p] = queue[p] \ {q}]
          /\ clock' = clock
    BY <1>7 DEF RunJob, StartJob, sharedVars
  <2>2. UNCHANGED <<eventVars, phase, began, listed, sinceVars, boundVars>>
    BY <1>7 DEF RunJob
  <2> QED BY <1>0, <1>2, <2>1, <2>2 DEF RequestTypeOK, boundVars
<1>8. ASSUME NEW p \in Procs, ContinueJob(p) PROVE RequestTypeOK' /\ NotBeforeNow'
  <2>1. clock' = clock
    BY <1>8 DEF ContinueJob, Continue, Block, Allow, SkipUnlinked, Push, WriteResult,
                FinishJob, sharedVars
  <2>2. UNCHANGED <<eventVars, requestVars, sinceVars, boundVars>>
    BY <1>8 DEF ContinueJob
  <2> QED BY <1>0, <1>1, <2>1, <2>2 DEF RequestTypeOK, boundVars
<1>9. ASSUME NEW p \in Procs, GiveUp(p), UNCHANGED <<eventVars, sinceVars, closes, edits, clock>>,
             crashes' \in Nat
      PROVE RequestTypeOK' /\ NotBeforeNow'
  BY <1>0, <1>2, <1>9 DEF GiveUp, RequestTypeOK
<1>10. ASSUME NEW p \in Procs, EndRequest(p) PROVE RequestTypeOK' /\ NotBeforeNow'
  <2>1. UNCHANGED <<eventVars, listed, queue, sinceVars, closes, edits, crashes, clock>>
    BY <1>10 DEF EndRequest, dvars, boundVars
  <2>2. phase' = [phase EXCEPT ![p] = "idle"] /\ began' = [began EXCEPT ![p] = 0]
    BY <1>10 DEF EndRequest
  <2> QED BY <1>0, <1>2, <2>1, <2>2 DEF RequestTypeOK
<1>11. ASSUME NEW p \in Procs, AbortRequest(p) PROVE RequestTypeOK' /\ NotBeforeNow'
  <2>1. clock' = clock
    BY <1>11 DEF AbortRequest, PushRefused, PushTimedOut, sharedVars
  <2> QED BY <1>0, <1>9, <1>11, <2>1 DEF AbortRequest, boundVars, RequestTypeOK
<1>12. ASSUME NEW p \in Procs, Crash(p) PROVE RequestTypeOK' /\ NotBeforeNow'
  <2>1. clock' = clock
    BY <1>12 DEF Crash, Die, dvars, sharedVars
  <2>2. crashes' \in Nat
    BY <1>0, <1>12 DEF Crash, RequestTypeOK
  <2> QED BY <1>9, <1>12, <2>1, <2>2 DEF Crash
<1>13. ASSUME NEW p \in Procs, NEW e \in Events, CloseEvent(p, e)
       PROVE RequestTypeOK' /\ NotBeforeNow'
  <2>1. {[event |-> e, form |-> form[e]]} \subseteq Listing
    BY <1>0 DEF RequestTypeOK, Listing
  <2>2. /\ phase' \in [Procs -> {"idle", "begun", "closing", "checked", "busy"}]
        /\ listed' \in [Procs -> SUBSET Listing]
        /\ touched' \in [Procs -> SUBSET Events]
        /\ status' \in [Events -> Statuses]
        /\ began' \in [Procs -> Times]
        /\ closes' \in [Events -> Nat]
    BY <1>0, <1>13, <2>1 DEF CloseEvent, Touch, RequestTypeOK, Statuses
  <2>3. UNCHANGED <<form, active, answer, queue, replied, edits, crashes, clock>>
    BY <1>13 DEF CloseEvent, dvars
  <2>4. NotBeforeNow'
    BY <1>0, <1>13, <2>3 DEF CloseEvent, NotBeforeNow, RequestTypeOK, Times
  <2> QED BY <1>0, <2>2, <2>3, <2>4 DEF RequestTypeOK
<1>14. ASSUME NEW p \in Procs, plan_summary_notification(p) PROVE RequestTypeOK' /\ NotBeforeNow'
  <2>1. PICK l \in listed[p] :
          /\ queue' = [queue EXCEPT ![p] =
               {[event |-> l.event, job |-> SummaryJob(l.event),
                 targets |-> Officers \cap Deliverable, clean |-> form[l.event].clean]}]
          /\ listed' = [listed EXCEPT ![p] = {}]
          /\ phase' = [phase EXCEPT ![p] = "busy"]
    BY <1>14 DEF plan_summary_notification
  <2>2. [event |-> l.event, job |-> SummaryJob(l.event),
         targets |-> Officers \cap Deliverable, clean |-> form[l.event].clean] \in Queued
    BY <1>0, <2>1, JobsOfEvents, TargetsAreMembers, FormsAssumption
       DEF RequestTypeOK, Listing, Queued
  <2>3. UNCHANGED <<eventVars, began, sinceVars, boundVars, clock>>
    BY <1>14 DEF plan_summary_notification, sharedVars
  <2> QED BY <1>0, <1>2, <2>1, <2>2, <2>3 DEF RequestTypeOK, boundVars
<1>15. ASSUME NEW p \in Procs, NEW e \in Events, CheckRemind(p, e)
       PROVE RequestTypeOK' /\ NotBeforeNow'
  <2>1. [event |-> e, job |-> LiffJob(e, clock), targets |-> unanswered_member_ids(e),
         clean |-> form[e].clean] \in Queued
    BY <1>0, JobsOfEvents, TargetsAreMembers, FormsAssumption DEF Queued, RequestTypeOK
  <2>2. /\ phase' = [phase EXCEPT ![p] = "checked"]
        /\ began' = [began EXCEPT ![p] = clock]
        /\ queue' = [queue EXCEPT ![p] = {[event |-> e, job |-> LiffJob(e, clock),
                                          targets |-> unanswered_member_ids(e),
                                          clean |-> form[e].clean]}]
    BY <1>15 DEF CheckRemind
  <2>3. UNCHANGED <<eventVars, listed, sinceVars, boundVars, clock>>
    BY <1>15 DEF CheckRemind, dvars
  <2> QED BY <1>0, <1>2, <2>1, <2>2, <2>3 DEF RequestTypeOK, boundVars
<1>16. ASSUME NEW p \in Procs, SaveRemind(p) PROVE RequestTypeOK' /\ NotBeforeNow'
  <2>1. phase' = [phase EXCEPT ![p] = "busy"]
    BY <1>16 DEF SaveRemind
  <2>2. UNCHANGED <<eventVars, began, listed, queue, sinceVars, boundVars, clock>>
    BY <1>16 DEF SaveRemind, sharedVars
  <2> QED BY <1>0, <1>2, <2>1, <2>2 DEF RequestTypeOK, boundVars
<1>17. ASSUME NEW e \in Events, UpdateEvent(e) \/ CancelEvent(e) \/ RestoreEvent(e)
       PROVE RequestTypeOK' /\ NotBeforeNow'
  <2>1. /\ form' \in [Events -> Forms] /\ status' \in [Events -> Statuses]
        /\ touched' \in [Procs -> SUBSET Events] /\ edits' \in Nat
    <3>1. form' \in [Events -> Forms]
      BY <1>0, <1>17 DEF UpdateEvent, CancelEvent, RestoreEvent, RequestTypeOK
    <3>2. \E s \in Statuses : status' = [status EXCEPT ![e] = s]
      BY <1>17 DEF UpdateEvent, CancelEvent, RestoreEvent, Statuses
    <3>3. Edit /\ Touch(e)
      BY <1>17 DEF UpdateEvent, CancelEvent, RestoreEvent
    <3> QED BY <1>0, <3>1, <3>2, <3>3 DEF Edit, Touch, RequestTypeOK
  <2>2. UNCHANGED <<dvars, active, answer, requestVars, replied, closes, crashes>>
    BY <1>17 DEF UpdateEvent, CancelEvent, RestoreEvent
  <2> QED BY <1>0, <2>1, <2>2 DEF RequestTypeOK, NotBeforeNow, requestVars, dvars
<1>18. ASSUME NEW e \in Events, NEW m \in Members, RecordAttendance(e, m)
       PROVE RequestTypeOK' /\ NotBeforeNow'
  <2>1. /\ answer' \in [Events -> [Members -> Answers]]
        /\ replied' \in [Procs -> SUBSET (Events \X Members)] /\ edits' \in Nat
    BY <1>0, <1>18 DEF RecordAttendance, Edit, RequestTypeOK
  <2>2. UNCHANGED <<dvars, form, status, active, requestVars, touched, closes, crashes>>
    BY <1>18 DEF RecordAttendance
  <2> QED BY <1>0, <2>1, <2>2 DEF RequestTypeOK, NotBeforeNow, requestVars, dvars
<1>19. ASSUME NEW m \in Members, UpdateMember(m) PROVE RequestTypeOK' /\ NotBeforeNow'
  <2>1. active' \subseteq Members /\ edits' \in Nat
    BY <1>0, <1>19 DEF UpdateMember, Edit, RequestTypeOK
  <2>2. UNCHANGED <<dvars, form, status, answer, requestVars, sinceVars, closes, crashes>>
    BY <1>19 DEF UpdateMember
  <2> QED BY <1>0, <2>1, <2>2 DEF RequestTypeOK, NotBeforeNow, requestVars, sinceVars, dvars
<1>20. CASE \/ \E e \in Events : manual_remind(e)
            \/ \E m \in Members : LinkMember(m)
            \/ SaveSettings
  <2>1. UNCHANGED <<eventVars, requestVars, sinceVars, closes, crashes, clock>>
    BY <1>20 DEF manual_remind, LinkMember, SetLinked, SaveSettings, PutSettings, sharedVars
  <2>2. edits' \in Nat
    <3>1. Edit
      BY <1>20 DEF manual_remind, LinkMember, SaveSettings
    <3> QED BY <1>0, <3>1 DEF Edit, RequestTypeOK
  <2> QED BY <1>0, <1>1, <2>1, <2>2 DEF RequestTypeOK
<1>21. CASE PassTime
  BY <1>0, <1>1, <1>21 DEF PassTime, Elapse, boundVars, RequestTypeOK
<1>22. CASE UNCHANGED vars
  BY <1>0, <1>1, <1>22 DEF vars, boundVars, dvars, RequestTypeOK
<1>23. ASSUME NEW p \in Procs, Proceed(p) PROVE RequestTypeOK' /\ NotBeforeNow'
  BY <1>4, <1>5, <1>6, <1>7, <1>8, <1>10, <1>14, <1>16, <1>23 DEF Proceed
<1>24. CASE Environment
  BY <1>17, <1>18, <1>19, <1>20, <1>21, <1>24 DEF Environment
<1> QED
  BY <1>3, <1>11, <1>12, <1>13, <1>15, <1>22, <1>23, <1>24, ProcsAssumption DEF Next

(* Documents and locals keep their types, in the engine and in the requests. *)
THEOREM RemindersTypeOK == Spec => [](TypeOK /\ NotBeforeNow)
<1>1. Init => TypeOK /\ NotBeforeNow
  BY InitTypes, DInitTypes DEF TypeOK
<1>2. TypeOK /\ NotBeforeNow /\ [Next]_vars => (TypeOK /\ NotBeforeNow)'
  BY EngineStep, RequestTypeStep, DeliveryTypeStep DEF TypeOK
<1> QED BY <1>1, <1>2, PTL DEF Spec

(* The requests use the delivery engine as it is meant to be used, so every    *)
(* theorem about it holds of them.                                             *)
THEOREM RemindersImplementDelivery == Spec => ImplementsDelivery
<1>1. Init => DInit
  BY InitTypes
<1>2. TypeOK /\ NotBeforeNow /\ [Next]_vars => [DNext]_dvars
  BY EngineStep DEF TypeOK
<1> QED BY <1>1, <1>2, RemindersTypeOK, PTL DEF Spec, ImplementsDelivery, DSpec

(* An ok entry in the delivery log of a reminder, a summary or the button is   *)
(* never a lie.                                                                *)
THEOREM OkReminderLogIsTrue == Spec => []OkMeansDelivered
BY RemindersImplementDelivery, OkLogIsTrue, PTL DEF ImplementsDelivery

(* Once the kill switch is thrown a tick, a closing or a press of the button   *)
(* finishes the job it is at, and starts no message of another.                *)
THEOREM KillSwitchStopsRequests == Spec => []KillSwitchLeaksOneJob
BY RemindersImplementDelivery, KillSwitchTheorem, PTL DEF ImplementsDelivery
-----------------------------------------------------------------------------
(* Nobody gets a stage twice, as long as one tick runs at a time.            *)
-----------------------------------------------------------------------------
(* Cloud Scheduler calls the tick hourly and gives it 300 seconds. *)
OneTick == \A p, q \in Ticks : p = q

Unsent(j, members) == \A m \in members : log[j][m].result # "ok"

(* Only the tick works on stage jobs, and the members it has still to look at  *)
(* in a job are not on record as sent.                                         *)
StageWork == \A p \in Procs :
    /\ run[p].pc # "idle" /\ run[p].job \in StageJobs =>
          p \in Ticks /\ Unsent(run[p].job, run[p].todo)
    /\ \A q \in queue[p] : q.job \in StageJobs => p \in Ticks /\ Unsent(q.job, q.targets)

(* A tick lists, then plans each event it listed once, then executes. *)
InShape(p) ==
    /\ phase[p] \in {"idle", "begun", "busy"}
    /\ phase[p] # "busy" => listed[p] = {} /\ queue[p] = {} /\ run[p].pc = "idle"
    /\ run[p].pc # "idle" => listed[p] = {}
    /\ \A k, l \in listed[p] : k.event = l.event => k = l
    /\ \A q \in queue[p] : \E s \in Stages : q.job = stage_job_id(q.event, s)
    /\ \A q, r \in queue[p] : q.event = r.event => q = r
    /\ \A q \in queue[p], l \in listed[p] : q.event # l.event
    /\ run[p].pc # "idle" =>
          \E e \in Events, s \in Stages :
              run[p].job = stage_job_id(e, s) /\ \A q \in queue[p] : q.event # e
TickShape == \A p \in Ticks : InShape(p)

OnceInv == StageWork /\ TickShape /\ AtMostOnce /\ RemindersOnRecord

Flight(p, j, m) == run[p].pc = "accepted" /\ run[p].job = j /\ IsNext(p, m)

LEMMA StageJobIds ==
    /\ \A e, f \in Events, s, t \in Stages :
           stage_job_id(e, s) = stage_job_id(f, t) => e = f /\ s = t
    /\ \A e \in Events, s \in Stages : stage_job_id(e, s) \in StageJobs
    /\ \A e : SummaryJob(e) \notin StageJobs
    /\ \A e, t : LiffJob(e, t) \notin StageJobs
    /\ StageJobs \subseteq Jobs
<1>1. \A e, f \in Events, s, t \in Stages :
          stage_job_id(e, s) = stage_job_id(f, t) => e = f /\ s = t
  BY DEF stage_job_id
<1>2. \A e \in Events, s \in Stages : stage_job_id(e, s) \in StageJobs
  BY DEF StageJobs
<1>3. \A e : SummaryJob(e) \notin StageJobs
  BY DEF StageJobs, SummaryJob, stage_job_id
<1>4. \A e, t : LiffJob(e, t) \notin StageJobs
  BY DEF StageJobs, LiffJob, stage_job_id
<1>5. StageJobs \subseteq Jobs
  BY JobsOfEvents DEF StageJobs
<1> QED BY <1>1, <1>2, <1>3, <1>4, <1>5

(* What one step of a job does to the locals of the requests. *)
LEMMA JobGoesOn ==
    ASSUME DTypeOK, NEW p \in Procs, Continue(p) \/ Abort(p)
    PROVE  /\ run[p].pc # "idle"
           /\ \A q \in Procs \ {p} : run'[q] = run[q]
           /\ run'[p].pc # "idle" =>
                 run'[p].job = run[p].job /\ run'[p].todo \subseteq run[p].todo
<1>1. run[p] \in Locals
  BY DEF DTypeOK
<1>2. CASE PushRefused(p) \/ PushTimedOut(p) \/ FinishJob(p) \/ Die(p)
  <2>1. run' = [run EXCEPT ![p] = Idle] /\ run[p].pc # "idle"
    BY <1>2 DEF PushRefused, PushTimedOut, FinishJob, Die
  <2> QED BY <2>1, IdleType DEF DTypeOK
<1>3. CASE Allow(p) \/ SkipUnlinked(p) \/ Push(p)
  <2>1. run[p].pc # "idle"
    BY <1>3 DEF Allow, SkipUnlinked, Push
  <2>2. PICK pc \in {"push", "unlinked", "accepted"} :
          run' = [run EXCEPT ![p] = [run[p] EXCEPT !.pc = pc]]
    BY <1>3 DEF Allow, SkipUnlinked, Push
  <2>3. run'[p] = [run[p] EXCEPT !.pc = pc] /\ \A q \in Procs \ {p} : run'[q] = run[q]
    BY <2>2 DEF DTypeOK
  <2>4. run'[p].job = run[p].job /\ run'[p].todo = run[p].todo
    BY <1>1, <2>3 DEF Locals
  <2> QED BY <2>1, <2>3, <2>4
<1>4. CASE Block(p)
  <2>1. PICK m \in Members :
          /\ run[p].pc = "decide"
          /\ run' = [run EXCEPT ![p] = [run[p] EXCEPT !.todo = run[p].todo \ {m}]]
    BY <1>4 DEF Block
  <2> QED BY <1>1, <2>1 DEF DTypeOK, Locals
<1>5. CASE WriteResult(p)
  <2>1. PICK m \in Members :
          /\ run[p].pc \in {"accepted", "unlinked"}
          /\ run' = [run EXCEPT ![p] =
                       [run[p] EXCEPT !.pc = "decide", !.todo = run[p].todo \ {m}]]
    BY <1>5 DEF WriteResult
  <2> QED BY <1>1, <2>1 DEF DTypeOK, Locals
<1> QED BY <1>2, <1>3, <1>4, <1>5 DEF Continue, Abort

(* ... and to the log: at most the entry of the member it is at, who is done. *)
LEMMA JobLogs ==
    ASSUME DTypeOK, NEW p \in Procs, Continue(p) \/ Abort(p)
    PROVE  \A j \in Jobs, m \in Members : log'[j][m] # log[j][m] =>
               j = run[p].job /\ m \in run[p].todo /\ m \notin run'[p].todo
<1>1. run[p] \in Locals
  BY DEF DTypeOK
<1>2. CASE UNCHANGED log
  BY <1>2
<1>3. CASE Block(p)
  <2>1. PICK n \in Members :
          /\ n \in run[p].todo
          /\ log' = [log EXCEPT ![run[p].job][n] = [result |-> "blocked", sent_at |-> run[p].now]]
          /\ run' = [run EXCEPT ![p] = [run[p] EXCEPT !.todo = run[p].todo \ {n}]]
    BY <1>3 DEF Block, WriteLog, IsNext
  <2>2. run'[p].todo = run[p].todo \ {n}
    BY <1>1, <2>1 DEF DTypeOK, Locals
  <2> QED BY <2>1, <2>2 DEF DTypeOK
<1>4. CASE WriteResult(p)
  <2>1. PICK n \in Members :
          /\ IsNext(p, n)
          /\ WriteLog(p, n, IF run[p].pc = "accepted" THEN "ok" ELSE "failed")
          /\ run' = [run EXCEPT ![p] =
                       [run[p] EXCEPT !.pc = "decide", !.todo = run[p].todo \ {n}]]
    BY <1>4 DEF WriteResult
  <2>2. run'[p].todo = run[p].todo \ {n}
    BY <1>1, <2>1 DEF DTypeOK, Locals
  <2> QED BY <2>1, <2>2 DEF DTypeOK, WriteLog, IsNext
<1>5. CASE ~Block(p) /\ ~WriteResult(p)
  <2>1. UNCHANGED log
    BY <1>5 DEF Continue, Abort, Allow, SkipUnlinked, Push, FinishJob, PushRefused,
                PushTimedOut, Die
  <2> QED BY <2>1
<1> QED BY <1>3, <1>4, <1>5

(* Steps that leave the jobs of the requests alone. *)
LEMMA OnceFrame ==
    ASSUME OnceInv, UNCHANGED <<run, queue, listed, phase, log, delivered, lost>>
    PROVE  OnceInv'
<1>1. StageWork' /\ TickShape'
  BY DEF OnceInv, StageWork, TickShape, InShape, Unsent
<1>2. AtMostOnce' /\ RemindersOnRecord'
  BY DEF OnceInv, AtMostOnce, RemindersOnRecord, IsNext
<1> QED BY <1>1, <1>2 DEF OnceInv

(* Steps of a job keep the shape of the tick, and the work on its stages. *)
LEMMA ShapeOfJobs ==
    ASSUME OneTick, TypeOK, OnceInv, NEW p \in Procs, Continue(p) \/ Abort(p),
           \/ UNCHANGED <<queue, listed, phase>>
           \/ GiveUp(p) /\ run'[p].pc = "idle"
    PROVE  StageWork' /\ TickShape'
<1>1. /\ run[p].pc # "idle"
      /\ \A q \in Procs \ {p} : run'[q] = run[q]
      /\ run'[p].pc # "idle" =>
            run'[p].job = run[p].job /\ run'[p].todo \subseteq run[p].todo
  BY JobGoesOn DEF TypeOK
<1>2. \A j \in Jobs, m \in Members : log'[j][m] # log[j][m] =>
          j = run[p].job /\ m \in run[p].todo /\ m \notin run'[p].todo
  BY JobLogs DEF TypeOK
<1>3. \A q \in Procs : q # p \/ UNCHANGED <<queue, listed, phase>> =>
          queue'[q] = queue[q] /\ listed'[q] = listed[q] /\ phase'[q] = phase[q]
  BY DEF GiveUp, TypeOK, RequestTypeOK
<1>4. ~(UNCHANGED <<queue, listed, phase>>) =>
          queue'[p] = {} /\ listed'[p] = {} /\ phase'[p] = "idle" /\ run'[p].pc = "idle"
  BY DEF GiveUp, TypeOK, RequestTypeOK
<1>5. \A q \in Procs : run[q].todo \subseteq Members
  BY DEF TypeOK, DTypeOK, Locals
<1>6. Ticks \subseteq Procs
  BY ProcsAssumption
<1>7. ASSUME NEW q \in Procs, run'[q].pc # "idle", run'[q].job \in StageJobs
      PROVE q \in Ticks /\ Unsent(run[q].job, run[q].todo)'
  <2>1. /\ run[q].pc # "idle" /\ run'[q].job = run[q].job /\ run'[q].todo \subseteq run[q].todo
    BY <1>1, <1>7
  <2>2. q \in Ticks /\ Unsent(run[q].job, run[q].todo)
    BY <1>7, <2>1 DEF OnceInv, StageWork
  <2>3. ASSUME NEW m \in run'[q].todo PROVE log'[run[q].job][m] = log[run[q].job][m]
    <3>1. run[q].job \in Jobs /\ m \in Members
      BY <1>5, <1>7, <2>1, <2>3, StageJobIds
    <3>2. CASE q = p
      BY <1>2, <2>3, <3>1, <3>2
    <3>3. CASE q # p /\ run[p].job # run[q].job
      BY <1>2, <3>1, <3>3
    <3>4. CASE q # p /\ run[p].job = run[q].job
      <4>1. p \in Ticks
        BY <1>1, <1>7, <2>1, <3>4 DEF OnceInv, StageWork
      <4> QED BY <2>2, <3>4, <4>1 DEF OneTick
    <3> QED BY <3>2, <3>3, <3>4
  <2>4. Unsent(run[q].job, run[q].todo)'
    BY <2>1, <2>2, <2>3 DEF Unsent
  <2> QED BY <2>2, <2>4
<1>8. ASSUME NEW q \in Procs, NEW r \in queue'[q], r.job \in StageJobs
      PROVE q \in Ticks /\ Unsent(r.job, r.targets)'
  <2>1. r \in queue[q]
    BY <1>3, <1>4, <1>8
  <2>2. q \in Ticks /\ Unsent(r.job, r.targets)
    BY <1>8, <2>1 DEF OnceInv, StageWork
  <2>3. r.event \in Events /\ r.job \in Jobs /\ r.targets \subseteq Members
    BY <2>1 DEF TypeOK, RequestTypeOK, Queued
  <2>4. r.job # run[p].job
    <3>1. SUFFICES ASSUME r.job = run[p].job PROVE FALSE
      OBVIOUS
    <3>2. p = q
      BY <1>1, <1>8, <2>2, <3>1 DEF OneTick, OnceInv, StageWork
    <3>3. PICK e \in Events, s \in Stages :
            run[p].job = stage_job_id(e, s) /\ r.event # e
      BY <1>1, <2>1, <2>2, <3>2 DEF OnceInv, TickShape, InShape
    <3>4. PICK t \in Stages : r.job = stage_job_id(r.event, t)
      BY <2>1, <2>2, <3>2 DEF OnceInv, TickShape, InShape
    <3> QED BY <2>3, <3>1, <3>3, <3>4, StageJobIds
  <2>5. \A m \in r.targets : log'[r.job][m] = log[r.job][m]
    BY <1>2, <2>3, <2>4
  <2> QED BY <2>2, <2>5 DEF Unsent
<1>9. StageWork'
  BY <1>7, <1>8 DEF StageWork
<1>10. ASSUME NEW q \in Ticks, q # p \/ UNCHANGED <<queue, listed, phase>>
       PROVE /\ queue'[q] = queue[q] /\ listed'[q] = listed[q] /\ phase'[q] = phase[q]
             /\ run'[q].pc # "idle" => run[q].pc # "idle" /\ run'[q].job = run[q].job
             /\ run[q].pc = "idle" => run'[q].pc = "idle"
  BY <1>1, <1>3, <1>6, <1>10
<1>11. TickShape'
  <2>1. ASSUME NEW q \in Ticks, q # p \/ UNCHANGED <<queue, listed, phase>>
        PROVE InShape(q)'
    BY <1>10, <2>1 DEF OnceInv, TickShape, InShape
  <2> QED BY <1>4, <2>1 DEF TickShape, InShape
<1> QED BY <1>9, <1>11

OnRecord(j, m) == log[j][m].result = "ok" \/ \E p \in Procs : Flight(p, j, m)

LEMMA OnRecordMeaning ==
    RemindersOnRecord <=>
        \A j \in StageJobs, m \in Members : delivered[j][m] > lost[j][m] => OnRecord(j, m)
BY DEF RemindersOnRecord, OnRecord, Flight

(* The requests p does not touch have the flights they had. *)
LEMMA OtherFlights ==
    ASSUME NEW q, run'[q] = run[q]
    PROVE  \A j, m : Flight(q, j, m)' <=> Flight(q, j, m)
BY DEF Flight, IsNext

(* ... and what has been received and recorded of them. *)
LEMMA DeliveriesOfJobs ==
    ASSUME OneTick, TypeOK, OnceInv, NEW p \in Procs, Continue(p) \/ Abort(p)
    PROVE  AtMostOnce' /\ RemindersOnRecord'
<1>1. /\ run[p].pc # "idle"
      /\ \A q \in Procs \ {p} : run'[q] = run[q]
  BY JobGoesOn DEF TypeOK
<1>2. run[p] \in Locals /\ run[p].job \in Jobs
  BY <1>1 DEF TypeOK, DTypeOK
<1>3. \A j \in StageJobs, m \in Members :
          /\ delivered[j][m] \in Nat /\ lost[j][m] \in Nat /\ delivered[j][m] <= 1 + lost[j][m]
          /\ delivered[j][m] > lost[j][m] => OnRecord(j, m)
  BY StageJobIds, OnRecordMeaning DEF TypeOK, DTypeOK, OnceInv, AtMostOnce
<1>4. SUFFICES ASSUME NEW j \in StageJobs, NEW m \in Members
               PROVE /\ delivered'[j][m] <= 1 + lost'[j][m]
                     /\ delivered'[j][m] > lost'[j][m] => OnRecord(j, m)'
  BY OnRecordMeaning DEF AtMostOnce, RemindersOnRecord, OnRecord, Flight
<1>5. \A q \in Procs \ {p} : Flight(q, j, m)' <=> Flight(q, j, m)
  BY <1>1, OtherFlights
<1>6. j \in Jobs
  BY StageJobIds
<1>7. run[p].job = j => Unsent(j, run[p].todo) /\ \A q \in Procs \ {p} : ~Flight(q, j, m)
  <2> SUFFICES ASSUME run[p].job = j
               PROVE Unsent(j, run[p].todo) /\ \A q \in Procs \ {p} : ~Flight(q, j, m)
    OBVIOUS
  <2>1. p \in Ticks /\ Unsent(j, run[p].todo)
    BY <1>1 DEF OnceInv, StageWork
  <2>2. ASSUME NEW q \in Procs \ {p}, Flight(q, j, m) PROVE FALSE
    <3>1. q \in Ticks
      BY <2>2 DEF Flight, OnceInv, StageWork
    <3> QED BY <2>1, <2>2, <3>1 DEF OneTick
  <2> QED BY <2>1, <2>2
<1>8. ASSUME run[p].pc # "accepted", UNCHANGED <<log, delivered, lost>>
      PROVE /\ delivered'[j][m] <= 1 + lost'[j][m]
            /\ delivered'[j][m] > lost'[j][m] => OnRecord(j, m)'
  <2>1. OnRecord(j, m) => OnRecord(j, m)'
    BY <1>5, <1>8 DEF OnRecord, Flight
  <2> QED BY <1>3, <1>8, <2>1
<1>9. CASE Allow(p) \/ SkipUnlinked(p) \/ PushRefused(p) \/ FinishJob(p)
           \/ (Die(p) /\ run[p].pc # "accepted")
  BY <1>8, <1>9 DEF Allow, SkipUnlinked, PushRefused, FinishJob, Die, historyVars
<1>10. CASE Block(p) \/ WriteResult(p)
  <2>1. UNCHANGED <<delivered, lost>>
    BY <1>10 DEF Block, WriteResult, historyVars
  <2>2. SUFFICES ASSUME OnRecord(j, m) PROVE OnRecord(j, m)'
    BY <1>3, <2>1
  <2>3. PICK n \in Members, result \in Results :
          /\ IsNext(p, n) /\ WriteLog(p, n, result)
          /\ run[p].pc = "accepted" => result = "ok"
    BY <1>10 DEF Block, WriteResult, Results
  <2>4. n \in run[p].todo
    BY <2>3 DEF IsNext
  <2>5. CASE j = run[p].job /\ m = n
    <3>1. log[j][m].result # "ok" /\ \A q \in Procs \ {p} : ~Flight(q, j, m)
      BY <1>7, <2>4, <2>5 DEF Unsent
    <3>2. run[p].pc = "accepted"
      BY <2>2, <3>1 DEF OnRecord, Flight
    <3>3. log'[j][m].result = "ok"
      BY <1>2, <2>3, <2>5, <3>2 DEF WriteLog, TypeOK, DTypeOK
    <3> QED BY <3>3 DEF OnRecord
  <2>6. CASE ~(j = run[p].job /\ m = n)
    <3>1. log'[j][m] = log[j][m]
      BY <1>2, <1>6, <2>3, <2>6 DEF WriteLog, TypeOK, DTypeOK
    <3>2. ~Flight(p, j, m)
      BY <2>3, <2>6, NextIsUnique DEF Flight, TypeOK
    <3> QED BY <1>5, <2>2, <3>1, <3>2 DEF OnRecord
  <2> QED BY <2>5, <2>6
<1>11. CASE Push(p)
  <2>1. PICK n \in linked :
          /\ run[p].pc = "push" /\ IsNext(p, n)
          /\ delivered' = [delivered EXCEPT ![run[p].job][n] = @ + 1]
          /\ run' = [run EXCEPT ![p] = [run[p] EXCEPT !.pc = "accepted"]]
          /\ UNCHANGED <<log, lost>>
    BY <1>11 DEF Push, Reach
  <2>2. /\ run'[p].pc = "accepted" /\ run'[p].job = run[p].job /\ run'[p].todo = run[p].todo
        /\ n \in run[p].todo /\ ~Flight(p, j, m)
    BY <1>2, <2>1 DEF TypeOK, DTypeOK, Locals, IsNext, Flight
  <2>3. CASE j = run[p].job /\ m = n
    <3>1. ~OnRecord(j, m)
      BY <1>7, <2>2, <2>3 DEF OnRecord, Unsent
    <3>2. delivered'[j][m] <= 1 + lost'[j][m]
      BY <1>3, <1>6, <2>1, <2>3, <3>1 DEF TypeOK, DTypeOK
    <3>3. Flight(p, j, m)'
      BY <2>1, <2>2, <2>3 DEF Flight, IsNext
    <3> QED BY <3>2, <3>3 DEF OnRecord
  <2>4. CASE ~(j = run[p].job /\ m = n)
    <3>1. delivered'[j][m] = delivered[j][m]
      BY <1>2, <1>6, <2>1, <2>4 DEF TypeOK, DTypeOK
    <3>2. OnRecord(j, m) => OnRecord(j, m)'
      BY <1>5, <2>1, <2>2 DEF OnRecord
    <3> QED BY <1>3, <2>1, <3>1, <3>2
  <2> QED BY <2>3, <2>4
<1>12. CASE PushTimedOut(p)
  <2>1. PICK n \in linked \cap Flaky :
          /\ run[p].pc = "push"
          /\ delivered' = [delivered EXCEPT ![run[p].job][n] = @ + 1]
          /\ lost' = [lost EXCEPT ![run[p].job][n] = @ + 1]
          /\ UNCHANGED log
    BY <1>12 DEF PushTimedOut, Reach
  <2>2. OnRecord(j, m) => OnRecord(j, m)'
    BY <1>5, <2>1 DEF OnRecord, Flight
  <2>3. \/ delivered'[j][m] = delivered[j][m] /\ lost'[j][m] = lost[j][m]
        \/ delivered'[j][m] = delivered[j][m] + 1 /\ lost'[j][m] = lost[j][m] + 1
    BY <1>2, <1>6, <2>1 DEF TypeOK, DTypeOK
  <2> QED BY <1>3, <2>2, <2>3
<1>13. CASE Die(p) /\ run[p].pc = "accepted"
  <2>1. PICK n \in Members :
          IsNext(p, n) /\ lost' = [lost EXCEPT ![run[p].job][n] = @ + 1]
    BY <1>13 DEF Die
  <2>2. UNCHANGED <<log, delivered>>
    BY <1>13 DEF Die
  <2>3. CASE j = run[p].job /\ m = n
    <3>1. lost'[j][m] = lost[j][m] + 1
      BY <1>6, <2>1, <2>3 DEF TypeOK, DTypeOK
    <3> QED BY <1>3, <2>2, <3>1
  <2>4. CASE ~(j = run[p].job /\ m = n)
    <3>1. lost'[j][m] = lost[j][m]
      BY <1>2, <1>6, <2>1, <2>4 DEF TypeOK, DTypeOK
    <3>2. ~Flight(p, j, m)
      BY <2>1, <2>4, NextIsUnique DEF Flight, TypeOK
    <3>3. OnRecord(j, m) => OnRecord(j, m)'
      BY <1>5, <2>2, <3>2 DEF OnRecord
    <3> QED BY <1>3, <2>2, <3>1, <3>3
  <2> QED BY <2>3, <2>4
<1> QED BY <1>9, <1>10, <1>11, <1>12, <1>13 DEF Continue, Abort

(* Requests that change what they are about to do, and no delivery. *)
LEMMA RequestFrame ==
    ASSUME OnceInv, NEW p \in Procs,
           \A q \in Procs \ {p} : /\ queue'[q] = queue[q] /\ listed'[q] = listed[q]
                                  /\ phase'[q] = phase[q] /\ run'[q] = run[q],
           UNCHANGED <<log, delivered, lost>>,
           run[p].pc # "accepted" \/ run'[p] = run[p],
           p \in Ticks => InShape(p)',
           run'[p] # run[p] => \/ run'[p].pc = "idle"
                               \/ \E q \in queue[p] : run'[p].job = q.job /\ run'[p].todo = q.targets,
           \A q \in queue'[p] : q \in queue[p] \/ q.job \notin StageJobs
                                  \/ (p \in Ticks /\ Unsent(q.job, q.targets))
    PROVE  OnceInv'
<1>1. StageWork'
  <2>1. ASSUME NEW q \in Procs, run'[q].pc # "idle", run'[q].job \in StageJobs
        PROVE q \in Ticks /\ Unsent(run[q].job, run[q].todo)'
    <3>1. CASE run'[q] = run[q]
      BY <2>1, <3>1 DEF OnceInv, StageWork, Unsent
    <3>2. CASE run'[q] # run[q]
      BY <2>1, <3>2 DEF OnceInv, StageWork, Unsent
    <3> QED BY <3>1, <3>2
  <2>2. ASSUME NEW q \in Procs, NEW r \in queue'[q], r.job \in StageJobs
        PROVE q \in Ticks /\ Unsent(r.job, r.targets)'
    BY <2>2 DEF OnceInv, StageWork, Unsent
  <2> QED BY <2>1, <2>2 DEF StageWork
<1>2. TickShape'
  <2>1. ASSUME NEW q \in Ticks, q # p PROVE InShape(q)'
    BY <2>1, ProcsAssumption DEF OnceInv, TickShape, InShape
  <2> QED BY <2>1 DEF TickShape
<1>3. AtMostOnce'
  BY DEF OnceInv, AtMostOnce
<1>4. RemindersOnRecord'
  <2>1. \A q \in Procs : \A j, m : Flight(q, j, m) => Flight(q, j, m)'
    <3>1. \A j, m : Flight(p, j, m) => Flight(p, j, m)'
      BY OtherFlights DEF Flight
    <3> QED BY <3>1, OtherFlights
  <2> QED BY <2>1 DEF OnceInv, RemindersOnRecord, Flight
<1> QED BY <1>1, <1>2, <1>3, <1>4 DEF OnceInv

LEMMA OnceStep ==
    ASSUME OneTick, TypeOK, OnceInv, [Next]_vars
    PROVE  OnceInv'
<1>0. DTypeOK /\ RequestTypeOK /\ linked \subseteq Members
  BY DEF TypeOK, DTypeOK
<1>1. Ticks \subseteq Procs
  BY ProcsAssumption
<1>2. ASSUME NEW p \in Procs, ContinueJob(p) PROVE OnceInv'
  BY <1>2, ShapeOfJobs, DeliveriesOfJobs DEF ContinueJob, OnceInv, requestVars
<1>3. ASSUME NEW p \in Procs, AbortRequest(p) PROVE OnceInv'
  <2>1. run'[p].pc = "idle"
    BY <1>0, <1>3, IdleType DEF AbortRequest, PushRefused, PushTimedOut, DTypeOK
  <2> QED BY <1>3, <2>1, ShapeOfJobs, DeliveriesOfJobs DEF AbortRequest, Abort, OnceInv
<1>4. ASSUME NEW p \in Procs, GiveUp(p), UNCHANGED dvars, run[p].pc = "idle" PROVE OnceInv'
  <2>1. queue'[p] = {} /\ listed'[p] = {} /\ phase'[p] = "idle" /\ run' = run
    BY <1>0, <1>4 DEF GiveUp, RequestTypeOK, dvars
  <2>2. InShape(p)'
    BY <1>4, <2>1 DEF InShape
  <2>3. UNCHANGED <<log, delivered, lost>>
    BY <1>4 DEF dvars
  <2>4. \A q \in Procs \ {p} : /\ queue'[q] = queue[q] /\ listed'[q] = listed[q]
                               /\ phase'[q] = phase[q]
    BY <1>0, <1>4 DEF GiveUp, RequestTypeOK
  <2> QED BY <2>1, <2>2, <2>3, <2>4, RequestFrame
<1>5. ASSUME NEW p \in Procs, Crash(p) PROVE OnceInv'
  <2>1. CASE Die(p)
    <3>1. run'[p].pc = "idle"
      BY <1>0, <2>1, IdleType DEF Die, DTypeOK
    <3> QED BY <1>5, <2>1, <3>1, ShapeOfJobs, DeliveriesOfJobs DEF Crash, Abort, OnceInv
  <2>2. CASE run[p].pc = "idle" /\ UNCHANGED dvars
    BY <1>4, <1>5, <2>2 DEF Crash
  <2> QED BY <1>5, <2>1, <2>2 DEF Crash
<1>6. ASSUME NEW p \in Ticks, BeginTick(p) PROVE OnceInv'
  <2>1. phase' = [phase EXCEPT ![p] = "begun"] /\ phase[p] = "idle"
        /\ UNCHANGED <<queue, listed, run, log, delivered, lost>>
    BY <1>6 DEF BeginTick, dvars
  <2>2. InShape(p)'
    BY <1>0, <1>1, <2>1 DEF OnceInv, TickShape, InShape, RequestTypeOK
  <2> QED BY <1>0, <1>1, <2>1, <2>2, RequestFrame DEF RequestTypeOK
<1>7. ASSUME NEW p \in Procs, ListOpen(p) PROVE OnceInv'
  <2>1. /\ p \in Ticks /\ phase[p] = "begun" /\ phase' = [phase EXCEPT ![p] = "busy"]
        /\ listed' = [listed EXCEPT ![p] =
             {[event |-> e, form |-> form[e]] : e \in {x \in Events : status[x] = "open"}}]
        /\ UNCHANGED <<queue, run, log, delivered, lost>>
    BY <1>7 DEF ListOpen, dvars
  <2>2. \A k, l \in listed'[p] : k.event = l.event => k = l
    BY <1>0, <2>1 DEF RequestTypeOK
  <2>3. InShape(p)'
    BY <1>0, <2>1, <2>2 DEF OnceInv, TickShape, InShape, RequestTypeOK
  <2> QED BY <1>0, <2>1, <2>3, RequestFrame DEF RequestTypeOK
<1>8. ASSUME NEW p \in Procs, PlanStage(p) PROVE OnceInv'
  <2>1. PICK l \in listed[p], s \in Stages :
          /\ queue' = [queue EXCEPT ![p] = queue[p] \cup
               {[event |-> l.event, job |-> stage_job_id(l.event, s),
                 targets |-> StageTargets(l.event, l.form, s), clean |-> l.form.clean]}]
          /\ listed' = [listed EXCEPT ![p] = listed[p] \ {l}]
    BY <1>8 DEF PlanStage
  <2>2. p \in Ticks /\ UNCHANGED <<phase, run, log, delivered, lost>>
    BY <1>8 DEF PlanStage, historyVars
  <2>3. Unsent(stage_job_id(l.event, s), StageTargets(l.event, l.form, s))
    <3>1. l.event \in Events /\ l.form \in Forms
      BY <1>0, <2>1 DEF RequestTypeOK, Listing
    <3>2. StageTargets(l.event, l.form, s) \subseteq Members
      BY <1>0, <3>1, TargetsAreMembers
    <3> QED BY <3>2 DEF Unsent, StageTargets, sent_member_ids
  <2>4. /\ queue'[p] = queue[p] \cup
             {[event |-> l.event, job |-> stage_job_id(l.event, s),
               targets |-> StageTargets(l.event, l.form, s), clean |-> l.form.clean]}
        /\ listed'[p] = listed[p] \ {l}
        /\ \A q \in Procs \ {p} : queue'[q] = queue[q] /\ listed'[q] = listed[q]
    BY <1>0, <2>1 DEF RequestTypeOK
  <2>5. InShape(p)'
    <3> DEFINE new == [event |-> l.event, job |-> stage_job_id(l.event, s),
                       targets |-> StageTargets(l.event, l.form, s), clean |-> l.form.clean]
    <3>1. InShape(p)
      BY <2>2 DEF OnceInv, TickShape
    <3>2. new.event = l.event /\ new.job = stage_job_id(new.event, s)
      OBVIOUS
    <3>3. \A q \in queue[p] : q.event # new.event
      BY <2>1, <3>1, <3>2 DEF InShape
    <3>4. \A k \in listed[p] \ {l} : k.event # new.event
      BY <2>1, <3>1, <3>2 DEF InShape
    <3>5. run[p].pc = "idle" /\ phase[p] = "busy"
      BY <2>1, <3>1 DEF InShape
    <3>6. queue'[p] = queue[p] \cup {new}
      BY <2>4
    <3> HIDE DEF new
    <3> QED BY <2>2, <2>4, <3>1, <3>2, <3>3, <3>4, <3>5, <3>6 DEF InShape
  <2> QED BY <2>2, <2>3, <2>4, <2>5, RequestFrame
<1>9. ASSUME NEW p \in Procs, PlanNothing(p) PROVE OnceInv'
  <2>1. PICK l \in listed[p] : listed' = [listed EXCEPT ![p] = listed[p] \ {l}]
    BY <1>9 DEF PlanNothing
  <2>2. p \in Ticks /\ UNCHANGED <<phase, queue, run, log, delivered, lost>>
    BY <1>9 DEF PlanNothing, dvars
  <2>3. InShape(p)'
    BY <1>0, <2>1, <2>2 DEF OnceInv, TickShape, InShape, RequestTypeOK
  <2> QED BY <1>0, <2>1, <2>2, <2>3, RequestFrame DEF RequestTypeOK
<1>10. ASSUME NEW p \in Procs, RunJob(p) PROVE OnceInv'
  <2>1. PICK q \in queue[p] :
          /\ phase[p] = "busy" /\ listed[p] = {} /\ run[p].pc = "idle"
          /\ queue' = [queue EXCEPT ![p] = queue[p] \ {q}]
          /\ \/ run' = run
             \/ \E now, set : run' = [run EXCEPT ![p] =
                  [pc |-> "decide", job |-> q.job, todo |-> q.targets, now |-> now,
                   settings |-> set]]
    BY <1>10 DEF RunJob, StartJob
  <2>2. UNCHANGED <<phase, listed, log, delivered, lost>>
    BY <1>10 DEF RunJob, StartJob, historyVars
  <2>3. /\ queue'[p] = queue[p] \ {q}
        /\ \A r \in Procs \ {p} : queue'[r] = queue[r] /\ run'[r] = run[r]
        /\ run'[p] = run[p] \/ (run'[p].job = q.job /\ run'[p].todo = q.targets)
    BY <1>0, <2>1 DEF RequestTypeOK, DTypeOK
  <2>4. ASSUME p \in Ticks PROVE InShape(p)'
    <3>1. InShape(p)
      BY <2>4 DEF OnceInv, TickShape
    <3>2. q.event \in Events
      BY <1>0, <2>1 DEF RequestTypeOK, Queued
    <3>3. PICK s \in Stages : q.job = stage_job_id(q.event, s)
      BY <2>1, <3>1 DEF InShape
    <3>4. \A r \in queue'[p] : r \in queue[p] /\ r.event # q.event
      BY <2>1, <2>3, <3>1 DEF InShape
    <3> QED BY <2>1, <2>2, <2>3, <3>1, <3>2, <3>3, <3>4 DEF InShape
  <2> QED BY <2>1, <2>2, <2>3, <2>4, RequestFrame
<1>11. ASSUME NEW p \in Procs, EndRequest(p) PROVE OnceInv'
  <2>1. /\ phase' = [phase EXCEPT ![p] = "idle"]
        /\ listed[p] = {} /\ queue[p] = {} /\ run[p].pc = "idle"
        /\ UNCHANGED <<queue, listed, run, log, delivered, lost>>
    BY <1>11 DEF EndRequest, dvars
  <2>2. phase'[p] = "idle" /\ \A q \in Procs \ {p} : phase'[q] = phase[q]
    BY <1>0, <2>1 DEF RequestTypeOK
  <2>3. InShape(p)'
    BY <2>1, <2>2 DEF InShape
  <2> QED BY <2>1, <2>2, <2>3, RequestFrame
<1>12. ASSUME NEW p \in Admins, NEW e \in Events, CloseEvent(p, e) PROVE OnceInv'
  <2>1. /\ p \in Procs /\ p \notin Ticks
        /\ UNCHANGED <<queue, run, log, delivered, lost>>
        /\ \A q \in Procs \ {p} : phase'[q] = phase[q] /\ listed'[q] = listed[q]
    BY <1>0, <1>12, ProcsAssumption DEF CloseEvent, dvars, RequestTypeOK
  <2> QED BY <2>1, RequestFrame
<1>13. ASSUME NEW p \in Ops, NEW e \in Events, CheckRemind(p, e) PROVE OnceInv'
  <2>1. /\ p \in Procs /\ p \notin Ticks
        /\ UNCHANGED <<listed, run, log, delivered, lost>>
        /\ \A q \in Procs \ {p} : phase'[q] = phase[q] /\ queue'[q] = queue[q]
        /\ \A q \in queue'[p] : q.job = LiffJob(e, clock)
    BY <1>0, <1>13, ProcsAssumption DEF CheckRemind, dvars, RequestTypeOK
  <2> QED BY <2>1, StageJobIds, RequestFrame
<1>14. ASSUME NEW p \in Procs, plan_summary_notification(p) PROVE OnceInv'
  <2>1. p \notin Ticks
    BY <1>14 DEF plan_summary_notification, OnceInv, TickShape, InShape
  <2>2. PICK l \in listed[p] :
          /\ queue' = [queue EXCEPT ![p] =
               {[event |-> l.event, job |-> SummaryJob(l.event),
                 targets |-> Officers \cap Deliverable, clean |-> form[l.event].clean]}]
          /\ listed' = [listed EXCEPT ![p] = {}]
          /\ phase' = [phase EXCEPT ![p] = "busy"]
          /\ UNCHANGED <<run, log, delivered, lost>>
    BY <1>14 DEF plan_summary_notification, historyVars
  <2>3. /\ \A q \in Procs \ {p} : /\ phase'[q] = phase[q] /\ queue'[q] = queue[q]
                                  /\ listed'[q] = listed[q]
        /\ \A q \in queue'[p] : q.job = SummaryJob(l.event)
    BY <1>0, <2>2 DEF RequestTypeOK
  <2> QED BY <2>1, <2>2, <2>3, StageJobIds, RequestFrame
<1>15. ASSUME NEW p \in Procs, SaveRemind(p) PROVE OnceInv'
  <2>1. p \notin Ticks
    BY <1>15 DEF SaveRemind, OnceInv, TickShape, InShape
  <2>2. /\ UNCHANGED <<queue, listed, run, log, delivered, lost>>
        /\ phase' = [phase EXCEPT ![p] = "busy"]
    BY <1>15 DEF SaveRemind, historyVars
  <2> QED BY <1>0, <2>1, <2>2, RequestFrame DEF RequestTypeOK
<1>16. CASE Environment
  <2>1. UNCHANGED <<run, queue, listed, phase, log, delivered, lost>>
    <3>1. CASE \E e \in Events : UpdateEvent(e) \/ CancelEvent(e) \/ RestoreEvent(e)
      BY <3>1 DEF UpdateEvent, CancelEvent, RestoreEvent, dvars, requestVars
    <3>2. CASE \E e \in Events : manual_remind(e)
      BY <3>2 DEF manual_remind, historyVars, requestVars
    <3>3. CASE \E e \in Events, m \in Members : RecordAttendance(e, m)
      BY <3>3 DEF RecordAttendance, dvars, requestVars
    <3>4. CASE \E m \in Members : UpdateMember(m) \/ LinkMember(m)
      BY <3>4 DEF UpdateMember, LinkMember, SetLinked, dvars, historyVars, requestVars
    <3>5. CASE SaveSettings
      BY <3>5 DEF SaveSettings, PutSettings, requestVars
    <3>6. CASE PassTime
      BY <3>6 DEF PassTime, Elapse, historyVars, requestVars
    <3> QED BY <1>16, <3>1, <3>2, <3>3, <3>4, <3>5, <3>6 DEF Environment
  <2> QED BY <2>1, OnceFrame
<1>17. CASE UNCHANGED vars
  BY <1>17, OnceFrame DEF vars, dvars, requestVars
<1>18. ASSUME NEW p \in Procs, Proceed(p) PROVE OnceInv'
  BY <1>2, <1>7, <1>8, <1>9, <1>10, <1>11, <1>14, <1>15, <1>18 DEF Proceed
<1> QED
  BY <1>3, <1>5, <1>6, <1>12, <1>13, <1>16, <1>17, <1>18 DEF Next

LEMMA OnceInit == Init => OnceInv
<1> SUFFICES ASSUME Init PROVE OnceInv
  OBVIOUS
<1>1. \A p \in Procs : run[p].pc = "idle" /\ queue[p] = {} /\ listed[p] = {} /\ phase[p] = "idle"
  BY IdleType DEF Init, DInit
<1>2. StageWork /\ TickShape
  BY <1>1, ProcsAssumption DEF StageWork, TickShape, InShape
<1>3. \A j \in StageJobs, m \in Members : delivered[j][m] = 0 /\ lost[j][m] = 0
  BY StageJobIds DEF Init, DInit
<1> QED BY <1>2, <1>3 DEF OnceInv, AtMostOnce, RemindersOnRecord

LEMMA OnceInvariant == ASSUME OneTick PROVE Spec => []OnceInv
<1>1. Init => OnceInv
  BY OnceInit
<1>2. TypeOK /\ OnceInv /\ [Next]_vars => OnceInv'
  BY OnceStep
<1> QED BY <1>1, <1>2, RemindersTypeOK, PTL DEF Spec

(* With one tick at a time a member gets a stage of an event once, and again   *)
(* only for a message whose tick did not live to log it.                       *)
THEOREM ReminderOnce == ASSUME OneTick PROVE Spec => []AtMostOnce
<1>1. OnceInv => AtMostOnce
  BY DEF OnceInv
<1> QED BY <1>1, OnceInvariant, PTL

(* A reminder that got through and was not lost is on record, or is about to be. *)
THEOREM ReminderOnRecord == ASSUME OneTick PROVE Spec => []RemindersOnRecord
<1>1. OnceInv => RemindersOnRecord
  BY DEF OnceInv
<1> QED BY <1>1, OnceInvariant, PTL
-----------------------------------------------------------------------------
(* The refinement: every step is a step of ReminderPromise or leaves it alone. *)

LEMMA AccountedHere == Spec => []Accounted
BY RemindersImplementDelivery, AccountedInvariant, PTL DEF ImplementsDelivery

(* What a message in flight, an ok log, and neither, mean for the counts. *)
LEMMA Counts ==
    ASSUME OneTick, TypeOK, OnceInv, Accounted, NEW j \in StageJobs, NEW m \in Members
    PROVE  /\ delivered[j][m] \in Nat /\ lost[j][m] \in Nat
           /\ ~OnRecord(j, m) => delivered[j][m] = lost[j][m]
           /\ \A p \in Procs : Flight(p, j, m) => delivered[j][m] = lost[j][m] + 1
<1>1. /\ delivered[j][m] \in Nat /\ lost[j][m] \in Nat
      /\ Cardinality(InFlight(j, m)) \in Nat /\ IsFiniteSet(InFlight(j, m))
      /\ OkLogs(j, m) \in {0, 1}
      /\ delivered[j][m] >= lost[j][m] + Cardinality(InFlight(j, m)) + OkLogs(j, m)
  BY StageJobIds, FlightsAreFinite DEF TypeOK, DTypeOK, OkLogs, Accounted
<1>2. ~OnRecord(j, m) => delivered[j][m] <= lost[j][m]
  BY <1>1, OnRecordMeaning DEF OnceInv
<1>3. ASSUME NEW p \in Procs, Flight(p, j, m) PROVE delivered[j][m] = lost[j][m] + 1
  <2>1. p \in InFlight(j, m)
    BY <1>3 DEF Flight, InFlight
  <2>2. Cardinality(InFlight(j, m)) # 0
    BY <1>1, <2>1, FS_EmptySet
  <2>3. delivered[j][m] <= 1 + lost[j][m]
    BY DEF OnceInv, AtMostOnce
  <2> QED BY <1>1, <2>2, <2>3
<1> QED BY <1>1, <1>2, <1>3

(* A member the job is still to look at has nothing on record, unless it is    *)
(* the message just accepted.                                                  *)
LEMMA StageTodo ==
    ASSUME OneTick, OnceInv, NEW p \in Procs, run[p].pc # "idle", run[p].job \in StageJobs,
           NEW m \in run[p].todo
    PROVE  /\ log[run[p].job][m].result # "ok"
           /\ run[p].pc # "accepted" => ~OnRecord(run[p].job, m)
<1>1. p \in Ticks /\ log[run[p].job][m].result # "ok"
  BY DEF OnceInv, StageWork, Unsent
<1>2. ASSUME NEW q \in Procs, Flight(q, run[p].job, m) PROVE q = p
  BY <1>1, <1>2 DEF OnceInv, StageWork, OneTick, Flight
<1> QED BY <1>1, <1>2 DEF OnRecord, Flight

got == [k \in Keys |-> delivered[k[1]][k[2]]]
forgotten == [k \in Keys |-> lost[k[1]][k[2]]]
recorded == {k \in Keys : log[k[1]][k[2]].result = "ok"}

LEMMA PromiseVars ==
    /\ UNCHANGED <<got, forgotten, recorded>> => UNCHANGED Promise!promiseVars
    /\ \A k : Promise!SendMessage(k) <=>
           /\ k \notin recorded /\ got[k] = forgotten[k]
           /\ got' = [got EXCEPT ![k] = @ + 1] /\ UNCHANGED <<forgotten, recorded>>
    /\ \A k : Promise!Record(k) <=>
           /\ got[k] = forgotten[k] + 1
           /\ recorded' = recorded \cup {k} /\ UNCHANGED <<got, forgotten>>
    /\ \A k : Promise!Forget(k) <=>
           /\ k \notin recorded /\ got[k] = forgotten[k] + 1
           /\ forgotten' = [forgotten EXCEPT ![k] = @ + 1] /\ UNCHANGED <<got, recorded>>
    /\ \A k : Promise!SendAndForget(k) <=>
           /\ k \notin recorded /\ got[k] = forgotten[k]
           /\ got' = [got EXCEPT ![k] = @ + 1]
           /\ forgotten' = [forgotten EXCEPT ![k] = @ + 1] /\ UNCHANGED recorded
BY DEF got, forgotten, recorded, Promise!promiseVars, Promise!SendMessage, Promise!Record,
       Promise!Forget, Promise!SendAndForget, Promise!Open

LEMMA PromiseStep ==
    ASSUME OneTick, TypeOK, OnceInv, Accounted, [Next]_vars
    PROVE  [Promise!PromiseNext]_(Promise!promiseVars)
<1>1. ASSUME UNCHANGED <<log, delivered, lost>> PROVE UNCHANGED Promise!promiseVars
  BY <1>1, PromiseVars DEF got, forgotten, recorded
<1>2. ASSUME NEW p \in Procs, Continue(p) \/ Abort(p)
      PROVE [Promise!PromiseNext]_(Promise!promiseVars)
  <2>1. run[p] \in Locals /\ run[p].job \in Jobs /\ run[p].pc # "idle"
    BY <1>2, JobGoesOn DEF TypeOK, DTypeOK
  <2>0. PICK j \in Jobs : j = run[p].job
    BY <2>1
  <2>2. CASE Allow(p) \/ SkipUnlinked(p) \/ PushRefused(p) \/ FinishJob(p)
             \/ (Die(p) /\ run[p].pc # "accepted")
    BY <1>1, <2>2 DEF Allow, SkipUnlinked, PushRefused, FinishJob, Die, historyVars
  <2>3. ASSUME NEW m \in Members, IsNext(p, m), <<j, m>> \in Keys
        PROVE /\ got[<<j, m>>] = delivered[j][m]
              /\ forgotten[<<j, m>>] = lost[j][m]
              /\ <<j, m>> \notin recorded
              /\ run[p].pc # "accepted" => got[<<j, m>>] = forgotten[<<j, m>>]
              /\ run[p].pc = "accepted" =>
                    got[<<j, m>>] = forgotten[<<j, m>>] + 1
    <3>1. j \in StageJobs /\ m \in run[p].todo
      BY <2>3 DEF Keys, IsNext
    <3>2. /\ log[j][m].result # "ok"
          /\ run[p].pc # "accepted" => ~OnRecord(j, m)
      BY <2>0, <2>1, <3>1, StageTodo
    <3>3. run[p].pc = "accepted" => Flight(p, j, m)
      BY <2>0, <2>3 DEF Flight
    <3>4. /\ run[p].pc # "accepted" => delivered[j][m] = lost[j][m]
          /\ run[p].pc = "accepted" => delivered[j][m] = lost[j][m] + 1
      BY <3>1, <3>2, <3>3, Counts
    <3>5. /\ got[<<j, m>>] = delivered[j][m]
          /\ forgotten[<<j, m>>] = lost[j][m]
          /\ <<j, m>> \notin recorded
      BY <2>3, <3>2 DEF got, forgotten, recorded
    <3> QED BY <3>4, <3>5
  <2>4. ASSUME NEW m \in Members
        PROVE /\ delivered' = [delivered EXCEPT ![j][m] = @ + 1] =>
                    got' = IF <<j, m>> \in Keys
                           THEN [got EXCEPT ![<<j, m>>] = @ + 1] ELSE got
              /\ lost' = [lost EXCEPT ![j][m] = @ + 1] =>
                    forgotten' = IF <<j, m>> \in Keys
                                 THEN [forgotten EXCEPT ![<<j, m>>] = @ + 1]
                                 ELSE forgotten
    <3>1. \A k \in Keys : /\ k[1] \in Jobs /\ k[2] \in Members
                           /\ k[1] = j /\ k[2] = m <=> k = <<j, m>>
      BY StageJobIds DEF Keys
    <3>2. ASSUME delivered' = [delivered EXCEPT ![j][m] = @ + 1], NEW k \in Keys
          PROVE got'[k] = IF k = <<j, m>> THEN got[k] + 1 ELSE got[k]
      BY <3>1, <3>2 DEF got, TypeOK, DTypeOK
    <3>3. ASSUME lost' = [lost EXCEPT ![j][m] = @ + 1], NEW k \in Keys
          PROVE forgotten'[k] = IF k = <<j, m>> THEN forgotten[k] + 1 ELSE forgotten[k]
      BY <3>1, <3>3 DEF forgotten, TypeOK, DTypeOK
    <3>4. /\ got = [k \in Keys |-> got[k]] /\ got' = [k \in Keys |-> got'[k]]
          /\ forgotten = [k \in Keys |-> forgotten[k]]
          /\ forgotten' = [k \in Keys |-> forgotten'[k]]
      BY DEF got, forgotten
    <3> QED BY <3>2, <3>3, <3>4
  <2>5. UNCHANGED delivered => UNCHANGED got
    BY DEF got
  <2>6. UNCHANGED lost => UNCHANGED forgotten
    BY DEF forgotten
  <2>7. UNCHANGED log => UNCHANGED recorded
    BY DEF recorded
  <2>8. CASE Push(p)
    <3>1. PICK m \in linked :
            /\ run[p].pc = "push" /\ IsNext(p, m) /\ UNCHANGED <<log, lost>>
            /\ delivered' = [delivered EXCEPT ![j][m] = @ + 1]
      BY <2>0, <2>8 DEF Push, Reach
    <3>2. m \in Members
      BY DEF TypeOK, DTypeOK
    <3>3. CASE <<j, m>> \in Keys
      <4>1. Promise!SendMessage(<<j, m>>)
        BY <2>3, <2>4, <2>6, <2>7, <3>1, <3>2, <3>3, PromiseVars
      <4> QED BY <3>3, <4>1 DEF Promise!PromiseNext
    <3>4. CASE <<j, m>> \notin Keys
      BY <2>4, <2>6, <2>7, <3>1, <3>2, <3>4, PromiseVars
    <3> QED BY <3>3, <3>4
  <2>9. CASE PushTimedOut(p)
    <3>1. PICK m \in linked \cap Flaky :
            /\ run[p].pc = "push" /\ IsNext(p, m) /\ UNCHANGED log
            /\ delivered' = [delivered EXCEPT ![j][m] = @ + 1]
            /\ lost' = [lost EXCEPT ![j][m] = @ + 1]
      BY <2>0, <2>9 DEF PushTimedOut, Reach
    <3>2. m \in Members
      BY DEF TypeOK, DTypeOK
    <3>3. CASE <<j, m>> \in Keys
      <4>1. Promise!SendAndForget(<<j, m>>)
        BY <2>3, <2>4, <2>7, <3>1, <3>2, <3>3, PromiseVars
      <4> QED BY <3>3, <4>1 DEF Promise!PromiseNext
    <3>4. CASE <<j, m>> \notin Keys
      BY <2>4, <2>7, <3>1, <3>2, <3>4, PromiseVars
    <3> QED BY <3>3, <3>4
  <2>10. CASE Die(p) /\ run[p].pc = "accepted"
    <3>1. PICK m \in Members :
            /\ IsNext(p, m) /\ UNCHANGED <<log, delivered>>
            /\ lost' = [lost EXCEPT ![j][m] = @ + 1]
      BY <2>0, <2>10 DEF Die
    <3>2. CASE <<j, m>> \in Keys
      <4>1. Promise!Forget(<<j, m>>)
        BY <2>3, <2>4, <2>5, <2>7, <2>10, <3>1, <3>2, PromiseVars
      <4> QED BY <3>2, <4>1 DEF Promise!PromiseNext
    <3>3. CASE <<j, m>> \notin Keys
      BY <2>4, <2>5, <2>7, <3>1, <3>3, PromiseVars
    <3> QED BY <3>2, <3>3
  <2>11. CASE Block(p) \/ WriteResult(p)
    <3>1. PICK m \in Members, result \in Results :
            /\ IsNext(p, m) /\ UNCHANGED <<delivered, lost>>
            /\ WriteLog(p, m, result)
            /\ result = "ok" <=> run[p].pc = "accepted"
      BY <2>11 DEF Block, WriteResult, historyVars, Results
    <3>2. ASSUME NEW k \in Keys, k # <<j, m>>
          PROVE k \in recorded' <=> k \in recorded
      BY <2>0, <3>1, <3>2, StageJobIds DEF Keys, recorded, WriteLog, TypeOK, DTypeOK
    <3>3. CASE <<j, m>> \in Keys
      <4>1. <<j, m>> \in recorded' <=> result = "ok"
        BY <2>0, <3>1, <3>3 DEF recorded, WriteLog, TypeOK, DTypeOK
      <4>2. CASE run[p].pc = "accepted"
        <5>1. recorded' = recorded \cup {<<j, m>>}
          BY <3>1, <3>2, <3>3, <4>1, <4>2 DEF recorded
        <5>2. Promise!Record(<<j, m>>)
          BY <2>3, <2>5, <2>6, <3>1, <3>3, <4>2, <5>1, PromiseVars
        <5> QED BY <3>3, <5>2 DEF Promise!PromiseNext
      <4>3. CASE run[p].pc # "accepted"
        <5>1. recorded' = recorded
          BY <2>3, <3>1, <3>2, <3>3, <4>1, <4>3 DEF recorded
        <5> QED BY <2>5, <2>6, <3>1, <5>1, PromiseVars
      <4> QED BY <4>2, <4>3
    <3>4. CASE <<j, m>> \notin Keys
      <4>1. recorded' = recorded
        BY <3>2, <3>4 DEF recorded
      <4> QED BY <2>5, <2>6, <3>1, <4>1, PromiseVars
    <3> QED BY <3>3, <3>4
  <2> QED BY <1>2, <2>2, <2>8, <2>9, <2>10, <2>11 DEF Continue, Abort
<1>3. ASSUME NEW p \in Procs, Proceed(p), ~ContinueJob(p) PROVE UNCHANGED <<log, delivered, lost>>
  BY <1>3 DEF Proceed, ListOpen, PlanStage, PlanNothing, RunJob, StartJob, EndRequest,
              plan_summary_notification, SaveRemind, dvars, historyVars
<1>4. CASE Environment
  BY <1>4 DEF Environment, UpdateEvent, CancelEvent, RestoreEvent, manual_remind,
              RecordAttendance, UpdateMember, LinkMember, SetLinked, SaveSettings, PutSettings,
              PassTime, Elapse, dvars, historyVars, Promise!promiseVars
<1> QED
  BY <1>1, <1>2, <1>3, <1>4 DEF Next, ContinueJob, AbortRequest, Crash, Abort, BeginTick,
     CloseEvent, CheckRemind, vars, dvars

(* With one tick at a time the reminders keep what ReminderPromise says. *)
THEOREM RemindersKeepPromise == ASSUME OneTick PROVE Spec => KeepsPromise
<1>1. Init => Promise!PromiseInit
  BY StageJobIds DEF Init, DInit, NoLog, Keys, Promise!PromiseInit
<1>2. TypeOK /\ OnceInv /\ Accounted /\ [Next]_vars => [Promise!PromiseNext]_(Promise!promiseVars)
  BY PromiseStep
<1> QED
  BY <1>1, <1>2, RemindersTypeOK, OnceInvariant, AccountedHere, PTL
  DEF Spec, KeepsPromise, Promise!PromiseSpec
-----------------------------------------------------------------------------
(* What a tick acts on, and how much a member gets in a day.                 *)
-----------------------------------------------------------------------------
(* Request p may work on job j for these members: a tick planned the stage for a   *)
(* meeting still to come, of the event as it is unless that was saved since, and   *)
(* it is still due to every one of them.                                          *)
MeantFor(p, j, members) ==
    /\ j \in StageJobs
    /\ \E f \in Forms : began[p] < f.start
    /\ j[1] \in touched[p] \/ IsLatestDue(form[j[1]], j[3], began[p])
    /\ \A m \in members : StillDue(p, j, m)

TickAtWork(p) ==
    /\ phase[p] # "busy" => listed[p] = {} /\ queue[p] = {} /\ run[p].pc = "idle"
    /\ \A l \in listed[p] :
          l.event \in touched[p] \/ (status[l.event] = "open" /\ form[l.event] = l.form)
    /\ \A q \in queue[p] : MeantFor(p, q.job, q.targets)
    /\ run[p].pc # "idle" => MeantFor(p, run[p].job, run[p].todo)

OtherAtWork(p) == run[p].job \notin StageJobs /\ \A q \in queue[p] : q.job \notin StageJobs

(* The tick, or the other request, works on nothing but what it may. *)
AtItsWork(p) == IF p \in Ticks THEN TickAtWork(p) ELSE OtherAtWork(p)

(* A request with no job at hand has none; nobody outlives the next slot. *)
AtRest(p) == run[p].pc = "idle" => run[p].todo = {} /\ run[p].job = NoJob
InTheSlot(p) == phase[p] # "idle" => clock <= began[p] + 1

FreshInv == \A p \in Procs : AtItsWork(p) /\ AtRest(p) /\ InTheSlot(p)

(* What may change around request p in a step, and what p keeps. *)
Around(p) ==
    /\ touched[p] \subseteq touched'[p] /\ replied[p] \subseteq replied'[p]
    /\ \A e \in Events : e \in touched'[p] \/ (status'[e] = status[e] /\ form'[e] = form[e])
    /\ \A e \in Events, m \in Members :
          <<e, m>> \in replied'[p] \/ answer'[e][m] = answer[e][m]
SameRequest(p) ==
    /\ phase'[p] = phase[p] /\ began'[p] = began[p] /\ listed'[p] = listed[p]
    /\ queue'[p] = queue[p] /\ run'[p] = run[p]
-----------------------------------------------------------------------------
LEMMA StageJobParts ==
    ASSUME NEW j \in StageJobs
    PROVE  j[1] \in Events /\ j[3] \in Stages /\ j = stage_job_id(j[1], j[3]) /\ j \in Jobs
<1>1. PICK e \in Events, s \in Stages : j = stage_job_id(e, s)
  BY DEF StageJobs
<1>2. j[1] = e /\ j[3] = s
  BY <1>1 DEF stage_job_id
<1> QED BY <1>1, <1>2, JobsOfEvents

LEMMA MeantStays ==
    ASSUME NEW p, NEW j, NEW members, NEW fewer, members \subseteq Members, fewer \subseteq members,
           MeantFor(p, j, members), Around(p), began'[p] = began[p]
    PROVE  MeantFor(p, j, fewer)'
<1>1. j \in StageJobs /\ j[1] \in Events /\ \E f \in Forms : began'[p] < f.start
  BY StageJobParts DEF MeantFor
<1>2. j[1] \in touched'[p] \/ IsLatestDue(form'[j[1]], j[3], began'[p])
  BY <1>1 DEF MeantFor, Around
<1>3. ASSUME NEW m \in fewer PROVE StillDue(p, j, m)'
  BY <1>1, <1>3 DEF MeantFor, Around, StillDue
<1>4. IsLatestDue(form[j[1]], j[3], began[p])' <=> IsLatestDue(form'[j[1]], j[3], began'[p])
  BY DEF IsLatestDue, due_stages, fire_time, Later
<1> QED BY <1>1, <1>2, <1>3, <1>4 DEF MeantFor

LEMMA RequestStays ==
    ASSUME TypeOK, NEW p \in Procs, AtItsWork(p), Around(p), SameRequest(p)
    PROVE  AtItsWork(p)'
<1>1. CASE p \notin Ticks
  BY <1>1 DEF AtItsWork, OtherAtWork, SameRequest
<1>2. CASE p \in Ticks
  <2>1. TickAtWork(p)
    BY <1>2 DEF AtItsWork
  <2>2. ASSUME NEW l \in listed'[p]
        PROVE l.event \in touched'[p] \/ (status'[l.event] = "open" /\ form'[l.event] = l.form)
    <3>1. l \in listed[p] /\ l.event \in Events
      BY <2>2 DEF SameRequest, TypeOK, RequestTypeOK, Listing
    <3> QED BY <2>1, <3>1 DEF TickAtWork, Around
  <2>3. ASSUME NEW q \in queue'[p] PROVE MeantFor(p, q.job, q.targets)'
    <3>1. q \in queue[p] /\ q.targets \subseteq Members
      BY <2>3 DEF SameRequest, TypeOK, RequestTypeOK, Queued
    <3> QED BY <2>1, <3>1, MeantStays DEF TickAtWork, SameRequest
  <2>4. ASSUME run'[p].pc # "idle" PROVE MeantFor(p, run[p].job, run[p].todo)'
    <3>1. PICK j, members : j = run[p].job /\ members = run[p].todo
      OBVIOUS
    <3>2. members \subseteq Members /\ MeantFor(p, j, members)
      BY <2>1, <2>4, <3>1 DEF SameRequest, TickAtWork, TypeOK, DTypeOK, Locals
    <3>3. MeantFor(p, j, members)'
      BY <3>2, MeantStays DEF SameRequest
    <3>4. run'[p].job = j /\ run'[p].todo = members
      BY <3>1 DEF SameRequest
    <3> QED BY <3>3, <3>4 DEF MeantFor
  <2> QED BY <1>2, <2>1, <2>2, <2>3, <2>4 DEF AtItsWork, TickAtWork, SameRequest
<1> QED BY <1>1, <1>2

(* A planned stage is meant for the members it is planned for. *)
LEMMA PlannedIsMeant ==
    ASSUME TypeOK, NEW p \in Ticks, TickAtWork(p), NEW l \in listed[p], NEW s \in Stages,
           Plannable(l.form, began[p]), IsLatestDue(l.form, s, began[p])
    PROVE  MeantFor(p, stage_job_id(l.event, s), StageTargets(l.event, l.form, s))
<1>1. p \in Procs /\ l.event \in Events /\ l.form \in Forms
  BY ProcsAssumption DEF TypeOK, RequestTypeOK, Listing
<1>2. PICK j : j = stage_job_id(l.event, s)
  OBVIOUS
<1>3. j \in StageJobs /\ j[1] = l.event /\ j[3] = s
  BY <1>1, <1>2, StageJobIds DEF stage_job_id
<1>4. began[p] < l.form.start
  <2>1. l.form.start \in Nat /\ began[p] \in Nat
    BY <1>1, FormsAssumption, BoundsAssumption DEF TypeOK, RequestTypeOK, Times
  <2> QED BY <2>1 DEF Plannable
<1>5. l.event \in touched[p] \/ (status[l.event] = "open" /\ form[l.event] = l.form)
  BY DEF TickAtWork
<1>6. ASSUME NEW m \in StageTargets(l.event, l.form, s), Audience[s] = "unanswered"
      PROVE answer[l.event][m] = "unanswered"
  BY <1>6 DEF StageTargets, resolve_audience, unanswered_member_ids
<1> QED BY <1>1, <1>2, <1>3, <1>4, <1>5, <1>6 DEF MeantFor, StillDue

(* A step of a job: the request goes on with it, or is done with it. *)
LEMMA JobStays ==
    ASSUME TypeOK, NEW p \in Procs, Continue(p) \/ Abort(p)
    PROVE  run'[p].pc = "idle" => run'[p].todo = {} /\ run'[p].job = NoJob
<1>1. run \in [Procs -> Locals]
  BY DEF TypeOK, DTypeOK
<1>2. CASE PushRefused(p) \/ PushTimedOut(p) \/ FinishJob(p) \/ Die(p)
  <2>1. run' = [run EXCEPT ![p] = Idle]
    BY <1>2 DEF PushRefused, PushTimedOut, FinishJob, Die
  <2> QED BY <1>1, <2>1, IdleType
<1>3. CASE Allow(p) \/ SkipUnlinked(p) \/ Push(p)
  <2>1. PICK pc \in {"push", "unlinked", "accepted"} :
          run' = [run EXCEPT ![p] = [run[p] EXCEPT !.pc = pc]]
    BY <1>3 DEF Allow, SkipUnlinked, Push
  <2> QED BY <1>1, <2>1 DEF Locals
<1>4. CASE Block(p)
  <2>1. PICK m \in Members :
          /\ run[p].pc = "decide"
          /\ run' = [run EXCEPT ![p] = [run[p] EXCEPT !.todo = run[p].todo \ {m}]]
    BY <1>4 DEF Block
  <2> QED BY <1>1, <2>1 DEF Locals
<1>5. CASE WriteResult(p)
  <2>1. PICK m \in Members :
          run' = [run EXCEPT ![p] = [run[p] EXCEPT !.pc = "decide", !.todo = run[p].todo \ {m}]]
    BY <1>5 DEF WriteResult
  <2> QED BY <1>1, <2>1 DEF Locals
<1> QED BY <1>2, <1>3, <1>4, <1>5 DEF Continue, Abort

LEMMA JobContinues ==
    ASSUME TypeOK, FreshInv, NEW p \in Procs, ContinueJob(p)
    PROVE  AtItsWork(p)'
<1>1. /\ UNCHANGED <<eventVars, requestVars, sinceVars>> /\ run[p].pc # "idle"
      /\ run'[p].pc # "idle" => run'[p].job = run[p].job /\ run'[p].todo \subseteq run[p].todo
      /\ run'[p].pc = "idle" => run'[p].todo = {} /\ run'[p].job = NoJob
  BY JobGoesOn, JobStays DEF ContinueJob, TypeOK
<1>2. Around(p) /\ began'[p] = began[p]
  BY <1>1 DEF Around, eventVars, sinceVars, requestVars
<1>3. CASE p \notin Ticks
  <2>1. NoJob \notin StageJobs
    BY StageJobIds, JobsAssumption
  <2> QED BY <1>1, <1>3, <2>1 DEF FreshInv, AtItsWork, OtherAtWork, requestVars
<1>4. CASE p \in Ticks
  <2>1. TickAtWork(p)
    BY <1>4 DEF FreshInv, AtItsWork
  <2>2. phase'[p] # "busy" => listed'[p] = {} /\ queue'[p] = {} /\ run'[p].pc = "idle"
    BY <1>1, <2>1 DEF TickAtWork, requestVars
  <2>3. ASSUME NEW l \in listed'[p]
        PROVE l.event \in touched'[p] \/ (status'[l.event] = "open" /\ form'[l.event] = l.form)
    BY <1>1, <2>1, <2>3 DEF TickAtWork, requestVars, sinceVars, eventVars
  <2>4. ASSUME NEW q \in queue'[p] PROVE MeantFor(p, q.job, q.targets)'
    <3>1. q \in queue[p] /\ q.targets \subseteq Members
      BY <1>1, <2>4 DEF requestVars, TypeOK, RequestTypeOK, Queued
    <3> QED BY <1>2, <2>1, <3>1, MeantStays DEF TickAtWork
  <2>5. ASSUME run'[p].pc # "idle" PROVE MeantFor(p, run[p].job, run[p].todo)'
    <3>1. PICK j, members, fewer : j = run[p].job /\ members = run[p].todo /\ fewer = run'[p].todo
      OBVIOUS
    <3>2. members \subseteq Members /\ MeantFor(p, j, members) /\ fewer \subseteq members
      BY <1>1, <2>1, <2>5, <3>1 DEF TickAtWork, TypeOK, DTypeOK, Locals
    <3>3. MeantFor(p, j, fewer)'
      BY <1>2, <3>2, MeantStays
    <3>4. run'[p].job = j /\ run'[p].todo = fewer
      BY <1>1, <2>5, <3>1
    <3> QED BY <3>3, <3>4 DEF MeantFor
  <2> QED BY <1>4, <2>2, <2>3, <2>4, <2>5 DEF AtItsWork, TickAtWork
<1> QED BY <1>3, <1>4

(* A request that is given up has nothing left. *)
LEMMA GivenUp ==
    ASSUME TypeOK, NEW p \in Procs, GiveUp(p), run'[p].pc = "idle",
           run'[p].job = NoJob
    PROVE  AtItsWork(p)'
<1>1. phase'[p] = "idle" /\ listed'[p] = {} /\ queue'[p] = {}
  BY DEF GiveUp, TypeOK, RequestTypeOK
<1>2. NoJob \notin StageJobs
  BY StageJobIds, JobsAssumption
<1> QED BY <1>1, <1>2 DEF AtItsWork, TickAtWork, OtherAtWork

LEMMA JobBegins ==
    ASSUME TypeOK, FreshInv, NEW p \in Procs, RunJob(p)
    PROVE  AtItsWork(p)' /\ AtRest(p)' /\ \A q \in Procs : Around(q) /\ (q # p => SameRequest(q))
<1>1. PICK r \in queue[p] :
        /\ phase[p] = "busy" /\ listed[p] = {}
        /\ StartJob(p, r.job, r.targets, Clean(p, r), IF p \in Ticks THEN began[p] ELSE clock)
        /\ queue' = [queue EXCEPT ![p] = queue[p] \ {r}]
        /\ UNCHANGED <<eventVars, phase, began, listed, sinceVars>>
  BY DEF RunJob
<1>2. r.job \in Jobs /\ r.targets \subseteq Members
  BY <1>1 DEF TypeOK, RequestTypeOK, Queued
<1>3. /\ \A q \in Procs : q # p => run'[q] = run[q]
      /\ \/ run'[p] = run[p]
         \/ run'[p].pc = "decide" /\ run'[p].job = r.job /\ run'[p].todo = r.targets
      /\ run[p].pc = "idle"
  BY <1>1 DEF StartJob, TypeOK, DTypeOK
<1>4. queue'[p] = queue[p] \ {r} /\ \A q \in Procs : q # p => queue'[q] = queue[q]
  BY <1>1 DEF TypeOK, RequestTypeOK
<1>5. \A q \in Procs : Around(q) /\ (q # p => SameRequest(q))
  BY <1>1, <1>3, <1>4 DEF Around, SameRequest, eventVars, sinceVars
<1>6. AtRest(p)'
  BY <1>3 DEF FreshInv, AtRest
<1>7. ASSUME p \notin Ticks PROVE AtItsWork(p)'
  <2>1. run[p].job \notin StageJobs /\ \A q \in queue[p] : q.job \notin StageJobs
    BY <1>7 DEF FreshInv, AtItsWork, OtherAtWork
  <2>2. run'[p].job \notin StageJobs /\ \A q \in queue'[p] : q.job \notin StageJobs
    BY <1>3, <1>4, <2>1
  <2> QED BY <1>7, <2>2 DEF AtItsWork, OtherAtWork
<1>8. ASSUME p \in Ticks PROVE AtItsWork(p)'
  <2>1. TickAtWork(p) /\ Around(p) /\ began'[p] = began[p] /\ phase'[p] = "busy" /\ listed'[p] = {}
    BY <1>1, <1>5, <1>8 DEF FreshInv, AtItsWork
  <2>2. ASSUME NEW q \in queue[p] PROVE MeantFor(p, q.job, q.targets)'
    <3>1. q.targets \subseteq Members
      BY <2>2 DEF TypeOK, RequestTypeOK, Queued
    <3> QED BY <2>1, <3>1, MeantStays DEF TickAtWork
  <2>3. ASSUME run'[p].pc # "idle" PROVE MeantFor(p, run[p].job, run[p].todo)'
    <3>1. MeantFor(p, r.job, r.targets)' /\ run'[p].job = r.job /\ run'[p].todo = r.targets
      BY <1>1, <1>3, <2>2, <2>3
    <3> QED BY <3>1 DEF MeantFor
  <2>4. \A q \in queue'[p] : MeantFor(p, q.job, q.targets)'
    BY <1>4, <2>2
  <2>5. TickAtWork(p)'
    BY <2>1, <2>3, <2>4 DEF TickAtWork
  <2> QED BY <1>8, <2>5 DEF AtItsWork
<1> QED BY <1>5, <1>6, <1>7, <1>8

(* A request plans, or begins, or ends: nobody else's work changes. *)
Plans(p) ==
    \/ BeginTick(p) \/ ListOpen(p) \/ PlanStage(p) \/ PlanNothing(p) \/ EndRequest(p)
    \/ plan_summary_notification(p) \/ SaveRemind(p) \/ (p \in Ops /\ \E e \in Events : CheckRemind(p, e))

LEMMA OthersStay ==
    ASSUME TypeOK, NEW p \in Procs, Plans(p)
    PROVE  /\ run' = run /\ clock' = clock /\ began'[p] \in {began[p], clock, 0}
           /\ phase'[p] # "idle" =>
                 began'[p] = clock \/ (phase[p] # "idle" /\ began'[p] = began[p])
           /\ \A q \in Procs : q # p => Around(q) /\ SameRequest(q)
<1>1. UNCHANGED <<run, clock, eventVars>>
  BY DEF Plans, BeginTick, ListOpen, PlanStage, PlanNothing, EndRequest, plan_summary_notification,
         SaveRemind, CheckRemind, dvars, sharedVars
<1>2. \/ UNCHANGED sinceVars
      \/ touched' = [touched EXCEPT ![p] = {}] /\ replied' = [replied EXCEPT ![p] = {}]
  BY DEF Plans, BeginTick, ListOpen, PlanStage, PlanNothing, EndRequest, plan_summary_notification,
         SaveRemind, CheckRemind
<1>3. \E ph, l, q : /\ phase' = [phase EXCEPT ![p] = ph] \/ phase' = phase
                    /\ listed' = [listed EXCEPT ![p] = l] \/ listed' = listed
                    /\ queue' = [queue EXCEPT ![p] = q] \/ queue' = queue
  BY DEF Plans, BeginTick, ListOpen, PlanStage, PlanNothing, EndRequest, plan_summary_notification,
         SaveRemind, CheckRemind
<1>4. \/ began' = began /\ (phase[p] # "idle" \/ phase' = phase)
      \/ began' = [began EXCEPT ![p] = clock]
      \/ began' = [began EXCEPT ![p] = 0] /\ phase' = [phase EXCEPT ![p] = "idle"]
  BY DEF Plans, BeginTick, ListOpen, PlanStage, PlanNothing, EndRequest, plan_summary_notification,
         SaveRemind, CheckRemind
<1>5. \A q \in Procs : q # p => SameRequest(q)
  BY <1>1, <1>3, <1>4 DEF SameRequest, TypeOK, RequestTypeOK
<1>6. \A q \in Procs : q # p => Around(q)
  BY <1>1, <1>2 DEF Around, eventVars, sinceVars, TypeOK, RequestTypeOK
<1>7. began'[p] \in {began[p], clock, 0}
  BY <1>4 DEF TypeOK, RequestTypeOK
<1>8. phase'[p] # "idle" => began'[p] = clock \/ (phase[p] # "idle" /\ began'[p] = began[p])
  BY <1>4 DEF TypeOK, RequestTypeOK
<1> QED BY <1>1, <1>5, <1>6, <1>7, <1>8

LEMMA StagePlanned ==
    ASSUME TypeOK, FreshInv, NEW p \in Procs, PlanStage(p) \/ PlanNothing(p)
    PROVE  AtItsWork(p)'
<1>1. p \in Ticks /\ TickAtWork(p)
  BY DEF FreshInv, AtItsWork, PlanStage, PlanNothing
<1>2. UNCHANGED <<run, eventVars, sinceVars, phase, began>>
  BY DEF PlanStage, PlanNothing, dvars
<1>3. Around(p)
  BY <1>2 DEF Around, eventVars, sinceVars
<1>4. ASSUME NEW j, NEW members, members \subseteq Members, MeantFor(p, j, members)
      PROVE MeantFor(p, j, members)'
  BY <1>2, <1>3, <1>4, MeantStays
<1>5. run[p].pc # "idle" => MeantFor(p, run[p].job, run[p].todo)'
  <2>1. PICK j, members : j = run[p].job /\ members = run[p].todo
    OBVIOUS
  <2>2. members \subseteq Members
    BY <2>1 DEF TypeOK, DTypeOK, Locals
  <2>3. SUFFICES ASSUME run[p].pc # "idle" PROVE MeantFor(p, run[p].job, run[p].todo)'
    OBVIOUS
  <2>4. MeantFor(p, j, members)'
    BY <1>1, <1>4, <2>1, <2>2, <2>3 DEF TickAtWork
  <2>5. run'[p].job = j /\ run'[p].todo = members
    BY <1>2, <2>1
  <2> QED BY <2>4, <2>5 DEF MeantFor
<1>6. listed'[p] \subseteq listed[p] /\ listed[p] # {} /\ phase'[p] = phase[p] /\ run'[p] = run[p]
  <2>1. \E l \in listed[p] : listed' = [listed EXCEPT ![p] = listed[p] \ {l}]
    BY DEF PlanStage, PlanNothing
  <2> QED BY <1>2, <2>1 DEF TypeOK, RequestTypeOK
<1>7. ASSUME NEW q \in queue[p] PROVE MeantFor(p, q.job, q.targets)'
  <2>1. q.targets \subseteq Members
    BY DEF TypeOK, RequestTypeOK, Queued
  <2> QED BY <1>1, <1>4, <2>1 DEF TickAtWork
<1>8. ASSUME NEW q \in queue'[p] PROVE MeantFor(p, q.job, q.targets)'
  <2>1. CASE PlanNothing(p)
    BY <1>7, <1>8, <2>1 DEF PlanNothing
  <2>2. CASE PlanStage(p)
    <3>1. PICK l \in listed[p], s \in Stages :
            /\ Plannable(l.form, began[p]) /\ IsLatestDue(l.form, s, began[p])
            /\ queue' = [queue EXCEPT ![p] = queue[p] \cup
                   {[event |-> l.event, job |-> stage_job_id(l.event, s),
                     targets |-> StageTargets(l.event, l.form, s), clean |-> l.form.clean]}]
      BY <2>2 DEF PlanStage
    <3>2. CASE q \in queue[p]
      BY <1>7, <3>2
    <3>3. CASE q \notin queue[p]
      <4>1. q.job = stage_job_id(l.event, s) /\ q.targets = StageTargets(l.event, l.form, s)
        BY <1>8, <3>1, <3>3 DEF TypeOK, RequestTypeOK
      <4>2. q.targets \subseteq Members
        <5>1. l.event \in Events /\ l.form \in Forms /\ linked \subseteq Members
          BY DEF TypeOK, DTypeOK, RequestTypeOK, Listing
        <5> QED BY <4>1, <5>1, TargetsAreMembers DEF TypeOK
      <4>3. MeantFor(p, stage_job_id(l.event, s), StageTargets(l.event, l.form, s))
        BY <1>1, <3>1, PlannedIsMeant
      <4>4. PICK j, members : j = stage_job_id(l.event, s) /\ members = StageTargets(l.event, l.form, s)
        OBVIOUS
      <4>5. MeantFor(p, j, members)'
        BY <1>4, <4>1, <4>2, <4>3, <4>4
      <4>6. q.job = j /\ q.targets = members
        BY <4>1, <4>4
      <4> QED BY <4>5, <4>6
    <3> QED BY <3>2, <3>3
  <2> QED BY <2>1, <2>2
<1>9. \A l \in listed'[p] :
          l.event \in touched'[p] \/ (status'[l.event] = "open" /\ form'[l.event] = l.form)
  BY <1>1, <1>2, <1>6 DEF TickAtWork, sinceVars, eventVars
<1>10. TickAtWork(p)'
  BY <1>1, <1>5, <1>6, <1>8, <1>9 DEF TickAtWork
<1> QED BY <1>1, <1>10 DEF AtItsWork

LEMMA WorkPlanned ==
    ASSUME TypeOK, FreshInv, NEW p \in Procs, Plans(p)
    PROVE  AtItsWork(p)'
<1>1. run' = run
  BY OthersStay
<1>2. CASE PlanStage(p) \/ PlanNothing(p)
  BY <1>2, StagePlanned
<1>3. CASE BeginTick(p)
  <2>1. /\ phase[p] = "idle" /\ phase'[p] = "begun" /\ listed' = listed /\ queue' = queue
    BY <1>3 DEF BeginTick, TypeOK, RequestTypeOK
  <2> QED BY <1>1, <2>1 DEF FreshInv, AtItsWork, TickAtWork, OtherAtWork
<1>4. CASE ListOpen(p)
  <2>1. /\ p \in Ticks /\ phase[p] = "begun" /\ phase'[p] = "busy" /\ queue' = queue
        /\ UNCHANGED eventVars
        /\ listed'[p] = {[event |-> e, form |-> form[e]] : e \in {x \in Events : status[x] = "open"}}
    BY <1>4 DEF ListOpen, TypeOK, RequestTypeOK
  <2>2. \A l \in listed'[p] : status'[l.event] = "open" /\ form'[l.event] = l.form
    BY <2>1 DEF eventVars
  <2> QED BY <1>1, <2>1, <2>2 DEF FreshInv, AtItsWork, TickAtWork
<1>5. CASE EndRequest(p)
  <2>1. /\ phase[p] = "busy" /\ phase'[p] = "idle" /\ listed'[p] = {} /\ queue'[p] = {}
        /\ run[p].pc = "idle"
    BY <1>5 DEF EndRequest, TypeOK, RequestTypeOK
  <2> QED BY <1>1, <2>1 DEF FreshInv, AtItsWork, TickAtWork, OtherAtWork
<1>6. CASE plan_summary_notification(p)
  <2>1. PICK l \in listed[p] :
          /\ phase[p] = "closing"
          /\ \E t, k : queue' = [queue EXCEPT ![p] =
                {[event |-> l.event, job |-> SummaryJob(l.event), targets |-> t, clean |-> k]}]
    BY <1>6 DEF plan_summary_notification
  <2>2. p \notin Ticks
    BY <2>1 DEF FreshInv, AtItsWork, TickAtWork
  <2>3. \A q \in queue'[p] : q.job \notin StageJobs
    BY <2>1, StageJobIds DEF TypeOK, RequestTypeOK
  <2> QED BY <1>1, <2>2, <2>3 DEF FreshInv, AtItsWork, OtherAtWork
<1>7. CASE SaveRemind(p)
  <2>1. PICK q \in queue[p] : phase[p] = "checked" /\ queue' = queue
    BY <1>7 DEF SaveRemind
  <2>2. p \notin Ticks
    BY <2>1 DEF FreshInv, AtItsWork, TickAtWork
  <2> QED BY <1>1, <2>1, <2>2 DEF FreshInv, AtItsWork, OtherAtWork
<1>8. ASSUME NEW e \in Events, CheckRemind(p, e), p \in Ops PROVE AtItsWork(p)'
  <2>1. PICK t, k : queue' = [queue EXCEPT ![p] = {[event |-> e, job |-> LiffJob(e, clock),
                                                    targets |-> t, clean |-> k]}]
    BY <1>8 DEF CheckRemind
  <2>2. \A q \in queue'[p] : q.job \notin StageJobs
    BY <2>1, StageJobIds DEF TypeOK, RequestTypeOK
  <2> QED BY <1>1, <1>8, <2>2, ProcsAssumption DEF FreshInv, AtItsWork, OtherAtWork
<1> QED BY <1>2, <1>3, <1>4, <1>5, <1>6, <1>7, <1>8 DEF Plans

(* Time, the documents and the answers move; the requests stay as they are. *)
LEMMA WorldMoves ==
    ASSUME TypeOK, FreshInv, Environment \/ UNCHANGED vars
    PROVE  \A p \in Procs : Around(p) /\ SameRequest(p) /\ InTheSlot(p)'
<1>1. UNCHANGED <<requestVars, run>>
  BY DEF Environment, UpdateEvent, CancelEvent, RestoreEvent, manual_remind, RecordAttendance,
         UpdateMember, LinkMember, SetLinked, SaveSettings, PutSettings, PassTime, Elapse, dvars, vars
<1>2. \A p \in Procs : SameRequest(p)
  BY <1>1 DEF SameRequest, requestVars
<1>3. ASSUME NEW p \in Procs PROVE Around(p)
  <2>1. CASE UNCHANGED <<eventVars, sinceVars>>
    BY <2>1 DEF Around, eventVars, sinceVars
  <2>2. ASSUME NEW e \in Events, Touch(e), UNCHANGED <<answer, replied>>,
               form' = form \/ \E f \in Forms : form' = [form EXCEPT ![e] = f],
               \E s \in Statuses : status' = [status EXCEPT ![e] = s]
        PROVE Around(p)
    BY <2>2 DEF Around, Touch, TypeOK, RequestTypeOK
  <2>3. CASE \E e \in Events : UpdateEvent(e) \/ CancelEvent(e) \/ RestoreEvent(e)
    <3>1. PICK e \in Events : UpdateEvent(e) \/ CancelEvent(e) \/ RestoreEvent(e)
      BY <2>3
    <3>2. /\ Touch(e) /\ UNCHANGED <<answer, replied>>
          /\ form' = form \/ \E f \in Forms : form' = [form EXCEPT ![e] = f]
          /\ \E s \in Statuses : status' = [status EXCEPT ![e] = s]
      BY <3>1 DEF UpdateEvent, CancelEvent, RestoreEvent, Statuses
    <3> QED BY <2>2, <3>2
  <2>4. CASE \E e \in Events, m \in Members : RecordAttendance(e, m)
    <3>1. PICK e \in Events, m \in Members : RecordAttendance(e, m)
      BY <2>4
    <3>2. PICK a : answer' = [answer EXCEPT ![e] = [answer[e] EXCEPT ![m] = a]]
      BY <3>1 DEF RecordAttendance
    <3>3. UNCHANGED <<form, status, touched>> /\ replied'[p] = replied[p] \cup {<<e, m>>}
      BY <3>1 DEF RecordAttendance
    <3>4. \A d \in Events, n \in Members : d # e \/ n # m => answer'[d][n] = answer[d][n]
      BY <3>2 DEF TypeOK, RequestTypeOK
    <3> QED BY <3>3, <3>4 DEF Around
  <2>5. CASE \/ (\E e \in Events : manual_remind(e)) \/ (\E m \in Members : UpdateMember(m))
             \/ (\E m \in Members : LinkMember(m)) \/ SaveSettings \/ PassTime \/ UNCHANGED vars
    <3>1. UNCHANGED <<form, status, answer, touched, replied>>
      BY <2>5 DEF manual_remind, UpdateMember, LinkMember, SaveSettings, PassTime, vars, eventVars,
                  sinceVars
    <3> QED BY <3>1 DEF Around
  <2> QED BY <2>3, <2>4, <2>5 DEF Environment
<1>4. ASSUME NEW p \in Procs PROVE InTheSlot(p)'
  <2>1. clock \in Nat /\ began[p] \in Nat /\ began'[p] = began[p] /\ phase'[p] = phase[p]
    BY <1>2, BoundsAssumption DEF SameRequest, TypeOK, DTypeOK, RequestTypeOK, Times
  <2>2. CASE PassTime
    BY <2>1, <2>2 DEF PassTime, Elapse, InTheSlot
  <2>3. CASE ~PassTime
    <3>1. clock' = clock
      BY <2>3 DEF Environment, UpdateEvent, CancelEvent, RestoreEvent, manual_remind, RecordAttendance,
         UpdateMember, LinkMember, SetLinked, SaveSettings, PutSettings, dvars, vars, sharedVars
    <3> QED BY <2>1, <3>1 DEF FreshInv, InTheSlot
  <2> QED BY <2>2, <2>3
<1> QED BY <1>2, <1>3, <1>4

LEMMA FreshInit == Init => FreshInv
<1> SUFFICES ASSUME Init, NEW p \in Procs PROVE AtItsWork(p) /\ AtRest(p) /\ InTheSlot(p)
  BY DEF FreshInv
<1>1. listed[p] = {} /\ queue[p] = {} /\ phase[p] = "idle" /\ run[p] = Idle
  BY DEF Init, DInit
<1>2. NoJob \notin StageJobs
  BY StageJobIds, JobsAssumption
<1> QED BY <1>1, <1>2, IdleType DEF AtItsWork, TickAtWork, OtherAtWork, AtRest, InTheSlot

LEMMA FreshStep == ASSUME TypeOK, FreshInv, [Next]_vars PROVE FreshInv'
<1>0. \A p \in Procs : clock \in Nat /\ began[p] \in Nat
  BY BoundsAssumption DEF TypeOK, DTypeOK, RequestTypeOK, Times
<1>1. ASSUME NEW p \in Procs, Around(p), SameRequest(p), clock' = clock
      PROVE AtItsWork(p)' /\ AtRest(p)' /\ InTheSlot(p)'
  <2>1. AtItsWork(p)'
    BY <1>1, RequestStays DEF FreshInv
  <2>2. AtRest(p)' /\ InTheSlot(p)'
    BY <1>1 DEF FreshInv, SameRequest, AtRest, InTheSlot
  <2> QED BY <2>1, <2>2
<1>2. ASSUME NEW p \in Procs, Plans(p) PROVE FreshInv'
  <2>1. /\ run' = run /\ clock' = clock
        /\ phase'[p] # "idle" => began'[p] = clock \/ (phase[p] # "idle" /\ began'[p] = began[p])
        /\ \A q \in Procs : q # p => Around(q) /\ SameRequest(q)
    BY <1>2, OthersStay
  <2>2. AtItsWork(p)'
    BY <1>2, WorkPlanned
  <2>3. AtRest(p)' /\ InTheSlot(p)'
    BY <1>0, <2>1 DEF FreshInv, AtRest, InTheSlot
  <2>4. \A q \in Procs : AtItsWork(q)' /\ AtRest(q)' /\ InTheSlot(q)'
    BY <1>1, <2>1, <2>2, <2>3
  <2> QED BY <2>4 DEF FreshInv
<1>3. ASSUME NEW p \in Procs, RunJob(p) PROVE FreshInv'
  <2>1. /\ AtItsWork(p)' /\ AtRest(p)' /\ \A q \in Procs : q # p => Around(q) /\ SameRequest(q)
    BY <1>3, JobBegins
  <2>2. clock' = clock /\ phase' = phase /\ began' = began
    BY <1>3 DEF RunJob, StartJob, sharedVars
  <2>3. InTheSlot(p)'
    BY <2>2 DEF FreshInv, InTheSlot
  <2>4. \A q \in Procs : AtItsWork(q)' /\ AtRest(q)' /\ InTheSlot(q)'
    BY <1>1, <2>1, <2>2, <2>3
  <2> QED BY <2>4 DEF FreshInv
<1>4. ASSUME NEW p \in Procs, Continue(p) \/ Abort(p)
      PROVE clock' = clock /\ AtRest(p)' /\ \A q \in Procs : q # p => run'[q] = run[q]
  <2>1. clock' = clock
    BY <1>4 DEF Continue, Abort, Block, Allow, SkipUnlinked, Push, WriteResult, FinishJob,
                PushRefused, PushTimedOut, Die, sharedVars
  <2> QED BY <1>4, <2>1, JobGoesOn, JobStays DEF AtRest, TypeOK
<1>5. ASSUME NEW p \in Procs, ContinueJob(p) PROVE FreshInv'
  <2>1. UNCHANGED <<eventVars, requestVars, sinceVars>>
    BY <1>5 DEF ContinueJob
  <2>2. clock' = clock /\ AtRest(p)' /\ \A q \in Procs : q # p => run'[q] = run[q]
    BY <1>4, <1>5 DEF ContinueJob
  <2>3. \A q \in Procs : q # p => Around(q) /\ SameRequest(q)
    BY <2>1, <2>2 DEF Around, SameRequest, eventVars, requestVars, sinceVars
  <2>4. AtItsWork(p)' /\ InTheSlot(p)'
    BY <1>5, <2>1, <2>2, JobContinues DEF FreshInv, InTheSlot, requestVars
  <2>5. \A q \in Procs : AtItsWork(q)' /\ AtRest(q)' /\ InTheSlot(q)'
    BY <1>1, <2>2, <2>3, <2>4
  <2> QED BY <2>5 DEF FreshInv
<1>6. ASSUME NEW p \in Procs, GiveUp(p), UNCHANGED <<eventVars, sinceVars>>, clock' = clock,
             \A q \in Procs : q # p => run'[q] = run[q],
             run'[p].pc = "idle", run'[p].job = NoJob, run'[p].todo = {}
      PROVE FreshInv'
  <2>1. /\ \A q \in Procs : q # p => Around(q) /\ SameRequest(q)
        /\ phase'[p] = "idle"
    BY <1>6 DEF Around, SameRequest, eventVars, sinceVars, GiveUp, TypeOK, RequestTypeOK
  <2>2. AtItsWork(p)' /\ AtRest(p)' /\ InTheSlot(p)'
    BY <1>6, <2>1, GivenUp DEF AtRest, InTheSlot
  <2>3. \A q \in Procs : AtItsWork(q)' /\ AtRest(q)' /\ InTheSlot(q)'
    BY <1>1, <1>6, <2>1, <2>2
  <2> QED BY <2>3 DEF FreshInv
<1>7. ASSUME NEW p \in Procs, AbortRequest(p) PROVE FreshInv'
  <2>1. Abort(p) /\ GiveUp(p) /\ UNCHANGED <<eventVars, sinceVars>> /\ run' = [run EXCEPT ![p] = Idle]
    BY <1>7 DEF AbortRequest, Abort, PushRefused, PushTimedOut
  <2>2. run'[p] = Idle
    BY <2>1 DEF TypeOK, DTypeOK
  <2> QED BY <1>4, <1>6, <2>1, <2>2, IdleType
<1>8. ASSUME NEW p \in Procs, Crash(p) PROVE FreshInv'
  <2>1. GiveUp(p) /\ UNCHANGED <<eventVars, sinceVars>>
    BY <1>8 DEF Crash
  <2>2. CASE Die(p)
    <3>1. run'[p] = Idle
      BY <2>2 DEF Die, TypeOK, DTypeOK
    <3> QED BY <1>4, <1>6, <2>1, <2>2, <3>1, IdleType DEF Abort
  <2>3. CASE run[p].pc = "idle" /\ UNCHANGED dvars
    BY <1>6, <2>1, <2>3 DEF dvars, FreshInv, AtRest
  <2> QED BY <1>8, <2>2, <2>3 DEF Crash
<1>9. ASSUME NEW p \in Admins, NEW e \in Events, CloseEvent(p, e) PROVE FreshInv'
  <2>1. /\ p \in Procs /\ p \notin Ticks /\ UNCHANGED <<run, clock, form, answer, queue, replied>>
        /\ Touch(e) /\ status' = [status EXCEPT ![e] = "closed"] /\ began'[p] = clock
    BY <1>9, ProcsAssumption DEF CloseEvent, dvars, TypeOK, RequestTypeOK
  <2>2. \A q \in Procs : Around(q)
    BY <2>1 DEF Around, Touch, TypeOK, RequestTypeOK
  <2>3. \A q \in Procs : q # p => SameRequest(q)
    BY <1>9, <2>1 DEF CloseEvent, SameRequest, TypeOK, RequestTypeOK
  <2>4. AtItsWork(p)' /\ AtRest(p)' /\ InTheSlot(p)'
    BY <1>0, <2>1 DEF FreshInv, AtItsWork, OtherAtWork, AtRest, InTheSlot
  <2>5. \A q \in Procs : AtItsWork(q)' /\ AtRest(q)' /\ InTheSlot(q)'
    BY <1>1, <2>1, <2>2, <2>3, <2>4
  <2> QED BY <2>5 DEF FreshInv
<1>10. CASE Environment \/ UNCHANGED vars
  <2>1. \A p \in Procs : Around(p) /\ SameRequest(p) /\ InTheSlot(p)'
    BY <1>10, WorldMoves
  <2>2. \A p \in Procs : AtItsWork(p)' /\ AtRest(p)'
    BY <2>1, RequestStays DEF FreshInv, SameRequest, AtRest
  <2> QED BY <2>1, <2>2 DEF FreshInv
<1>11. ASSUME NEW p \in Procs, Proceed(p) PROVE FreshInv'
  BY <1>2, <1>3, <1>5, <1>11 DEF Proceed, Plans
<1>12. ASSUME NEW p \in Ticks, BeginTick(p) PROVE FreshInv'
  BY <1>2, <1>12, ProcsAssumption DEF Plans
<1>13. ASSUME NEW p \in Ops, NEW e \in Events, CheckRemind(p, e) PROVE FreshInv'
  BY <1>2, <1>13, ProcsAssumption DEF Plans
<1> QED BY <1>7, <1>8, <1>9, <1>10, <1>11, <1>12, <1>13 DEF Next

LEMMA FreshInvariant == Spec => []FreshInv
<1>1. Init => FreshInv
  BY FreshInit
<1>2. TypeOK /\ FreshInv /\ [Next]_vars => FreshInv'
  BY FreshStep
<1>3. Spec => []TypeOK
  BY RemindersTypeOK, PTL
<1> QED BY <1>1, <1>2, <1>3, PTL DEF Spec
-----------------------------------------------------------------------------
(* A tick acts on what it read, and its reading is no older than the tick: a      *)
(* reminder still to be sent is for an event that is open, and to a member it is  *)
(* still due to, or that changed after the tick listed it (main.tasks_tick,       *)
(* reminders.plan_reminders).                                                     *)
THEOREM PlanIsFresh == Spec => []PlanIsAsFreshAsTheTick
<1>1. TypeOK /\ FreshInv => PlanIsAsFreshAsTheTick
  <2> SUFFICES ASSUME TypeOK, FreshInv, NEW p \in Ticks, NEW j \in StageJobs, NEW m \in Members,
                      Awaits(p, j, m)
               PROVE  StillDue(p, j, m)
    BY DEF PlanIsAsFreshAsTheTick
  <2>1. p \in Procs /\ TickAtWork(p) /\ AtRest(p)
    BY ProcsAssumption DEF FreshInv, AtItsWork
  <2>2. CASE run[p].job = j /\ m \in run[p].todo
    BY <2>1, <2>2 DEF TickAtWork, AtRest, MeantFor
  <2>3. CASE \E q \in queue[p] : q.job = j /\ m \in q.targets
    BY <2>1, <2>3 DEF TickAtWork, MeantFor
  <2> QED BY <2>2, <2>3 DEF Awaits
<1> QED BY <1>1, FreshInvariant, RemindersTypeOK, PTL

(* The stage a tick sends is the last one due: whoever got a later stage that is  *)
(* due gets no earlier one, unless the event was saved meanwhile                  *)
(* (reminders.due_stage_jobs).                                                    *)
THEOREM LatestStageOnly == Spec => LaterStagesOnly
<1> DEFINE NothingEarlier ==
        \A p \in Ticks, e \in Events, m \in Members, r, s \in Stages :
            ~(/\ run[p].job = stage_job_id(e, s) /\ e \notin touched[p]
              /\ Later(r, s) /\ r \in due_stages(form[e], began[p]))
<1>1. FreshInv => NothingEarlier
  <2> SUFFICES ASSUME FreshInv, NEW p \in Ticks, NEW e \in Events, NEW r \in Stages, NEW s \in Stages,
                      run[p].job = stage_job_id(e, s), e \notin touched[p],
                      Later(r, s), r \in due_stages(form[e], began[p])
               PROVE  FALSE
    OBVIOUS
  <2>1. p \in Procs /\ TickAtWork(p) /\ AtRest(p)
    BY ProcsAssumption DEF FreshInv, AtItsWork
  <2>2. run[p].job \in StageJobs /\ run[p].job[1] = e /\ run[p].job[3] = s
    BY StageJobIds DEF stage_job_id
  <2>3. run[p].pc # "idle"
    BY <2>1, <2>2, StageJobIds, JobsAssumption DEF AtRest
  <2>4. IsLatestDue(form[e], s, began[p])
    BY <2>1, <2>2, <2>3 DEF TickAtWork, MeantFor
  <2> QED BY <2>4 DEF IsLatestDue
<1>2. NothingEarlier =>
        [\A p \in Ticks, e \in Events, m \in Members, r, s \in Stages :
            /\ run[p].job = stage_job_id(e, s) /\ e \notin touched[p]
            /\ Later(r, s) /\ r \in due_stages(form[e], began[p])
            /\ delivered[stage_job_id(e, r)][m] > 0
            => delivered'[stage_job_id(e, s)][m] = delivered[stage_job_id(e, s)][m]]_vars
  OBVIOUS
<1> HIDE DEF NothingEarlier
<1> QED BY <1>1, <1>2, FreshInvariant, PTL DEF LaterStagesOnly

(* Who sends a message of a job is executing it. *)
LEMMA SenderOfJob ==
    ASSUME DTypeOK, [DNext]_dvars, NEW j \in Jobs, NEW m \in Members,
           delivered'[j][m] # delivered[j][m]
    PROVE  \E p \in Procs : run[p].pc = "push" /\ run[p].job = j
<1>1. PICK p \in Procs : Push(p) \/ PushTimedOut(p)
  BY DEF DNext, dvars, AnyCaller, StartJob, Continue, Abort, Block, Allow, SkipUnlinked, WriteResult,
         FinishJob, PushRefused, Die, AnySave, PutSettings, SetLinked, Elapse, historyVars
<1>2. /\ run[p].pc = "push"
      /\ \E n : delivered' = [delivered EXCEPT ![run[p].job][n] = delivered[run[p].job][n] + 1]
  BY <1>1 DEF Push, PushTimedOut, Reach
<1> QED BY <1>2 DEF DTypeOK

(* The administrators do not move the meetings. *)
NotMoved == \A f, g \in Forms : f.start = g.start

(* No reminder goes out for a meeting that began before this slot, as long as     *)
(* meetings are not moved: the tick drops what has begun by its now, and does not *)
(* outlive the next slot (reminders.plan_reminders).                              *)
THEOREM NotAfterStart == ASSUME NotMoved PROVE Spec => NoReminderAfterStart
<1>1. TypeOK /\ NotBeforeNow /\ FreshInv /\ [Next]_vars =>
        [\A e \in Events, s \in Stages, m \in Members :
            delivered'[stage_job_id(e, s)][m] > delivered[stage_job_id(e, s)][m]
                => clock <= form[e].start]_vars
  <2> SUFFICES ASSUME TypeOK, NotBeforeNow, FreshInv, [Next]_vars,
                      NEW e \in Events, NEW s \in Stages, NEW m \in Members,
                      delivered'[stage_job_id(e, s)][m] > delivered[stage_job_id(e, s)][m]
               PROVE  clock <= form[e].start
    OBVIOUS
  <2>1. PICK j : j = stage_job_id(e, s)
    OBVIOUS
  <2>2. j \in StageJobs /\ j \in Jobs
    BY <2>1, StageJobIds
  <2>3. delivered'[j][m] # delivered[j][m]
    BY <2>1, <2>2 DEF TypeOK, DTypeOK
  <2>4. [DNext]_dvars
    BY EngineStep DEF TypeOK
  <2>5. PICK p \in Procs : run[p].pc = "push" /\ run[p].job = j
    BY <2>2, <2>3, <2>4, SenderOfJob DEF TypeOK
  <2>6. TickAtWork(p)
    BY <2>2, <2>5 DEF FreshInv, AtItsWork, OtherAtWork
  <2>7. PICK f \in Forms : began[p] < f.start
    BY <2>5, <2>6 DEF TickAtWork, MeantFor
  <2>8. phase[p] # "idle" /\ clock <= began[p] + 1
    BY <2>5, <2>6 DEF TickAtWork, FreshInv, InTheSlot
  <2>9. form[e].start = f.start /\ f.start \in Nat
    BY FormsAssumption DEF NotMoved, TypeOK, RequestTypeOK
  <2>10. clock \in Nat /\ began[p] \in Nat
    BY BoundsAssumption DEF TypeOK, DTypeOK, RequestTypeOK, Times
  <2> QED BY <2>7, <2>8, <2>9, <2>10
<1> QED BY <1>1, FreshInvariant, RemindersTypeOK, PTL DEF Spec, NoReminderAfterStart
-----------------------------------------------------------------------------
(* Of the settings an administrator may save, some allow the most messages a day. *)
SomeSettingsAllowMost ==
    \E s \in SettingsDocs : \A t \in SettingsDocs : t.per_member_per_day <= s.per_member_per_day

OkJobs(m) == {j \in Jobs : log[j][m].result = "ok"}
OkStages(m, d) == {j \in StageJobs : log[j][m].result = "ok" /\ Day(log[j][m].sent_at) = d}

(* Messages on record are finitely many; those of a day are within the limit, and *)
(* leave room for one that is being pushed.                                       *)
LogsAreFinite == \A m \in Members : IsFiniteSet(OkJobs(m))
WithinLimit == \A m \in Members, d \in Nat : Cardinality(OkStages(m, d)) <= SettingsLimit
RoomFor(p) == run[p].pc \in {"push", "accepted"} =>
    \A m \in Members : IsNext(p, m) =>
        Cardinality(OkStages(m, Day(run[p].now))) < SettingsLimit
RoomForNext == \A p \in Ticks : RoomFor(p)

DailyInv == LogsAreFinite /\ WithinLimit /\ RoomForNext
-----------------------------------------------------------------------------
LEMMA LimitOfSettings ==
    ASSUME SomeSettingsAllowMost
    PROVE  SettingsLimit \in Nat /\ \A s \in SettingsDocs : s.per_member_per_day <= SettingsLimit
<1>1. PICK s \in SettingsDocs : \A t \in SettingsDocs : t.per_member_per_day <= s.per_member_per_day
  BY DEF SomeSettingsAllowMost
<1>2. \A t \in SettingsDocs : t.per_member_per_day \in Nat
  BY SettingsAssumption
<1>3. \E n \in {t.per_member_per_day : t \in SettingsDocs} :
          \A t \in SettingsDocs : t.per_member_per_day <= n
  BY <1>1
<1>4. /\ SettingsLimit \in {t.per_member_per_day : t \in SettingsDocs}
      /\ \A t \in SettingsDocs : t.per_member_per_day <= SettingsLimit
  BY <1>3 DEF SettingsLimit
<1> QED BY <1>2, <1>4

(* Whoever was sent a message today was sent it since midnight. *)
LEMMA TodayIsSinceMidnight ==
    ASSUME NEW t \in Nat, NEW u \in Nat, Day(u) = Day(t)
    PROVE  u >= t - Tod(t)
<1>1. t = SlotsPerDay * Day(t) + Tod(t) /\ u = SlotsPerDay * Day(u) + Tod(u) /\ Tod(u) >= 0
  BY SlotsAssumption DEF Day, Tod
<1>2. Day(t) \in Nat /\ Day(u) \in Nat /\ Tod(t) \in Nat /\ Tod(u) \in Nat
  BY SlotsAssumption DEF Day, Tod
<1>3. SlotsPerDay * Day(t) \in Int /\ SlotsPerDay * Day(u) = SlotsPerDay * Day(t)
  BY <1>2, SlotsAssumption
<1> QED BY <1>1, <1>2, <1>3

LEMMA OkIsFinite ==
    ASSUME TypeOK, LogsAreFinite, NEW m \in Members, NEW d
    PROVE  /\ IsFiniteSet(OkStages(m, d)) /\ Cardinality(OkStages(m, d)) \in Nat
           /\ \A s \in SUBSET OkStages(m, d) :
                 IsFiniteSet(s) /\ Cardinality(s) \in Nat /\ Cardinality(s) <= Cardinality(OkStages(m, d))
<1>1. OkStages(m, d) \subseteq OkJobs(m) /\ IsFiniteSet(OkJobs(m))
  BY StageJobIds DEF OkStages, OkJobs, LogsAreFinite
<1>2. IsFiniteSet(OkStages(m, d))
  BY <1>1, FS_Subset
<1> QED BY <1>2, FS_Subset, FS_CardinalityType

(* One document of the log is written. *)
Writes(k, n, entry) == log' = [log EXCEPT ![k][n] = entry]

LEMMA LogAfter ==
    ASSUME TypeOK, NEW k \in Jobs, NEW n \in Members, NEW entry, Writes(k, n, entry)
    PROVE  /\ log'[k][n] = entry
           /\ \A j \in Jobs, m \in Members : j # k \/ m # n => log'[j][m] = log[j][m]
BY DEF Writes, TypeOK, DTypeOK

LEMMA OkAfter ==
    ASSUME TypeOK, LogsAreFinite, NEW k \in Jobs, NEW n \in Members, NEW entry, Writes(k, n, entry)
    PROVE  /\ LogsAreFinite'
           /\ \A m \in Members, d \in Nat :
                 /\ OkStages(m, d)' \subseteq OkStages(m, d) \cup {k}
                 /\ \/ m # n \/ k \notin StageJobs \/ entry.result # "ok" \/ d # Day(entry.sent_at)
                    => OkStages(m, d)' \subseteq OkStages(m, d)
<1>1. /\ log'[k][n] = entry
      /\ \A j \in Jobs, m \in Members : j # k \/ m # n => log'[j][m] = log[j][m]
  BY LogAfter
<1>2. ASSUME NEW m \in Members PROVE IsFiniteSet(OkJobs(m)')
  <2>1. OkJobs(m)' \subseteq OkJobs(m) \cup {k}
    BY <1>1 DEF OkJobs
  <2>2. IsFiniteSet(OkJobs(m) \cup {k})
    BY FS_AddElement DEF LogsAreFinite
  <2> QED BY <2>1, <2>2, FS_Subset
<1>3. ASSUME NEW m \in Members, NEW d \in Nat
      PROVE /\ OkStages(m, d)' \subseteq OkStages(m, d) \cup {k}
            /\ \/ m # n \/ k \notin StageJobs \/ entry.result # "ok" \/ d # Day(entry.sent_at)
               => OkStages(m, d)' \subseteq OkStages(m, d)
  BY <1>1, StageJobIds DEF OkStages
<1> QED BY <1>2, <1>3 DEF LogsAreFinite

(* The other requests write no stage of the tick's. *)
LEMMA OtherWrites ==
    ASSUME TypeOK, DailyInv, SettingsLimit \in Nat, NEW k \in Jobs, NEW n \in Members, NEW entry,
           Writes(k, n, entry), k \notin StageJobs \/ entry.result # "ok"
    PROVE  /\ LogsAreFinite' /\ WithinLimit'
           /\ \A m \in Members, d \in Nat : \A i \in Nat :
                 Cardinality(OkStages(m, d)) < i => Cardinality(OkStages(m, d)') < i
<1>1. /\ LogsAreFinite'
      /\ \A m \in Members, d \in Nat : OkStages(m, d)' \in SUBSET OkStages(m, d)
  BY OkAfter DEF DailyInv
<1>2. ASSUME NEW m \in Members, NEW d \in Nat
      PROVE /\ Cardinality(OkStages(m, d)) \in Nat /\ Cardinality(OkStages(m, d)') \in Nat
            /\ Cardinality(OkStages(m, d)') <= Cardinality(OkStages(m, d))
  BY <1>1, OkIsFinite DEF DailyInv
<1>3. WithinLimit'
  BY <1>2 DEF DailyInv, WithinLimit
<1> QED BY <1>1, <1>2, <1>3

(* Nothing is written. *)
LEMMA NothingWritten ==
    ASSUME DailyInv, UNCHANGED log
    PROVE  /\ LogsAreFinite' /\ WithinLimit'
           /\ \A q \in Ticks : run'[q] = run[q] => RoomFor(q)'
<1>1. \A m, d : OkStages(m, d)' = OkStages(m, d) /\ OkJobs(m)' = OkJobs(m)
  BY DEF OkStages, OkJobs
<1>2. LogsAreFinite' /\ WithinLimit'
  BY <1>1 DEF DailyInv, LogsAreFinite, WithinLimit
<1>3. ASSUME NEW q \in Ticks, run'[q] = run[q] PROVE RoomFor(q)'
  BY <1>1, <1>3 DEF DailyInv, RoomForNext, RoomFor, IsNext
<1> QED BY <1>2, <1>3

LEMMA DailyInit == ASSUME SettingsLimit \in Nat PROVE Init => DailyInv
<1> SUFFICES ASSUME Init PROVE DailyInv
  OBVIOUS
<1>1. \A j \in Jobs, m \in Members : log[j][m] = NoLog
  BY DEF Init, DInit
<1>2. \A m \in Members, d \in Nat : OkJobs(m) = {} /\ OkStages(m, d) = {}
  BY <1>1, StageJobIds DEF OkJobs, OkStages, NoLog
<1>3. LogsAreFinite /\ WithinLimit
  BY <1>2, FS_EmptySet DEF LogsAreFinite, WithinLimit
<1>4. RoomForNext
  <2>1. \A p \in Ticks : run[p].pc = "idle"
    BY IdleType, ProcsAssumption DEF Init, DInit
  <2> QED BY <2>1 DEF RoomForNext, RoomFor
<1> QED BY <1>3, <1>4 DEF DailyInv

(* A message is allowed while there is room for it. *)
LEMMA AllowedFits ==
    ASSUME SomeSettingsAllowMost, TypeOK, DailyInv, NEW p \in Ticks, Allow(p)
    PROVE  LogsAreFinite' /\ WithinLimit' /\ RoomFor(p)'
<1>1. p \in Procs /\ run[p] \in Locals /\ UNCHANGED log
  BY ProcsAssumption DEF TypeOK, DTypeOK, Allow
<1>2. PICK m \in Members :
        /\ IsNext(p, m) /\ decide_send(m, run[p].now, run[p].settings)
        /\ run' = [run EXCEPT ![p] = [run[p] EXCEPT !.pc = "push"]]
  BY DEF Allow
<1>3. run'[p] = [run[p] EXCEPT !.pc = "push"]
  BY <1>1, <1>2 DEF TypeOK, DTypeOK
<1>4. run'[p].todo = run[p].todo /\ run'[p].now = run[p].now
  BY <1>1, <1>3 DEF Locals
<1>5. PICK now : now = run[p].now
  OBVIOUS
<1>6. now \in Nat /\ Day(now) \in Nat
  BY <1>1, <1>5, BoundsAssumption, SlotsAssumption DEF Locals, Times, Day
<1>7. count_sends_today(m, now) < run[p].settings.per_member_per_day
  BY <1>2, <1>5 DEF decide_send
<1>8. Cardinality(OkStages(m, Day(now))) <= count_sends_today(m, now)
      /\ Cardinality(OkStages(m, Day(now))) \in Nat /\ count_sends_today(m, now) \in Nat
  <2> DEFINE today == {j \in Jobs : log[j][m].result = "ok" /\ log[j][m].sent_at >= now - Tod(now)}
  <2>1. IsFiniteSet(today)
    <3>1. today \subseteq OkJobs(m) /\ IsFiniteSet(OkJobs(m))
      BY DEF OkJobs, DailyInv, LogsAreFinite
    <3> QED BY <3>1, FS_Subset
  <2>2. OkStages(m, Day(now)) \subseteq today
    <3>1. \A j \in StageJobs : j \in Jobs /\ log[j][m].sent_at \in Nat
      BY StageJobIds, BoundsAssumption DEF TypeOK, DTypeOK, LogEntry, Times
    <3> QED BY <1>6, <3>1, TodayIsSinceMidnight DEF OkStages
  <2>3. Cardinality(today) \in Nat /\ Cardinality(OkStages(m, Day(now))) \in Nat
        /\ Cardinality(OkStages(m, Day(now))) <= Cardinality(today)
    BY <2>1, <2>2, FS_Subset, FS_CardinalityType
  <2> QED BY <2>3 DEF count_sends_today
<1>9. /\ SettingsLimit \in Nat /\ run[p].settings.per_member_per_day \in Nat
      /\ run[p].settings.per_member_per_day <= SettingsLimit
  <2>1. run[p].settings \in SettingsDocs
    BY <1>1 DEF Locals
  <2> QED BY <2>1, LimitOfSettings, SettingsAssumption
<1>10. Cardinality(OkStages(m, Day(now))) < SettingsLimit
  BY <1>7, <1>8, <1>9
<1>11. LogsAreFinite' /\ WithinLimit'
  BY <1>1, NothingWritten
<1>12. OkStages(m, Day(now))' = OkStages(m, Day(now))
  BY <1>1 DEF OkStages
<1>13. ASSUME NEW n \in Members, IsNext(p, n)' PROVE n = m
  <2>1. IsNext(p, n)
    BY <1>4, <1>13 DEF IsNext
  <2> QED BY <1>1, <1>2, <2>1, NextIsUnique DEF TypeOK
<1>14. ASSUME NEW n \in Members, IsNext(p, n)'
       PROVE Cardinality(OkStages(n, Day(run[p].now))') < SettingsLimit
  <2>1. n = m /\ run'[p].now = now
    BY <1>4, <1>5, <1>13, <1>14
  <2>2. Cardinality(OkStages(n, Day(now))') < SettingsLimit
    BY <1>10, <1>12, <2>1
  <2> QED BY <2>1, <2>2 DEF OkStages
<1> QED BY <1>11, <1>14 DEF RoomFor

(* What is written as sent had room. *)
LEMMA WrittenFits ==
    ASSUME SettingsLimit \in Nat, TypeOK, DailyInv, NEW p \in Ticks, WriteResult(p)
    PROVE  LogsAreFinite' /\ WithinLimit' /\ RoomFor(p)'
<1>1. p \in Procs /\ run[p] \in Locals /\ run[p].job \in Jobs
  BY ProcsAssumption DEF TypeOK, DTypeOK, WriteResult
<1>0. PICK n \in Members :
        /\ IsNext(p, n) /\ WriteLog(p, n, IF run[p].pc = "accepted" THEN "ok" ELSE "failed")
        /\ run' = [run EXCEPT ![p] = [run[p] EXCEPT !.pc = "decide", !.todo = run[p].todo \ {n}]]
  BY DEF WriteResult
<1>2. PICK k, entry :
        /\ k = run[p].job /\ entry = [result |-> IF run[p].pc = "accepted" THEN "ok" ELSE "failed",
                                      sent_at |-> run[p].now]
        /\ Writes(k, n, entry)
  BY <1>0 DEF WriteLog, Writes
<1>3. run'[p].pc = "decide"
  BY <1>0, <1>1 DEF TypeOK, DTypeOK, Locals
<1>4. /\ LogsAreFinite'
      /\ \A m \in Members, d \in Nat :
            /\ OkStages(m, d)' \subseteq OkStages(m, d) \cup {k}
            /\ \/ m # n \/ k \notin StageJobs \/ entry.result # "ok" \/ d # Day(entry.sent_at)
               => OkStages(m, d)' \subseteq OkStages(m, d)
  BY <1>1, <1>2, OkAfter DEF DailyInv
<1>5. ASSUME NEW m \in Members, NEW d \in Nat
      PROVE Cardinality(OkStages(m, d)') <= SettingsLimit
  <2>1. /\ IsFiniteSet(OkStages(m, d)) /\ Cardinality(OkStages(m, d)) \in Nat
        /\ Cardinality(OkStages(m, d)) <= SettingsLimit
    BY OkIsFinite DEF DailyInv, WithinLimit
  <2>2. CASE OkStages(m, d)' \subseteq OkStages(m, d)
    <3>1. Cardinality(OkStages(m, d)') \in Nat
          /\ Cardinality(OkStages(m, d)') <= Cardinality(OkStages(m, d))
      BY <2>2, OkIsFinite DEF DailyInv
    <3> QED BY <2>1, <3>1
  <2>3. CASE m = n /\ entry.result = "ok" /\ d = Day(entry.sent_at)
    <3>1. run[p].pc = "accepted" /\ d = Day(run[p].now)
      BY <1>2, <2>3
    <3>2. Cardinality(OkStages(m, d)) < SettingsLimit
      BY <1>0, <2>3, <3>1 DEF DailyInv, RoomForNext, RoomFor
    <3>3. /\ IsFiniteSet(OkStages(m, d) \cup {k}) /\ Cardinality(OkStages(m, d) \cup {k}) \in Nat
          /\ Cardinality(OkStages(m, d) \cup {k}) <= Cardinality(OkStages(m, d)) + 1
      <4> DEFINE more == OkStages(m, d) \cup {k}
      <4>1. IsFiniteSet(more)
            /\ Cardinality(more) = IF k \in OkStages(m, d) THEN Cardinality(OkStages(m, d))
                                   ELSE Cardinality(OkStages(m, d)) + 1
        BY <2>1, FS_AddElement
      <4> QED BY <2>1, <4>1
    <3>4. Cardinality(OkStages(m, d)') \in Nat
          /\ Cardinality(OkStages(m, d)') <= Cardinality(OkStages(m, d) \cup {k})
      <4>1. OkStages(m, d)' \in SUBSET (OkStages(m, d) \cup {k})
        BY <1>4
      <4>2. /\ IsFiniteSet(OkStages(m, d)')
            /\ Cardinality(OkStages(m, d)') <= Cardinality(OkStages(m, d) \cup {k})
        BY <3>3, <4>1, FS_Subset
      <4> QED BY <4>2, FS_CardinalityType
    <3> QED BY <2>1, <3>2, <3>3, <3>4
  <2> QED BY <1>4, <2>2, <2>3
<1>6. WithinLimit'
  BY <1>5 DEF WithinLimit
<1> QED BY <1>3, <1>4, <1>6 DEF RoomFor

(* Somebody writes what is no stage sent: whoever has room still has. *)
LEMMA OtherwiseWritten ==
    ASSUME SettingsLimit \in Nat, TypeOK, DailyInv, NEW p \in Procs, Block(p) \/ WriteResult(p),
           Block(p) \/ run[p].job \notin StageJobs
    PROVE  DailyInv'
<1>1. run[p] \in Locals /\ run[p].job \in Jobs
  BY DEF TypeOK, DTypeOK, WriteResult, Block
<1>2. PICK n \in Members, r \in Results :
        /\ WriteLog(p, n, r) /\ (Block(p) => r # "ok")
        /\ \E t : run' = [run EXCEPT ![p] = [run[p] EXCEPT !.pc = "decide", !.todo = t]]
  <2>1. CASE Block(p)
    <3>1. PICK n \in Members :
            /\ run[p].pc = "decide" /\ WriteLog(p, n, "blocked")
            /\ run' = [run EXCEPT ![p] = [run[p] EXCEPT !.todo = run[p].todo \ {n}]]
      BY <2>1 DEF Block
    <3>2. [run[p] EXCEPT !.todo = run[p].todo \ {n}]
            = [run[p] EXCEPT !.pc = "decide", !.todo = run[p].todo \ {n}]
      BY <1>1, <3>1 DEF Locals
    <3> QED BY <3>1, <3>2 DEF Results
  <2>2. CASE ~Block(p)
    <3>1. PICK n \in Members :
            /\ WriteLog(p, n, IF run[p].pc = "accepted" THEN "ok" ELSE "failed")
            /\ run' = [run EXCEPT ![p] = [run[p] EXCEPT !.pc = "decide", !.todo = run[p].todo \ {n}]]
      BY <2>2 DEF WriteResult
    <3> QED BY <2>2, <3>1 DEF Results
  <2> QED BY <2>1, <2>2
<1>3. run'[p].pc = "decide" /\ \A q \in Procs : q # p => run'[q] = run[q]
  BY <1>1, <1>2 DEF TypeOK, DTypeOK, Locals
<1>4. PICK k, entry : /\ k = run[p].job /\ entry = [result |-> r, sent_at |-> run[p].now]
                      /\ Writes(k, n, entry)
  BY <1>2 DEF WriteLog, Writes
<1>5. /\ LogsAreFinite' /\ WithinLimit'
      /\ \A m \in Members, d \in Nat : \A i \in Nat :
            Cardinality(OkStages(m, d)) < i => Cardinality(OkStages(m, d)') < i
  BY <1>1, <1>2, <1>4, OtherWrites
<1>6. ASSUME NEW q \in Ticks PROVE RoomFor(q)'
  <2>1. q \in Procs
    BY ProcsAssumption
  <2>2. CASE q = p
    BY <1>3, <2>2 DEF RoomFor
  <2>3. CASE q # p
    <3>1. run'[q] = run[q]
      BY <1>3, <2>1, <2>3
    <3>2. PICK d : d = Day(run[q].now)
      OBVIOUS
    <3>3. d \in Nat
      <4>1. run[q] \in Locals
        BY <2>1 DEF TypeOK, DTypeOK
      <4>2. run[q].now \in Nat
        BY <4>1, BoundsAssumption DEF Locals, Times
      <4> QED BY <3>2, <4>2, SlotsAssumption DEF Day
    <3>4. ASSUME NEW m \in Members, IsNext(q, m)', run'[q].pc \in {"push", "accepted"}
          PROVE Cardinality(OkStages(m, d)') < SettingsLimit
      <4>1. IsNext(q, m) /\ run[q].pc \in {"push", "accepted"}
        BY <3>1, <3>4 DEF IsNext
      <4>2. Cardinality(OkStages(m, d)) < SettingsLimit
        BY <3>2, <4>1 DEF DailyInv, RoomForNext, RoomFor
      <4> QED BY <1>5, <3>3, <4>2
    <3>5. ASSUME NEW m \in Members, IsNext(q, m)', run'[q].pc \in {"push", "accepted"}
          PROVE Cardinality(OkStages(m, Day(run[q].now))') < SettingsLimit
      <4>1. run'[q].now = run[q].now
        BY <3>1
      <4> QED BY <3>2, <3>4, <3>5, <4>1 DEF OkStages
    <3> QED BY <3>5 DEF RoomFor
  <2> QED BY <2>2, <2>3
<1> QED BY <1>5, <1>6 DEF DailyInv, RoomForNext

LEMMA DailyStep ==
    ASSUME OneTick, SomeSettingsAllowMost, TypeOK, NotBeforeNow, FreshInv, DailyInv, [Next]_vars
    PROVE  DailyInv'
<1>0. SettingsLimit \in Nat
  BY LimitOfSettings
<1>1. [DNext]_dvars
  BY EngineStep DEF TypeOK
<1>2. ASSUME UNCHANGED log,
             \A q \in Ticks : run'[q] = run[q] \/ run'[q].pc \notin {"push", "accepted"} \/ RoomFor(q)'
      PROVE DailyInv'
  BY <1>2, NothingWritten DEF DailyInv, RoomForNext, RoomFor
<1>3. ASSUME NEW p \in Procs, Block(p) \/ WriteResult(p) PROVE DailyInv'
  <2>1. CASE Block(p) \/ run[p].job \notin StageJobs
    BY <1>0, <1>3, <2>1, OtherwiseWritten
  <2>2. CASE WriteResult(p) /\ run[p].job \in StageJobs
    <3>1. p \in Ticks
      BY <2>2 DEF FreshInv, AtItsWork, OtherAtWork
    <3>2. LogsAreFinite' /\ WithinLimit' /\ RoomFor(p)'
      BY <1>0, <2>2, <3>1, WrittenFits
    <3> QED BY <3>1, <3>2 DEF OneTick, DailyInv, RoomForNext
  <2> QED BY <1>3, <2>1, <2>2
<1>4. ASSUME NEW p \in Procs, Allow(p) PROVE DailyInv'
  <2>1. UNCHANGED log /\ \A q \in Procs : q # p => run'[q] = run[q]
    BY <1>4 DEF Allow, TypeOK, DTypeOK
  <2>2. p \in Ticks => RoomFor(p)'
    BY <1>4, AllowedFits
  <2> QED BY <1>2, <2>1, <2>2, ProcsAssumption
<1>5. ASSUME NEW p \in Procs, Push(p) PROVE DailyInv'
  <2>1. UNCHANGED log /\ run' = [run EXCEPT ![p] = [run[p] EXCEPT !.pc = "accepted"]]
        /\ run[p].pc = "push"
    BY <1>5 DEF Push
  <2>2. \A q \in Procs : q # p => run'[q] = run[q]
    BY <2>1 DEF TypeOK, DTypeOK
  <2>3. run'[p].todo = run[p].todo /\ run'[p].now = run[p].now
    BY <2>1 DEF TypeOK, DTypeOK, Locals
  <2>4. ASSUME p \in Ticks PROVE RoomFor(p)'
    <3>1. ASSUME NEW m \in Members, IsNext(p, m)'
          PROVE Cardinality(OkStages(m, Day(run[p].now))') < SettingsLimit
      <4>1. IsNext(p, m)
        BY <2>3, <3>1 DEF IsNext
      <4>2. Cardinality(OkStages(m, Day(run[p].now))) < SettingsLimit
        BY <2>1, <2>4, <4>1 DEF DailyInv, RoomForNext, RoomFor
      <4> QED BY <2>1, <2>3, <4>2 DEF OkStages
    <3> QED BY <3>1 DEF RoomFor
  <2> QED BY <1>2, <2>1, <2>2, <2>4, ProcsAssumption
<1>6. ASSUME NEW p \in Procs,
             SkipUnlinked(p) \/ FinishJob(p) \/ PushRefused(p) \/ PushTimedOut(p) \/ Die(p)
      PROVE DailyInv'
  <2>1. UNCHANGED log /\ \/ run' = [run EXCEPT ![p] = Idle]
                         \/ run' = [run EXCEPT ![p] = [run[p] EXCEPT !.pc = "unlinked"]]
    BY <1>6 DEF SkipUnlinked, FinishJob, PushRefused, PushTimedOut, Die
  <2>2. /\ \A q \in Procs : q # p => run'[q] = run[q]
        /\ run'[p].pc \notin {"push", "accepted"}
    BY <2>1, IdleType DEF TypeOK, DTypeOK, Locals
  <2> QED BY <1>2, <2>1, <2>2, ProcsAssumption
<1>7. ASSUME NEW p \in Procs, AnyCaller(p) PROVE DailyInv'
  <2>1. UNCHANGED log /\ (run' = run \/ \E j, t, n, s :
            run' = [run EXCEPT ![p] = [pc |-> "decide", job |-> j, todo |-> t, now |-> n,
                                       settings |-> s]])
    BY <1>7 DEF AnyCaller, StartJob
  <2>2. /\ \A q \in Procs : q # p => run'[q] = run[q]
        /\ run'[p] = run[p] \/ run'[p].pc \notin {"push", "accepted"}
    BY <2>1 DEF TypeOK, DTypeOK
  <2> QED BY <1>2, <2>1, <2>2, ProcsAssumption
<1>8. CASE \/ AnySave \/ (\E s \in SettingsDocs : PutSettings(s))
           \/ (\E members \in SUBSET Members : SetLinked(members)) \/ Elapse \/ UNCHANGED dvars
  <2>1. UNCHANGED <<log, run>>
    BY <1>8 DEF AnySave, PutSettings, SetLinked, Elapse, dvars
  <2> QED BY <1>2, <2>1
<1> QED BY <1>1, <1>3, <1>4, <1>5, <1>6, <1>7, <1>8 DEF DNext, Continue, Abort

(* A day's reminders on record for a member are not more than the settings allow, *)
(* whatever other requests send meanwhile, as long as one tick runs at a time     *)
(* (guardrails.count_sends_today before each message, delivery.execute_delivery). *)
THEOREM DailyLimit ==
    ASSUME OneTick, SomeSettingsAllowMost
    PROVE  Spec => []DailyReminderLimit
<1>1. Init => DailyInv
  BY LimitOfSettings, DailyInit
<1>2. TypeOK /\ NotBeforeNow /\ FreshInv /\ DailyInv /\ [Next]_vars => DailyInv'
  BY DailyStep
<1>3. DailyInv => DailyReminderLimit
  <2> SUFFICES ASSUME DailyInv, NEW m \in Members, NEW d \in 0 .. Day(MaxClock)
               PROVE  Cardinality({j \in StageJobs :
                          log[j][m].result = "ok" /\ Day(log[j][m].sent_at) = d}) <= SettingsLimit
    BY DEF DailyReminderLimit
  <2>1. d \in Nat
    OBVIOUS
  <2> QED BY <2>1 DEF DailyInv, WithinLimit, OkStages
<1> QED BY <1>1, <1>2, <1>3, FreshInvariant, RemindersTypeOK, PTL DEF Spec
=============================================================================
