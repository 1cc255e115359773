-------------------------------- MODULE Stores --------------------------------
(* The two repositories of the program beside each other: InMemoryRepository,  *)
(* which all tests run on, and FirestoreRepository, which runs in production   *)
(* and which no test reaches. Every collection is kept in one of three ways: a *)
(* record under its id, a log that is only added to, the turns of a session.   *)
(* Both get the same calls; the reads are compared.                            *)
EXTENDS Naturals, Sequences, FiniteSets

CONSTANTS
    Ids,           \* ids of records, in the order Firestore lists documents
    Refs,          \* what a record may be looked up by: line_user_id, source_ref, form_id
    Groups,        \* what lists are filtered by: status, kind, event_id, job_id
    LineEvents,
    TurnLimit,     \* limit of list_doc_turns
    Retention,     \* days LINE and Pub/Sub bring an event again
    ClaimTTL,      \* LINE_EVENT_CLAIM_TTL, in days
    StoreDays, MaxWrites  \* bounds

ASSUME StoresAssumption ==
    /\ Ids \subseteq Nat /\ TurnLimit \in Nat \ {0}
    /\ Retention \in Nat /\ ClaimTTL \in Nat /\ ClaimTTL >= Retention
    /\ StoreDays \in Nat /\ MaxWrites \in Nat

VARIABLES
    mem,        \* a dict: records in the order their ids were first saved
    fire,       \* fire[i]: the document of id i, or NoRecord
    memLog,     \* a list
    fireLog,    \* documents, each under its own new id
    memTurns,   \* a list
    fireTurns,  \* documents under ids Firestore makes up
    memClaims, fireClaims,  \* events claimed; for Firestore with the day
    comes,      \* comes[e]: the day LINE sent event e, or none
    taken,      \* history: how often an event was claimed in Firestore
    today,      \* days and times at once
    writes

storevars == <<mem, fire, memLog, fireLog, memTurns, fireTurns, memClaims, fireClaims,
               comes, taken, today, writes>>

None == StoreDays + 1
Records == [id : Ids, ref : Refs \cup {0}, group : Groups \cup {0}, at : 0 .. StoreDays]
NoRecord == [id |-> 0, ref |-> 0, group |-> 0, at |-> None]

StInit ==
    /\ mem = <<>> /\ memLog = <<>> /\ memTurns = <<>>
    /\ fire = [i \in Ids |-> NoRecord] /\ fireLog = [i \in Ids |-> NoRecord]
    /\ fireTurns = [i \in Ids |-> NoRecord]
    /\ memClaims = {} /\ fireClaims = [e \in LineEvents |-> None]
    /\ comes = [e \in LineEvents |-> None] /\ taken = [e \in LineEvents |-> 0]
    /\ today = 0 /\ writes = 0
-----------------------------------------------------------------------------
Ran(s) == {s[i] : i \in DOMAIN s}

(* an overwritten key of a dict keeps its place *)
PutMem(s, r) ==
    IF \E i \in DOMAIN s : s[i].id = r.id
    THEN [i \in DOMAIN s |-> IF s[i].id = r.id THEN r ELSE s[i]]
    ELSE Append(s, r)

PutFire(f, r) == [f EXCEPT ![r.id] = r]

Saved(f) == {i \in DOMAIN f : f[i] # NoRecord}

Writes == writes < MaxWrites /\ writes' = writes + 1

(* upsert_x, save_x *)
Save(r) ==
    /\ Writes /\ r.at = today /\ r.ref # 0 /\ r.group # 0
    /\ mem' = PutMem(mem, r) /\ fire' = PutFire(fire, r)
    /\ UNCHANGED <<memLog, fireLog, memTurns, fireTurns, memClaims, fireClaims, comes, taken, today>>

(* save_delivery_log, save_audit, save_inference_log: the id is a new uuid *)
AddLog(r) ==
    /\ Writes /\ r.at = today /\ r.ref = 0 /\ r.group # 0
    /\ fireLog[r.id] = NoRecord
    /\ memLog' = Append(memLog, r) /\ fireLog' = PutFire(fireLog, r)
    /\ UNCHANGED <<mem, fire, memTurns, fireTurns, memClaims, fireClaims, comes, taken, today>>

(* add_doc_turn: a call writes its turns with the time it began at *)
AddTurn(r) ==
    /\ Writes /\ fireTurns[r.id] = NoRecord
    /\ r.at <= today /\ r.ref = 0 /\ r.group = 0
    /\ memTurns' = Append(memTurns, r) /\ fireTurns' = PutFire(fireTurns, r)
    /\ UNCHANGED <<mem, fire, memLog, fireLog, memClaims, fireClaims, comes, taken, today>>

Send(e) ==
    /\ comes[e] = None /\ comes' = [comes EXCEPT ![e] = today]
    /\ UNCHANGED <<mem, fire, memLog, fireLog, memTurns, fireTurns, memClaims, fireClaims, taken, today, writes>>

IsBrought(e) == comes[e] # None /\ today < comes[e] + Retention

(* claim_line_event, first or once more *)
Claim(e) ==
    /\ IsBrought(e)
    /\ memClaims' = memClaims \cup {e}
    /\ IF fireClaims[e] = None
       THEN /\ fireClaims' = [fireClaims EXCEPT ![e] = today]
            /\ taken' = [taken EXCEPT ![e] = @ + 1]
       ELSE UNCHANGED <<fireClaims, taken>>
    /\ UNCHANGED <<mem, fire, memLog, fireLog, memTurns, fireTurns, comes, today, writes>>

(* mutant: expire_at is the time of the claim *)
ExpireAtOnce(e) ==
    /\ fireClaims[e] # None /\ today >= fireClaims[e]
    /\ fireClaims' = [fireClaims EXCEPT ![e] = None]
    /\ UNCHANGED <<mem, fire, memLog, fireLog, memTurns, fireTurns, memClaims, comes, taken, today, writes>>

(* Firestore removes a document some time after its expire_at *)
Expire(e) ==
    /\ fireClaims[e] # None /\ today >= fireClaims[e] + ClaimTTL
    /\ fireClaims' = [fireClaims EXCEPT ![e] = None]
    /\ UNCHANGED <<mem, fire, memLog, fireLog, memTurns, fireTurns, memClaims, comes, taken, today, writes>>

Tomorrow ==
    /\ today < StoreDays /\ today' = today + 1
    /\ UNCHANGED <<mem, fire, memLog, fireLog, memTurns, fireTurns, memClaims, fireClaims, comes, taken, writes>>

StNext ==
    \/ \E r \in Records : Save(r) \/ AddLog(r) \/ AddTurn(r)
    \/ \E e \in LineEvents : Send(e) \/ Claim(e) \/ Expire(e)
    \/ Tomorrow

StoreSpec == StInit /\ [][StNext]_storevars
-----------------------------------------------------------------------------
(* the values of f at the keys that are ranked, those of lower rank first *)
Placed(f, rank) == [k \in 1 .. Cardinality(DOMAIN rank) |-> f[CHOOSE i \in DOMAIN rank : rank[i] = k - 1]]

(* a dict is read in the order of its places, a collection in the order of its ids *)
InOrder(f, keys) == Placed(f, [i \in keys |-> Cardinality({j \in keys : j < i})])

(* sorted(): by time, the order of what is equal is kept *)
Newest(s) == Placed(s, [i \in DOMAIN s |->
    Cardinality({j \in DOMAIN s : s[j].at > s[i].at \/ (s[j].at = s[i].at /\ j < i)})])
Sorted(s) == Placed(s, [i \in DOMAIN s |->
    Cardinality({j \in DOMAIN s : s[j].at < s[i].at \/ (s[j].at = s[i].at /\ j < i)})])

FirstOf(s) == IF s = <<>> THEN NoRecord ELSE s[1]
LastOf(s, n) == SubSeq(s, IF Len(s) > n THEN Len(s) - n + 1 ELSE 1, Len(s))

(* reads of InMemoryRepository *)

MemGet(id) == {r \in Ran(mem) : r.id = id}
MemByRef(ref) == FirstOf(InOrder(mem, {i \in DOMAIN mem : mem[i].ref = ref}))
MemList(g) == InOrder(mem, {i \in DOMAIN mem : mem[i].group = g})
MemNewest(g) == Newest(MemList(g))
MemSince(t) == InOrder(memLog, {i \in DOMAIN memLog : memLog[i].at >= t})
MemTurns == LastOf(memTurns, TurnLimit)

(* reads of FirestoreRepository: a query streams what it asks for *)

FireGet(id) == {fire[i] : i \in Saved(fire) \cap {id}}
FireByRef(ref) == FirstOf(InOrder(fire, {i \in Saved(fire) : fire[i].ref = ref}))
FireList(g) == InOrder(fire, {i \in Saved(fire) : fire[i].group = g})
FireNewest(g) == Newest(FireList(g))
FireSince(t) == InOrder(fireLog, {i \in Saved(fireLog) : fireLog[i].at >= t})
FireTurns == LastOf(Sorted(InOrder(fireTurns, Saved(fireTurns))), TurnLimit)
-----------------------------------------------------------------------------
Rising(s) == \A i, j \in DOMAIN s : i < j => s[i].at < s[j].at
AllDiffer(s) == \A i, j \in DOMAIN s : s[i].at = s[j].at => i = j
Owners(ref) == {r \in Ran(mem) : r.ref = ref}

(* Type invariant: what is kept are whole records; days are within the bound.  *)
StTypeOK ==
    /\ Ran(mem) \subseteq Records /\ Ran(memLog) \subseteq Records /\ Ran(memTurns) \subseteq Records
    /\ fire \in [Ids -> Records \cup {NoRecord}] /\ fireLog \in [Ids -> Records \cup {NoRecord}]
    /\ fireTurns \in [Ids -> Records \cup {NoRecord}]
    /\ memClaims \subseteq LineEvents /\ fireClaims \in [LineEvents -> 0 .. None]
    /\ comes \in [LineEvents -> 0 .. None] /\ taken \in [LineEvents -> Nat] /\ today \in 0 .. StoreDays

(* What the tests see in memory holds in production: a record, and the records *)
(* of a list, are the same in both; what is looked up by a reference is, as    *)
(* long as one record has it; a sorted list, as long as no two times are equal.*)
SameAnswers ==
    /\ \A id \in Ids : MemGet(id) = FireGet(id)
    /\ \A ref \in Refs : Cardinality(Owners(ref)) <= 1 => MemByRef(ref) = FireByRef(ref)
    /\ \A g \in Groups : /\ Len(MemList(g)) = Len(FireList(g))
                         /\ Ran(MemList(g)) = Ran(FireList(g))
                         /\ AllDiffer(MemList(g)) => MemNewest(g) = FireNewest(g)
    /\ \A t \in 0 .. StoreDays : Len(MemSince(t)) = Len(FireSince(t)) /\ Ran(MemSince(t)) = Ran(FireSince(t))

(* The last turns of a session are the same in both if each has a later time   *)
(* than those before it. A call gives its question and its answer one time:    *)
(* Firestore does not keep those in order (list_doc_turns, doc_session).       *)
SameTurns == Rising(memTurns) => MemTurns = FireTurns

(* An event LINE or Pub/Sub may bring again is not handled twice: its claim is *)
(* not removed before (claim_line_event, LINE_EVENT_CLAIM_TTL).                *)
ClaimedOnce == \A e \in LineEvents : taken[e] <= 1

Gone == {e \in LineEvents : comes[e] # None /\ ~IsBrought(e)}

InMemory == INSTANCE StorePromise WITH
    docs <- Ran(mem), logs <- Ran(memLog), claimed <- memClaims, gone <- Gone
Firestore == INSTANCE StorePromise WITH
    docs <- {fire[i] : i \in Saved(fire)}, logs <- {fireLog[i] : i \in Saved(fireLog)},
    claimed <- {e \in LineEvents : fireClaims[e] # None}, gone <- Gone

(* Each implementation keeps the repository's promise (the protocol Repository). *)
MemoryKeepsPromise == InMemory!PromiseSpec
FirestoreKeepsPromise == Firestore!PromiseSpec

(* So the store of the tests can stand for the one in service: both          *)
(* implement one promise, answer alike, and give no event of LINE to two     *)
(* calls.                                                                    *)
StoresKeepPromise ==
    /\ MemoryKeepsPromise
    /\ FirestoreKeepsPromise
    /\ [](SameAnswers /\ SameTurns /\ ClaimedOnce)
=============================================================================
