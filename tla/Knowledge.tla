------------------------------ MODULE Knowledge ------------------------------
(* What the assistant may find: files of Google Drive copied to a table at     *)
(* every tick (app/drive_knowledge.py), and the index of their texts and of    *)
(* what was written in LINE (app/lake_knowledge.py). The statements run in     *)
(* BigQuery: one that fails, or is not waited for, may still have been done,   *)
(* and the insertion of embeddings goes on when its tick has given up.         *)
(*                                                                             *)
(* A text is one chunk; a place is the access its path gives.                  *)
EXTENDS Naturals, FiniteSets

CONSTANTS
    Drives,       \* files of Google Drive
    Images,       \* those of them without a text
    Talks,        \* messages and files shared in LINE
    Rounds,       \* ticks under way
    Batch,        \* SYNC_BATCH
    MaxEdits,     \* bound: what people do
    MaxTrouble    \* bound: statements that fail, texts that cannot be read

ASSUME KnowledgeAssumption ==
    /\ Images \subseteq Drives /\ Drives \cap Talks = {}
    /\ Batch \in Nat \ {0} /\ MaxEdits \in Nat /\ MaxTrouble \in Nat

Places == {"members", "officers", "office"}    \* "office" is excluded
Accesses == {"members", "officers"}

VARIABLES
    drive,      \* drive[f]: where file f is, and its version
    document,    \* document[f]: its row of drive_documents
    talk,       \* talk[m]: "none", "sent", "unsent"
    chunks,     \* knowledge_chunks
    inserting,  \* insertions BigQuery goes on with, that nobody waits for
    round,      \* round[t]: locals of tick t
    lain,       \* history: lain[f][v]: places version v has been in
    outrun,     \* history: rows written by a tick whose listing had become old
    dirty,      \* history: sources changed since the last cleanup
    twice,      \* history: sources that two insertions under way had both read
    edits, troubles

kvars == <<drive, document, talk, chunks, inserting, round, lain, outrun, dirty, twice, edits, troubles>>
world == <<drive, talk, lain, edits>>
tables == <<document, chunks, inserting, outrun, dirty, twice>>

Versions == 0..MaxEdits
FileDocs == [there : BOOLEAN, place : Places, v : Versions]
Listings == [f : Drives, place : Accesses, v : Versions]
DocumentRows == [there : BOOLEAN, access : Accesses, v : Versions, text : Versions]
Chunks == [source : Drives \cup Talks, v : Versions, access : Accesses, text : Versions, copy : 1..2]
Copied == [entry : Listings, text : Versions]
RoundDocs == [pc : {"idle", "crawl", "move", "extract", "upsert", "delete", "cleanup", "index", "insert"},
              todo : SUBSET Accesses, files : SUBSET Listings, changed : SUBSET Listings,
              moved : SUBSET Listings, gone : SUBSET Drives, copied : SUBSET Copied,
              stale : SUBSET Drives, rows : SUBSET Chunks]

NoDocument == [there |-> FALSE, access |-> "members", v |-> 0, text |-> 0]
Waiting == [pc |-> "idle", todo |-> {}, files |-> {}, changed |-> {}, moved |-> {}, gone |-> {},
            copied |-> {}, stale |-> {}, rows |-> {}]

(* Type invariant: tables, files and locals have their types. *)
KnTypeOK ==
    /\ drive \in [Drives -> FileDocs] /\ document \in [Drives -> DocumentRows]
    /\ talk \in [Talks -> {"none", "sent", "unsent"}]
    /\ chunks \subseteq Chunks /\ inserting \subseteq SUBSET Chunks
    /\ round \in [Rounds -> RoundDocs]
    /\ \A t \in Rounds : Cardinality(round[t].copied) <= Batch
    /\ lain \in [Drives -> [Versions -> SUBSET Places]]
    /\ outrun \subseteq Drives
    /\ dirty \cup twice \subseteq Drives \cup Talks
    /\ edits \in Nat /\ troubles \in Nat

KnInit ==
    /\ drive = [f \in Drives |-> [there |-> FALSE, place |-> "members", v |-> 0]]
    /\ document = [f \in Drives |-> NoDocument]
    /\ talk = [m \in Talks |-> "none"]
    /\ chunks = {} /\ inserting = {}
    /\ round = [t \in Rounds |-> Waiting]
    /\ lain = [f \in Drives |-> [v \in Versions |-> {}]]
    /\ outrun = {} /\ dirty = {} /\ twice = {}
    /\ edits = 0 /\ troubles = 0
-----------------------------------------------------------------------------
(* people                                                                     *)
Touches == edits < MaxEdits /\ edits' = edits + 1

(* file f is written, moved or thrown away; ticks that have listed it do not know *)
Becomes(f, d) ==
    /\ drive' = [drive EXCEPT ![f] = d]
    /\ lain' = [lain EXCEPT ![f][d.v] = @ \cup {d.place}]
    /\ round' = [t \in Rounds |-> IF round[t].pc = "idle" THEN round[t]
                                  ELSE [round[t] EXCEPT !.stale = @ \cup {f}]]
    /\ UNCHANGED <<talk, troubles, tables>>

WriteDrive == \E f \in Drives, p \in Places :
    /\ Touches /\ (drive[f].there => p = drive[f].place)
    /\ Becomes(f, [there |-> TRUE, place |-> p, v |-> edits + 1])

(* a move leaves the modified time as it was *)
MoveDrive == \E f \in Drives, p \in Places :
    /\ Touches /\ drive[f].there /\ p # drive[f].place
    /\ Becomes(f, [drive[f] EXCEPT !.place = p])

TrashDrive == \E f \in Drives :
    /\ Touches /\ drive[f].there
    /\ Becomes(f, [drive[f] EXCEPT !.there = FALSE])

Converse == \E m \in Talks :
    /\ Touches
    /\ \/ talk[m] = "none" /\ talk' = [talk EXCEPT ![m] = "sent"] /\ UNCHANGED dirty
       \/ talk[m] = "sent" /\ talk' = [talk EXCEPT ![m] = "unsent"] /\ dirty' = dirty \cup {m}
    /\ UNCHANGED <<drive, document, chunks, inserting, round, lain, outrun, twice, troubles>>
-----------------------------------------------------------------------------
(* the copy of Google Drive                                                   *)
Stays == UNCHANGED world
To(t, pc) == round' = [round EXCEPT ![t].pc = pc]
IsIn(t, pc) == round[t].pc = pc
Trouble == troubles < MaxTrouble /\ troubles' = troubles + 1
GivesUp(t) == round' = [round EXCEPT ![t] = [Waiting EXCEPT !.pc = "cleanup"]]

BeginRound(t) ==
    /\ IsIn(t, "idle")
    /\ round' = [round EXCEPT ![t] = [Waiting EXCEPT !.pc = "crawl", !.todo = Accesses]]
    /\ Stays /\ UNCHANGED <<tables, troubles>>

(* crawl: folder after folder, so a file that is moved meanwhile may be listed  *)
(* twice, or not at all; what is excluded is left out                           *)
Crawl(t) == \E p \in round[t].todo :
    /\ IsIn(t, "crawl")
    /\ round' = [round EXCEPT ![t].todo = @ \ {p}, ![t].files = @ \cup
         {[f |-> f, place |-> p, v |-> drive[f].v] :
             f \in {g \in Drives : drive[g].there /\ drive[g].place = p}}]
    /\ Stays /\ UNCHANGED <<tables, troubles>>

IsNew(x) == ~document[x.f].there \/ document[x.f].v # x.v

(* _known: what the rows of now say *)
Compare(t) ==
    LET files == round[t].files
        moved == {x \in files : ~IsNew(x) /\ document[x.f].access # x.place}
    IN  /\ IsIn(t, "crawl") /\ round[t].todo = {}
        /\ round' = [round EXCEPT ![t] = [round[t] EXCEPT
             !.pc = IF moved = {} THEN "extract" ELSE "move",
             !.files = {}, !.changed = {x \in files : IsNew(x)}, !.moved = moved,
             !.gone = {f \in Drives : document[f].there /\ \A x \in files : x.f # f}]]
        /\ Stays /\ UNCHANGED <<tables, troubles>>

(* A statement that writes rows for what was listed; done or not when the call   *)
(* ends in an error, not done when a file was listed in two places. What it is   *)
(* not for stays.                                                                *)
Statement(t, rows, ends, next, raced) ==
    LET entries == DOMAIN rows
        fits == \A x, y \in entries : x.f = y.f => x = y
        fs == {x.f : x \in entries}
    IN  /\ \/ /\ fits
              /\ document' = [f \in Drives |-> IF f \in fs
                   THEN rows[CHOOSE x \in entries : x.f = f] ELSE document[f]]
              /\ outrun' = (outrun \ fs) \cup (fs \cap raced)
              /\ dirty' = dirty \cup fs
           \/ (ends => ~fits) /\ UNCHANGED <<document, outrun, dirty>>
        /\ IF ends THEN UNCHANGED troubles ELSE Trouble
        /\ IF ends /\ fits THEN round' = [round EXCEPT ![t].pc = next, ![t].moved = {}]
                           ELSE GivesUp(t)
        /\ UNCHANGED <<world, chunks, inserting, twice>>

(* MOVE_SQL: the place of the rows that are there *)
MoveRows(t, ends) ==
    LET rows == [x \in round[t].moved |-> IF document[x.f].there
                     THEN [document[x.f] EXCEPT !.access = x.place] ELSE document[x.f]]
        raced == {x.f : x \in {y \in round[t].moved : document[y.f].v # y.v}}
    IN  IsIn(t, "move") /\ Statement(t, rows, ends, "extract", outrun \cup round[t].stale \cup raced)

(* _extract: the text as it is now; the first of the list up to the batch, fewer *)
(* when the time is up                                                           *)
Extract(t, x) ==
    /\ IsIn(t, "extract") /\ x \in round[t].changed
    /\ Cardinality(round[t].copied) < Batch
    /\ drive[x.f].there
    /\ round' = [round EXCEPT ![t].changed = @ \ {x},
                              ![t].copied = @ \cup {[entry |-> x, text |-> drive[x.f].v]}]
    /\ Stays /\ UNCHANGED <<tables, troubles>>

(* one text that cannot be read ends the copy as a whole *)
ExtractFails(t) ==
    /\ IsIn(t, "extract") /\ round[t].changed # {} /\ Cardinality(round[t].copied) < Batch
    /\ GivesUp(t)
    /\ \/ Trouble
       \/ (\E x \in round[t].changed : ~drive[x.f].there) /\ UNCHANGED troubles
    /\ Stays /\ UNCHANGED tables

ExtractEnds(t) ==
    /\ IsIn(t, "extract")
    /\ round[t].copied # {} \/ round[t].changed = {}
    /\ round' = [round EXCEPT ![t].pc = IF round[t].copied = {} THEN "delete" ELSE "upsert",
                              ![t].changed = {}]
    /\ Stays /\ UNCHANGED <<tables, troubles>>

Upserted(x, text) == [there |-> TRUE, access |-> x.place, v |-> x.v, text |-> text]

(* UPSERT_SQL, all rows in one statement *)
UpsertRows(t, ends) ==
    LET rows == [x \in {c.entry : c \in round[t].copied} |->
                    Upserted(x, (CHOOSE c \in round[t].copied : c.entry = x).text)]
    IN  IsIn(t, "upsert") /\ Statement(t, rows, ends, "delete", round[t].stale)

(* the rows of files that were not listed *)
DeleteRows(t, ends) ==
    /\ IsIn(t, "delete")
    /\ \/ /\ document' = [f \in Drives |-> IF f \in round[t].gone THEN NoDocument ELSE document[f]]
          /\ outrun' = outrun \ round[t].gone /\ dirty' = dirty \cup round[t].gone
       \/ ~ends /\ UNCHANGED <<document, outrun, dirty>>
    /\ GivesUp(t)
    /\ IF ends THEN UNCHANGED troubles ELSE Trouble
    /\ Stays /\ UNCHANGED <<chunks, inserting, twice>>
-----------------------------------------------------------------------------
(* the index                                                                  *)
RowHasText(f) == document[f].there /\ document[f].text > 0 /\ f \notin Images

IsCurrent(c) == IF c.source \in Talks THEN talk[c.source] # "unsent"
                ELSE RowHasText(c.source) /\ document[c.source].v = c.v /\ document[c.source].access = c.access

(* mutant: the access is not compared *)
KeptByVersion(c) == IF c.source \in Talks THEN talk[c.source] # "unsent"
                    ELSE RowHasText(c.source) /\ document[c.source].v = c.v

(* cleanup_sql: what stays *)
Remains(c) == IsCurrent(c)

(* sources of chunks that insertions under way will still put in *)
UnderWay == UNION (inserting \cup {round[t].rows : t \in Rounds})

Cleanup(t, ends) ==
    /\ IsIn(t, "cleanup")
    /\ \/ /\ chunks' = {c \in chunks : Remains(c)}
          /\ dirty' = {c.source : c \in {d \in UnderWay : ~IsCurrent(d)}}
       \/ ~ends /\ UNCHANGED <<chunks, dirty>>
    /\ To(t, "index")
    /\ IF ends THEN UNCHANGED troubles ELSE Trouble
    /\ Stays /\ UNCHANGED <<document, inserting, outrun, twice>>

(* candidate_chunks_sql: an id is the version to the second, without the access *)
SameId(c, d) == c.source = d.source /\ c.v = d.v

Texts == {[source |-> f, v |-> document[f].v, access |-> document[f].access, text |-> document[f].text, copy |-> 1] :
              f \in {g \in Drives : RowHasText(g)}}
         \cup {[source |-> m, v |-> 0, access |-> "members", text |-> 0, copy |-> 1] :
              m \in {n \in Talks : talk[n] = "sent"}}

Candidates == {c \in Texts : \A d \in chunks : ~SameId(c, d)}

(* what gets its embedding by and by; with nothing to add the tick is over *)
StartInsert(t, rows) ==
    /\ IsIn(t, "index") /\ rows \subseteq Candidates
    /\ round' = [round EXCEPT ![t] = IF Candidates = {} THEN Waiting
                                     ELSE [Waiting EXCEPT !.pc = "insert", !.rows = rows]]
    /\ twice' = twice \cup {c.source : c \in {d \in rows : \E e \in UnderWay : SameId(d, e)}}
    /\ Stays /\ UNCHANGED <<document, chunks, inserting, outrun, dirty, troubles>>

(* a second copy of an id that is there *)
Added(rows) == chunks \cup {IF \E d \in chunks : SameId(c, d) THEN [c EXCEPT !.copy = 2] ELSE c : c \in rows}

FinishInsert(t) ==
    /\ IsIn(t, "insert")
    /\ chunks' = Added(round[t].rows)
    /\ round' = [round EXCEPT ![t] = Waiting]
    /\ Stays /\ UNCHANGED <<document, inserting, outrun, dirty, twice, troubles>>

(* the tick gives up, BigQuery does not *)
StopWaiting(t) ==
    /\ IsIn(t, "insert") /\ Trouble
    /\ inserting' = inserting \cup {round[t].rows}
    /\ round' = [round EXCEPT ![t] = Waiting]
    /\ Stays /\ UNCHANGED <<document, chunks, outrun, dirty, twice>>

InsertInTheEnd == \E rows \in inserting :
    /\ inserting' = inserting \ {rows}
    /\ chunks' = Added(rows)
    /\ Stays /\ UNCHANGED <<document, round, outrun, dirty, twice, troubles>>

IndexFails(t) ==
    /\ IsIn(t, "index") \/ IsIn(t, "insert")
    /\ Trouble
    /\ round' = [round EXCEPT ![t] = Waiting]
    /\ Stays /\ UNCHANGED tables
-----------------------------------------------------------------------------
CopyGoesOn(t) ==
    \/ Crawl(t) \/ Compare(t) \/ ExtractFails(t) \/ ExtractEnds(t)
    \/ \E x \in Listings : Extract(t, x)
    \/ \E ends \in BOOLEAN : MoveRows(t, ends) \/ UpsertRows(t, ends) \/ DeleteRows(t, ends)

IndexGoesOn(t) ==
    \/ \E ends \in BOOLEAN : Cleanup(t, ends)
    \/ \E rows \in SUBSET Candidates : StartInsert(t, rows)
    \/ FinishInsert(t) \/ StopWaiting(t) \/ IndexFails(t)

KnNext ==
    \/ WriteDrive \/ MoveDrive \/ TrashDrive \/ Converse
    \/ InsertInTheEnd
    \/ \E t \in Rounds : BeginRound(t) \/ CopyGoesOn(t) \/ IndexGoesOn(t)

KnSpec == KnInit /\ [][KnNext]_kvars

(* ticks come and go on, insertions end, and now and then all texts get their   *)
(* embeddings                                                                   *)
KnFairness ==
    /\ WF_kvars(InsertInTheEnd)
    /\ \A t \in Rounds :
         /\ WF_kvars(BeginRound(t)) /\ WF_kvars(CopyGoesOn(t)) /\ WF_kvars(IndexGoesOn(t))
         /\ SF_kvars(StartInsert(t, Candidates))

KnFairSpec == KnSpec /\ KnFairness
-----------------------------------------------------------------------------
(* scopes_for, search: what a member may find, and an officer *)
scopes_for(officer) == IF officer THEN Accesses ELSE {"members"}
Found(officer) == {c \in chunks : c.access \in scopes_for(officer)}

(* What is found agrees with the table of documents as to version and access,   *)
(* and was not taken back in LINE, but for what has changed since the last      *)
(* cleanup (lake_knowledge.py:156-173, :213-248).                               *)
FoundIsCurrent == \A officer \in BOOLEAN : \A c \in Found(officer) :
    IsCurrent(c) \/ c.source \in dirty

(* The text of a row was at some time where the row says the file is, unless    *)
(* the file was touched between the listing and the reading of its text, or the *)
(* row written by another tick before it was moved (drive_knowledge.py:191-222).*)
TextWasInItsPlace == \A f \in Drives :
    document[f].there /\ f \notin outrun => document[f].access \in lain[f][document[f].text]

(* A text is in the index once, unless two insertions were under way at once    *)
(* (lake_knowledge.py:131-153).                                                 *)
OneChunkPerText == \A c, d \in chunks : SameId(c, d) /\ c # d => c.source \in twice

(* Once people rest, the index holds the texts of the files as they are and     *)
(* where they are, and none of what is gone, excluded or taken back             *)
(* (drive_knowledge.py:185-235, lake_knowledge.py:184-207).                     *)
IsIndexed(f) == drive[f].there /\ drive[f].place # "office" /\ f \notin Images
KnowledgeFollows == <>[](
    /\ \A f \in Drives : LET cs == {c \in chunks : c.source = f} IN
         IF IsIndexed(f)
         THEN cs # {} /\ \A c \in cs : c.text = drive[f].v /\ c.access = drive[f].place
         ELSE cs = {}
    /\ \A m \in Talks : (talk[m] = "sent") <=> (\E c \in chunks : c.source = m))

(* What is found in the index is current, was where it is said to be, and is *)
(* there once, but for what each part names.                                 *)
IndexIsTrue == FoundIsCurrent /\ TextWasInItsPlace /\ OneChunkPerText
=============================================================================
