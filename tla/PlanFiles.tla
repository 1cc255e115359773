------------------------------ MODULE PlanFiles ------------------------------
(* Plans and the ledger: a plan document is copied from the template for an     *)
(* event when the question in the chat is answered with "yes", and then entered *)
(* into the ledger; meanwhile, and whenever a maker failed in between, the tick *)
(* copies the committee's folder into the ledger (proposal_sync.sync), closes   *)
(* what it no longer finds and opens what it finds again.                       *)
(* What the rows hold besides their document is the matter of Proposals.        *)
EXTENDS Naturals, FiniteSets

CONSTANTS
    Files,      \* documents of the committee's folder: naturals from 1, taken in turn
    Rows,       \* proposals of the ledger: naturals from 1, taken in turn
    Wishes,     \* questions: PendingProposalCreate
    Makers,     \* calls that handle a tap
    Syncs,      \* calls of the scheduler
    MaxBother   \* bound of what people do with the folder and of the failures

ASSUME PlanFilesAssumption == 0 \notin Files \cup Rows

VARIABLES
    file,     \* file[f]: what is in the folder
    row,      \* row[r]: the Proposal document
    wish,     \* wish[q]: the status of the question
    maker,    \* maker[m]: locals of a call that makes a plan
    look,     \* look[t]: locals of a call of sync
    bother,
    between   \* history: files listed while their maker had not entered them

filevars == <<file, row, wish, maker, look, bother, between>>

NoRow == [file |-> 0, open |-> FALSE, event |-> FALSE]
NoWork == [pc |-> "idle", file |-> 0]
NotLooking == [pc |-> "idle", there |-> {}, known |-> [f \in Files |-> 0], todo |-> {}]

RowDocs == [file : {0} \cup Files, open : BOOLEAN, event : BOOLEAN]
MakerLocals == [pc : {"idle", "copying", "entering"}, file : {0} \cup Files]
SyncLocals == [pc : {"idle", "reading"}, there : SUBSET Files, known : [Files -> {0} \cup Rows],
               todo : SUBSET Files]

(* Type invariant: rows, questions and the calls' locals have their types; an    *)
(* open row names a file.                                                        *)
LgTypeOK ==
    /\ file \in [Files -> {"none", "there", "gone"}]
    /\ row \in [Rows -> RowDocs]
    /\ \A r \in Rows : row[r].open => row[r].file \in Files
    /\ wish \in [Wishes -> {"none", "pending", "done", "declined"}]
    /\ maker \in [Makers -> MakerLocals] /\ look \in [Syncs -> SyncLocals] /\ between \subseteq Files

LgInit ==
    /\ file = [f \in Files |-> "none"] /\ row = [r \in Rows |-> NoRow]
    /\ wish = [q \in Wishes |-> "none"]
    /\ maker = [m \in Makers |-> NoWork] /\ look = [t \in Syncs |-> NotLooking]
    /\ bother = 0 /\ between = {}
-----------------------------------------------------------------------------
Bother == bother < MaxBother /\ bother' = bother + 1
IsNewFile(f) == file[f] = "none" /\ \A g \in Files : g < f => file[g] # "none"
IsNewRow(r) == row[r].file = 0 /\ \A s \in Rows : s < r => row[s].file # 0
RowsOf(f) == {r \in Rows : row[r].file = f}

(* confirm_plan: not when the ledger has a plan of the event already (_existing; *)
(* the rows that sync entered have no event)                                     *)
AskForPlan(q) ==
    /\ wish[q] = "none"
    /\ \A r \in Rows : ~(row[r].open /\ row[r].event)
    /\ wish' = [wish EXCEPT ![q] = "pending"]
    /\ UNCHANGED <<file, row, maker, look, bother, between>>

(* handle_proposal_create_postback: marked first, then made; "no" and an expired *)
(* question are marked alike                                                     *)
AgreeToPlan(m) == \E q \in Wishes :
    /\ maker[m].pc = "idle" /\ wish[q] = "pending"
    /\ \/ wish' = [wish EXCEPT ![q] = "done"] /\ maker' = [maker EXCEPT ![m].pc = "copying"]
       \/ wish' = [wish EXCEPT ![q] = "declined"] /\ UNCHANGED maker
    /\ UNCHANGED <<file, row, look, bother, between>>

(* _create: the template is copied and filled in by Google *)
CopyTemplate(m) == \E f \in Files :
    /\ maker[m].pc = "copying" /\ IsNewFile(f)
    /\ file' = [file EXCEPT ![f] = "there"]
    /\ maker' = [maker EXCEPT ![m] = [pc |-> "entering", file |-> f]]
    /\ UNCHANGED <<row, wish, look, bother, between>>

(* Google fails, before the copy or after it, or the call dies: nothing tries again *)
MakerFails(m) ==
    /\ maker[m].pc # "idle" /\ Bother
    /\ maker' = [maker EXCEPT ![m] = NoWork]
    /\ UNCHANGED <<file, row, wish, look, between>>

EnterPlan(m) == \E r \in Rows :
    /\ maker[m].pc = "entering" /\ IsNewRow(r)
    /\ row' = [row EXCEPT ![r] = [file |-> maker[m].file, open |-> TRUE, event |-> TRUE]]
    /\ maker' = [maker EXCEPT ![m] = NoWork]
    /\ UNCHANGED <<file, wish, look, bother, between>>

(* the committee trashes a document, or takes it back *)
MoveFile(f) ==
    /\ file[f] # "none" /\ Bother
    /\ file' = [file EXCEPT ![f] = IF @ = "there" THEN "gone" ELSE "there"]
    /\ UNCHANGED <<row, wish, maker, look, between>>
-----------------------------------------------------------------------------
(* sync: the folder is listed, then the ledger, by document (of two rows of one  *)
(* document the one listed last); the documents are read and saved one by one    *)

SyncListsFolder(t) == \E known \in [Files -> {0} \cup Rows] :
    LET there == {f \in Files : file[f] = "there"} IN
    /\ look[t].pc = "idle"
    /\ \A f \in Files : IF RowsOf(f) = {} THEN known[f] = 0 ELSE known[f] \in RowsOf(f)
    /\ look' = [look EXCEPT ![t] = [pc |-> "reading", there |-> there, known |-> known,
                   todo |-> {f \in there : known[f] = 0 \/ ~row[known[f]].open}]]
    /\ between' = between \cup {f \in there : \E m \in Makers : maker[m] = [pc |-> "entering", file |-> f]}
    /\ UNCHANGED <<file, row, wish, maker, bother>>

Reads(t, f) == look[t].pc = "reading" /\ look' = [look EXCEPT ![t].todo = @ \ {f}]
               /\ UNCHANGED <<file, wish, maker, bother, between>>

SyncEnters(t) == \E f \in look[t].todo, r \in Rows :
    /\ Reads(t, f) /\ look[t].known[f] = 0 /\ IsNewRow(r)
    /\ row' = [row EXCEPT ![r] = [file |-> f, open |-> TRUE, event |-> FALSE]]

SyncReopens(t) == \E f \in look[t].todo :
    /\ Reads(t, f) /\ look[t].known[f] # 0
    /\ row' = [row EXCEPT ![look[t].known[f]].open = TRUE]

(* mutant: the documents that are not found are left alone *)
SyncClosesNothing(t) ==
    /\ look[t].pc = "reading" /\ look[t].todo = {}
    /\ look' = [look EXCEPT ![t] = NotLooking]
    /\ UNCHANGED <<file, row, wish, maker, bother, between>>

(* SYNC_BATCH and SYNC_SECONDS leave the rest to the next tick (counted as a      *)
(* bother); the rows whose document was not listed are closed                    *)
SyncCloses(t) ==
    /\ look[t].pc = "reading"
    /\ IF look[t].todo = {} THEN UNCHANGED bother ELSE Bother
    /\ row' = [r \in Rows |-> IF \E f \in Files \ look[t].there : look[t].known[f] = r
                              THEN [row[r] EXCEPT !.open = FALSE] ELSE row[r]]
    /\ look' = [look EXCEPT ![t] = NotLooking]
    /\ UNCHANGED <<file, wish, maker, between>>

(* Google fails: sync gives up until the next tick *)
SyncGivesUp(t) ==
    /\ look[t].pc = "reading" /\ Bother
    /\ look' = [look EXCEPT ![t] = NotLooking]
    /\ UNCHANGED <<file, row, wish, maker, between>>

SyncGoesOn(t) ==
    SyncListsFolder(t) \/ SyncEnters(t) \/ SyncReopens(t) \/ SyncCloses(t) \/ SyncGivesUp(t)

LgNext ==
    \/ \E q \in Wishes : AskForPlan(q)
    \/ \E m \in Makers : AgreeToPlan(m) \/ CopyTemplate(m) \/ MakerFails(m) \/ EnterPlan(m)
    \/ \E f \in Files : MoveFile(f)
    \/ \E t \in Syncs : SyncGoesOn(t)

LgSpec == LgInit /\ [][LgNext]_filevars
-----------------------------------------------------------------------------
(* A document is in the ledger once, whoever enters it, however often it goes    *)
(* and comes back; only a sync that lists it before its maker has entered it     *)
(* makes a second row (proposal_sync.py:177, proposal_intent.py:265-281).        *)
OneRowPerFile == \A f \in Files : Cardinality(RowsOf(f)) <= 1 \/ f \in between

(* In the end the ledger shows the folder: a document whose maker failed or died *)
(* is entered by a later tick, one that was moved away is closed, one that came  *)
(* back is open; a second row of a document may stay behind.                     *)
LedgerFollowsFolder == <>[](\A f \in Files :
    /\ file[f] = "there" => \E r \in RowsOf(f) : row[r].open
    /\ file[f] = "gone" /\ f \notin between => \A r \in RowsOf(f) : ~row[r].open)
=============================================================================
