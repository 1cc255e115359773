---------------------------- MODULE Papers_proofs ----------------------------
(* Proofs about the papers of the committees, of MCOffice: the rows of the plan   *)
(* files, the proposal ledger and the work on a document in the chat.             *)
EXTENDS Office_proofs

-----------------------------------------------------------------------------
(* Plan files.                                                               *)
-----------------------------------------------------------------------------
OneSync == \A s, t \in Syncs : s = t

NoRowOf(f) == \A r \in Rows : row[r].file # f
IsEntering(m, f) == maker[m].pc = "entering" /\ maker[m].file = f
NotEntered(f) == f \in between \/ (NoRowOf(f) /\ \A m \in Makers : ~IsEntering(m, f))

(* A row stands for a document that is or was in the folder, and no other does. *)
RowsStandForFiles == \A r \in Rows : row[r].file # 0 =>
    /\ file[row[r].file] # "none"
    /\ row[r].file \in between \/ \A s \in Rows : row[s].file = row[r].file => s = r

(* What a call of the chat is about to enter nobody has entered or will enter. *)
MakersEnterTheirs == \A m \in Makers : maker[m].pc = "entering" =>
    /\ maker[m].file \in Files /\ file[maker[m].file] # "none"
    /\ NoRowOf(maker[m].file) \/ maker[m].file \in between
    /\ \A n \in Makers : IsEntering(n, maker[m].file) => n = m

(* What a sync is about to enter nobody has entered or will enter; the rows it    *)
(* knows are still the rows of their documents.                                   *)
SyncsEnterWhatIsMissing == \A t \in Syncs : look[t].pc = "reading" =>
    /\ \A f \in Files : look[t].known[f] # 0 => row[look[t].known[f]].file = f
    /\ \A f \in look[t].todo : file[f] # "none" /\ (look[t].known[f] = 0 => NotEntered(f))

FilesInv == LgTypeOK /\ RowsStandForFiles /\ MakersEnterTheirs /\ SyncsEnterWhatIsMissing
-----------------------------------------------------------------------------
LEMMA InitFilesInv == LgInit => FilesInv
<1> SUFFICES ASSUME LgInit PROVE FilesInv
  OBVIOUS
<1>1. NoRow \in RowDocs /\ NoRow.file = 0 /\ NoRow.open = FALSE
  BY DEF NoRow, RowDocs
<1>2. NoWork \in MakerLocals /\ NoWork.pc = "idle"
  BY DEF NoWork, MakerLocals
<1>3. NotLooking \in SyncLocals /\ NotLooking.pc = "idle"
  BY DEF NotLooking, SyncLocals
<1>4. LgTypeOK
  BY <1>1, <1>2, <1>3 DEF LgInit, LgTypeOK
<1> QED BY <1>1, <1>2, <1>3, <1>4
        DEF LgInit, FilesInv, RowsStandForFiles, MakersEnterTheirs, SyncsEnterWhatIsMissing

(* What people do with the folder and the questions changes no row. *)
LEMMA PeopleKeep ==
    ASSUME FilesInv, wish' \in [Wishes -> {"none", "pending", "done", "declined"}],
           file' \in [Files -> {"none", "there", "gone"}],
           \A f \in Files : file[f] # "none" => file'[f] # "none",
           UNCHANGED <<row, look, between>>, maker' \in [Makers -> MakerLocals],
           \A m \in Makers : maker'[m] = maker[m] \/ maker'[m].pc # "entering"
    PROVE  FilesInv'
<1>1. LgTypeOK'
  BY DEF FilesInv, LgTypeOK
<1>2. \A f \in Files : NotEntered(f) => NotEntered(f)'
  BY DEF NotEntered, NoRowOf, IsEntering
<1>3. \A r \in Rows : row[r].file \in {0} \cup Files
  BY DEF FilesInv, LgTypeOK, RowDocs
<1>4. RowsStandForFiles'
  BY <1>3 DEF FilesInv, RowsStandForFiles
<1>5. MakersEnterTheirs'
  BY DEF FilesInv, MakersEnterTheirs, NoRowOf, IsEntering
<1>6. \A t \in Syncs : look[t].todo \subseteq Files
  BY DEF FilesInv, LgTypeOK, SyncLocals
<1>7. SyncsEnterWhatIsMissing'
  BY <1>2, <1>6 DEF FilesInv, SyncsEnterWhatIsMissing
<1> QED BY <1>1, <1>4, <1>5, <1>7 DEF FilesInv

LEMMA QuestionsKeep ==
    ASSUME FilesInv,
           \/ \E q \in Wishes : AskForPlan(q)
           \/ \E m \in Makers : AgreeToPlan(m) \/ MakerFails(m)
           \/ \E f \in Files : MoveFile(f)
    PROVE  FilesInv'
<1>0. /\ file \in [Files -> {"none", "there", "gone"}] /\ maker \in [Makers -> MakerLocals]
      /\ wish \in [Wishes -> {"none", "pending", "done", "declined"}]
  BY DEF FilesInv, LgTypeOK
<1>1. ASSUME NEW q \in Wishes, AskForPlan(q) PROVE FilesInv'
  BY <1>0, <1>1, PeopleKeep DEF AskForPlan
<1>2. ASSUME NEW m \in Makers, AgreeToPlan(m) PROVE FilesInv'
  <2> DEFINE new == [maker[m] EXCEPT !.pc = "copying"]
  <2>1. new \in MakerLocals /\ new.pc = "copying"
    BY <1>0 DEF MakerLocals
  <2>2. /\ \/ maker' = [maker EXCEPT ![m] = new]
           \/ maker' = maker
        /\ UNCHANGED <<file, row, look, between>>
        /\ wish' \in [Wishes -> {"none", "pending", "done", "declined"}]
    BY <1>0, <1>2 DEF AgreeToPlan
  <2> HIDE DEF new
  <2> QED BY <1>0, <2>1, <2>2, PeopleKeep
<1>3. ASSUME NEW m \in Makers, MakerFails(m) PROVE FilesInv'
  <2>1. NoWork \in MakerLocals /\ NoWork.pc = "idle"
    BY DEF NoWork, MakerLocals
  <2> QED BY <1>0, <1>3, <2>1, PeopleKeep DEF MakerFails
<1>4. ASSUME NEW f \in Files, MoveFile(f) PROVE FilesInv'
  <2>1. file' \in [Files -> {"none", "there", "gone"}]
        /\ \A g \in Files : file[g] # "none" => file'[g] # "none"
    BY <1>0, <1>4 DEF MoveFile
  <2> QED BY <1>0, <1>4, <2>1, PeopleKeep DEF MoveFile
<1> QED BY <1>1, <1>2, <1>3, <1>4

LEMMA CopyKeeps ==
    ASSUME FilesInv, NEW m \in Makers, CopyTemplate(m)
    PROVE  FilesInv'
<1>1. PICK f \in Files :
        /\ file[f] = "none" /\ file' = [file EXCEPT ![f] = "there"]
        /\ maker' = [maker EXCEPT ![m] = [pc |-> "entering", file |-> f]]
        /\ UNCHANGED <<row, wish, look, between>>
  BY DEF CopyTemplate, IsNewFile
<1> DEFINE new == [pc |-> "entering", file |-> f]
<1>2. new \in MakerLocals /\ new.pc = "entering" /\ new.file = f
  BY DEF MakerLocals
<1> HIDE DEF new
<1>3. /\ \A n \in Makers : maker'[n] = IF n = m THEN new ELSE maker[n]
      /\ \A g \in Files : file'[g] = IF g = f THEN "there" ELSE file[g]
      /\ maker' \in [Makers -> MakerLocals] /\ file' \in [Files -> {"none", "there", "gone"}]
  BY <1>1, <1>2 DEF FilesInv, LgTypeOK, new
<1>4. LgTypeOK'
  BY <1>1, <1>3 DEF FilesInv, LgTypeOK
<1>5. \A r \in Rows : row[r].file \in {0} \cup Files
  BY DEF FilesInv, LgTypeOK, RowDocs
<1>6. NoRowOf(f)
  BY <1>1, PlanFilesAssumption DEF FilesInv, RowsStandForFiles, NoRowOf
<1>7. \A n \in Makers : ~IsEntering(n, f)
  BY <1>1 DEF FilesInv, MakersEnterTheirs, IsEntering
<1>8. RowsStandForFiles'
  BY <1>1, <1>3, <1>5 DEF FilesInv, RowsStandForFiles
<1>9. MakersEnterTheirs'
  <2>1. \A n \in Makers : IsEntering(n, f)' => n = m
    BY <1>3, <1>7 DEF IsEntering
  <2>2. IsEntering(m, f)' /\ maker'[m].file = f
    BY <1>2, <1>3 DEF IsEntering
  <2>3. \A g : (NoRowOf(g) <=> NoRowOf(g)')
    BY <1>1 DEF NoRowOf
  <2>4. \A n \in Makers, g \in Files : g # f /\ IsEntering(n, g)' => IsEntering(n, g)
    BY <1>2, <1>3 DEF IsEntering
  <2>5. \A n \in Makers : n # m /\ maker'[n].pc = "entering" => maker'[n].file # f /\ maker'[n] = maker[n]
    BY <1>3, <2>1 DEF IsEntering
  <2>6. \A n \in Makers : n # m /\ maker'[n].pc = "entering" =>
          /\ maker'[n].file \in Files /\ file'[maker'[n].file] # "none"
          /\ NoRowOf(maker[n].file)' \/ maker'[n].file \in between'
          /\ \A o \in Makers : IsEntering(o, maker[n].file)' => o = n
    BY <1>1, <1>3, <2>3, <2>4, <2>5 DEF FilesInv, MakersEnterTheirs
  <2>7. /\ maker'[m].file \in Files /\ file'[maker'[m].file] # "none"
        /\ NoRowOf(maker[m].file)' \/ maker'[m].file \in between'
        /\ \A o \in Makers : IsEntering(o, maker[m].file)' => o = m
    BY <1>3, <1>6, <2>1, <2>2, <2>3
  <2> QED BY <2>6, <2>7 DEF MakersEnterTheirs
<1>10. SyncsEnterWhatIsMissing'
  <2>1. \A t \in Syncs : look[t].todo \subseteq Files
    BY DEF FilesInv, LgTypeOK, SyncLocals
  <2>2. \A g \in Files : file[g] # "none" /\ NotEntered(g) => NotEntered(g)'
    BY <1>1, <1>2, <1>3 DEF NotEntered, NoRowOf, IsEntering
  <2> QED BY <1>1, <1>3, <2>1, <2>2 DEF FilesInv, SyncsEnterWhatIsMissing
<1> QED BY <1>4, <1>8, <1>9, <1>10 DEF FilesInv

(* A new row for a document nobody has entered or will enter. *)
LEMMA NewRowKeeps ==
    ASSUME FilesInv, NEW f \in Files, NEW r \in Rows, NEW event \in BOOLEAN,
           file[f] # "none", f \in between \/ NoRowOf(f), row[r].file = 0,
           row' = [row EXCEPT ![r] = [file |-> f, open |-> TRUE, event |-> event]],
           UNCHANGED <<file, wish, between>>, maker' \in [Makers -> MakerLocals],
           look' \in [Syncs -> SyncLocals],
           \A m \in Makers : \/ maker'[m].pc # "entering"
                             \/ maker'[m] = maker[m] /\ (maker[m].file # f \/ f \in between),
           \A t \in Syncs : look'[t].pc = "reading" =>
               /\ look[t].pc = "reading" /\ look'[t].known = look[t].known
               /\ look'[t].todo \subseteq look[t].todo
               /\ f \in look'[t].todo /\ look[t].known[f] = 0 => f \in between
    PROVE  FilesInv'
<1> DEFINE new == [file |-> f, open |-> TRUE, event |-> event]
<1>1. new \in RowDocs /\ new.file = f /\ new.open
  BY DEF RowDocs
<1> HIDE DEF new
<1>2. row' \in [Rows -> RowDocs] /\ \A s \in Rows : row'[s] = IF s = r THEN new ELSE row[s]
  BY <1>1 DEF FilesInv, LgTypeOK, new
<1>3. LgTypeOK'
  BY <1>1, <1>2 DEF FilesInv, LgTypeOK
<1>4. f # 0 /\ \A s \in Rows : row[s].file \in {0} \cup Files
  BY PlanFilesAssumption DEF FilesInv, LgTypeOK, RowDocs
<1>5. \A g \in Files : g # f /\ NoRowOf(g) => NoRowOf(g)'
  BY <1>1, <1>2 DEF NoRowOf
<1>6. RowsStandForFiles'
  BY <1>1, <1>2 DEF FilesInv, RowsStandForFiles, NoRowOf
<1>7. MakersEnterTheirs'
  BY <1>5 DEF FilesInv, MakersEnterTheirs, IsEntering
<1>8. SyncsEnterWhatIsMissing'
  <2> SUFFICES ASSUME NEW t \in Syncs, look'[t].pc = "reading"
               PROVE  /\ \A g \in Files : look'[t].known[g] # 0 => row'[look'[t].known[g]].file = g
                      /\ \A g \in look'[t].todo : file'[g] # "none"
                            /\ (look'[t].known[g] = 0 => NotEntered(g)')
    BY DEF SyncsEnterWhatIsMissing
  <2>1. look[t] \in SyncLocals
    BY DEF FilesInv, LgTypeOK
  <2>2. look[t].todo \subseteq Files /\ \A g \in Files : look[t].known[g] \in {0} \cup Rows
    BY <2>1 DEF SyncLocals
  <2>3. ASSUME NEW g \in Files, look'[t].known[g] # 0 PROVE row'[look'[t].known[g]].file = g
    <3>1. look[t].known[g] \in Rows /\ row[look[t].known[g]].file = g /\ g # 0
      BY <2>2, <2>3, PlanFilesAssumption DEF FilesInv, SyncsEnterWhatIsMissing
    <3> QED BY <1>2, <3>1
  <2>4. ASSUME NEW g \in look'[t].todo PROVE file'[g] # "none" /\ (look'[t].known[g] = 0 => NotEntered(g)')
    <3>1. file[g] # "none" /\ (look[t].known[g] = 0 => NotEntered(g)) /\ g \in Files
      BY <2>2, <2>4 DEF FilesInv, SyncsEnterWhatIsMissing
    <3>2. CASE g = f
      BY <3>1, <3>2, <2>4 DEF NotEntered
    <3>3. CASE g # f
      BY <1>5, <3>1, <3>3 DEF NotEntered, IsEntering
    <3> QED BY <3>2, <3>3
  <2> QED BY <2>3, <2>4
<1> QED BY <1>3, <1>6, <1>7, <1>8 DEF FilesInv

LEMMA EnterKeeps ==
    ASSUME FilesInv, NEW m \in Makers, EnterPlan(m)
    PROVE  FilesInv'
<1>1. PICK r \in Rows :
        /\ maker[m].pc = "entering" /\ row[r].file = 0
        /\ row' = [row EXCEPT ![r] = [file |-> maker[m].file, open |-> TRUE, event |-> TRUE]]
        /\ maker' = [maker EXCEPT ![m] = NoWork]
        /\ UNCHANGED <<file, wish, look, between>>
  BY DEF EnterPlan, IsNewRow
<1>2. NoWork \in MakerLocals /\ NoWork.pc = "idle"
  BY DEF NoWork, MakerLocals
<1>3. maker' \in [Makers -> MakerLocals] /\ \A n \in Makers : maker'[n] = IF n = m THEN NoWork ELSE maker[n]
  BY <1>1, <1>2 DEF FilesInv, LgTypeOK
<1>4. /\ maker[m].file \in Files /\ file[maker[m].file] # "none"
      /\ NoRowOf(maker[m].file) \/ maker[m].file \in between
      /\ \A n \in Makers : IsEntering(n, maker[m].file) => n = m
  BY <1>1 DEF FilesInv, MakersEnterTheirs
<1>5. look' \in [Syncs -> SyncLocals] /\ \A t \in Syncs : look'[t] = look[t]
  BY <1>1 DEF FilesInv, LgTypeOK
<1>6. \A n \in Makers : \/ maker'[n].pc # "entering"
                        \/ maker'[n] = maker[n] /\ (maker[n].file # maker[m].file \/ maker[m].file \in between)
  BY <1>2, <1>3, <1>4 DEF IsEntering
<1>7. \A t \in Syncs : look'[t].pc = "reading" =>
          /\ look[t].pc = "reading" /\ look'[t].known = look[t].known
          /\ look'[t].todo \subseteq look[t].todo
          /\ maker[m].file \in look'[t].todo /\ look[t].known[maker[m].file] = 0 => maker[m].file \in between
  BY <1>1, <1>5 DEF FilesInv, SyncsEnterWhatIsMissing, NotEntered, IsEntering
<1> QED BY <1>1, <1>3, <1>4, <1>5, <1>6, <1>7, NewRowKeeps

(* A sync goes on to the next document, or ends. *)
LEMMA TodoGoes ==
    ASSUME FilesInv, NEW t \in Syncs, NEW f, Reads(t, f)
    PROVE  /\ look' \in [Syncs -> SyncLocals]
           /\ \A s \in Syncs : s # t => look'[s] = look[s]
           /\ look'[t].pc = "reading" /\ look'[t].known = look[t].known
           /\ look'[t].todo = look[t].todo \ {f}
<1> DEFINE new == [look[t] EXCEPT !.todo = look[t].todo \ {f}]
<1>1. look \in [Syncs -> SyncLocals] /\ look[t].pc = "reading"
  BY DEF FilesInv, LgTypeOK, Reads
<1>2. new \in SyncLocals /\ new.pc = look[t].pc /\ new.known = look[t].known
      /\ new.todo = look[t].todo \ {f}
  BY <1>1 DEF SyncLocals
<1>3. look' = [look EXCEPT ![t] = new]
  BY <1>1 DEF Reads
<1> HIDE DEF new
<1> QED BY <1>1, <1>2, <1>3

LEMMA SyncEntersKeeps ==
    ASSUME OneSync, FilesInv, NEW t \in Syncs, SyncEnters(t)
    PROVE  FilesInv'
<1>1. PICK f \in look[t].todo, r \in Rows :
        /\ Reads(t, f) /\ look[t].known[f] = 0 /\ row[r].file = 0
        /\ row' = [row EXCEPT ![r] = [file |-> f, open |-> TRUE, event |-> FALSE]]
  BY DEF SyncEnters, IsNewRow
<1>2. look[t] \in SyncLocals
  BY DEF FilesInv, LgTypeOK
<1>3. f \in Files /\ look[t].pc = "reading" /\ UNCHANGED <<file, wish, maker, between>>
  BY <1>1, <1>2 DEF SyncLocals, Reads
<1>4. file[f] # "none" /\ NotEntered(f)
  BY <1>1, <1>3 DEF FilesInv, SyncsEnterWhatIsMissing
<1>5. /\ look' \in [Syncs -> SyncLocals] /\ look'[t].known = look[t].known
      /\ look'[t].todo = look[t].todo \ {f}
  BY <1>1, TodoGoes
<1>6. maker' \in [Makers -> MakerLocals] /\ \A m \in Makers : maker'[m] = maker[m]
  BY <1>3 DEF FilesInv, LgTypeOK
<1>7. \A m \in Makers : \/ maker'[m].pc # "entering"
                        \/ maker'[m] = maker[m] /\ (maker[m].file # f \/ f \in between)
  BY <1>4, <1>6 DEF NotEntered, IsEntering
<1>8. \A s \in Syncs : look'[s].pc = "reading" =>
          /\ look[s].pc = "reading" /\ look'[s].known = look[s].known
          /\ look'[s].todo \subseteq look[s].todo
          /\ f \in look'[s].todo /\ look[s].known[f] = 0 => f \in between
  BY <1>3, <1>5 DEF OneSync
<1> QED BY <1>1, <1>3, <1>4, <1>5, <1>6, <1>7, <1>8, NewRowKeeps DEF NotEntered

(* Rows are opened and closed; no row changes its document. *)
LEMMA OpensAndClosesKeep ==
    ASSUME FilesInv, row' \in [Rows -> RowDocs],
           \A r \in Rows : row'[r].file = row[r].file /\ (row'[r].open => row'[r].file \in Files),
           UNCHANGED <<file, wish, maker, between>>, look' \in [Syncs -> SyncLocals],
           \A t \in Syncs : look'[t].pc = "reading" =>
               /\ look[t].pc = "reading" /\ look'[t].known = look[t].known
               /\ look'[t].todo \subseteq look[t].todo
    PROVE  FilesInv'
<1>1. LgTypeOK'
  BY DEF FilesInv, LgTypeOK
<1>2. RowsStandForFiles'
  BY DEF FilesInv, RowsStandForFiles
<1>3. \A f : NoRowOf(f) => NoRowOf(f)'
  BY DEF NoRowOf
<1>4. MakersEnterTheirs'
  BY <1>3 DEF FilesInv, MakersEnterTheirs, IsEntering
<1>5. \A t \in Syncs, f \in Files : look[t].known[f] \in {0} \cup Rows
  BY DEF FilesInv, LgTypeOK, SyncLocals
<1>6. \A f : NotEntered(f) => NotEntered(f)'
  BY <1>3 DEF NotEntered, IsEntering
<1>7. SyncsEnterWhatIsMissing'
  BY <1>5, <1>6 DEF FilesInv, SyncsEnterWhatIsMissing
<1> QED BY <1>1, <1>2, <1>4, <1>7 DEF FilesInv

LEMMA SyncRowsKeep ==
    ASSUME FilesInv, NEW t \in Syncs, SyncReopens(t) \/ SyncCloses(t) \/ SyncGivesUp(t)
    PROVE  FilesInv'
<1>0. row \in [Rows -> RowDocs] /\ look \in [Syncs -> SyncLocals]
      /\ \A r \in Rows : row[r].open => row[r].file \in Files
  BY DEF FilesInv, LgTypeOK
<1>1. NotLooking \in SyncLocals /\ NotLooking.pc = "idle"
  BY DEF NotLooking, SyncLocals
<1>2. CASE SyncReopens(t)
  <2>1. PICK f \in look[t].todo :
          /\ Reads(t, f) /\ look[t].known[f] # 0
          /\ row' = [row EXCEPT ![look[t].known[f]].open = TRUE]
    BY <1>2 DEF SyncReopens
  <2> DEFINE r == look[t].known[f]
             new == [row[r] EXCEPT !.open = TRUE]
  <2>2. f \in Files /\ r \in Rows /\ look[t].pc = "reading"
    BY <1>0, <2>1 DEF SyncLocals, Reads
  <2>3. row[r].file = f
    BY <2>1, <2>2 DEF FilesInv, SyncsEnterWhatIsMissing
  <2>4. new \in RowDocs /\ new.file = f
    BY <1>0, <2>2, <2>3 DEF RowDocs
  <2>5. row' = [row EXCEPT ![r] = new]
    BY <2>1
  <2> HIDE DEF new, r
  <2>6. row' \in [Rows -> RowDocs]
        /\ \A s \in Rows : row'[s].file = row[s].file /\ (row'[s].open => row'[s].file \in Files)
    BY <1>0, <2>2, <2>3, <2>4, <2>5
  <2>7. UNCHANGED <<file, wish, maker, between>>
    BY <2>1 DEF Reads
  <2>8. look' \in [Syncs -> SyncLocals] /\ \A s \in Syncs : look'[s].pc = "reading" =>
               /\ look[s].pc = "reading" /\ look'[s].known = look[s].known
               /\ look'[s].todo \subseteq look[s].todo
    BY <2>1, <2>2, TodoGoes
  <2> QED BY <2>6, <2>7, <2>8, OpensAndClosesKeep
<1>3. CASE SyncCloses(t)
  <2> DEFINE shut(r) == [row[r] EXCEPT !.open = FALSE]
             missing(r) == \E f \in Files \ look[t].there : look[t].known[f] = r
  <2>1. row' = [r \in Rows |-> IF missing(r) THEN shut(r) ELSE row[r]]
        /\ look' = [look EXCEPT ![t] = NotLooking] /\ UNCHANGED <<file, wish, maker, between>>
    BY <1>3 DEF SyncCloses
  <2>2. \A r \in Rows : shut(r) \in RowDocs /\ shut(r).file = row[r].file /\ ~shut(r).open
    BY <1>0 DEF RowDocs
  <2> HIDE DEF shut, missing
  <2>3. row' \in [Rows -> RowDocs]
        /\ \A r \in Rows : row'[r].file = row[r].file /\ (row'[r].open => row'[r].file \in Files)
    BY <1>0, <2>1, <2>2
  <2>4. look' \in [Syncs -> SyncLocals] /\ \A s \in Syncs : look'[s] = IF s = t THEN NotLooking ELSE look[s]
    BY <1>0, <1>1, <2>1
  <2> QED BY <1>1, <2>1, <2>3, <2>4, OpensAndClosesKeep
<1>4. CASE SyncGivesUp(t)
  <2>1. look' = [look EXCEPT ![t] = NotLooking] /\ UNCHANGED <<file, row, wish, maker, between>>
    BY <1>4 DEF SyncGivesUp
  <2>2. look' \in [Syncs -> SyncLocals] /\ \A s \in Syncs : look'[s] = IF s = t THEN NotLooking ELSE look[s]
    BY <1>0, <1>1, <2>1
  <2>3. row' \in [Rows -> RowDocs]
        /\ \A r \in Rows : row'[r].file = row[r].file /\ (row'[r].open => row'[r].file \in Files)
    BY <1>0, <2>1
  <2> QED BY <1>1, <2>1, <2>2, <2>3, OpensAndClosesKeep
<1> QED BY <1>2, <1>3, <1>4

LEMMA SyncListsKeeps ==
    ASSUME FilesInv, NEW t \in Syncs, SyncListsFolder(t)
    PROVE  FilesInv'
<1> DEFINE there == {f \in Files : file[f] = "there"}
           late == {f \in there : \E m \in Makers : maker[m] = [pc |-> "entering", file |-> f]}
<1>1. PICK rows \in [Files -> {0} \cup Rows] :
        /\ \A f \in Files : IF RowsOf(f) = {} THEN rows[f] = 0 ELSE rows[f] \in RowsOf(f)
        /\ look' = [look EXCEPT ![t] = [pc |-> "reading", there |-> there, known |-> rows,
                       todo |-> {f \in there : rows[f] = 0 \/ ~row[rows[f]].open}]]
        /\ between' = between \cup late
        /\ UNCHANGED <<file, row, wish, maker>>
  BY DEF SyncListsFolder
<1> DEFINE todo == {f \in there : rows[f] = 0 \/ ~row[rows[f]].open}
           new == [pc |-> "reading", there |-> there, known |-> rows, todo |-> todo]
<1>2. new \in SyncLocals /\ new.known = rows /\ new.todo = todo
  BY DEF SyncLocals
<1> HIDE DEF new
<1>3. look' \in [Syncs -> SyncLocals] /\ \A s \in Syncs : look'[s] = IF s = t THEN new ELSE look[s]
  BY <1>1, <1>2 DEF FilesInv, LgTypeOK, new
<1>4. LgTypeOK'
  BY <1>1, <1>3 DEF FilesInv, LgTypeOK
<1>5. RowsStandForFiles'
  BY <1>1 DEF FilesInv, RowsStandForFiles
<1>6. MakersEnterTheirs'
  BY <1>1 DEF FilesInv, MakersEnterTheirs, NoRowOf, IsEntering
<1>7. \A f : NotEntered(f) => NotEntered(f)'
  BY <1>1 DEF NotEntered, NoRowOf, IsEntering
<1>8. \A f \in Files : rows[f] # 0 => row[rows[f]].file = f
  BY <1>1 DEF RowsOf
<1>9. \A f \in there : rows[f] = 0 => NotEntered(f)'
  <2> SUFFICES ASSUME NEW f \in there, rows[f] = 0, f \notin late
               PROVE  NoRowOf(f) /\ \A m \in Makers : ~IsEntering(m, f)
    BY <1>1 DEF NotEntered, NoRowOf, IsEntering
  <2>1. RowsOf(f) = {}
    BY <1>1, PlanFilesAssumption DEF RowsOf
  <2>2. \A m \in Makers : IsEntering(m, f) => maker[m] = [pc |-> "entering", file |-> f]
    BY DEF FilesInv, LgTypeOK, MakerLocals, IsEntering
  <2> QED BY <2>1, <2>2 DEF NoRowOf, RowsOf
<1>10. \A f \in todo : f \in there /\ file[f] # "none"
  OBVIOUS
<1> HIDE DEF todo, there, late
<1>11. SyncsEnterWhatIsMissing'
  BY <1>1, <1>2, <1>3, <1>7, <1>8, <1>9, <1>10 DEF FilesInv, SyncsEnterWhatIsMissing
<1> QED BY <1>4, <1>5, <1>6, <1>11 DEF FilesInv

LEMMA FilesInvStep == ASSUME OneSync PROVE FilesInv /\ [LgNext]_filevars => FilesInv'
<1> SUFFICES ASSUME FilesInv, [LgNext]_filevars PROVE FilesInv'
  OBVIOUS
<1>1. CASE UNCHANGED filevars
  BY <1>1 DEF filevars, FilesInv, LgTypeOK, RowsStandForFiles, MakersEnterTheirs,
     SyncsEnterWhatIsMissing, NotEntered, NoRowOf, IsEntering
<1>2. CASE LgNext
  BY <1>2, QuestionsKeep, CopyKeeps, EnterKeeps, SyncListsKeeps, SyncEntersKeeps, SyncRowsKeep
     DEF LgNext, SyncGoesOn
<1> QED BY <1>1, <1>2

LEMMA RowsFollow == FilesInv => OneRowPerFile
<1> SUFFICES ASSUME FilesInv, NEW f \in Files, f \notin between PROVE Cardinality(RowsOf(f)) <= 1
  BY DEF OneRowPerFile
<1>1. \A r, s \in RowsOf(f) : r = s
  BY PlanFilesAssumption DEF FilesInv, RowsStandForFiles, RowsOf
<1>2. RowsOf(f) = {} \/ \E r : RowsOf(f) = {r}
  BY <1>1
<1>3. Cardinality(RowsOf(f)) \in {0, 1}
  BY <1>2, FS_EmptySet, FS_Singleton
<1> QED BY <1>3

(* With one sync at a time a document of the committee has one row, for any      *)
(* number of documents, questions and calls of the chat, but for those listed    *)
(* between their copy and their entry (proposal_sync.py, proposal_intent.py).    *)
THEOREM OneRowHolds == ASSUME OneSync PROVE LgSpec => [](LgTypeOK /\ OneRowPerFile)
<1>1. FilesInv => LgTypeOK /\ OneRowPerFile
  BY RowsFollow DEF FilesInv
<1>2. FilesInv /\ [LgNext]_filevars => FilesInv'
  BY FilesInvStep
<1> QED BY InitFilesInv, <1>1, <1>2, PTL DEF LgSpec
-----------------------------------------------------------------------------
(* The proposal ledger.                                                      *)
-----------------------------------------------------------------------------
(* Keys, proposals and locals as they are when n things have been done; what is  *)
(* told of a submission or a plan has its number.                                *)
KeyOK(k, n) == k \in Keys /\ (k[1] \in {"submitted", "planned"} => k[2] # 0 /\ k[2] <= n)

Waits(p) == p.stage = "submitted" /\ p.liff # 0 => p.approval # "returned"

GoodProp(p, n) ==
    /\ p \in PropDocs /\ Waits(p) /\ p.liff <= n /\ p.plan.id <= n
    /\ \A k \in p.notices : KeyOK(k, n)

Holding == {"ask", "warn", "note"}

GoodDesk(c, d, n) ==
    /\ d \in ClerkLocals /\ GoodProp(d.copy, n)
    /\ d.pc \in Holding \cup {"tell"} => KeyOK(d.key, n)
    /\ d.pc # "idle" /\ c \notin Clerks => d.task # "none"
    /\ d.pc = "list" => d.task # "none"

(* What was sent is recorded, or its call is still at it, or it was messed up. *)
SentIsAccountedFor == \A k \in sent :
    \/ k \in prop.notices \cup messed
    \/ \E c \in Calls : desk[c].key = k /\ desk[c].pc \in Holding

PrInv ==
    /\ GoodProp(prop, doings) /\ desk \in [Calls -> ClerkLocals]
    /\ \A c \in Calls : GoodDesk(c, desk[c], doings)
    /\ stopped \in BOOLEAN /\ day \in 0 .. LastDay /\ doings \in 0 .. MaxDoings
    /\ sent \subseteq Keys /\ messed \subseteq Keys
    /\ SentIsAccountedFor
-----------------------------------------------------------------------------
LEMMA Counts ==
    /\ Never \in Nat /\ 0 .. Never \subseteq Numbers /\ 0 .. MaxDoings \subseteq Numbers
    /\ 0 \in Numbers /\ Numbers \subseteq Nat /\ Deadlines \cup {Never} \subseteq 0 .. Never
    /\ 0 .. LastDay \subseteq 0 .. Never
BY ProposalsAssumption DEF Never, Numbers

LEMMA KeyFacts == NoKey \notin Keys /\ \A k \in Keys : k # NoKey
BY DEF Keys, NoKey

LEMMA PropFacts ==
    \A p \in PropDocs :
        /\ p.stage \in Stages /\ p.liff \in Numbers /\ p.approval \in {"pending", "approved", "returned"}
        /\ p.status \in {"open", "closed"} /\ p.due \in 0 .. Never /\ p.setAt \in 0 .. Never
        /\ p.plan.id \in Numbers /\ p.plan.date \in Numbers /\ p.notices \subseteq Keys
BY DEF PropDocs

LEMMA DeskFacts ==
    \A d \in ClerkLocals :
        /\ d.pc \in {"idle", "review", "list", "sync", "ask", "warn", "tell", "note"}
        /\ d.task \in TickTasks /\ d.copy \in PropDocs /\ d.key \in Keys \cup {NoKey}
        /\ d.todo \subseteq Supervisors /\ d.quiet \in BOOLEAN /\ d.now \in 0 .. LastDay
BY DEF ClerkLocals

LEMMA NewPropIsGood == \A n \in Nat : GoodProp(NewProp, n)
<1>1. NewProp \in PropDocs
  BY Counts DEF NewProp, PropDocs, Stages
<1> QED BY <1>1 DEF GoodProp, Waits, NewProp

LEMMA FreeIsGood ==
    /\ Free \in ClerkLocals /\ Free.pc = "idle" /\ Free.copy = NewProp /\ Free.key = NoKey
    /\ Free.task = "none" /\ Free.todo = {} /\ \A c, n : n \in Nat => GoodDesk(c, Free, n)
<1>1. NewProp \in PropDocs
  BY NewPropIsGood DEF GoodProp
<1>2. Free \in ClerkLocals
  BY <1>1, ProposalsAssumption DEF Free, ClerkLocals, TickTasks
<1>3. /\ Free.pc = "idle" /\ Free.copy = NewProp /\ Free.key = NoKey /\ Free.task = "none"
      /\ Free.todo = {}
  BY DEF Free
<1> QED BY <1>2, <1>3, NewPropIsGood DEF GoodDesk, Holding

(* What is good stays so when more is done. *)
LEMMA GoodGrows ==
    ASSUME NEW n \in Nat, NEW m \in Nat, n <= m
    PROVE  /\ \A k : KeyOK(k, n) => KeyOK(k, m)
           /\ \A p : GoodProp(p, n) => GoodProp(p, m)
           /\ \A c, d : GoodDesk(c, d, n) => GoodDesk(c, d, m)
<1>1. \A k : KeyOK(k, n) => KeyOK(k, m)
  <2> SUFFICES ASSUME NEW k, KeyOK(k, n) PROVE KeyOK(k, m)
    OBVIOUS
  <2>1. k[2] \in Nat
    BY Counts DEF KeyOK, Keys
  <2>2. k[2] <= n => k[2] <= m
    BY <2>1
  <2> QED BY <2>2 DEF KeyOK
<1>2. \A p : GoodProp(p, n) => GoodProp(p, m)
  <2> SUFFICES ASSUME NEW p, GoodProp(p, n) PROVE GoodProp(p, m)
    OBVIOUS
  <2>1. p.liff \in Nat /\ p.plan.id \in Nat
    BY PropFacts, Counts DEF GoodProp
  <2>2. p.liff <= m /\ p.plan.id <= m
    BY <2>1 DEF GoodProp
  <2> QED BY <1>1, <2>2 DEF GoodProp
<1> QED BY <1>1, <1>2 DEF GoodDesk

(* What there is to tell is good, and not noted. *)
LEMMA KeyForIsGood ==
    ASSUME NEW n \in Nat, NEW p, GoodProp(p, n), NEW now \in 0 .. LastDay,
           NEW task \in {"alerts", "plans", "subs", "due"}
    PROVE  \/ KeyFor(task, p, now) = NoKey
           \/ KeyOK(KeyFor(task, p, now), n) /\ KeyFor(task, p, now) \notin p.notices
<1>0. p \in PropDocs /\ p.liff <= n /\ p.plan.id <= n
  BY DEF GoodProp
<1>1. /\ p.liff \in Numbers /\ p.due \in Numbers /\ p.plan.id \in Numbers /\ p.plan.date \in Numbers
  BY <1>0, PropFacts, Counts
<1>2. \A k : UnlessNoted(p, k) = NoKey \/ (UnlessNoted(p, k) = k /\ k \notin p.notices)
  BY DEF UnlessNoted
<1>3. CASE task = "alerts"
  <2>1. KeyFor(task, p, now) = OverdueKey(p, now)
    BY <1>3 DEF KeyFor
  <2>2. KeyOK(<<"overdue", p.due>>, n) /\ KeyOK(<<"plan", p.plan.date>>, n)
    BY <1>1 DEF KeyOK, Keys
  <2> QED BY <1>2, <2>1, <2>2 DEF OverdueKey
<1>4. CASE task = "plans"
  <2>1. KeyFor(task, p, now) = PlanKey(p)
    BY <1>4 DEF KeyFor
  <2>2. p.plan.id # 0 => KeyOK(<<"planned", p.plan.id>>, n)
    BY <1>0, <1>1 DEF KeyOK, Keys
  <2> QED BY <1>2, <2>1, <2>2 DEF PlanKey
<1>5. CASE task = "subs"
  <2>1. KeyFor(task, p, now) = SubmitKey(p)
    BY <1>5 DEF KeyFor
  <2>2. p.liff # 0 => KeyOK(<<"submitted", p.liff>>, n)
    BY <1>0, <1>1 DEF KeyOK, Keys
  <2> QED BY <1>2, <2>1, <2>2 DEF SubmitKey
<1>6. CASE task = "due"
  <2>1. KeyFor(task, p, now) = DeadlineKey(p, now)
    BY <1>6 DEF KeyFor
  <2>2. KeyOK(<<"deadline", p.due>>, n)
    BY <1>1 DEF KeyOK, Keys
  <2> QED BY <1>2, <2>1, <2>2 DEF DeadlineKey
<1> QED BY <1>3, <1>4, <1>5, <1>6
-----------------------------------------------------------------------------
LEMMA PrInvTypes == PrInv => PrTypeOK
<1> SUFFICES ASSUME PrInv PROVE PrTypeOK
  OBVIOUS
<1>1. prop \in PropDocs
  BY DEF PrInv, GoodProp
<1>2. \A c \in Calls : desk[c].pc \in Holding => KeyOK(desk[c].key, doings)
  BY DEF PrInv, GoodDesk
<1> QED BY <1>1, <1>2 DEF PrInv, PrTypeOK, KeyOK, Holding

LEMMA InitPrInv == PrInit => PrInv
<1> SUFFICES ASSUME PrInit PROVE PrInv
  OBVIOUS
<1>1. PICK d \in Deadlines \cup {Never} : prop = [NewProp EXCEPT !.due = d]
  BY DEF PrInit
<1>2. d \in 0 .. Never /\ NewProp \in PropDocs
  BY Counts, NewPropIsGood DEF GoodProp
<1>3. /\ prop \in PropDocs /\ prop.stage = "entry" /\ prop.liff = 0 /\ prop.plan.id = 0
      /\ prop.notices = {}
  BY <1>1, <1>2 DEF PropDocs, NewProp
<1>4. GoodProp(prop, 0)
  BY <1>3 DEF GoodProp, Waits
<1>5. /\ doings = 0 /\ day = 0 /\ stopped = FALSE /\ sent = {} /\ messed = {}
      /\ desk = [c \in Calls |-> Free]
  BY DEF PrInit
<1>6. \A c \in Calls : GoodDesk(c, desk[c], 0)
  BY <1>5, FreeIsGood
<1>7. desk \in [Calls -> ClerkLocals] /\ doings \in 0 .. MaxDoings /\ day \in 0 .. LastDay
  BY <1>5, FreeIsGood, ProposalsAssumption
<1>8. SentIsAccountedFor
  BY <1>5 DEF SentIsAccountedFor
<1> QED BY <1>4, <1>5, <1>6, <1>7, <1>8 DEF PrInv

(* One call goes on. What it had sent and not recorded it still holds, or the    *)
(* proposal says it, or it is messed up.                                         *)
LEMMA CallGoes ==
    ASSUME PrInv, NEW c \in Calls, NEW new, desk' = [desk EXCEPT ![c] = new],
           doings' \in 0 .. MaxDoings, doings <= doings', GoodDesk(c, new, doings'),
           GoodProp(prop', doings'), UNCHANGED <<stopped, day>>,
           messed' \subseteq Keys, messed \subseteq messed',
           prop.notices \subseteq prop'.notices \cup messed',
           \/ sent' = sent
           \/ /\ sent' = sent \cup {new.key}
              /\ new.pc \in Holding
           \/ /\ sent' = sent \cup {desk[c].key}
              /\ desk[c].pc = "tell" /\ desk[c].key \in messed',
           desk[c].pc \in Holding =>
               \/ desk[c].key \in prop'.notices \cup messed'
               \/ new.pc \in Holding /\ new.key = desk[c].key
    PROVE  PrInv'
<1>1. /\ desk' \in [Calls -> ClerkLocals]
      /\ \A d \in Calls : desk'[d] = IF d = c THEN new ELSE desk[d]
  BY DEF PrInv, GoodDesk
<1>2. doings \in Nat /\ doings' \in Nat
  BY ProposalsAssumption DEF PrInv
<1>3. \A d \in Calls : GoodDesk(d, desk'[d], doings')
  BY <1>1, <1>2, GoodGrows DEF PrInv
<1>4. sent' \subseteq Keys
  BY DEF PrInv, GoodDesk, KeyOK
<1>5. SentIsAccountedFor'
  <2> SUFFICES ASSUME NEW k \in sent', k \notin prop'.notices \cup messed'
               PROVE  \E d \in Calls : desk'[d].key = k /\ desk'[d].pc \in Holding
    BY DEF SentIsAccountedFor
  <2>1. CASE k \in sent
    <3>1. PICK d \in Calls : desk[d].key = k /\ desk[d].pc \in Holding
      BY <2>1 DEF PrInv, SentIsAccountedFor
    <3> QED BY <1>1, <3>1
  <2>2. CASE k \notin sent
    <3>1. k = new.key /\ new.pc \in Holding
      BY <2>2
    <3> QED BY <1>1, <3>1
  <2> QED BY <2>1, <2>2
<1> QED BY <1>1, <1>3, <1>4, <1>5 DEF PrInv

(* No call goes on: somebody edits the proposal, the switch is thrown, a day ends. *)
LEMMA SceneKeeps ==
    ASSUME PrInv, doings' \in 0 .. MaxDoings, doings <= doings', GoodProp(prop', doings'),
           prop'.notices = prop.notices, UNCHANGED <<desk, sent, messed>>,
           stopped' \in BOOLEAN, day' \in 0 .. LastDay
    PROVE  PrInv'
<1>1. doings \in Nat /\ doings' \in Nat
  BY ProposalsAssumption DEF PrInv
<1>2. \A d \in Calls : GoodDesk(d, desk'[d], doings')
  BY <1>1, GoodGrows DEF PrInv
<1> QED BY <1>2 DEF PrInv, SentIsAccountedFor

LEMMA DoingCounts ==
    ASSUME PrInv
    PROVE  /\ doings \in Nat /\ (Doing => doings' = doings + 1)
           /\ Doing \/ doings' = doings => doings' \in 0 .. MaxDoings /\ doings <= doings'
BY ProposalsAssumption DEF PrInv, Doing

LEMMA EditsKeep ==
    ASSUME PrInv, NEW p, Edits(p), GoodProp(p, doings), p.notices = prop.notices
    PROVE  PrInv'
<1>1. /\ prop' = p /\ Doing /\ UNCHANGED <<desk, sent, messed, stopped, day>>
  BY DEF Edits, notes, UnchangedScene
<1>2. GoodProp(prop', doings')
  BY <1>1, DoingCounts, GoodGrows
<1>3. stopped' \in BOOLEAN /\ day' \in 0 .. LastDay
  BY <1>1 DEF PrInv
<1> QED BY <1>1, <1>2, <1>3, DoingCounts, SceneKeeps
-----------------------------------------------------------------------------
LEMMA OfficeEditsKeep ==
    ASSUME PrInv, ProposalWithdraw \/ SetDeadline \/ Approve \/ Return \/ SetStage
    PROVE  PrInv'
<1>0. /\ GoodProp(prop, doings) /\ prop \in PropDocs /\ Waits(prop) /\ prop.liff <= doings
      /\ prop.plan.id <= doings /\ day \in 0 .. LastDay /\ 0 <= doings
  BY ProposalsAssumption DEF PrInv, GoodProp
<1>1. CASE ProposalWithdraw
  <2> DEFINE p == [prop EXCEPT !.stage = "entry", !.liff = 0]
  <2>1. p \in PropDocs /\ p.stage = "entry" /\ p.liff = 0 /\ p.plan = prop.plan /\ p.notices = prop.notices
    BY <1>0, Counts DEF PropDocs, Stages
  <2>2. Edits(p)
    BY <1>1 DEF ProposalWithdraw
  <2> HIDE DEF p
  <2>3. GoodProp(p, doings)
    BY <1>0, <2>1 DEF GoodProp, Waits
  <2> QED BY <2>1, <2>2, <2>3, EditsKeep
<1>2. CASE SetDeadline
  <2>1. PICK d \in Deadlines \cup {Never} : Edits([prop EXCEPT !.due = d, !.setAt = day])
    BY <1>2 DEF SetDeadline
  <2> DEFINE p == [prop EXCEPT !.due = d, !.setAt = day]
  <2>2. d \in 0 .. Never /\ day \in 0 .. Never
    BY <1>0, Counts
  <2>3. /\ p \in PropDocs /\ p.stage = prop.stage /\ p.liff = prop.liff /\ p.plan = prop.plan
        /\ p.notices = prop.notices /\ p.approval = prop.approval
    BY <1>0, <2>2 DEF PropDocs
  <2>4. Edits(p)
    BY <2>1
  <2> HIDE DEF p
  <2>5. GoodProp(p, doings)
    BY <1>0, <2>3 DEF GoodProp, Waits
  <2> QED BY <2>3, <2>4, <2>5, EditsKeep
<1>3. CASE Approve
  <2>1. CASE prop.stage = "submitted"
    <3> DEFINE p == [prop EXCEPT !.approval = "approved", !.stage = "later", !.liff = 0]
    <3>1. p \in PropDocs /\ p.liff = 0 /\ p.plan = prop.plan /\ p.notices = prop.notices
      BY <1>0, Counts DEF PropDocs, Stages
    <3>2. Edits(p)
      BY <1>3, <2>1 DEF Approve
    <3> HIDE DEF p
    <3>3. GoodProp(p, doings)
      BY <1>0, <3>1 DEF GoodProp, Waits
    <3> QED BY <3>1, <3>2, <3>3, EditsKeep
  <2>2. CASE prop.stage # "submitted"
    <3> DEFINE p == [prop EXCEPT !.approval = "approved"]
    <3>1. /\ p \in PropDocs /\ p.liff = prop.liff /\ p.plan = prop.plan /\ p.notices = prop.notices
          /\ p.approval = "approved"
      BY <1>0 DEF PropDocs
    <3>2. Edits(p)
      BY <1>3, <2>2 DEF Approve
    <3> HIDE DEF p
    <3>3. GoodProp(p, doings)
      BY <1>0, <3>1 DEF GoodProp, Waits
    <3> QED BY <3>1, <3>2, <3>3, EditsKeep
  <2> QED BY <2>1, <2>2
<1>4. CASE Return
  <2> DEFINE p == [prop EXCEPT !.approval = "returned", !.stage = "entry", !.liff = 0]
  <2>1. p \in PropDocs /\ p.liff = 0 /\ p.plan = prop.plan /\ p.notices = prop.notices
    BY <1>0, Counts DEF PropDocs, Stages
  <2>2. Edits(p)
    BY <1>4 DEF Return
  <2> HIDE DEF p
  <2>3. GoodProp(p, doings)
    BY <1>0, <2>1 DEF GoodProp, Waits
  <2> QED BY <2>1, <2>2, <2>3, EditsKeep
<1>5. CASE SetStage
  <2>1. PICK stage \in Stages : Edits([prop EXCEPT !.stage = stage, !.liff = 0])
    BY <1>5 DEF SetStage
  <2> DEFINE p == [prop EXCEPT !.stage = stage, !.liff = 0]
  <2>2. p \in PropDocs /\ p.liff = 0 /\ p.plan = prop.plan /\ p.notices = prop.notices
    BY <1>0, Counts DEF PropDocs
  <2>3. Edits(p)
    BY <2>1
  <2> HIDE DEF p
  <2>4. GoodProp(p, doings)
    BY <1>0, <2>2 DEF GoodProp, Waits
  <2> QED BY <2>2, <2>3, <2>4, EditsKeep
<1> QED BY <1>1, <1>2, <1>3, <1>4, <1>5

LEMMA WorldKeeps == ASSUME PrInv, Switch \/ DayEnds PROVE PrInv'
<1>1. /\ prop' = prop /\ UNCHANGED <<desk, sent, messed>> /\ (Doing \/ doings' = doings)
      /\ stopped' \in BOOLEAN /\ day' \in 0 .. LastDay
  <2>0. day \in 0 .. LastDay /\ stopped \in BOOLEAN /\ LastDay \in Nat
    BY ProposalsAssumption DEF PrInv
  <2>1. CASE Switch
    BY <2>0, <2>1 DEF Switch, notes
  <2>2. CASE DayEnds
    BY <2>0, <2>2 DEF DayEnds, notes
  <2> QED BY <2>1, <2>2
<1>2. GoodProp(prop', doings')
  BY <1>1, DoingCounts, GoodGrows DEF PrInv
<1> QED BY <1>1, <1>2, DoingCounts, SceneKeeps

(* The committee's saves go on to be told. *)
LEMMA SaveAndTellKeeps ==
    ASSUME PrInv, NEW c \in Clerks, NEW p, NEW task \in {"subs", "plans"},
           SaveAndTell(c, p, task), GoodProp(p, doings + 1), p.notices = prop.notices,
           KeyFor(task, p, day) # NoKey
    PROVE  PrInv'
<1>1. PICK hushed \in BOOLEAN :
        /\ Sits(c, "idle") /\ Doing /\ prop' = p
        /\ Goes(c, [Free EXCEPT !.pc = "tell", !.task = task, !.copy = p, !.quiet = hushed,
                                !.now = day, !.key = KeyFor(task, p, day)])
        /\ UNCHANGED <<sent, messed, stopped, day>>
  BY DEF SaveAndTell, UnchangedNotes, UnchangedScene, notes
<1> DEFINE key == KeyFor(task, p, day)
           new == [Free EXCEPT !.pc = "tell", !.task = task, !.copy = p, !.quiet = hushed,
                               !.now = day, !.key = key]
<1>2. /\ doings + 1 \in Nat /\ doings' = doings + 1 /\ doings' \in 0 .. MaxDoings /\ doings <= doings'
      /\ day \in 0 .. LastDay /\ p \in PropDocs /\ c \in Calls
  BY <1>1, DoingCounts DEF PrInv, GoodProp, Calls
<1>3. KeyOK(key, doings + 1)
  BY <1>2, KeyForIsGood
<1>4. key \in Keys
  BY <1>3 DEF KeyOK
<1>5. desk' = [desk EXCEPT ![c] = new]
  BY <1>1 DEF Goes
<1> HIDE DEF key
<1>6. new \in ClerkLocals /\ new.pc = "tell" /\ new.task = task /\ new.copy = p /\ new.key = key
  BY <1>2, <1>4, FreeIsGood DEF ClerkLocals, TickTasks
<1> HIDE DEF new
<1>7. GoodDesk(c, new, doings + 1)
  BY <1>3, <1>6 DEF GoodDesk, Holding
<1>8. messed \subseteq Keys /\ desk[c].pc \notin Holding
  BY <1>1 DEF PrInv, Sits, Holding
<1> QED BY <1>1, <1>2, <1>5, <1>7, <1>8, CallGoes

LEMMA CommitteeKeeps ==
    ASSUME PrInv, NEW c \in Clerks, ProposalSubmit(c) \/ AnswerPlan(c)
    PROVE  PrInv'
<1>0. /\ prop \in PropDocs /\ prop.liff <= doings /\ prop.plan.id <= doings /\ Waits(prop)
      /\ \A k \in prop.notices : KeyOK(k, doings)
      /\ day \in 0 .. LastDay /\ doings \in Nat /\ Doing
  <2>1. Doing
    BY DEF ProposalSubmit, AnswerPlan, SaveAndTell
  <2>2. GoodProp(prop, doings) /\ day \in 0 .. LastDay /\ doings \in Nat
    BY ProposalsAssumption DEF PrInv
  <2> QED BY <2>1, <2>2 DEF GoodProp
<1>1. doings + 1 \in Numbers /\ doings + 1 \in Nat /\ doings <= doings + 1 /\ doings + 1 # 0
  BY <1>0, DoingCounts, Counts
<1>2. \A k \in prop.notices : KeyOK(k, doings + 1)
  BY <1>0, <1>1, GoodGrows
<1>3. \A k \in prop.notices : k[1] \in {"submitted", "planned"} => k[2] # doings + 1
  <2>1. \A k \in prop.notices : k[2] \in Nat
    BY <1>0, Counts DEF KeyOK, Keys
  <2> QED BY <1>0, <2>1 DEF KeyOK
<1>4. CASE ProposalSubmit(c)
  <2> DEFINE p == [prop EXCEPT !.stage = "submitted", !.liff = doings + 1,
                       !.approval = IF @ = "returned" THEN "pending" ELSE @]
  <2>1. /\ p \in PropDocs /\ p.stage = "submitted" /\ p.liff = doings + 1 /\ p.approval # "returned"
        /\ p.plan = prop.plan /\ p.notices = prop.notices
    BY <1>0, <1>1 DEF PropDocs, Stages
  <2>2. SaveAndTell(c, p, "subs")
    BY <1>4 DEF ProposalSubmit
  <2> HIDE DEF p
  <2>3. prop.plan.id \in Nat /\ prop.plan.id <= doings + 1
    <3>1. prop.plan.id \in Nat
      BY <1>0, PropFacts, Counts
    <3> QED BY <1>0, <3>1
  <2>4. GoodProp(p, doings + 1)
    BY <1>0, <1>1, <1>2, <2>1, <2>3 DEF GoodProp, Waits
  <2>5. <<"submitted", doings + 1>> \notin p.notices
    BY <1>3, <2>1
  <2>6. KeyFor("subs", p, day) # NoKey
    BY <1>1, <2>1, <2>5 DEF KeyFor, SubmitKey, UnlessNoted, NoKey
  <2> QED BY <2>1, <2>2, <2>4, <2>6, SaveAndTellKeeps
<1>5. CASE AnswerPlan(c)
  <2>1. PICK date \in day .. LastDay :
          SaveAndTell(c, [prop EXCEPT !.plan = [id |-> doings + 1, date |-> date]], "plans")
    BY <1>5 DEF AnswerPlan
  <2> DEFINE p == [prop EXCEPT !.plan = [id |-> doings + 1, date |-> date]]
  <2>2. date \in Numbers
    BY <1>0, Counts, ProposalsAssumption
  <2>3. [id |-> doings + 1, date |-> date] \in [id : Numbers, date : Numbers]
    BY <1>1, <2>2
  <2>4. /\ p \in PropDocs /\ p.stage = prop.stage /\ p.liff = prop.liff /\ p.approval = prop.approval
        /\ p.plan.id = doings + 1 /\ p.notices = prop.notices
    BY <1>0, <2>3 DEF PropDocs
  <2>5. SaveAndTell(c, p, "plans")
    BY <2>1
  <2> HIDE DEF p
  <2>6. prop.liff \in Nat /\ prop.liff <= doings + 1
    <3>1. prop.liff \in Nat
      BY <1>0, PropFacts, Counts
    <3> QED BY <1>0, <3>1
  <2>7. GoodProp(p, doings + 1)
    BY <1>0, <1>1, <1>2, <2>4, <2>6 DEF GoodProp, Waits
  <2>8. <<"planned", doings + 1>> \notin p.notices
    BY <1>3, <2>4
  <2>9. KeyFor("plans", p, day) # NoKey
    BY <1>1, <2>4, <2>8 DEF KeyFor, PlanKey, UnlessNoted, NoKey
  <2> QED BY <2>4, <2>5, <2>7, <2>9, SaveAndTellKeeps
<1> QED BY <1>4, <1>5

LEMMA ReviewKeeps ==
    ASSUME PrInv, NEW c \in Clerks, ReviewBegins(c) \/ ReviewEnds(c)
    PROVE  PrInv'
<1>0. /\ GoodProp(prop, doings) /\ c \in Calls /\ GoodDesk(c, desk[c], doings) /\ prop \in PropDocs
      /\ messed \subseteq Keys /\ doings \in Nat
  BY ProposalsAssumption DEF PrInv, Calls, GoodProp
<1>1. CASE ReviewBegins(c)
  <2> DEFINE new == [Free EXCEPT !.pc = "review", !.copy = prop]
  <2>1. /\ desk[c].pc = "idle" /\ Doing /\ desk' = [desk EXCEPT ![c] = new] /\ prop' = prop
        /\ UNCHANGED <<sent, messed, stopped, day>>
    BY <1>1 DEF ReviewBegins, Goes, Sits, notes, UnchangedScene
  <2>2. new \in ClerkLocals /\ new.pc = "review" /\ new.copy = prop
    BY <1>0, FreeIsGood DEF ClerkLocals
  <2> HIDE DEF new
  <2>3. GoodProp(prop', doings') /\ doings' \in Nat
    BY <1>0, <2>1, DoingCounts, GoodGrows
  <2>4. GoodDesk(c, new, doings')
    BY <2>1, <2>2, <2>3 DEF GoodDesk, Holding
  <2> QED BY <1>0, <2>1, <2>3, <2>4, DoingCounts, CallGoes DEF Holding
<1>2. CASE ReviewEnds(c)
  <2>1. /\ desk[c].pc = "review" /\ desk' = [desk EXCEPT ![c] = Free] /\ doings' = doings
        /\ prop' = desk[c].copy /\ messed' = messed \cup (prop.notices \ desk[c].copy.notices)
        /\ UNCHANGED <<sent, stopped, day>>
    BY <1>2 DEF ReviewEnds, Goes, Sits, SaveCopy, UnchangedScene
  <2>2. GoodProp(prop', doings') /\ GoodDesk(c, Free, doings')
    BY <1>0, <2>1, FreeIsGood DEF GoodDesk
  <2>3. messed' \subseteq Keys /\ messed \subseteq messed' /\ prop.notices \subseteq prop'.notices \cup messed'
    BY <1>0, <2>1, PropFacts
  <2> QED BY <1>0, <2>1, <2>2, <2>3, DoingCounts, CallGoes DEF Holding
<1> QED BY <1>1, <1>2
-----------------------------------------------------------------------------
(* The next task, or the end of the call. *)
LEMMA NextGoes ==
    ASSUME PrInv, NEW c \in Calls, Next(c), desk[c].pc # "idle", NEW n \in Nat
    PROVE  \E new : /\ desk' = [desk EXCEPT ![c] = new] /\ GoodDesk(c, new, n)
                    /\ new.pc \in {"idle", "list"}
<1>1. CASE c \in Clerks \/ After[desk[c].task] = "none"
  <2>1. desk' = [desk EXCEPT ![c] = Free]
    BY <1>1 DEF Next, Goes
  <2> QED BY <2>1, FreeIsGood
<1>2. CASE ~(c \in Clerks \/ After[desk[c].task] = "none")
  <2> DEFINE task == After[desk[c].task]
             new == [Free EXCEPT !.pc = "list", !.task = task, !.quiet = desk[c].quiet, !.now = desk[c].now]
  <2>1. desk' = [desk EXCEPT ![c] = new] /\ task # "none"
    BY <1>2 DEF Next, Goes
  <2>2. desk[c] \in ClerkLocals /\ desk[c].task # "none"
    BY <1>2 DEF PrInv, GoodDesk
  <2>3. desk[c].task \in TickTasks /\ desk[c].quiet \in BOOLEAN /\ desk[c].now \in 0 .. LastDay
    BY <2>2, DeskFacts
  <2>4. task \in TickTasks
    BY <2>2, <2>3 DEF After, TickTasks
  <2> HIDE DEF task
  <2>5. new \in ClerkLocals /\ new.pc = "list" /\ new.copy = NewProp /\ new.task = task
    BY <2>3, <2>4, FreeIsGood DEF ClerkLocals
  <2> HIDE DEF new
  <2>6. GoodDesk(c, new, n)
    BY <2>1, <2>5, NewPropIsGood DEF GoodDesk, Holding
  <2> QED BY <2>1, <2>5, <2>6
<1> QED BY <1>1, <1>2

LEMMA BreaksGoes ==
    ASSUME PrInv, NEW c \in Calls, Breaks(c), desk[c].pc # "idle", NEW n \in Nat
    PROVE  \E new : /\ desk' = [desk EXCEPT ![c] = new] /\ GoodDesk(c, new, n)
                    /\ new.pc \in {"idle", "list"}
<1>1. CASE Next(c)
  BY <1>1, NextGoes
<1>2. CASE Goes(c, Free)
  BY <1>2, FreeIsGood DEF Goes
<1> QED BY <1>1, <1>2 DEF Breaks

(* A call leaves what it was at without recording it. *)
LEMMA LeavesKeep ==
    ASSUME PrInv, NEW c \in Calls, NEW new,
           desk' = [desk EXCEPT ![c] = new], Doing \/ doings' = doings, GoodDesk(c, new, doings),
           GoodProp(prop', doings), UNCHANGED <<stopped, day>>,
           messed' \subseteq Keys, messed \subseteq messed',
           prop.notices \subseteq prop'.notices \cup messed',
           \/ sent' = sent
           \/ /\ sent' = sent \cup {new.key}
              /\ new.pc \in Holding
           \/ /\ sent' = sent \cup {desk[c].key}
              /\ desk[c].pc = "tell" /\ desk[c].key \in messed',
           desk[c].pc \in Holding =>
               \/ desk[c].key \in prop'.notices \cup messed'
               \/ new.pc \in Holding /\ new.key = desk[c].key
    PROVE  PrInv'
<1>1. doings \in Nat /\ doings' \in Nat /\ doings <= doings'
  BY DoingCounts
<1>2. GoodDesk(c, new, doings') /\ GoodProp(prop', doings')
  BY <1>1, GoodGrows
<1> QED BY <1>1, <1>2, DoingCounts, CallGoes

LEMMA OfferGoes ==
    ASSUME PrInv, NEW c \in Calls
    PROVE  /\ desk[c] \in ClerkLocals /\ GoodDesk(c, desk[c], doings)
           /\ GoodProp(desk[c].copy, doings) /\ doings \in Nat
           /\ GoodProp(prop, doings) /\ prop \in PropDocs /\ messed \subseteq Keys
BY ProposalsAssumption DEF PrInv, GoodDesk, GoodProp

(* A copy of the proposal closed, opened or otherwise as it was. *)
LEMMA TickBeginsKeeps ==
    ASSUME PrInv, NEW t \in TickRuns, NEW hushed \in BOOLEAN, TickBegins(t, hushed)
    PROVE  PrInv'
<1> DEFINE new == [Free EXCEPT !.pc = "list", !.task = "sync", !.quiet = hushed, !.now = day]
<1>1. /\ desk[t].pc = "idle" /\ desk' = [desk EXCEPT ![t] = new] /\ t \in Calls
      /\ UNCHANGED <<prop, doings, sent, messed, stopped, day>>
  BY DEF TickBegins, Goes, Sits, notes, UnchangedScene, Calls
<1>2. day \in 0 .. LastDay
  BY DEF PrInv
<1>3. new \in ClerkLocals /\ new.pc = "list" /\ new.copy = NewProp /\ new.task = "sync"
  BY <1>2, FreeIsGood DEF ClerkLocals, TickTasks
<1> HIDE DEF new
<1>4. GoodDesk(t, new, doings)
  BY <1>1, <1>3, OfferGoes, NewPropIsGood DEF GoodDesk, Holding
<1> QED BY <1>1, <1>4, OfferGoes, LeavesKeep DEF Holding

LEMMA SyncKeeps ==
    ASSUME PrInv, NEW t \in TickRuns, SyncLists(t) \/ SyncSaves(t)
    PROVE  PrInv'
<1>0. t \in Calls
  BY DEF Calls
<1>d. /\ desk[t] \in ClerkLocals /\ GoodDesk(t, desk[t], doings) /\ GoodProp(desk[t].copy, doings)
      /\ doings \in Nat /\ GoodProp(prop, doings) /\ prop \in PropDocs /\ messed \subseteq Keys
  BY <1>0, OfferGoes
<1>1. CASE SyncLists(t)
  <2>1. /\ desk[t].pc = "list" /\ desk[t].task = "sync" /\ (Doing \/ doings' = doings)
        /\ UNCHANGED <<prop, sent, messed, stopped, day>>
        /\ \/ Next(t)
           \/ \E status \in {"open", "closed"} :
                 Goes(t, [desk[t] EXCEPT !.pc = "sync", !.copy = [prop EXCEPT !.status = status]])
    BY <1>1 DEF SyncLists, Sits, notes, UnchangedScene
  <2>2. CASE Next(t)
    BY <1>0, <1>d, <2>1, <2>2, NextGoes, LeavesKeep DEF Holding
  <2>3. ASSUME NEW status \in {"open", "closed"},
               Goes(t, [desk[t] EXCEPT !.pc = "sync", !.copy = [prop EXCEPT !.status = status]])
        PROVE  PrInv'
    <3> DEFINE p == [prop EXCEPT !.status = status]
               new == [desk[t] EXCEPT !.pc = "sync", !.copy = p]
    <3>1. /\ p \in PropDocs /\ p.stage = prop.stage /\ p.liff = prop.liff /\ p.approval = prop.approval
          /\ p.plan = prop.plan /\ p.notices = prop.notices
      BY <1>d DEF PropDocs
    <3>2. desk' = [desk EXCEPT ![t] = new]
      BY <2>3 DEF Goes
    <3> HIDE DEF p
    <3>3. GoodProp(p, doings)
      BY <1>d, <3>1 DEF GoodProp, Waits
    <3>4. new \in ClerkLocals /\ new.pc = "sync" /\ new.copy = p /\ new.task = "sync"
      BY <1>d, <2>1, <3>1 DEF ClerkLocals
    <3> HIDE DEF new
    <3>5. GoodDesk(t, new, doings)
      BY <3>3, <3>4 DEF GoodDesk, Holding
    <3> QED BY <1>0, <1>d, <2>1, <3>2, <3>5, LeavesKeep DEF Holding
  <2> QED BY <2>1, <2>2, <2>3
<1>2. CASE SyncSaves(t)
  <2>1. /\ desk[t].pc = "sync" /\ Next(t) /\ UNCHANGED <<sent, stopped, day>>
        /\ \/ SaveCopy(desk[t].copy) /\ doings' = doings
           \/ Doing /\ UNCHANGED <<prop, messed>>
    BY <1>2 DEF SyncSaves, Sits, UnchangedScene
  <2>2. PICK new : /\ desk' = [desk EXCEPT ![t] = new] /\ GoodDesk(t, new, doings)
                   /\ new.pc \in {"idle", "list"}
    BY <1>0, <1>d, <2>1, NextGoes
  <2>3. GoodProp(prop', doings) /\ messed' \subseteq Keys /\ messed \subseteq messed'
        /\ prop.notices \subseteq prop'.notices \cup messed'
    BY <1>d, <2>1, PropFacts DEF SaveCopy
  <2> QED BY <1>0, <2>1, <2>2, <2>3, LeavesKeep DEF Holding
<1> QED BY <1>1, <1>2

LEMMA TaskListsKeeps ==
    ASSUME PrInv, NEW t \in TickRuns, TaskLists(t)
    PROVE  PrInv'
<1>0. t \in Calls
  BY DEF Calls
<1>d. /\ desk[t] \in ClerkLocals /\ GoodDesk(t, desk[t], doings) /\ GoodProp(desk[t].copy, doings)
      /\ doings \in Nat /\ GoodProp(prop, doings) /\ prop \in PropDocs /\ messed \subseteq Keys
  BY <1>0, OfferGoes
<1>1. /\ desk[t].pc = "list" /\ desk[t].task # "sync" /\ UNCHANGED <<prop, doings, sent, messed, stopped, day>>
  BY DEF TaskLists, Sits, notes, UnchangedScene
<1>2. desk[t].task \in {"alerts", "plans", "subs", "due"} /\ desk[t].now \in 0 .. LastDay
  BY <1>d, <1>1, DeskFacts DEF GoodDesk, TickTasks
<1>3. CASE Next(t)
  BY <1>0, <1>d, <1>1, <1>3, NextGoes, LeavesKeep DEF Holding
<1>4. CASE ~Next(t)
  <2> DEFINE key == KeyFor(desk[t].task, prop, desk[t].now)
             pc == IF desk[t].task = "alerts" THEN "ask" ELSE "tell"
             todo == IF desk[t].task = "alerts" THEN Supervisors ELSE {}
             new == [desk[t] EXCEPT !.pc = pc, !.copy = prop, !.key = key, !.todo = todo]
  <2>1. desk' = [desk EXCEPT ![t] = new] /\ key # NoKey
    BY <1>4 DEF TaskLists, Goes
  <2>2. KeyOK(key, doings)
    BY <1>d, <1>2, <2>1, KeyForIsGood
  <2>3. key \in Keys /\ pc \in {"ask", "tell"} /\ todo \subseteq Supervisors
    BY <2>2 DEF KeyOK
  <2> HIDE DEF key, pc, todo
  <2>4. new \in ClerkLocals /\ new.pc = pc /\ new.copy = prop /\ new.key = key /\ new.task = desk[t].task
    BY <1>d, <2>3 DEF ClerkLocals
  <2> HIDE DEF new
  <2>5. GoodDesk(t, new, doings)
    BY <1>2, <1>d, <2>2, <2>3, <2>4 DEF GoodDesk
  <2> QED BY <1>0, <1>d, <1>1, <2>1, <2>5, LeavesKeep DEF Holding
<1> QED BY <1>3, <1>4

(* The call keeps its notice. *)
LEMMA StaysAt ==
    ASSUME PrInv, NEW t \in Calls, NEW pc \in Holding, NEW rest \in SUBSET Supervisors,
           desk[t].pc \in Holding \cup {"tell"}
    PROVE  /\ GoodDesk(t, [desk[t] EXCEPT !.todo = rest, !.pc = pc], doings)
           /\ [desk[t] EXCEPT !.todo = rest, !.pc = pc].pc = pc
           /\ [desk[t] EXCEPT !.todo = rest, !.pc = pc].key = desk[t].key
<1> DEFINE new == [desk[t] EXCEPT !.todo = rest, !.pc = pc]
<1>1. desk[t] \in ClerkLocals /\ GoodDesk(t, desk[t], doings)
  BY OfferGoes
<1>2. /\ new \in ClerkLocals /\ new.pc = pc /\ new.key = desk[t].key /\ new.copy = desk[t].copy
      /\ new.task = desk[t].task
  BY <1>1 DEF ClerkLocals, Holding
<1> HIDE DEF new
<1>3. GoodDesk(t, new, doings)
  BY <1>1, <1>2 DEF GoodDesk, Holding
<1> QED BY <1>2, <1>3 DEF new

LEMMA AskKeeps ==
    ASSUME PrInv, NEW t \in TickRuns, Ask(t) \/ Warn(t)
    PROVE  PrInv'
<1>0. t \in Calls
  BY DEF Calls
<1>d. /\ desk[t] \in ClerkLocals /\ GoodDesk(t, desk[t], doings) /\ desk[t].todo \subseteq Supervisors
      /\ doings \in Nat /\ GoodProp(prop, doings) /\ prop \in PropDocs /\ messed \subseteq Keys
  BY <1>0, OfferGoes, DeskFacts
<1>1. CASE Ask(t)
  <2>1. PICK m \in desk[t].todo :
        /\ Sits(t, "ask")
        /\ \/ /\ sent' = sent \cup {desk[t].key}
              /\ Asking(t, desk[t].todo \ {m})
              /\ UNCHANGED doings
           \/ /\ Doing \/ doings' = doings
              /\ sent' \in {sent, sent \cup {desk[t].key}}
              /\ Goes(t, [desk[t] EXCEPT !.pc = "warn", !.todo = @ \ {m}])
        /\ UNCHANGED <<prop, messed, stopped, day>>
    BY <1>1 DEF Ask, UnchangedScene
  <2> DEFINE rest == desk[t].todo \ {m}
  <2>2. PICK pc \in Holding : desk' = [desk EXCEPT ![t] = [desk[t] EXCEPT !.todo = rest, !.pc = pc]]
    <3>1. CASE Asking(t, rest)
      <4>1. desk' = [desk EXCEPT ![t] = [desk[t] EXCEPT !.todo = rest, !.pc = IF rest = {} THEN "note" ELSE "ask"]]
        BY <3>1 DEF Asking, Goes
      <4>2. (IF rest = {} THEN "note" ELSE "ask") \in Holding
        BY DEF Holding
      <4> QED BY <4>1, <4>2
    <3>2. CASE Goes(t, [desk[t] EXCEPT !.pc = "warn", !.todo = @ \ {m}])
      <4>1. [desk[t] EXCEPT !.pc = "warn", !.todo = @ \ {m}] = [desk[t] EXCEPT !.todo = rest, !.pc = "warn"]
        BY <1>d DEF ClerkLocals
      <4> QED BY <3>2, <4>1 DEF Goes, Holding
    <3> QED BY <2>1, <3>1, <3>2
  <2> DEFINE new == [desk[t] EXCEPT !.todo = rest, !.pc = pc]
  <2>3. GoodDesk(t, new, doings) /\ new.pc = pc /\ new.key = desk[t].key /\ desk' = [desk EXCEPT ![t] = new]
    <3>1. rest \in SUBSET Supervisors /\ desk[t].pc \in Holding \cup {"tell"}
      BY <1>d, <2>1 DEF Sits, Holding
    <3> HIDE DEF rest
    <3> QED BY <1>0, <2>2, <3>1, StaysAt
  <2> HIDE DEF new
  <2>4. desk[t].pc = "ask" /\ (sent' = sent \/ sent' = sent \cup {new.key})
    BY <2>1, <2>3 DEF Sits
  <2> QED BY <1>0, <1>d, <2>1, <2>3, <2>4, LeavesKeep
<1>2. CASE Warn(t)
  <2>1. /\ desk[t].pc = "warn" /\ UNCHANGED <<prop, sent, stopped, day>>
        /\ \/ Asking(t, desk[t].todo) /\ UNCHANGED <<doings, messed>>
           \/ Breaks(t) /\ Doing /\ messed' = messed \cup {desk[t].key}
    BY <1>2 DEF Warn, Sits, UnchangedScene
  <2>2. CASE Asking(t, desk[t].todo) /\ UNCHANGED <<doings, messed>>
    <3> DEFINE pc == IF desk[t].todo = {} THEN "note" ELSE "ask"
               new == [desk[t] EXCEPT !.todo = desk[t].todo, !.pc = pc]
    <3>1. desk' = [desk EXCEPT ![t] = new]
      BY <2>2 DEF Asking, Goes
    <3>2. pc \in Holding
      BY DEF Holding
    <3> HIDE DEF pc
    <3>3. GoodDesk(t, new, doings) /\ new.pc = pc /\ new.key = desk[t].key
      <4>1. desk[t].todo \in SUBSET Supervisors /\ desk[t].pc \in Holding \cup {"tell"}
        BY <1>d, <2>1 DEF Holding
      <4> QED BY <1>0, <3>2, <4>1, StaysAt
    <3> HIDE DEF new
    <3> QED BY <1>0, <1>d, <2>1, <2>2, <3>1, <3>2, <3>3, LeavesKeep
  <2>3. CASE Breaks(t) /\ Doing /\ messed' = messed \cup {desk[t].key}
    <3>1. KeyOK(desk[t].key, doings)
      BY <1>d, <2>1 DEF GoodDesk, Holding
    <3>2. messed' \subseteq Keys
      BY <1>d, <2>3, <3>1 DEF KeyOK
    <3>3. PICK new : /\ desk' = [desk EXCEPT ![t] = new] /\ GoodDesk(t, new, doings)
                     /\ new.pc \in {"idle", "list"}
      BY <1>0, <1>d, <2>1, <2>3, BreaksGoes
    <3> QED BY <1>0, <1>d, <2>1, <2>3, <3>2, <3>3, LeavesKeep
  <2> QED BY <2>1, <2>2, <2>3
<1> QED BY <1>1, <1>2

LEMMA TellKeeps ==
    ASSUME PrInv, NEW c \in Calls, TellLater(c) \/ Tell(c) \/ TellFails(c)
    PROVE  PrInv'
<1>d. /\ desk[c] \in ClerkLocals /\ GoodDesk(c, desk[c], doings) /\ desk[c].todo \subseteq Supervisors
      /\ doings \in Nat /\ GoodProp(prop, doings) /\ prop \in PropDocs /\ messed \subseteq Keys
  BY OfferGoes, DeskFacts
<1>1. desk[c].pc = "tell" /\ prop' = prop /\ UNCHANGED <<stopped, day>>
  BY DEF TellLater, Tell, TellFails, Sits, UnchangedScene
<1>2. CASE TellLater(c)
  <2>1. Next(c) /\ UNCHANGED <<doings, sent, messed>>
    BY <1>2 DEF TellLater, notes
  <2>2. PICK new : /\ desk' = [desk EXCEPT ![c] = new] /\ GoodDesk(c, new, doings)
                   /\ new.pc \in {"idle", "list"}
    BY <1>d, <1>1, <2>1, NextGoes
  <2> QED BY <1>d, <1>1, <2>1, <2>2, LeavesKeep DEF Holding
<1>3. CASE Tell(c)
  <2> DEFINE new == [desk[c] EXCEPT !.pc = "note"]
  <2>1. /\ desk' = [desk EXCEPT ![c] = new] /\ messed' = messed /\ (Doing \/ doings' = doings)
        /\ sent' \in {sent, sent \cup {desk[c].key}}
    BY <1>3 DEF Tell, Goes
  <2>2. /\ new \in ClerkLocals /\ new.pc = "note" /\ new.key = desk[c].key /\ new.copy = desk[c].copy
        /\ new.task = desk[c].task
    BY <1>d DEF ClerkLocals
  <2> HIDE DEF new
  <2>3. GoodDesk(c, new, doings)
    BY <1>d, <1>1, <2>2 DEF GoodDesk, Holding
  <2>4. sent' = sent \/ (sent' = sent \cup {new.key} /\ new.pc \in Holding)
    BY <2>1, <2>2 DEF Holding
  <2> QED BY <1>d, <1>1, <2>1, <2>3, <2>4, LeavesKeep DEF Holding
<1>4. CASE TellFails(c)
  <2>1. /\ Breaks(c) /\ Doing /\ messed' = messed \cup {desk[c].key}
        /\ sent' \in {sent, sent \cup {desk[c].key}}
    BY <1>4 DEF TellFails
  <2>2. PICK new : /\ desk' = [desk EXCEPT ![c] = new] /\ GoodDesk(c, new, doings)
                   /\ new.pc \in {"idle", "list"}
    BY <1>d, <1>1, <2>1, BreaksGoes
  <2>3. messed' \subseteq Keys
    BY <1>d, <1>1, <2>1 DEF GoodDesk, Holding, KeyOK
  <2> QED BY <1>d, <1>1, <2>1, <2>2, <2>3, LeavesKeep DEF Holding
<1> QED BY <1>2, <1>3, <1>4

LEMMA NoteKeeps ==
    ASSUME PrInv, NEW c \in Calls, Note(c)
    PROVE  PrInv'
<1>d. /\ desk[c] \in ClerkLocals /\ GoodDesk(c, desk[c], doings) /\ GoodProp(desk[c].copy, doings)
      /\ doings \in Nat /\ GoodProp(prop, doings) /\ prop \in PropDocs /\ messed \subseteq Keys
      /\ desk[c].copy \in PropDocs
  BY OfferGoes, DeskFacts
<1> DEFINE copy == desk[c].copy
           p == [copy EXCEPT !.notices = copy.notices \cup {desk[c].key}]
<1>1. /\ desk[c].pc = "note" /\ Next(c) /\ prop' = p /\ messed' = messed \cup (prop.notices \ p.notices)
      /\ UNCHANGED <<doings, sent, stopped, day>>
  BY DEF Note, Sits, SaveCopy, UnchangedScene
<1>2. KeyOK(desk[c].key, doings)
  BY <1>d, <1>1 DEF GoodDesk, Holding
<1>3. copy.notices \cup {desk[c].key} \in SUBSET Keys
  BY <1>d, <1>2, PropFacts DEF KeyOK
<1>4. /\ p \in PropDocs /\ p.stage = copy.stage /\ p.liff = copy.liff /\ p.approval = copy.approval
      /\ p.plan = copy.plan /\ p.notices = copy.notices \cup {desk[c].key}
  BY <1>d, <1>3 DEF PropDocs
<1> HIDE DEF p
<1>5. GoodProp(p, doings)
  BY <1>d, <1>2, <1>4 DEF GoodProp, Waits
<1>6. messed' \subseteq Keys /\ messed \subseteq messed' /\ prop.notices \subseteq prop'.notices \cup messed'
      /\ desk[c].key \in prop'.notices
  BY <1>d, <1>1, <1>4, PropFacts
<1>7. PICK new : /\ desk' = [desk EXCEPT ![c] = new] /\ GoodDesk(c, new, doings)
                 /\ new.pc \in {"idle", "list"}
  BY <1>d, <1>1, NextGoes
<1> QED BY <1>d, <1>1, <1>5, <1>6, <1>7, LeavesKeep

LEMMA DiesKeeps ==
    ASSUME PrInv, NEW c \in Calls, Dies(c)
    PROVE  PrInv'
<1>d. /\ desk[c] \in ClerkLocals /\ GoodDesk(c, desk[c], doings) /\ desk[c].key \in Keys \cup {NoKey}
      /\ doings \in Nat /\ GoodProp(prop, doings) /\ messed \subseteq Keys
  BY OfferGoes, DeskFacts
<1>1. /\ Doing /\ desk' = [desk EXCEPT ![c] = Free] /\ messed' = messed \cup ({desk[c].key} \ {NoKey})
      /\ UNCHANGED <<prop, sent, stopped, day>>
  BY DEF Dies, Goes, UnchangedScene
<1>2. desk[c].pc \in Holding => desk[c].key \in messed'
  BY <1>d, <1>1, KeyFacts DEF GoodDesk, KeyOK
<1>3. messed' \subseteq Keys /\ messed \subseteq messed' /\ GoodDesk(c, Free, doings)
  BY <1>d, <1>1, FreeIsGood
<1> QED BY <1>d, <1>1, <1>2, <1>3, LeavesKeep

LEMMA PrInvStep == PrInv /\ [PrNext]_ledgervars => PrInv'
<1> SUFFICES ASSUME PrInv, [PrNext]_ledgervars PROVE PrInv'
  OBVIOUS
<1>1. CASE UNCHANGED ledgervars
  BY <1>1 DEF ledgervars, notes, PrInv, SentIsAccountedFor
<1>2. ASSUME NEW c \in Calls, GoesOn(c) \/ Dies(c) PROVE PrInv'
  BY <1>2, SyncKeeps, TaskListsKeeps, AskKeeps, TellKeeps, NoteKeeps, DiesKeeps DEF GoesOn
<1>3. CASE PrNext
  BY <1>2, <1>3, CommitteeKeeps, ReviewKeeps, OfficeEditsKeep, TickBeginsKeeps, WorldKeeps DEF PrNext
<1> QED BY <1>1, <1>3
-----------------------------------------------------------------------------
LEMMA KeyForIsNew ==
    ASSUME NEW p, NEW now, NEW task \in {"alerts", "plans", "subs", "due"}
    PROVE  KeyFor(task, p, now) = NoKey \/ KeyFor(task, p, now) \notin p.notices
<1>1. \A k : UnlessNoted(p, k) = NoKey \/ UnlessNoted(p, k) \notin p.notices
  BY DEF UnlessNoted
<1>2. /\ OverdueKey(p, now) = NoKey \/ OverdueKey(p, now) \notin p.notices
      /\ PlanKey(p) = NoKey \/ PlanKey(p) \notin p.notices
      /\ SubmitKey(p) = NoKey \/ SubmitKey(p) \notin p.notices
      /\ DeadlineKey(p, now) = NoKey \/ DeadlineKey(p, now) \notin p.notices
  BY <1>1 DEF OverdueKey, PlanKey, SubmitKey, DeadlineKey
<1> QED BY <1>2 DEF KeyFor

(* Call d goes on without a new notice. *)
Plain(d) == \E new : desk' = [desk EXCEPT ![d] = new] /\ new.key \in {desk[d].key, NoKey}

LEMMA NextIsPlain == ASSUME NEW c \in Calls, Next(c) \/ Breaks(c) PROVE Plain(c)
<1>1. Free.key = NoKey
  BY DEF Free
<1>2. CASE Goes(c, Free)
  BY <1>1, <1>2 DEF Goes, Plain
<1>3. CASE Goes(c, [Free EXCEPT !.pc = "list", !.task = After[desk[c].task],
                                !.quiet = desk[c].quiet, !.now = desk[c].now])
  <2> DEFINE new == [Free EXCEPT !.pc = "list", !.task = After[desk[c].task],
                                 !.quiet = desk[c].quiet, !.now = desk[c].now]
  <2>1. new.key = NoKey
    BY DEF Free
  <2>2. desk' = [desk EXCEPT ![c] = new]
    BY <1>3 DEF Goes
  <2> QED BY <2>1, <2>2 DEF Plain
<1> QED BY <1>2, <1>3 DEF Next, Breaks

LEMMA OthersArePlain ==
    ASSUME PrInv, NEW d \in Calls,
           \/ ReviewBegins(d) \/ ReviewEnds(d) \/ \E hushed \in BOOLEAN : TickBegins(d, hushed)
           \/ TellLater(d) \/ Tell(d) \/ TellFails(d) \/ Note(d) \/ Dies(d)
           \/ SyncLists(d) \/ SyncSaves(d) \/ Ask(d) \/ Warn(d)
    PROVE  Plain(d)
<1>0. desk[d] \in ClerkLocals /\ Free.key = NoKey
  BY OfferGoes DEF Free
<1>1. CASE \/ ReviewEnds(d) \/ TellLater(d) \/ TellFails(d) \/ Note(d) \/ Dies(d) \/ SyncSaves(d)
  <2>1. Next(d) \/ Breaks(d) \/ Goes(d, Free)
    BY <1>1 DEF ReviewEnds, TellLater, TellFails, Note, Dies, SyncSaves
  <2> QED BY <1>0, <2>1, NextIsPlain DEF Goes, Plain
<1>2. CASE ReviewBegins(d)
  <2> DEFINE new == [Free EXCEPT !.pc = "review", !.copy = prop]
  <2>1. new.key = NoKey /\ desk' = [desk EXCEPT ![d] = new]
    BY <1>2 DEF ReviewBegins, Goes, Free
  <2> QED BY <2>1 DEF Plain
<1>3. ASSUME NEW hushed \in BOOLEAN, TickBegins(d, hushed) PROVE Plain(d)
  <2> DEFINE new == [Free EXCEPT !.pc = "list", !.task = "sync", !.quiet = hushed, !.now = day]
  <2>1. new.key = NoKey /\ desk' = [desk EXCEPT ![d] = new]
    BY <1>3 DEF TickBegins, Goes, Free
  <2> QED BY <2>1 DEF Plain
<1>4. CASE Tell(d)
  <2> DEFINE new == [desk[d] EXCEPT !.pc = "note"]
  <2>1. new.key = desk[d].key /\ desk' = [desk EXCEPT ![d] = new]
    BY <1>0, <1>4 DEF Tell, Goes, ClerkLocals
  <2> QED BY <2>1 DEF Plain
<1>5. CASE SyncLists(d)
  <2>1. CASE Next(d)
    BY <2>1, NextIsPlain
  <2>2. CASE ~Next(d)
    <3>1. PICK status \in {"open", "closed"} :
            Goes(d, [desk[d] EXCEPT !.pc = "sync", !.copy = [prop EXCEPT !.status = status]])
      BY <1>5, <2>2 DEF SyncLists
    <3> DEFINE p == [prop EXCEPT !.status = status]
               new == [desk[d] EXCEPT !.pc = "sync", !.copy = p]
    <3>2. desk' = [desk EXCEPT ![d] = new]
      BY <3>1 DEF Goes
    <3> HIDE DEF p
    <3>3. new.key = desk[d].key
      BY <1>0 DEF ClerkLocals
    <3> QED BY <3>2, <3>3 DEF Plain
  <2> QED BY <2>1, <2>2
<1>6. ASSUME NEW rest, Asking(d, rest) PROVE Plain(d)
  <2> DEFINE new == [desk[d] EXCEPT !.todo = rest, !.pc = IF rest = {} THEN "note" ELSE "ask"]
  <2>1. new.key = desk[d].key /\ desk' = [desk EXCEPT ![d] = new]
    BY <1>0, <1>6 DEF Asking, Goes, ClerkLocals
  <2> QED BY <2>1 DEF Plain
<1>7. ASSUME NEW m, Goes(d, [desk[d] EXCEPT !.pc = "warn", !.todo = @ \ {m}]) PROVE Plain(d)
  <2> DEFINE new == [desk[d] EXCEPT !.pc = "warn", !.todo = @ \ {m}]
  <2>1. new.key = desk[d].key /\ desk' = [desk EXCEPT ![d] = new]
    BY <1>0, <1>7 DEF Goes, ClerkLocals
  <2> QED BY <2>1 DEF Plain
<1>8. CASE Ask(d)
  <2>1. PICK m : Asking(d, desk[d].todo \ {m}) \/ Goes(d, [desk[d] EXCEPT !.pc = "warn", !.todo = @ \ {m}])
    BY <1>8 DEF Ask
  <2> QED BY <2>1, <1>6, <1>7
<1>9. CASE Warn(d)
  BY <1>6, <1>9, NextIsPlain DEF Warn
<1> QED BY <1>1, <1>2, <1>3, <1>4, <1>5, <1>8, <1>9

(* What a call takes up is not recorded. *)
LEMMA TakenUpIsNew ==
    ASSUME PrInv, PrNext, NEW c \in Calls, desk[c].key = NoKey, desk'[c].key # NoKey
    PROVE  desk'[c].key \notin prop.notices
<1>0. desk \in [Calls -> ClerkLocals] /\ Clerks \subseteq Calls /\ TickRuns \subseteq Calls
  BY DEF PrInv, Calls
<1>2. \A d \in Calls : ~Plain(d)
  <2> SUFFICES ASSUME NEW d \in Calls, Plain(d) PROVE FALSE
    OBVIOUS
  <2>1. PICK new : desk' = [desk EXCEPT ![d] = new] /\ new.key \in {desk[d].key, NoKey}
    BY DEF Plain
  <2>2. desk'[c] = IF c = d THEN new ELSE desk[c]
    BY <1>0, <2>1
  <2> QED BY <2>1, <2>2
<1>3. desk' # desk
  OBVIOUS
<1>4. \/ \E d \in Clerks : ProposalSubmit(d) \/ AnswerPlan(d)
      \/ \E d \in TickRuns : TaskLists(d)
  <2>1. ~(ProposalWithdraw \/ SetDeadline \/ Approve \/ Return \/ SetStage \/ Switch \/ DayEnds)
    BY <1>3 DEF ProposalWithdraw, SetDeadline, Approve, Return, SetStage, Edits, Switch, DayEnds
  <2>2. \A d \in Calls : ~(\/ ReviewBegins(d) \/ ReviewEnds(d) \/ \E hushed \in BOOLEAN : TickBegins(d, hushed)
           \/ TellLater(d) \/ Tell(d) \/ TellFails(d) \/ Note(d) \/ Dies(d)
           \/ SyncLists(d) \/ SyncSaves(d) \/ Ask(d) \/ Warn(d))
    BY <1>2, OthersArePlain
  <2> QED BY <1>0, <2>1, <2>2 DEF PrNext, GoesOn
<1>5. ASSUME NEW d \in Clerks, NEW p, NEW task \in {"subs", "plans"}, SaveAndTell(d, p, task),
             p.notices = prop.notices
      PROVE  desk'[c].key \notin prop.notices
  <2>1. PICK hushed \in BOOLEAN :
          Goes(d, [Free EXCEPT !.pc = "tell", !.task = task, !.copy = p, !.quiet = hushed,
                               !.now = day, !.key = KeyFor(task, p, day)])
    BY <1>5 DEF SaveAndTell
  <2> DEFINE key == KeyFor(task, p, day)
             new == [Free EXCEPT !.pc = "tell", !.task = task, !.copy = p, !.quiet = hushed,
                                 !.now = day, !.key = key]
  <2>2. desk' = [desk EXCEPT ![d] = new]
    BY <2>1 DEF Goes
  <2>3. key = NoKey \/ key \notin p.notices
    BY KeyForIsNew
  <2> HIDE DEF key
  <2>4. new.key = key
    BY DEF Free
  <2> HIDE DEF new
  <2>5. desk'[c] = IF c = d THEN new ELSE desk[c]
    BY <1>0, <2>2
  <2> QED BY <1>5, <2>3, <2>4, <2>5
<1>6. prop \in PropDocs
  BY DEF PrInv, GoodProp
<1>7. ASSUME NEW d \in Clerks, ProposalSubmit(d) PROVE desk'[c].key \notin prop.notices
  <2> DEFINE p == [prop EXCEPT !.stage = "submitted", !.liff = doings + 1,
                       !.approval = IF @ = "returned" THEN "pending" ELSE @]
  <2>1. p.notices = prop.notices /\ SaveAndTell(d, p, "subs")
    BY <1>6, <1>7 DEF ProposalSubmit, PropDocs
  <2> HIDE DEF p
  <2> QED BY <1>5, <2>1
<1>8. ASSUME NEW d \in Clerks, AnswerPlan(d) PROVE desk'[c].key \notin prop.notices
  <2>1. PICK date : SaveAndTell(d, [prop EXCEPT !.plan = [id |-> doings + 1, date |-> date]], "plans")
    BY <1>8 DEF AnswerPlan
  <2> DEFINE p == [prop EXCEPT !.plan = [id |-> doings + 1, date |-> date]]
  <2>2. p.notices = prop.notices /\ SaveAndTell(d, p, "plans")
    BY <1>6, <2>1 DEF PropDocs
  <2> HIDE DEF p
  <2> QED BY <1>5, <2>2
<1>9. ASSUME NEW d \in TickRuns, TaskLists(d) PROVE desk'[c].key \notin prop.notices
  <2> DEFINE key == KeyFor(desk[d].task, prop, desk[d].now)
             pc == IF desk[d].task = "alerts" THEN "ask" ELSE "tell"
             todo == IF desk[d].task = "alerts" THEN Supervisors ELSE {}
             new == [desk[d] EXCEPT !.pc = pc, !.copy = prop, !.key = key, !.todo = todo]
  <2>1. ~Next(d) /\ d \in Calls
    BY <1>0, <1>2, NextIsPlain
  <2>2. desk' = [desk EXCEPT ![d] = new] /\ desk[d].task # "sync" /\ desk[d].pc = "list"
    BY <1>9, <2>1 DEF TaskLists, Goes, Sits
  <2>3. desk[d] \in ClerkLocals /\ desk[d].task \in {"alerts", "plans", "subs", "due"}
    BY <2>1, <2>2, OfferGoes, DeskFacts DEF GoodDesk, TickTasks
  <2>4. key = NoKey \/ key \notin prop.notices
    BY <2>3, KeyForIsNew
  <2> HIDE DEF key, pc, todo
  <2>5. new.key = key
    BY <2>3 DEF ClerkLocals
  <2> HIDE DEF new
  <2>6. desk'[c] = IF c = d THEN new ELSE desk[c]
    BY <1>0, <2>2
  <2> QED BY <2>4, <2>5, <2>6
<1> QED BY <1>4, <1>7, <1>8, <1>9

LEMMA TakenUpStep ==
    PrInv /\ [PrNext]_ledgervars => [\A c \in Calls :
        LET key == desk'[c].key IN
        (desk[c].key = NoKey /\ key \in sent) =>
            key \in messed \/ \E d \in Calls \ {c} : desk[d].key = key]_ledgervars
<1> SUFFICES ASSUME PrInv, PrNext, NEW c \in Calls, desk[c].key = NoKey, desk'[c].key \in sent
             PROVE  desk'[c].key \in messed \/ \E d \in Calls \ {c} : desk[d].key = desk'[c].key
  OBVIOUS
<1>1. desk'[c].key # NoKey
  BY KeyFacts DEF PrInv
<1>2. desk'[c].key \notin prop.notices
  BY <1>1, TakenUpIsNew
<1> QED BY <1>1, <1>2 DEF PrInv, SentIsAccountedFor

LEMMA PrInvHolds == PrSpec => []PrInv
BY InitPrInv, PrInvStep, PTL DEF PrSpec

(* A proposal the committee submits waits for a new answer, and no notice that   *)
(* was recorded is taken up again, for any number of overlapping calls and ticks *)
(* that save the copies they read (proposal_submit.py, proposal_sync.py).        *)
THEOREM ProposalsHold == PrSpec => []ReturnedWaitsAgain /\ NoticesAreTakenUpOnce
<1>1. PrInv => ReturnedWaitsAgain
  BY DEF PrInv, GoodProp, Waits, ReturnedWaitsAgain
<1>2. PrSpec => NoticesAreTakenUpOnce
  BY PrInvHolds, TakenUpStep, PTL DEF PrSpec, NoticesAreTakenUpOnce
<1> QED BY PrInvHolds, <1>1, <1>2, PTL

(* The documents of the ledger and the locals of its calls are well formed.       *)
THEOREM ProposalTypes == PrSpec => []PrTypeOK
BY PrInvHolds, PrInvTypes, PTL

(* The ledger holds: a plan has one row, a submission waits for an answer of its  *)
(* own and no notice that was recorded is taken up again, for any number of calls *)
(* of the chat, clerks and ticks, as long as one sync of the folder runs at a     *)
(* time (Cloud Scheduler starts it hourly).                                       *)
THEOREM LedgerTheorem == ASSUME OneSync PROVE LgSpec /\ PrSpec => LedgerHolds
<1>1. LgSpec => []OneRowPerFile
  BY OneRowHolds, PTL
<1> QED BY <1>1, ProposalsHold, PTL DEF LedgerHolds
-----------------------------------------------------------------------------
(* The work on a document.                                                   *)
-----------------------------------------------------------------------------
PaperAt(s) == sessions[s].paper
Works(c, o) == call[c].op = o /\ call[c].pc \in {"look", "write", "save"}
Used(o) == edits[o].status # "none"
OpenedAt(s) == s \in SessionIds /\ sessions[s].status # "none"

(* A proposal as it was read is the proposal there is, but for its status. *)
SameEdit(e, f) ==
    /\ e.session = f.session /\ e.kind = f.kind /\ e.of = f.of /\ e.rev = f.rev
    /\ e.base = f.base /\ e.after = f.after

(* A text read at revision rev is the text of the paper if the paper is still at  *)
(* that revision.                                                                 *)
IsTextAt(d, rev, text) == rev <= paper[d].rev /\ (rev = paper[d].rev => paper[d].text = text)

(* Calls are about sessions and proposals there are; a text belongs to its         *)
(* revision.                                                                       *)
CallFits(c) ==
    /\ call[c].pc # "idle" =>
         /\ OpenedAt(call[c].s)
         /\ call[c].copy.status # "none" /\ call[c].copy.paper = PaperAt(call[c].s)
    /\ call[c].pc \in {"claim", "look", "write", "save", "restore"} =>
         /\ call[c].op \in OpIds /\ Used(call[c].op) /\ SameEdit(call[c].edit, edits[call[c].op])
         /\ call[c].s = edits[call[c].op].session
         /\ call[c].edit.before = NoText <=> call[c].pc # "restore"
    /\ call[c].pc \in {"draft", "withdraw"} => IsTextAt(call[c].copy.paper, call[c].rev, call[c].text)
    /\ call[c].pc = "withdraw" => \A l \in call[c].listed : Used(l)
    /\ call[c].pc \in {"write", "save"} => call[c].text = call[c].edit.base

EditFits(o) == Used(o) =>
    /\ OpenedAt(edits[o].session)
    /\ IsTextAt(PaperAt(edits[o].session), edits[o].rev, edits[o].base)
    /\ written[o] > 0 => edits[o].rev < paper[PaperAt(edits[o].session)].rev
    /\ edits[o].kind = "revert" => edits[o].of \in OpIds /\ Used(edits[o].of)

(* Nobody has written, or is writing, what is still proposed or was refused. *)
Undecided(o) ==
    /\ written[o] <= 1
    /\ edits[o].status \in {"none", "proposed"} =>
         written[o] = 0 /\ edits[o].before = NoText /\ \A c \in ChatCalls : ~Works(c, o)
    /\ o \in refused => edits[o].status \notin {"none", "proposed"} /\ written[o] = 0 /\ ~AtWork(o)

IsWritten(o) == edits[o].status \in {"applied", "reverted"}
Restores(o) == \E c \in ChatCalls : call[c].pc = "restore" /\ call[c].op = o
HasRevert(o) == \E r \in OpIds : Used(r) /\ edits[r].kind = "revert" /\ edits[r].of = o

(* What the record of a proposal says while a call writes it, and then. *)
RecordOf(o) ==
    /\ \A c, d \in ChatCalls : Works(c, o) /\ Works(d, o) => c = d
    /\ \A c \in ChatCalls : Works(c, o) =>
         /\ edits[o].status = "applied" /\ edits[o].before = NoText
         /\ written[o] = IF call[c].pc = "save" THEN 1 ELSE 0
    /\ (\A c \in ChatCalls : ~Works(c, o)) =>
         /\ IsWritten(o) <=> written[o] = 1
         /\ written[o] = 1 => edits[o].before = edits[o].base
    /\ Restores(o) \/ HasRevert(o) => written[o] = 1 /\ \A c \in ChatCalls : ~Works(c, o)

OpHolds(o) == Undecided(o) /\ (o \notin botched => RecordOf(o))

PaperInv == /\ \A c \in ChatCalls : CallFits(c)
            /\ \A o \in OpIds : EditFits(o) /\ OpHolds(o)

(* The chat points to a session there is, and to the work unless it has strayed; *)
(* who read the session of the work read it active.                               *)
ChatPoints ==
    /\ chat.mode = "doc" => OpenedAt(chat.session)
    /\ current # 0 =>
         /\ current \in SessionIds /\ sessions[current].status = "active"
         /\ strayed \/ chat = [mode |-> "doc", session |-> current, expires |-> until]
         /\ \A c \in ChatCalls : call[c].pc # "idle" /\ call[c].s = current => call[c].copy.status = "active"

DsInv == DsTypeOK /\ PaperInv /\ ChatPoints
-----------------------------------------------------------------------------
(* What every step keeps: sessions and proposals stay what they are but for their *)
(* status, a paper that changes has a new revision, and a proposal is written     *)
(* over the revision it was made from.                                            *)
SessionsStay == \A s \in SessionIds : sessions[s].status # "none" =>
    sessions'[s].status # "none" /\ sessions'[s].paper = sessions[s].paper
EditsStay == \A o \in OpIds : Used(o) => edits'[o].status # "none" /\ SameEdit(edits'[o], edits[o])
RevisionsGrow == \A d \in Papers : paper'[d] = paper[d] \/ paper'[d].rev > paper[d].rev
WritesAreNew == \A o \in OpIds : Used(o) /\ written'[o] > 0 =>
    written[o] > 0 \/ edits[o].rev < paper'[PaperAt(edits[o].session)].rev
Keeps == SessionsStay /\ EditsStay /\ RevisionsGrow /\ WritesAreNew

LEMMA NumbersOfTexts ==
    /\ Cardinality(OpIds) \in Nat /\ OpIds \subseteq Nat \ {0} /\ OpIds \subseteq Texts
    /\ 0 \in Texts /\ \A n \in Nat : -n \in Texts
    /\ SessionIds \subseteq Nat \ {0} /\ NoText \in Int
    /\ TTL \in Nat /\ MaxHour \in Nat /\ \A h \in 0 .. MaxHour : h + TTL \in 0 .. MaxHour + TTL
<1>1. Cardinality(OpIds) \in Nat
  BY DocSessionAssumption, FS_CardinalityType
<1>2. OpIds \subseteq Nat \ {0}
  BY <1>1, DocSessionAssumption
<1> QED BY <1>1, <1>2, DocSessionAssumption DEF Texts, NoText

LEMMA DocsAreTyped ==
    /\ NoSession \in SessionDocs /\ NoSession.status = "none"
    /\ NoEdit \in EditDocs /\ NoEdit.status = "none" /\ NoEdit.before = NoText
    /\ AtEase \in ChatLocals /\ AtEase.pc = "idle" /\ AtEase.op = 0 /\ AtEase.s = 0
<1>1. NoSession \in SessionDocs /\ NoSession.status = "none"
  BY DEF NoSession, SessionDocs
<1>2. 0 \in 0 .. MaxHour + TTL /\ 0 \in 0 .. MaxHour
  BY NumbersOfTexts
<1>3. NoEdit \in EditDocs /\ NoEdit.status = "none" /\ NoEdit.before = NoText
  BY <1>2, NumbersOfTexts DEF NoEdit, EditDocs
<1>4. AtEase \in ChatLocals /\ AtEase.pc = "idle" /\ AtEase.op = 0 /\ AtEase.s = 0
  BY <1>1, <1>2, <1>3, NumbersOfTexts DEF AtEase, ChatLocals, Steps
<1> QED BY <1>1, <1>3, <1>4

LEMMA FieldsOfDocs ==
    /\ \A s \in SessionDocs : s.paper \in Papers \cup {Nowhere} /\ s.status \in {"none", "active", "closed"}
    /\ \A e \in EditDocs :
         /\ e.session \in SessionIds \cup {0} /\ e.of \in OpIds \cup {0} /\ e.rev \in Nat
         /\ e.base \in Texts /\ e.after \in Texts /\ e.before \in Texts \cup {NoText}
         /\ e.expires \in 0 .. MaxHour + TTL
    /\ \A w \in ChatLocals :
         /\ w.pc \in Steps /\ w.s \in SessionIds \cup {0} /\ w.copy \in SessionDocs
         /\ w.op \in OpIds \cup {0} /\ w.edit \in EditDocs /\ w.listed \subseteq OpIds
         /\ w.rev \in Nat /\ w.text \in Texts /\ w.now \in 0 .. MaxHour
<1>1. \A s \in SessionDocs : s.paper \in Papers \cup {Nowhere} /\ s.status \in {"none", "active", "closed"}
  BY DEF SessionDocs
<1>2. \A e \in EditDocs :
         /\ e.session \in SessionIds \cup {0} /\ e.of \in OpIds \cup {0} /\ e.rev \in Nat
         /\ e.base \in Texts /\ e.after \in Texts /\ e.before \in Texts \cup {NoText}
         /\ e.expires \in 0 .. MaxHour + TTL
  BY DEF EditDocs
<1>3. \A w \in ChatLocals :
         /\ w.pc \in Steps /\ w.s \in SessionIds \cup {0} /\ w.copy \in SessionDocs
         /\ w.op \in OpIds \cup {0} /\ w.edit \in EditDocs /\ w.listed \subseteq OpIds
         /\ w.rev \in Nat /\ w.text \in Texts /\ w.now \in 0 .. MaxHour
  BY DEF ChatLocals
<1> QED BY <1>1, <1>2, <1>3

LEMMA PaperFields ==
    ASSUME DsInv
    PROVE  /\ \A d \in Papers : paper[d].rev \in Nat /\ paper[d].text \in Texts
           /\ \A s \in SessionIds : sessions[s] \in SessionDocs
           /\ \A o \in OpIds : edits[o] \in EditDocs /\ written[o] \in Nat
           /\ \A c \in ChatCalls : call[c] \in ChatLocals
           /\ \A s : OpenedAt(s) => s \in SessionIds /\ PaperAt(s) \in Papers
           /\ \A o \in OpIds : Used(o) => edits[o].session \in SessionIds
           /\ 0 \notin SessionIds /\ hour \in 0 .. MaxHour
BY NumbersOfTexts DEF DsInv, DsTypeOK, OpenedAt, PaperAt, Used

(* A call that stays where it is, and a proposal that was made, still fit.        *)
LEMMA CallFitsStays ==
    ASSUME DsInv, Keeps, \A d \in Papers : paper'[d].rev \in Nat,
           NEW c \in ChatCalls, call'[c] = call[c]
    PROVE  CallFits(c)'
<1>1. CallFits(c) /\ call[c] \in ChatLocals
  BY PaperFields DEF DsInv, PaperInv
<1>2. call[c].pc # "idle" => OpenedAt(call[c].s) /\ OpenedAt(call[c].s)' /\ PaperAt(call[c].s) \in Papers
                             /\ call[c].copy.paper = PaperAt(call[c].s)
                             /\ sessions'[call[c].s].paper = sessions[call[c].s].paper
  BY <1>1, PaperFields DEF CallFits, Keeps, SessionsStay, OpenedAt, PaperAt
<1>3. call[c].pc \in {"claim", "look", "write", "save", "restore"} =>
         /\ call[c].op \in OpIds /\ edits'[call[c].op].status # "none"
         /\ SameEdit(call[c].edit, edits'[call[c].op])
         /\ edits'[call[c].op].session = edits[call[c].op].session
  BY <1>1 DEF CallFits, Keeps, EditsStay, SameEdit
<1>4. \A d \in Papers : \A t : IsTextAt(d, call[c].rev, t) =>
         call[c].rev <= paper'[d].rev /\ (call[c].rev = paper'[d].rev => paper'[d].text = t)
  BY <1>1, FieldsOfDocs, PaperFields DEF IsTextAt, Keeps, RevisionsGrow
<1>5. (call[c].pc # "idle" =>
         /\ OpenedAt(call[c].s)
         /\ call[c].copy.status # "none" /\ call[c].copy.paper = PaperAt(call[c].s))'
  BY <1>1, <1>2 DEF CallFits, OpenedAt, PaperAt
<1>6. (call[c].pc \in {"claim", "look", "write", "save", "restore"} =>
         /\ call[c].op \in OpIds /\ Used(call[c].op) /\ SameEdit(call[c].edit, edits[call[c].op])
         /\ call[c].s = edits[call[c].op].session
         /\ call[c].edit.before = NoText <=> call[c].pc # "restore")'
  BY <1>1, <1>3 DEF CallFits, Used
<1>7. (call[c].pc \in {"draft", "withdraw"} => IsTextAt(call[c].copy.paper, call[c].rev, call[c].text))'
  <2>1. PICK d : d = call[c].copy.paper
    OBVIOUS
  <2>2. call[c].pc \in {"draft", "withdraw"} => d \in Papers /\ IsTextAt(d, call[c].rev, call[c].text)
    BY <1>1, <1>2, <2>1 DEF CallFits
  <2> QED BY <1>4, <2>1, <2>2 DEF IsTextAt
<1>8. (call[c].pc = "withdraw" => \A l \in call[c].listed : Used(l))'
  BY <1>1, FieldsOfDocs DEF CallFits, Keeps, EditsStay, Used
<1> QED BY <1>1, <1>5, <1>6, <1>7, <1>8 DEF CallFits

LEMMA EditFitsStays ==
    ASSUME DsInv, Keeps, \A d \in Papers : paper'[d].rev \in Nat, NEW o \in OpIds, Used(o)
    PROVE  EditFits(o)'
<1>1. EditFits(o) /\ edits[o] \in EditDocs /\ written[o] \in Nat
  BY PaperFields DEF DsInv, PaperInv
<1>2. PICK s : s = edits[o].session
  OBVIOUS
<1>3. OpenedAt(s) /\ PaperAt(s) \in Papers /\ sessions'[s].status # "none"
      /\ sessions'[s].paper = sessions[s].paper /\ s \in SessionIds
  BY <1>1, <1>2, PaperFields DEF EditFits, Keeps, SessionsStay, OpenedAt
<1>4. edits'[o].session = s /\ edits'[o].rev = edits[o].rev /\ edits'[o].base = edits[o].base
  BY <1>2 DEF Keeps, EditsStay, SameEdit
<1>5. PICK d \in Papers : d = PaperAt(s)
  BY <1>3
<1>6. edits[o].rev <= paper'[d].rev /\ (edits[o].rev = paper'[d].rev => paper'[d].text = edits[o].base)
  BY <1>1, <1>2, <1>5, FieldsOfDocs, PaperFields DEF EditFits, IsTextAt, Keeps, RevisionsGrow
<1>7. written'[o] > 0 => edits[o].rev < paper'[d].rev
  BY <1>1, <1>2, <1>5, FieldsOfDocs, PaperFields DEF EditFits, Keeps, RevisionsGrow, WritesAreNew
<1>8. edits'[o].kind = "revert" => edits'[o].of \in OpIds /\ edits'[edits'[o].of].status # "none"
  BY <1>1 DEF EditFits, Keeps, EditsStay, SameEdit
<1> QED BY <1>3, <1>4, <1>5, <1>6, <1>7, <1>8 DEF EditFits, OpenedAt, PaperAt, IsTextAt, Used
-----------------------------------------------------------------------------
(* A step of call c to the locals new, or of no call.                             *)
Moves(c, new) == c \in ChatCalls /\ new \in ChatLocals /\ call' = [call EXCEPT ![c] = new]

Working == {"look", "write", "save"}

LEMMA CallAfter ==
    ASSUME DsInv, NEW c, NEW new, Moves(c, new)
    PROVE  /\ call' \in [ChatCalls -> ChatLocals] /\ call'[c] = new
           /\ \A d \in ChatCalls : call'[d] = IF d = c THEN new ELSE call[d]
BY DEF DsInv, DsTypeOK, Moves

LEMMA FitsStep ==
    ASSUME DsInv, Keeps, \A d \in Papers : paper'[d].rev \in Nat, NEW c, NEW new, Moves(c, new),
           new.pc = "idle" \/ CallFits(c)',
           \A o \in OpIds : ~Used(o) => EditFits(o)'
    PROVE  (\A d \in ChatCalls : CallFits(d)') /\ \A o \in OpIds : EditFits(o)'
<1>1. CallFits(c)'
  BY CallAfter DEF CallFits
<1>2. ASSUME NEW d \in ChatCalls PROVE CallFits(d)'
  BY <1>1, <1>2, CallAfter, CallFitsStays
<1> QED BY <1>2, EditFitsStays

(* Nothing happens to a proposal.                                                 *)
Untouched(o) ==
    /\ edits'[o].status = edits[o].status /\ edits'[o].before = edits[o].before
    /\ edits'[o].base = edits[o].base /\ written'[o] = written[o]
    /\ (o \in botched => o \in botched') /\ (o \in refused' => o \in refused)
    /\ \A d \in ChatCalls : Works(d, o)' <=> Works(d, o)
    /\ \A d \in ChatCalls : Works(d, o) => (call'[d].pc = "save" <=> call[d].pc = "save")
    /\ AtWork(o)' => AtWork(o) \/ o \notin refused
    /\ Restores(o)' \/ HasRevert(o)' => \/ Restores(o) \/ HasRevert(o) \/ o \in botched'
                                        \/ written[o] = 1 /\ \A d \in ChatCalls : ~Works(d, o)

LEMMA OpStays == ASSUME DsInv, NEW o \in OpIds, Untouched(o) PROVE OpHolds(o)'
<1>1. Undecided(o) /\ (o \notin botched => RecordOf(o))
  BY DEF DsInv, PaperInv, OpHolds
<1>2. Undecided(o)'
  BY <1>1 DEF Undecided, Untouched
<1>3. ASSUME o \notin botched' PROVE RecordOf(o)'
  <2>1. RecordOf(o)
    BY <1>1, <1>3 DEF Untouched
  <2>2. (\A d \in ChatCalls : ~Works(d, o)) <=> (\A d \in ChatCalls : ~Works(d, o)')
    BY DEF Untouched
  <2>3. (\A c, d \in ChatCalls : Works(c, o) /\ Works(d, o) => c = d)'
    BY <2>1 DEF RecordOf, Untouched
  <2>4. (\A c \in ChatCalls : Works(c, o) =>
           /\ edits[o].status = "applied" /\ edits[o].before = NoText
           /\ written[o] = IF call[c].pc = "save" THEN 1 ELSE 0)'
    BY <2>1 DEF RecordOf, Untouched, NoText
  <2>5. ((\A c \in ChatCalls : ~Works(c, o)) =>
           /\ IsWritten(o) <=> written[o] = 1
           /\ written[o] = 1 => edits[o].before = edits[o].base)'
    BY <2>1, <2>2 DEF RecordOf, Untouched, IsWritten
  <2>6. (Restores(o) \/ HasRevert(o) => written[o] = 1 /\ \A c \in ChatCalls : ~Works(c, o))'
    BY <1>3, <2>1, <2>2 DEF RecordOf, Untouched
  <2> QED BY <2>3, <2>4, <2>5, <2>6 DEF RecordOf
<1> QED BY <1>2, <1>3 DEF OpHolds

(* How a step of one call changes who works on a proposal.                        *)
LEMMA WorksAfter ==
    ASSUME DsInv, NEW c, NEW new, Moves(c, new), NEW o \in OpIds
    PROVE  /\ \A d \in ChatCalls : d # c => (Works(d, o)' <=> Works(d, o)) /\ call'[d] = call[d]
           /\ Works(c, o)' <=> new.op = o /\ new.pc \in Working
           /\ AtWork(o)' => AtWork(o) \/ (new.op = o /\ new.pc \in {"claim"} \cup Working)
           /\ Restores(o)' => Restores(o) \/ (new.op = o /\ new.pc = "restore")
           /\ ~(new.op = o /\ new.pc \in {"claim"} \cup Working) =>
                (AtWork(o)' => \E d \in ChatCalls : d # c /\ call[d].op = o /\ call[d].pc \in {"claim"} \cup Working)
<1>1. c \in ChatCalls /\ \A d \in ChatCalls : call'[d] = IF d = c THEN new ELSE call[d]
  BY CallAfter DEF Moves
<1> QED BY <1>1 DEF Works, Working, AtWork, Restores

(* A call reads on, gives up before it works, or leaves the records to others.    *)
KeepsToItself(c, new) ==
    /\ UNCHANGED <<edits, paper, written, refused>> /\ botched \subseteq botched'
    /\ new.pc = "idle" \/ CallFits(c)'
    /\ \/ new.pc \notin Working /\ (call[c].pc \in Working => call[c].op \in botched')
       \/ new.pc \in {"look", "write"} /\ call[c].pc \in {"look", "write"} /\ new.op = call[c].op
    /\ new.pc = "claim" => new.op \notin refused
    /\ new.pc = "restore" => \/ new.op \in botched
                             \/ written[new.op] = 1 /\ \A d \in ChatCalls : ~Works(d, new.op)

LEMMA QuietStep ==
    ASSUME DsInv, NEW c, NEW new, Moves(c, new), SessionsStay, KeepsToItself(c, new)
    PROVE  PaperInv'
<1> USE DEF KeepsToItself
<1>1. Keeps
  BY DEF Keeps, EditsStay, RevisionsGrow, WritesAreNew, SameEdit, Used
<1>2. \A d \in Papers : paper'[d].rev \in Nat
  BY PaperFields
<1>3. \A o \in OpIds : ~Used(o) => EditFits(o)'
  BY DEF EditFits, Used
<1>4. (\A d \in ChatCalls : CallFits(d)') /\ \A o \in OpIds : EditFits(o)'
  BY <1>1, <1>2, <1>3, FitsStep
<1>5. ASSUME NEW o \in OpIds PROVE OpHolds(o)'
  <2>1. HasRevert(o)' => HasRevert(o)
    BY DEF HasRevert, Used
  <2>2. c \in ChatCalls
    BY DEF Moves
  <2>3. CASE call[c].op = o /\ call[c].pc \in Working /\ new.pc \notin Working
    <3>1. o \in botched'
      BY <2>3 DEF Working
    <3>2. Undecided(o)
      BY DEF DsInv, PaperInv, OpHolds
    <3>3. \A d \in ChatCalls : Works(d, o)' => Works(d, o)
      BY <2>2, <2>3, WorksAfter
    <3>4. o \notin refused
      BY <2>2, <2>3, <3>2 DEF AtWork, Working, Undecided
    <3>5. Undecided(o)'
      BY <3>2, <3>3, <3>4 DEF Undecided, NoText
    <3> QED BY <3>1, <3>5 DEF OpHolds
  <2>4. CASE ~(call[c].op = o /\ call[c].pc \in Working /\ new.pc \notin Working)
    <3>1. \A d \in ChatCalls : Works(d, o)' <=> Works(d, o)
      BY <2>2, <2>4, WorksAfter DEF Works, Working
    <3>2. \A d \in ChatCalls : Works(d, o) => (call'[d].pc = "save" <=> call[d].pc = "save")
      BY <2>2, <2>4, <3>1, WorksAfter, CallAfter DEF Works, Working
    <3>3. AtWork(o)' => AtWork(o) \/ o \notin refused
      BY <2>2, <2>4, WorksAfter DEF AtWork, Working
    <3>4. Restores(o)' => Restores(o) \/ o \in botched \/ (written[o] = 1 /\ \A d \in ChatCalls : ~Works(d, o))
      BY WorksAfter
    <3>5. /\ edits'[o].status = edits[o].status /\ edits'[o].before = edits[o].before
          /\ edits'[o].base = edits[o].base /\ written'[o] = written[o]
          /\ (o \in botched => o \in botched') /\ (o \in refused' => o \in refused)
      OBVIOUS
    <3>6. Restores(o)' \/ HasRevert(o)' => \/ Restores(o) \/ HasRevert(o) \/ o \in botched'
                                           \/ written[o] = 1 /\ \A d \in ChatCalls : ~Works(d, o)
      BY <2>1, <3>4
    <3>7. Untouched(o)
      BY <3>1, <3>2, <3>3, <3>5, <3>6 DEF Untouched
    <3> QED BY <3>7, OpStays
  <2> QED BY <2>3, <2>4
<1> QED BY <1>4, <1>5 DEF PaperInv

(* The parts of the type invariant.                                               *)
ChatTyped ==
    /\ chat \in [mode : {"question", "doc", "calendar"}, session : SessionIds \cup {0},
                 expires : 0 .. MaxHour + TTL]
    /\ sessions \in [SessionIds -> SessionDocs]
    /\ \A s \in SessionIds : sessions[s].status # "none" => sessions[s].paper \in Papers
    /\ current \in SessionIds \cup {0} /\ until \in 0 .. MaxHour + TTL /\ strayed \in BOOLEAN
RecordsTyped ==
    /\ edits \in [OpIds -> EditDocs] /\ paper \in [Papers -> [rev : Nat, text : Texts]]
    /\ \A o \in OpIds : edits[o].status # "none" => edits[o].session \in SessionIds
    /\ written \in [OpIds -> Nat] /\ botched \subseteq OpIds /\ refused \subseteq OpIds
WorldTyped == onBoard \in BOOLEAN /\ hour \in 0 .. MaxHour

LEMMA TypesOfParts ==
    /\ DsInv => ChatTyped /\ RecordsTyped /\ WorldTyped
    /\ call' \in [ChatCalls -> ChatLocals] /\ ChatTyped' /\ RecordsTyped' /\ WorldTyped' => DsTypeOK'
BY DEF DsInv, DsTypeOK, ChatTyped, RecordsTyped, WorldTyped

LEMMA TypesStay ==
    ASSUME DsInv
    PROVE  /\ UNCHANGED <<chat, sessions, current, until, strayed>> => ChatTyped' /\ SessionsStay
           /\ UNCHANGED <<edits, paper, written, refused>> /\ botched' \subseteq OpIds => RecordsTyped'
           /\ UNCHANGED <<onBoard, hour>> => WorldTyped'
BY TypesOfParts DEF ChatTyped, RecordsTyped, WorldTyped, SessionsStay

ReadsPaper(c, new) ==
    \/ new.pc = "idle"
    \/ call[c].pc # "idle" /\ new.s = call[c].s /\ new.copy = call[c].copy
    \/ new.s \in SessionIds /\ new.copy = sessions[new.s]

LEMMA ChatStep ==
    ASSUME DsInv, NEW c, NEW new, Moves(c, new), ReadsPaper(c, new),
           UNCHANGED <<chat, sessions, current, until, strayed>>
    PROVE  ChatPoints'
<1>1. ChatPoints /\ c \in ChatCalls
  BY DEF DsInv, Moves
<1>2. ASSUME current # 0, NEW d \in ChatCalls, call'[d].pc # "idle", call'[d].s = current
      PROVE  call'[d].copy.status = "active"
  BY <1>1, <1>2, CallAfter DEF ChatPoints, ReadsPaper
<1> QED BY <1>1, <1>2 DEF ChatPoints, OpenedAt

LEMMA TouchStep ==
    ASSUME DsInv, NEW c, NEW new, Moves(c, new), call[c].pc # "idle", Touched(c),
           new.pc = "idle" \/ (new.s = call[c].s /\ new.copy = call[c].copy)
    PROVE  ChatPoints' /\ ChatTyped' /\ SessionsStay
<1> DEFINE s == call[c].s
<1>1. c \in ChatCalls /\ CallFits(c) /\ ChatPoints /\ ChatTyped
  BY TypesOfParts DEF DsInv, PaperInv, Moves
<1>2. s \in SessionIds /\ call[c].copy \in SessionDocs /\ call[c].now + TTL \in 0 .. MaxHour + TTL
  BY <1>1, PaperFields, FieldsOfDocs, NumbersOfTexts DEF CallFits, OpenedAt
<1>3. /\ sessions[s].status # "none" /\ call[c].copy.status # "none"
      /\ call[c].copy.paper = sessions[s].paper /\ sessions[s].paper \in Papers
  BY <1>1, <1>2 DEF CallFits, OpenedAt, PaperAt, ChatTyped
<1>4. /\ sessions' \in [SessionIds -> SessionDocs]
      /\ \A r \in SessionIds : sessions'[r] = IF r = s THEN call[c].copy ELSE sessions[r]
  BY <1>1, <1>2 DEF Touched, ChatTyped
<1>5. SessionsStay
  BY <1>3, <1>4 DEF SessionsStay
<1>6. ChatTyped'
  BY <1>1, <1>2, <1>3, <1>4 DEF Touched, ChatTyped
<1>7. ASSUME current' # 0
      PROVE  /\ current' \in SessionIds /\ sessions'[current'].status = "active"
             /\ strayed' \/ chat' = [mode |-> "doc", session |-> current', expires |-> until']
  BY <1>1, <1>2, <1>4, <1>7 DEF Touched, ChatPoints
<1>8. ASSUME current' # 0, NEW d \in ChatCalls, call'[d].pc # "idle", call'[d].s = current'
      PROVE  call'[d].copy.status = "active"
  <2>1. \A e \in ChatCalls : call[e].pc # "idle" /\ call[e].s = current => call[e].copy.status = "active"
    BY <1>1, <1>8 DEF ChatPoints, Touched
  <2> QED BY <1>1, <1>8, <2>1, CallAfter DEF Touched
<1>9. chat'.mode = "doc" /\ chat'.session = s /\ sessions'[s].status # "none"
  BY <1>2, <1>3, <1>4 DEF Touched
<1> QED BY <1>2, <1>5, <1>6, <1>7, <1>8, <1>9 DEF ChatPoints, OpenedAt
-----------------------------------------------------------------------------
(* Steps of no call.                                                              *)
LEMMA StillStep ==
    ASSUME DsInv, UNCHANGED <<call, edits, written, botched, refused>>, SessionsStay, RevisionsGrow,
           \A d \in Papers : paper'[d].rev \in Nat
    PROVE  PaperInv'
<1>1. Keeps
  BY DEF Keeps, EditsStay, WritesAreNew, SameEdit, Used
<1>2. ASSUME NEW c \in ChatCalls PROVE CallFits(c)'
  BY <1>1, CallFitsStays
<1>3. ASSUME NEW o \in OpIds PROVE EditFits(o)'
  <2>1. CASE Used(o)
    BY <1>1, <2>1, EditFitsStays
  <2>2. CASE ~Used(o)
    BY <2>2 DEF EditFits, Used
  <2> QED BY <2>1, <2>2
<1>4. ASSUME NEW o \in OpIds PROVE OpHolds(o)'
  <2>1. Untouched(o)
    BY DEF Untouched, Works, AtWork, Restores, HasRevert, Used
  <2> QED BY <2>1, OpStays
<1> QED BY <1>2, <1>3, <1>4 DEF PaperInv

LEMMA ClosedSessions ==
    ASSUME DsInv
    PROVE  /\ Closed \in [SessionIds -> SessionDocs]
           /\ \A s \in SessionIds :
                /\ Closed[s].paper = sessions[s].paper
                /\ Closed[s].status = "none" <=> sessions[s].status = "none"
<1>1. \A s \in SessionIds : sessions[s] \in SessionDocs
  BY PaperFields
<1>2. ASSUME NEW s \in SessionIds
      PROVE  /\ [sessions[s] EXCEPT !.status = "closed"] \in SessionDocs
             /\ [sessions[s] EXCEPT !.status = "closed"].paper = sessions[s].paper
             /\ [sessions[s] EXCEPT !.status = "closed"].status = "closed"
  BY <1>1 DEF SessionDocs
<1>3. \A s \in ActiveSession : sessions[s].status = "active"
  BY DEF ActiveSession
<1> QED BY <1>1, <1>2, <1>3 DEF Closed

LEMMA QuestionIsChat ==
    /\ Question \in [mode : {"question", "doc", "calendar"}, session : SessionIds \cup {0},
                     expires : 0 .. MaxHour + TTL]
    /\ Question.mode = "question"
BY NumbersOfTexts DEF Question

LEMMA OpenKeeps ==
    ASSUME DsInv, NEW c \in ChatCalls, NEW d \in Papers, Open(c, d)
    PROVE  DsInv'
<1>1. PICK s \in SessionIds :
        /\ IsNextSession(s) /\ sessions' = [Closed EXCEPT ![s] = [paper |-> d, status |-> "active"]]
        /\ chat' = [mode |-> "doc", session |-> s, expires |-> hour + TTL]
        /\ current' = s /\ until' = hour + TTL /\ strayed' = FALSE
        /\ UNCHANGED <<call, edits, paper, written, botched, refused, onBoard, hour>>
  BY DEF Open, UnchangedPaper, UnchangedWorld
<1>2. /\ sessions' \in [SessionIds -> SessionDocs]
      /\ \A r \in SessionIds : sessions'[r] = IF r = s THEN [paper |-> d, status |-> "active"] ELSE Closed[r]
  BY <1>1, ClosedSessions DEF SessionDocs
<1>3. sessions[s].status = "none"
  BY <1>1 DEF IsNextSession
<1>4. SessionsStay
  BY <1>2, <1>3, ClosedSessions DEF SessionsStay
<1>5. ChatTyped'
  BY <1>1, <1>2, NumbersOfTexts, PaperFields, TypesOfParts, ClosedSessions DEF ChatTyped
<1>6. DsTypeOK'
  BY <1>1, <1>5, TypesOfParts, TypesStay DEF DsInv, DsTypeOK
<1>7. PaperInv'
  <2>1. RevisionsGrow /\ \A e \in Papers : paper'[e].rev \in Nat
    BY <1>1, PaperFields DEF RevisionsGrow
  <2> QED BY <1>1, <1>4, <2>1, StillStep
<1>8. ChatPoints'
  <2>1. \A e \in ChatCalls : call[e].pc # "idle" => sessions[call[e].s].status # "none"
    BY DEF DsInv, PaperInv, CallFits, OpenedAt
  <2> QED BY <1>1, <1>2, <1>3, <2>1 DEF ChatPoints, OpenedAt
<1> QED BY <1>6, <1>7, <1>8 DEF DsInv

(* The work ends, or the chat turns from it.                                      *)
TurnsAway ==
    /\ sessions' \in {sessions, Closed} /\ chat'.mode # "doc"
    /\ chat' \in [mode : {"question", "doc", "calendar"}, session : SessionIds \cup {0},
                  expires : 0 .. MaxHour + TTL]
    /\ \/ current' = 0 /\ until' = 0 /\ strayed' = FALSE
       \/ chat.mode # "doc" /\ UNCHANGED <<sessions, current, until, strayed>>
    /\ UNCHANGED <<call, edits, paper, written, botched, refused, onBoard, hour>>

LEMMA TurningAwayKeeps == ASSUME DsInv, TurnsAway PROVE DsInv'
<1>1. SessionsStay /\ sessions' \in [SessionIds -> SessionDocs]
  BY ClosedSessions DEF SessionsStay, DsInv, DsTypeOK, TurnsAway
<1>2. ChatTyped'
  <2>1. \A s \in SessionIds : sessions'[s].status # "none" => sessions'[s].paper \in Papers
    BY TypesOfParts, ClosedSessions DEF ChatTyped, TurnsAway
  <2>2. 0 \in 0 .. MaxHour + TTL
    BY NumbersOfTexts
  <2>3. current' \in SessionIds \cup {0} /\ until' \in 0 .. MaxHour + TTL /\ strayed' \in BOOLEAN
    BY <2>2, TypesOfParts, ZenonT(20) DEF ChatTyped, TurnsAway
  <2> QED BY <1>1, <2>1, <2>3 DEF ChatTyped, TurnsAway
<1>3. DsTypeOK'
  BY <1>2, TypesOfParts, TypesStay DEF DsInv, DsTypeOK, TurnsAway
<1>4. RevisionsGrow /\ \A e \in Papers : paper'[e].rev \in Nat
  BY PaperFields DEF RevisionsGrow, TurnsAway
<1>5. PaperInv'
  BY <1>1, <1>4, StillStep DEF TurnsAway
<1>6. ChatPoints'
  BY DEF DsInv, ChatPoints, TurnsAway
<1> QED BY <1>3, <1>5, <1>6 DEF DsInv

LEMMA ChatButtonsKeep ==
    ASSUME DsInv, NEW c \in ChatCalls, Leave(c) \/ StartCalendar(c) \/ CalendarTurn(c)
    PROVE  DsInv'
<1>1. CASE Leave(c)
  BY <1>1, TurningAwayKeeps, QuestionIsChat DEF Leave, TurnsAway, UnchangedPaper, UnchangedWorld
<1>2. CASE StartCalendar(c)
  <2> DEFINE new == [mode |-> "calendar", session |-> 0, expires |-> hour + TTL]
  <2>1. /\ new \in [mode : {"question", "doc", "calendar"}, session : SessionIds \cup {0},
                    expires : 0 .. MaxHour + TTL]
        /\ new.mode = "calendar"
    BY NumbersOfTexts, PaperFields
  <2> QED BY <1>2, <2>1, TurningAwayKeeps DEF StartCalendar, TurnsAway, UnchangedPaper, UnchangedWorld
<1>3. CASE CalendarTurn(c)
  BY <1>3, TurningAwayKeeps, QuestionIsChat DEF CalendarTurn, TurnsAway, IsInMode, UnchangedPaper, UnchangedWorld
<1> QED BY <1>1, <1>2, <1>3

LEMMA ChatWorldKeeps ==
    ASSUME DsInv, LosesSeat \/ HourPasses \/ UNCHANGED sessionvars \/ \E d \in Papers : PersonEdits(d)
    PROVE  DsInv'
<1>1. /\ UNCHANGED <<chat, sessions, current, until, strayed, edits, written, botched, refused, call>>
      /\ onBoard' \in BOOLEAN /\ hour' \in 0 .. MaxHour
      /\ paper' = paper \/ \E d \in Papers : paper' = [paper EXCEPT ![d] = [rev |-> @.rev + 1, text |-> -@.rev]]
  <2>0. WorldTyped
    BY TypesOfParts
  <2>1. CASE LosesSeat
    BY <2>0, <2>1 DEF LosesSeat, UnchangedPaper, UnchangedChat, WorldTyped
  <2>2. CASE HourPasses
    BY <2>0, <2>2, NumbersOfTexts DEF HourPasses, UnchangedPaper, UnchangedChat, WorldTyped
  <2>3. CASE UNCHANGED sessionvars
    BY <2>0, <2>3 DEF sessionvars, chatHistories, WorldTyped
  <2>4. CASE \E d \in Papers : PersonEdits(d)
    BY <2>0, <2>4 DEF PersonEdits, UnchangedChat, WorldTyped
  <2> QED BY <2>1, <2>2, <2>3, <2>4
<1>2. paper' \in [Papers -> [rev : Nat, text : Texts]] /\ RevisionsGrow
  <2>1. CASE paper' = paper
    BY <2>1 DEF RevisionsGrow, DsInv, DsTypeOK
  <2>2. CASE \E d \in Papers : paper' = [paper EXCEPT ![d] = [rev |-> @.rev + 1, text |-> -@.rev]]
    <3>1. PICK d \in Papers : paper' = [paper EXCEPT ![d] = [rev |-> paper[d].rev + 1, text |-> -paper[d].rev]]
      BY <2>2
    <3>2. [rev |-> paper[d].rev + 1, text |-> -paper[d].rev] \in [rev : Nat, text : Texts]
      BY PaperFields, NumbersOfTexts
    <3>3. \A e \in Papers : paper'[e] = IF e = d THEN [rev |-> paper[d].rev + 1, text |-> -paper[d].rev] ELSE paper[e]
      BY <3>1 DEF DsInv, DsTypeOK
    <3> QED BY <3>1, <3>2, <3>3, PaperFields DEF RevisionsGrow, DsInv, DsTypeOK
  <2> QED BY <1>1, <2>1, <2>2
<1>3. SessionsStay /\ \A d \in Papers : paper'[d].rev \in Nat
  BY <1>1, <1>2 DEF SessionsStay
<1>4. PaperInv'
  BY <1>1, <1>2, <1>3, StillStep
<1>5. ChatPoints'
  BY <1>1 DEF DsInv, ChatPoints, OpenedAt
<1>6. DsTypeOK'
  BY <1>1, <1>2 DEF DsInv, DsTypeOK
<1> QED BY <1>4, <1>5, <1>6 DEF DsInv
-----------------------------------------------------------------------------
(* Steps of a call that leave the records alone.                                  *)
Quiet(c, new) ==
    /\ Moves(c, new) /\ ReadsPaper(c, new) /\ KeepsToItself(c, new)
    /\ botched' \subseteq OpIds
    /\ UNCHANGED <<chat, sessions, current, until, strayed, onBoard, hour>>

LEMMA QuietKeeps == ASSUME DsInv, NEW c, NEW new, Quiet(c, new) PROVE DsInv'
<1>1. ChatTyped' /\ SessionsStay /\ RecordsTyped' /\ WorldTyped'
  BY TypesStay DEF Quiet, KeepsToItself
<1>2. DsTypeOK'
  BY <1>1, CallAfter, TypesOfParts DEF Quiet
<1>3. PaperInv'
  BY <1>1, QuietStep DEF Quiet
<1>4. ChatPoints'
  BY ChatStep DEF Quiet
<1> QED BY <1>2, <1>3, <1>4 DEF DsInv

(* A call goes back.                                                              *)
GivesUp(c) ==
    /\ Returns(c)
    /\ UNCHANGED <<chat, sessions, current, until, strayed, onBoard, hour, edits, paper, written, refused>>
    /\ botched' = IF call[c].pc \in Working THEN botched \cup {call[c].op} ELSE botched

LEMMA GivingUpKeeps == ASSUME DsInv, NEW c \in ChatCalls, GivesUp(c) PROVE DsInv'
<1>1. call[c].pc \in Working => call[c].op \in OpIds
  BY DEF DsInv, PaperInv, CallFits, Working
<1>2. botched \subseteq OpIds
  BY TypesOfParts DEF RecordsTyped
<1>3. KeepsToItself(c, AtEase)
  BY DocsAreTyped DEF KeepsToItself, Working, GivesUp
<1>4. Quiet(c, AtEase)
  BY <1>1, <1>2, <1>3, DocsAreTyped DEF Quiet, Moves, Returns, ReadsPaper, GivesUp
<1> QED BY <1>4, QuietKeeps

LEMMA InstructKeeps == ASSUME DsInv, NEW c \in ChatCalls, Instruct(c) PROVE DsInv'
<1> DEFINE s == chat.session
           new == [call[c] EXCEPT !.pc = "touch", !.s = s, !.copy = sessions[s], !.now = hour]
<1>1. OpenedAt(s) /\ sessions[s].status = "active"
  BY DEF Instruct, IsInMode, DsInv, ChatPoints
<1>2. s \in SessionIds /\ sessions[s] \in SessionDocs /\ hour \in 0 .. MaxHour /\ call[c] \in ChatLocals
  BY <1>1, PaperFields
<1>3. new \in ChatLocals /\ new.pc = "touch" /\ new.s = s /\ new.copy = sessions[s]
  BY <1>2 DEF ChatLocals, Steps
<1>4. call' = [call EXCEPT ![c] = new]
  BY DEF Instruct
<1> HIDE DEF new
<1>5. Moves(c, new) /\ ReadsPaper(c, new)
  BY <1>2, <1>3, <1>4 DEF Moves, ReadsPaper
<1>6. UNCHANGED <<chat, sessions, current, until, strayed, onBoard, hour, edits, paper, written, refused, botched>>
  BY DEF Instruct, UnchangedChat, UnchangedPaper, UnchangedWorld
<1>7. CallFits(c)'
  BY <1>1, <1>3, <1>5, <1>6, CallAfter DEF CallFits, OpenedAt, PaperAt
<1>8. call[c].pc = "idle"
  BY DEF Instruct, At
<1>9. Quiet(c, new)
  BY <1>3, <1>5, <1>6, <1>7, <1>8, TypesOfParts DEF Quiet, KeepsToItself, Working, RecordsTyped
<1> QED BY <1>9, QuietKeeps

LEMMA ReadPaperKeeps == ASSUME DsInv, NEW c \in ChatCalls, ReadPaper(c) PROVE DsInv'
<1> DEFINE d == paper[call[c].copy.paper]
           new == [call[c] EXCEPT !.pc = "draft", !.rev = d.rev, !.text = d.text]
<1>1. call[c] \in ChatLocals /\ call[c].pc = "read" /\ CallFits(c)
  BY PaperFields DEF ReadPaper, At, DsInv, PaperInv
<1>2. OpenedAt(call[c].s) /\ call[c].copy.status # "none" /\ call[c].copy.paper = PaperAt(call[c].s)
  BY <1>1 DEF CallFits
<1>3. call[c].copy.paper \in Papers /\ d.rev \in Nat /\ d.text \in Texts
  BY <1>2, PaperFields
<1>4. /\ new \in ChatLocals /\ new.pc = "draft" /\ new.s = call[c].s /\ new.copy = call[c].copy
      /\ new.rev = d.rev /\ new.text = d.text
  BY <1>1, <1>3 DEF ChatLocals, Steps
<1>5. call' = [call EXCEPT ![c] = new]
  BY DEF ReadPaper
<1> HIDE DEF new
<1>6. Moves(c, new) /\ ReadsPaper(c, new)
  BY <1>1, <1>4, <1>5 DEF Moves, ReadsPaper
<1>7. UNCHANGED <<chat, sessions, current, until, strayed, onBoard, hour, edits, paper, written, refused, botched>>
  BY DEF ReadPaper, UnchangedChat, UnchangedPaper, UnchangedWorld
<1>8. CallFits(c)'
  BY <1>2, <1>3, <1>4, <1>6, <1>7, CallAfter DEF CallFits, OpenedAt, PaperAt, IsTextAt
<1>9. Quiet(c, new)
  BY <1>1, <1>4, <1>6, <1>7, <1>8, TypesOfParts DEF Quiet, KeepsToItself, Working, RecordsTyped
<1> QED BY <1>9, QuietKeeps

LEMMA DraftKeeps == ASSUME DsInv, NEW c \in ChatCalls, Draft(c) PROVE DsInv'
<1> DEFINE new == [call[c] EXCEPT !.pc = "withdraw", !.listed = ProposedIn(call[c].s)]
<1>1. call[c] \in ChatLocals /\ call[c].pc = "draft" /\ CallFits(c)
  BY PaperFields DEF Draft, At, DsInv, PaperInv
<1>2. ProposedIn(call[c].s) \subseteq OpIds /\ \A l \in ProposedIn(call[c].s) : Used(l)
  BY DEF ProposedIn, Used
<1>3. /\ new \in ChatLocals /\ new.pc = "withdraw" /\ new.s = call[c].s /\ new.copy = call[c].copy
      /\ new.rev = call[c].rev /\ new.text = call[c].text /\ new.listed = ProposedIn(call[c].s)
  BY <1>1, <1>2 DEF ChatLocals, Steps
<1>4. call' = [call EXCEPT ![c] = new]
  BY DEF Draft
<1> HIDE DEF new
<1>5. Moves(c, new) /\ ReadsPaper(c, new)
  BY <1>1, <1>3, <1>4 DEF Moves, ReadsPaper
<1>6. UNCHANGED <<chat, sessions, current, until, strayed, onBoard, hour, edits, paper, written, refused, botched>>
  BY DEF Draft, UnchangedChat, UnchangedPaper, UnchangedWorld
<1>7. CallFits(c)'
  <2>1. (\A l \in call[c].listed : Used(l))'
    BY <1>2, <1>3, <1>5, <1>6, CallAfter DEF Used
  <2> QED BY <1>1, <1>3, <1>5, <1>6, <2>1, CallAfter DEF CallFits, OpenedAt, PaperAt, IsTextAt
<1>8. Quiet(c, new)
  BY <1>1, <1>3, <1>5, <1>6, <1>7, TypesOfParts DEF Quiet, KeepsToItself, Working, RecordsTyped
<1> QED BY <1>8, QuietKeeps

(* A button's call has read its proposal and the session.                         *)
LEMMA TakenKeeps ==
    ASSUME DsInv, NEW c \in ChatCalls, NEW o \in OpIds, NEW pc, Taken(c, o, pc), call[c].pc = "idle",
           \/ pc = "claim" /\ edits[o].status = "proposed"
           \/ pc = "restore" /\ edits[o].status = "applied" /\ edits[o].before # NoText,
           UNCHANGED <<chat, sessions, current, until, strayed, onBoard, hour, edits, paper, written, refused, botched>>
    PROVE  DsInv'
<1> DEFINE s == edits[o].session
           new == [call[c] EXCEPT !.pc = pc, !.s = s, !.copy = sessions[s], !.op = o, !.edit = edits[o], !.now = hour]
<1>1. Used(o) /\ EditFits(o) /\ Undecided(o) /\ (o \notin botched => RecordOf(o))
  BY DEF Used, DsInv, PaperInv, OpHolds
<1>2. OpenedAt(s) /\ s \in SessionIds /\ sessions[s] \in SessionDocs /\ hour \in 0 .. MaxHour
      /\ call[c] \in ChatLocals /\ edits[o] \in EditDocs /\ sessions[s].status # "none"
  BY <1>1, PaperFields DEF EditFits, OpenedAt
<1>3. /\ new \in ChatLocals /\ new.pc = pc /\ new.s = s /\ new.copy = sessions[s]
      /\ new.op = o /\ new.edit = edits[o]
  BY <1>2 DEF ChatLocals, Steps
<1>4. call' = [call EXCEPT ![c] = new]
  BY DEF Taken
<1> HIDE DEF new
<1>5. Moves(c, new) /\ ReadsPaper(c, new)
  BY <1>2, <1>3, <1>4 DEF Moves, ReadsPaper
<1>6. pc = "claim" => edits[o].before = NoText /\ o \notin refused
  BY <1>1 DEF Undecided
<1>7. pc = "restore" => o \in botched \/ (written[o] = 1 /\ \A d \in ChatCalls : ~Works(d, o))
  BY <1>1 DEF RecordOf, IsWritten
<1>8. CallFits(c)'
  BY <1>1, <1>2, <1>3, <1>5, <1>6, CallAfter DEF CallFits, OpenedAt, PaperAt, Used, SameEdit
<1>9. KeepsToItself(c, new)
  BY <1>3, <1>6, <1>7, <1>8 DEF KeepsToItself, Working
<1>10. Quiet(c, new)
  BY <1>5, <1>9, TypesOfParts DEF Quiet, RecordsTyped
<1> QED BY <1>10, QuietKeeps

LEMMA LookKeeps ==
    ASSUME DsInv, NEW c \in ChatCalls, Look(c), PaperOf(c).rev = call[c].edit.rev
    PROVE  DsInv'
<1>. PICK o : o = call[c].op
  OBVIOUS
<1> DEFINE new == [call[c] EXCEPT !.pc = "write", !.text = PaperOf(c).text]
<1>1. call[c] \in ChatLocals /\ call[c].pc = "look" /\ CallFits(c)
  BY PaperFields DEF Look, At, DsInv, PaperInv
<1>2. /\ o \in OpIds /\ Used(o) /\ SameEdit(call[c].edit, edits[o]) /\ EditFits(o)
      /\ call[c].s = edits[o].session /\ call[c].edit.before = NoText
      /\ OpenedAt(call[c].s) /\ call[c].copy.status # "none" /\ call[c].copy.paper = PaperAt(call[c].s)
  BY <1>1 DEF CallFits, DsInv, PaperInv
<1>3. PaperOf(c).text = call[c].edit.base /\ PaperOf(c).text \in Texts
  BY <1>2, PaperFields DEF PaperOf, EditFits, IsTextAt, SameEdit
<1>4. /\ new \in ChatLocals /\ new.pc = "write" /\ new.s = call[c].s /\ new.copy = call[c].copy
      /\ new.op = o /\ new.edit = call[c].edit /\ new.text = call[c].edit.base
  BY <1>1, <1>3 DEF ChatLocals, Steps
<1>5. call' = [call EXCEPT ![c] = new]
  BY DEF Look
<1> HIDE DEF new
<1>6. Moves(c, new) /\ ReadsPaper(c, new)
  BY <1>1, <1>4, <1>5 DEF Moves, ReadsPaper
<1>7. UNCHANGED <<chat, sessions, current, until, strayed, onBoard, hour, edits, paper, written, refused, botched>>
  BY DEF Look, UnchangedChat, UnchangedPaper, UnchangedWorld
<1>8. CallFits(c)'
  BY <1>2, <1>4, <1>6, <1>7, CallAfter DEF CallFits, OpenedAt, PaperAt, Used, SameEdit
<1>9. Quiet(c, new)
  BY <1>1, <1>4, <1>6, <1>7, <1>8, TypesOfParts DEF Quiet, KeepsToItself, Working, RecordsTyped
<1> QED BY <1>9, QuietKeeps
-----------------------------------------------------------------------------
(* Steps of a call that change the records.                                       *)
LEMMA WorkerFacts ==
    ASSUME DsInv, NEW c \in ChatCalls, call[c].pc \in {"claim"} \cup Working
    PROVE  /\ call[c].op \in OpIds /\ Used(call[c].op) /\ call[c].edit \in EditDocs
           /\ SameEdit(call[c].edit, edits[call[c].op]) /\ call[c].edit.before = NoText
           /\ call[c].op \notin refused /\ Undecided(call[c].op) /\ EditFits(call[c].op)
           /\ call[c].op \notin botched => RecordOf(call[c].op)
           /\ call[c].copy.paper = PaperAt(edits[call[c].op].session) /\ call[c].copy.paper \in Papers
           /\ call[c].copy.status # "none" /\ call[c].s = edits[call[c].op].session /\ OpenedAt(call[c].s)
           /\ call[c].pc \in Working => Works(c, call[c].op) /\ edits[call[c].op].status \notin {"none", "proposed"}
<1>1. CallFits(c) /\ call[c] \in ChatLocals
  BY PaperFields DEF DsInv, PaperInv
<1>2. PICK o : o = call[c].op
  OBVIOUS
<1>3. /\ o \in OpIds /\ Used(o) /\ SameEdit(call[c].edit, edits[o]) /\ call[c].edit.before = NoText
      /\ call[c].s = edits[o].session /\ OpenedAt(call[c].s)
      /\ call[c].copy.status # "none" /\ call[c].copy.paper = PaperAt(call[c].s)
  BY <1>1, <1>2 DEF CallFits, Working
<1>4. Undecided(o) /\ EditFits(o) /\ (o \notin botched => RecordOf(o))
  BY <1>3 DEF DsInv, PaperInv, OpHolds
<1>5. AtWork(o) /\ (call[c].pc \in Working => Works(c, o))
  BY <1>2 DEF AtWork, Working, Works
<1>6. o \notin refused /\ (call[c].pc \in Working => edits[o].status \notin {"none", "proposed"})
  BY <1>4, <1>5 DEF Undecided
<1>7. PaperAt(call[c].s) \in Papers /\ call[c].edit \in EditDocs
  BY <1>1, <1>3, PaperFields, FieldsOfDocs
<1> QED BY <1>2, <1>3, <1>4, <1>5, <1>6, <1>7

(* A proposal that was made is saved with another status.                         *)
SavesPaper(o, e) ==
    /\ o \in OpIds /\ Used(o) /\ e \in EditDocs /\ SameEdit(e, edits[o]) /\ e.status # "none"
    /\ edits' = [edits EXCEPT ![o] = e]

LEMMA EditsSaved ==
    ASSUME DsInv, NEW o, NEW e, SavesPaper(o, e)
    PROVE  /\ EditsStay /\ edits' \in [OpIds -> EditDocs]
           /\ \A p \in OpIds : edits'[p].status # "none" => edits'[p].session \in SessionIds
           /\ \A p \in OpIds : edits'[p] = IF p = o THEN e ELSE edits[p]
           /\ \A p \in OpIds : ~Used(p) => EditFits(p)'
           /\ \A p : HasRevert(p)' => HasRevert(p)
<1>1. edits' \in [OpIds -> EditDocs] /\ \A p \in OpIds : edits'[p] = IF p = o THEN e ELSE edits[p]
  BY DEF SavesPaper, DsInv, DsTypeOK
<1>2. EditsStay
  BY <1>1 DEF EditsStay, SavesPaper, Used, SameEdit
<1>3. \A p \in OpIds : edits'[p].status # "none" => edits'[p].session \in SessionIds
  BY <1>1, PaperFields DEF SavesPaper, Used, SameEdit
<1>4. \A p \in OpIds : ~Used(p) => ~Used(p)'
  BY <1>1 DEF SavesPaper, Used
<1>5. \A p \in OpIds : ~Used(p) => EditFits(p)'
  BY <1>4 DEF EditFits
<1>6. \A p : HasRevert(p)' => HasRevert(p)
  BY <1>1, <1>4 DEF HasRevert, SavesPaper, SameEdit
<1> QED BY <1>1, <1>2, <1>3, <1>5, <1>6

Apart(c, new, o) ==
    /\ edits'[o].status = edits[o].status /\ edits'[o].before = edits[o].before
    /\ edits'[o].base = edits[o].base /\ written'[o] = written[o]
    /\ (o \in botched => o \in botched') /\ (o \in refused' => o \in refused)
    /\ call[c].op # o \/ call[c].pc \notin Working
    /\ new.op # o \/ new.pc \notin {"claim", "restore"} \cup Working
    /\ HasRevert(o)' => HasRevert(o)

LEMMA OthersStay ==
    ASSUME DsInv, NEW c, NEW new, Moves(c, new), NEW o \in OpIds, Apart(c, new, o)
    PROVE  OpHolds(o)'
<1>1. c \in ChatCalls
  BY DEF Moves
<1>2. \A d \in ChatCalls : Works(d, o)' <=> Works(d, o)
  BY <1>1, WorksAfter DEF Works, Working, Apart
<1>3. \A d \in ChatCalls : Works(d, o) => (call'[d].pc = "save" <=> call[d].pc = "save")
  BY <1>1, <1>2, WorksAfter, CallAfter DEF Works, Working, Apart
<1>4. (AtWork(o)' => AtWork(o)) /\ (Restores(o)' => Restores(o))
  BY <1>1, WorksAfter DEF Apart
<1>5. Untouched(o)
  BY <1>2, <1>3, <1>4 DEF Untouched, Apart
<1> QED BY <1>5, OpStays

(* The parts of a step of call c that changes the records.                        *)
LEMMA RecordStep ==
    ASSUME DsInv, NEW c, NEW new, Moves(c, new), Keeps, new.pc = "idle" \/ CallFits(c)',
           \A o \in OpIds : ~Used(o) => EditFits(o)',
           \A o \in OpIds : OpHolds(o)',
           ChatTyped', RecordsTyped', UNCHANGED <<onBoard, hour>>, ChatPoints'
    PROVE  DsInv'
<1>1. DsTypeOK'
  BY CallAfter, TypesOfParts, TypesStay
<1>2. \A d \in Papers : paper'[d].rev \in Nat
  BY DEF RecordsTyped
<1>3. (\A d \in ChatCalls : CallFits(d)') /\ \A o \in OpIds : EditFits(o)'
  BY <1>2, FitsStep
<1> QED BY <1>1, <1>3 DEF DsInv, PaperInv

LEMMA ClaimedKeeps == ASSUME DsInv, NEW c \in ChatCalls, Claimed(c) PROVE DsInv'
<1>. PICK o : o = call[c].op
  OBVIOUS
<1> DEFINE e == [call[c].edit EXCEPT !.status = "applied"]
           new == [call[c] EXCEPT !.pc = "look"]
<1>0. call[c].pc = "claim" /\ call[c] \in ChatLocals
  BY PaperFields DEF Claimed, At
<1>1. /\ o \in OpIds /\ Used(o) /\ call[c].edit \in EditDocs
      /\ SameEdit(call[c].edit, edits[o]) /\ call[c].edit.before = NoText
      /\ o \notin refused /\ Undecided(o) /\ (o \notin botched => RecordOf(o))
      /\ call[c].copy.paper = PaperAt(edits[o].session) /\ call[c].copy.status # "none"
      /\ call[c].s = edits[o].session /\ OpenedAt(call[c].s)
  BY <1>0, WorkerFacts
<1>2. /\ e \in EditDocs /\ e.status = "applied" /\ SameEdit(e, edits[o]) /\ e.before = NoText
      /\ SameEdit(call[c].edit, e) /\ e.session = edits[o].session
  BY <1>1 DEF EditDocs, SameEdit
<1>3. /\ new \in ChatLocals /\ new.pc = "look" /\ new.s = call[c].s /\ new.copy = call[c].copy
      /\ new.op = o /\ new.edit = call[c].edit
  BY <1>0 DEF ChatLocals, Steps
<1>4. /\ call' = [call EXCEPT ![c] = new] /\ edits' = [edits EXCEPT ![o] = e]
      /\ botched' = IF edits[o].status # "proposed" THEN botched \cup {o} ELSE botched
      /\ UNCHANGED <<paper, written, refused, chat, sessions, current, until, strayed, onBoard, hour>>
  BY DEF Claimed, Proceeds, UnchangedChat, UnchangedWorld
<1> HIDE DEF new, e
<1>5. Moves(c, new) /\ ReadsPaper(c, new) /\ SavesPaper(o, e)
  BY <1>0, <1>1, <1>2, <1>3, <1>4 DEF Moves, ReadsPaper, SavesPaper
<1>6. Keeps
  BY <1>4, <1>5, EditsSaved, TypesStay DEF Keeps, RevisionsGrow, WritesAreNew
<1>7. CallFits(c)'
  BY <1>1, <1>2, <1>3, <1>4, <1>5, CallAfter, EditsSaved DEF CallFits, OpenedAt, PaperAt, Used
<1>8. ASSUME NEW p \in OpIds, p # o PROVE OpHolds(p)'
  <2>1. Apart(c, new, p)
    BY <1>3, <1>4, <1>5, <1>8, EditsSaved DEF Apart
  <2> QED BY <1>5, <2>1, OthersStay
<1>9. OpHolds(o)'
  <2>1. edits'[o].status = "applied" /\ edits'[o].before = NoText /\ written'[o] = written[o] /\ o \notin refused'
    BY <1>1, <1>2, <1>4, <1>5, EditsSaved
  <2>2. Undecided(o)'
    BY <1>1, <2>1 DEF Undecided
  <2>3. ASSUME o \notin botched' PROVE RecordOf(o)'
    <3>1. edits[o].status = "proposed" /\ RecordOf(o) /\ written[o] = 0 /\ \A d \in ChatCalls : ~Works(d, o)
      BY <1>1, <1>4, <2>3 DEF Undecided
    <3>2. \A d \in ChatCalls : Works(d, o)' => d = c
      BY <1>0, <1>1, <1>5, <3>1, WorksAfter
    <3>3. call'[c].pc = "look" /\ Works(c, o)' /\ c \in ChatCalls
      BY <1>1, <1>3, <1>5, CallAfter, WorksAfter DEF Working, Moves
    <3>4. ~(Restores(o) \/ HasRevert(o))'
      BY <1>1, <1>3, <1>5, <3>1, WorksAfter, EditsSaved DEF RecordOf
    <3> QED BY <2>1, <3>1, <3>2, <3>3, <3>4 DEF RecordOf, NoText
  <2> QED BY <2>2, <2>3 DEF OpHolds
<1>10. RecordsTyped'
  BY <1>1, <1>4, <1>5, EditsSaved, TypesOfParts DEF RecordsTyped
<1>11. ChatTyped' /\ ChatPoints'
  BY <1>4, <1>5, ChatStep, TypesStay
<1>12. /\ \A p \in OpIds : ~Used(p) => EditFits(p)'
       /\ \A p \in OpIds : OpHolds(p)'
  BY <1>5, <1>8, <1>9, EditsSaved
<1> QED BY <1>4, <1>5, <1>6, <1>7, <1>10, <1>11, <1>12, RecordStep

(* A call goes back and says of its proposal that it was not written; the paper   *)
(* stays, or it was written and nobody heard of it.                               *)
Ends(c, o, e) ==
    /\ call[c].op = o /\ call[c].pc \in {"look", "write"} /\ Returns(c)
    /\ e.status \in {"conflict", "declined"} /\ e.before = NoText /\ SavesPaper(o, e)
    /\ UNCHANGED <<refused, chat, sessions, current, until, strayed, onBoard, hour>>

Rewrites(c, o) ==
    /\ call[c].op = o /\ call[c].pc = "write" /\ PaperOf(c).rev = call[c].edit.rev
    /\ paper' = Rewritten(c) /\ written' = [written EXCEPT ![o] = @ + 1]

LEMMA PaperRewritten ==
    ASSUME DsInv, NEW c \in ChatCalls, NEW o, Rewrites(c, o)
    PROVE  /\ o \in OpIds /\ written[o] = 0 /\ written'[o] = 1 /\ written' \in [OpIds -> Nat]
           /\ \A p \in OpIds : p # o => written'[p] = written[p]
           /\ paper' \in [Papers -> [rev : Nat, text : Texts]] /\ RevisionsGrow
           /\ edits[o].rev < paper'[PaperAt(edits[o].session)].rev
           /\ paper[PaperAt(edits[o].session)].text = edits[o].base
<1>1. /\ o \in OpIds /\ Used(o) /\ call[c].edit \in EditDocs /\ SameEdit(call[c].edit, edits[o])
      /\ EditFits(o) /\ call[c].copy.paper = PaperAt(edits[o].session) /\ call[c].copy.paper \in Papers
  BY WorkerFacts DEF Rewrites, Working
<1>2. PICK d \in Papers : d = PaperAt(edits[o].session)
  BY <1>1
<1>3. paper[d].rev = edits[o].rev /\ paper[d].rev \in Nat /\ call[c].edit.after \in Texts
      /\ written[o] \in Nat /\ call[c].copy.paper = d
  BY <1>1, <1>2, PaperFields, FieldsOfDocs DEF Rewrites, PaperOf, SameEdit
<1>4. paper[d].text = edits[o].base /\ written[o] = 0
  BY <1>1, <1>2, <1>3 DEF EditFits, IsTextAt
<1> DEFINE new == [rev |-> paper[d].rev + 1, text |-> call[c].edit.after]
<1>5. new \in [rev : Nat, text : Texts] /\ new.rev = paper[d].rev + 1 /\ new.rev > paper[d].rev
  BY <1>3
<1>6. paper' = [paper EXCEPT ![d] = new]
  BY <1>3 DEF Rewrites, Rewritten
<1> HIDE DEF new
<1>7. /\ paper' \in [Papers -> [rev : Nat, text : Texts]]
      /\ \A e \in Papers : paper'[e] = IF e = d THEN new ELSE paper[e]
  BY <1>5, <1>6 DEF DsInv, DsTypeOK
<1>8. RevisionsGrow /\ edits[o].rev < paper'[d].rev
  BY <1>3, <1>5, <1>7 DEF RevisionsGrow
<1>9. written' \in [OpIds -> Nat] /\ written'[o] = 1 /\ \A p \in OpIds : p # o => written'[p] = written[p]
  BY <1>1, <1>4 DEF Rewrites, DsInv, DsTypeOK
<1> QED BY <1>1, <1>2, <1>4, <1>7, <1>8, <1>9

LEMMA EndKeeps ==
    ASSUME DsInv, NEW c \in ChatCalls, NEW o, NEW e, Ends(c, o, e),
           \/ UNCHANGED <<paper, written, botched>>
           \/ Rewrites(c, o) /\ botched' = botched \cup {o}
    PROVE  DsInv'
<1>1. /\ o \in OpIds /\ Used(o) /\ Undecided(o) /\ o \notin refused /\ (o \notin botched => RecordOf(o))
      /\ Works(c, o) /\ AtEase.op # o /\ SavesPaper(o, e)
  BY WorkerFacts, DocsAreTyped, NumbersOfTexts DEF Ends, Working
<1>2. Moves(c, AtEase) /\ ReadsPaper(c, AtEase) /\ AtEase.pc = "idle"
  BY DocsAreTyped DEF Ends, Moves, ReadsPaper, Returns
<1>3. /\ RevisionsGrow /\ paper' \in [Papers -> [rev : Nat, text : Texts]] /\ written' \in [OpIds -> Nat]
      /\ WritesAreNew /\ written'[o] \in {0, 1} /\ botched' \subseteq OpIds /\ botched \subseteq botched'
      /\ \A p \in OpIds : p # o => written'[p] = written[p]
      /\ o \in botched' \/ (o \notin botched /\ written'[o] = written[o])
  <2>0. written[o] \in {0, 1} /\ RecordsTyped
    BY <1>1, PaperFields, TypesOfParts DEF Undecided
  <2>1. CASE UNCHANGED <<paper, written, botched>>
    BY <2>0, <2>1 DEF RevisionsGrow, WritesAreNew, RecordsTyped
  <2>2. CASE Rewrites(c, o) /\ botched' = botched \cup {o}
    BY <1>1, <2>0, <2>2, PaperRewritten DEF WritesAreNew, RecordsTyped
  <2> QED BY <2>1, <2>2
<1>4. Keeps
  BY <1>1, <1>3, EditsSaved, TypesStay DEF Keeps, Ends
<1>5. ASSUME NEW p \in OpIds, p # o PROVE OpHolds(p)'
  <2>1. AtEase.op # p
    BY DocsAreTyped, NumbersOfTexts
  <2>2. edits'[p] = edits[p] /\ (HasRevert(p)' => HasRevert(p))
    BY <1>1, <1>5, EditsSaved
  <2>3. refused' = refused /\ call[c].op = o
    BY DEF Ends
  <2>4. Apart(c, AtEase, p)
    BY <1>3, <1>5, <2>1, <2>2, <2>3 DEF Apart
  <2> QED BY <1>2, <2>4, OthersStay
<1>6. OpHolds(o)'
  <2>1. edits'[o].status \in {"conflict", "declined"} /\ edits'[o].before = NoText /\ o \notin refused'
    BY <1>1, EditsSaved DEF Ends
  <2>2. Undecided(o)'
    BY <1>3, <2>1 DEF Undecided
  <2>3. ASSUME o \notin botched' PROVE RecordOf(o)'
    <3>1. RecordOf(o) /\ written'[o] = 0
      BY <1>1, <1>3, <2>3 DEF RecordOf, Ends
    <3>2. \A d \in ChatCalls : ~Works(d, o)'
      BY <1>1, <1>2, <3>1, WorksAfter DEF RecordOf
    <3>3. ~(Restores(o) \/ HasRevert(o))'
      BY <1>1, <1>2, <3>1, WorksAfter, EditsSaved DEF RecordOf
    <3> QED BY <2>1, <3>1, <3>2, <3>3 DEF RecordOf, IsWritten
  <2> QED BY <2>2, <2>3 DEF OpHolds
<1>7. RecordsTyped'
  BY <1>1, <1>3, EditsSaved, TypesOfParts DEF RecordsTyped, Ends
<1>8. ChatTyped' /\ ChatPoints' /\ UNCHANGED <<onBoard, hour>>
  BY <1>2, ChatStep, TypesStay DEF Ends
<1>9. /\ \A p \in OpIds : ~Used(p) => EditFits(p)'
      /\ \A p \in OpIds : OpHolds(p)'
  BY <1>1, <1>5, <1>6, EditsSaved
<1> QED BY <1>2, <1>4, <1>7, <1>8, <1>9, RecordStep

LEMMA SettledFacts ==
    ASSUME DsInv, NEW c \in ChatCalls, call[c].pc \in {"look", "write"},
           NEW st \in {"conflict", "declined"}, NEW e, e = [call[c].edit EXCEPT !.status = st],
           edits' = [edits EXCEPT ![call[c].op] = e]
    PROVE  SavesPaper(call[c].op, e) /\ e.status = st /\ e.before = NoText
<1>1. /\ call[c].op \in OpIds /\ Used(call[c].op) /\ call[c].edit \in EditDocs
      /\ SameEdit(call[c].edit, edits[call[c].op]) /\ call[c].edit.before = NoText
  BY WorkerFacts DEF Working
<1>2. e \in EditDocs /\ e.status = st /\ e.before = NoText /\ SameEdit(e, edits[call[c].op])
  BY <1>1 DEF EditDocs, SameEdit
<1> QED BY <1>1, <1>2 DEF SavesPaper

LEMMA SettleKeeps ==
    ASSUME DsInv, NEW c \in ChatCalls, call[c].pc \in {"look", "write"}, Settle(c, "conflict"), UNCHANGED botched
    PROVE  DsInv'
<1>1. PICK e : e = [call[c].edit EXCEPT !.status = "conflict"]
  OBVIOUS
<1>2. SavesPaper(call[c].op, e) /\ e.status = "conflict" /\ e.before = NoText
  BY <1>1, SettledFacts DEF Settle
<1>3. Ends(c, call[c].op, e)
  BY <1>2 DEF Ends, Settle, UnchangedChat, UnchangedWorld
<1>4. UNCHANGED <<paper, written, botched>>
  BY DEF Settle
<1> QED BY <1>3, <1>4, EndKeeps

LEMMA WriteFailsKeeps == ASSUME DsInv, NEW c \in ChatCalls, WriteFails(c) PROVE DsInv'
<1>0. call[c].pc \in {"look", "write"}
  BY DEF WriteFails, At
<1>1. PICK e : e = [call[c].edit EXCEPT !.status = "declined"]
  OBVIOUS
<1>2. SavesPaper(call[c].op, e) /\ e.status = "declined" /\ e.before = NoText
  BY <1>0, <1>1, SettledFacts DEF WriteFails
<1>3. Ends(c, call[c].op, e)
  BY <1>0, <1>2 DEF Ends, WriteFails, UnchangedChat, UnchangedWorld
<1>4. \/ UNCHANGED <<paper, written, botched>>
      \/ Rewrites(c, call[c].op) /\ botched' = botched \cup {call[c].op}
  BY DEF WriteFails, Rewrites, At
<1> QED BY <1>3, <1>4, EndKeeps

LEMMA WritePaperKeeps == ASSUME DsInv, NEW c \in ChatCalls, WritePaper(c) PROVE DsInv'
<1>1. CASE PaperOf(c).rev # call[c].edit.rev
  BY <1>1, SettleKeeps DEF WritePaper, At
<1>2. CASE PaperOf(c).rev = call[c].edit.rev
  <2>. PICK o : o = call[c].op
    OBVIOUS
  <2> DEFINE new == [call[c] EXCEPT !.pc = "save"]
  <2>0. call[c].pc = "write" /\ call[c] \in ChatLocals
    BY PaperFields DEF WritePaper, At
  <2>1. /\ o \in OpIds /\ Used(o) /\ call[c].edit \in EditDocs
        /\ SameEdit(call[c].edit, edits[o]) /\ call[c].edit.before = NoText
        /\ o \notin refused /\ Undecided(o) /\ (o \notin botched => RecordOf(o))
        /\ call[c].copy.paper = PaperAt(edits[o].session) /\ call[c].copy.status # "none"
        /\ call[c].s = edits[o].session /\ OpenedAt(call[c].s) /\ Works(c, o)
        /\ edits[o].status \notin {"none", "proposed"}
    BY <2>0, WorkerFacts DEF Working
  <2>2. call[c].text = call[c].edit.base
    BY <2>0 DEF DsInv, PaperInv, CallFits
  <2>3. /\ new \in ChatLocals /\ new.pc = "save" /\ new.s = call[c].s /\ new.copy = call[c].copy
        /\ new.op = o /\ new.edit = call[c].edit /\ new.text = call[c].text
    BY <2>0 DEF ChatLocals, Steps
  <2>4. /\ call' = [call EXCEPT ![c] = new] /\ Rewrites(c, o)
        /\ UNCHANGED <<edits, botched, refused, chat, sessions, current, until, strayed, onBoard, hour>>
    BY <1>2, <2>0 DEF WritePaper, Rewrites, Proceeds, UnchangedChat, UnchangedWorld
  <2> HIDE DEF new
  <2>5. Moves(c, new) /\ ReadsPaper(c, new)
    BY <2>0, <2>3, <2>4 DEF Moves, ReadsPaper
  <2>6. Keeps
    BY <2>1, <2>4, PaperRewritten, TypesStay DEF Keeps, EditsStay, SameEdit, Used, WritesAreNew
  <2>7. CallFits(c)'
    BY <2>1, <2>2, <2>3, <2>4, <2>5, CallAfter DEF CallFits, OpenedAt, PaperAt, Used
  <2>8. ASSUME NEW p \in OpIds, p # o PROVE OpHolds(p)'
    <3>1. HasRevert(p)' => HasRevert(p)
      BY <2>4 DEF HasRevert, Used
    <3>2. Apart(c, new, p)
      BY <2>3, <2>4, <2>8, <3>1, PaperRewritten DEF Apart
    <3> QED BY <2>5, <3>2, OthersStay
  <2>9. OpHolds(o)'
    <3>1. edits' = edits /\ written'[o] = 1 /\ o \notin refused'
      BY <2>1, <2>4, PaperRewritten
    <3>2. Undecided(o)'
      BY <2>1, <3>1 DEF Undecided
    <3>3. ASSUME o \notin botched' PROVE RecordOf(o)'
      <4>1. RecordOf(o) /\ c \in ChatCalls
        BY <2>1, <2>4, <3>3
      <4>2. \A d \in ChatCalls : Works(d, o)' => d = c
        BY <2>1, <2>5, <4>1, WorksAfter DEF RecordOf
      <4>3. call'[c].pc = "save" /\ Works(c, o)'
        BY <2>1, <2>3, <2>5, CallAfter, WorksAfter DEF Working
      <4>4. ~(Restores(o) \/ HasRevert(o))
        BY <2>1, <4>1 DEF RecordOf
      <4>5. ~(Restores(o) \/ HasRevert(o))'
        BY <2>1, <2>3, <2>4, <2>5, <4>4, WorksAfter DEF HasRevert, Used
      <4>6. edits[o].status = "applied" /\ edits[o].before = NoText
        BY <2>1, <4>1 DEF RecordOf
      <4> QED BY <3>1, <4>2, <4>3, <4>5, <4>6 DEF RecordOf, NoText
    <3> QED BY <3>2, <3>3 DEF OpHolds
  <2>10. RecordsTyped'
    BY <2>4, PaperRewritten, TypesOfParts DEF RecordsTyped
  <2>11. ChatTyped' /\ ChatPoints' /\ UNCHANGED <<onBoard, hour>>
    BY <2>4, <2>5, ChatStep, TypesStay
  <2>12. /\ \A p \in OpIds : ~Used(p) => EditFits(p)'
         /\ \A p \in OpIds : OpHolds(p)'
    BY <2>4, <2>8, <2>9 DEF EditFits, Used
  <2> QED BY <2>5, <2>6, <2>7, <2>10, <2>11, <2>12, RecordStep
<1> QED BY <1>1, <1>2

LEMMA DeclineKeeps == ASSUME DsInv, NEW c \in ChatCalls, NEW o \in OpIds, Decline(c, o) PROVE DsInv'
<1>1. PICK st \in {"expired", "declined"} :
        /\ edits[o].status = "proposed" /\ edits' = [edits EXCEPT ![o] = [edits[o] EXCEPT !.status = st]]
        /\ refused' = (IF AtWork(o) THEN refused ELSE refused \cup {o})
        /\ botched' = (IF AtWork(o) THEN botched \cup {o} ELSE botched)
        /\ UNCHANGED <<call, paper, written, chat, sessions, current, until, strayed, onBoard, hour>>
  <2>1. (IF hour > edits[o].expires THEN "expired" ELSE "declined") \in {"expired", "declined"}
    OBVIOUS
  <2> QED BY <2>1 DEF Decline, UnchangedChat, UnchangedWorld
<1> DEFINE e == [edits[o] EXCEPT !.status = st]
<1>2. edits[o] \in EditDocs /\ Used(o) /\ Undecided(o) /\ (o \notin botched => RecordOf(o))
  BY <1>1, PaperFields DEF Used, DsInv, PaperInv, OpHolds
<1>3. /\ e \in EditDocs /\ e.status = st /\ SameEdit(e, edits[o]) /\ e.before = edits[o].before
  BY <1>2 DEF EditDocs, SameEdit
<1>4. edits' = [edits EXCEPT ![o] = e]
  BY <1>1
<1> HIDE DEF e
<1>5. SavesPaper(o, e)
  BY <1>2, <1>3, <1>4 DEF SavesPaper
<1>6. Keeps
  BY <1>1, <1>5, EditsSaved, TypesStay DEF Keeps, RevisionsGrow, WritesAreNew
<1>7. (\A d \in ChatCalls : CallFits(d)') /\ \A p \in OpIds : EditFits(p)'
  <2>1. \A d \in Papers : paper'[d].rev \in Nat
    BY <1>1, PaperFields
  <2> QED BY <1>1, <1>5, <1>6, <2>1, CallFitsStays, EditFitsStays, EditsSaved
<1>8. ASSUME NEW p \in OpIds, p # o PROVE OpHolds(p)'
  <2>1. edits'[p] = edits[p] /\ (HasRevert(p)' => HasRevert(p))
    BY <1>5, <1>8, EditsSaved
  <2>2. (p \in botched => p \in botched') /\ (p \in refused' => p \in refused)
    BY <1>1, <1>8
  <2>3. Untouched(p)
    BY <1>1, <2>1, <2>2 DEF Untouched, Works, AtWork, Restores
  <2> QED BY <2>3, OpStays
<1>9. OpHolds(o)'
  <2>1. /\ edits'[o].status \in {"expired", "declined"} /\ written'[o] = 0 /\ written[o] = 0
        /\ \A d \in ChatCalls : ~Works(d, o)'
    BY <1>1, <1>2, <1>3, <1>5, EditsSaved DEF Undecided, Works
  <2>2. o \in refused' => ~AtWork(o)'
    BY <1>1, <1>2 DEF AtWork, Undecided
  <2>3. Undecided(o)'
    BY <2>1, <2>2 DEF Undecided
  <2>4. ASSUME o \notin botched' PROVE RecordOf(o)'
    <3>1. RecordOf(o)
      BY <1>1, <1>2, <2>4
    <3>2. ~(Restores(o) \/ HasRevert(o))'
      BY <1>1, <1>5, <2>1, <3>1, EditsSaved DEF RecordOf, Restores
    <3> QED BY <2>1, <3>2 DEF RecordOf, IsWritten
  <2> QED BY <2>3, <2>4 DEF OpHolds
<1>10. RecordsTyped'
  BY <1>1, <1>5, EditsSaved, TypesOfParts DEF RecordsTyped
<1>11. ChatTyped' /\ WorldTyped' /\ call' \in [ChatCalls -> ChatLocals]
  BY <1>1, TypesStay DEF DsInv, DsTypeOK
<1>12. ChatPoints'
  BY <1>1 DEF DsInv, ChatPoints, OpenedAt
<1> QED BY <1>7, <1>8, <1>9, <1>10, <1>11, <1>12, TypesOfParts DEF DsInv, PaperInv

(* A proposal that has just been made was never written and nobody has read it.   *)
LEMMA NewOpHolds ==
    ASSUME DsInv, NEW c \in ChatCalls, NEW o \in OpIds, edits[o].status = "none", Moves(c, AtEase),
           edits'[o].status = "proposed", edits'[o].before = NoText, written' = written,
           o \notin refused', botched \subseteq botched', HasRevert(o)' => HasRevert(o)
    PROVE  OpHolds(o)'
<1>1. Undecided(o) /\ (o \notin botched => RecordOf(o))
  BY DEF DsInv, PaperInv, OpHolds
<1>2. written[o] = 0 /\ \A d \in ChatCalls : ~Works(d, o)
  BY <1>1 DEF Undecided
<1>3. AtEase.op # o
  BY DocsAreTyped, NumbersOfTexts
<1>4. \A d \in ChatCalls : ~Works(d, o)'
  BY <1>2, <1>3, WorksAfter
<1>5. Undecided(o)'
  BY <1>2, <1>4 DEF Undecided, NoText
<1>6. ASSUME o \notin botched' PROVE RecordOf(o)'
  <2>1. ~(Restores(o) \/ HasRevert(o))'
    BY <1>1, <1>2, <1>3, <1>6, WorksAfter DEF RecordOf
  <2> QED BY <1>2, <1>4, <2>1 DEF RecordOf, IsWritten
<1> QED BY <1>5, <1>6 DEF OpHolds

LEMMA ProposeKeeps == ASSUME DsInv, NEW c \in ChatCalls, Propose(c) PROVE DsInv'
<1> DEFINE w == call[c]
           clash == {l \in w.listed : edits[l].status # "proposed" \/ AtWork(l)}
           refusals == w.listed \ clash
<1>1. PICK o \in OpIds :
        /\ At(c, "withdraw") /\ IsNextOp(o)
        /\ edits' = [p \in OpIds |->
             IF p = o THEN [NoEdit EXCEPT !.session = w.s, !.rev = w.rev, !.base = w.text, !.after = o,
                              !.status = "proposed", !.expires = w.now + TTL]
             ELSE IF p \in w.listed THEN [edits[p] EXCEPT !.status = "declined", !.before = NoText]
             ELSE edits[p]]
        /\ refused' = refused \cup refusals /\ botched' = botched \cup clash
        /\ Returns(c)
        /\ UNCHANGED <<paper, written, chat, sessions, current, until, strayed, onBoard, hour>>
  BY DEF Propose, UnchangedChat, UnchangedWorld
<1> DEFINE e == [NoEdit EXCEPT !.session = w.s, !.rev = w.rev, !.base = w.text, !.after = o,
                              !.status = "proposed", !.expires = w.now + TTL]
           gone(p) == [edits[p] EXCEPT !.status = "declined", !.before = NoText]
<1>2. /\ w \in ChatLocals /\ w.pc = "withdraw" /\ CallFits(c) /\ edits[o].status = "none"
  BY <1>1, PaperFields DEF At, IsNextOp, DsInv, PaperInv
<1>3. /\ OpenedAt(w.s) /\ w.copy.paper = PaperAt(w.s) /\ IsTextAt(PaperAt(w.s), w.rev, w.text)
      /\ w.s \in SessionIds /\ w.rev \in Nat /\ w.text \in Texts /\ w.now + TTL \in 0 .. MaxHour + TTL
      /\ w.listed \subseteq OpIds
  BY <1>2, PaperFields, FieldsOfDocs, NumbersOfTexts DEF CallFits
<1>4. /\ e \in EditDocs /\ e.session = w.s /\ e.rev = w.rev /\ e.base = w.text /\ e.status = "proposed"
      /\ e.before = NoText /\ e.kind = "edit"
  BY <1>3, DocsAreTyped, NumbersOfTexts DEF NoEdit, EditDocs
<1>5. \A p \in OpIds : /\ gone(p) \in EditDocs /\ gone(p).status = "declined" /\ gone(p).before = NoText
                       /\ SameEdit(gone(p), edits[p])
  BY PaperFields DEF EditDocs, SameEdit
<1> HIDE DEF e, gone
<1>6. /\ edits' \in [OpIds -> EditDocs]
      /\ \A p \in OpIds : edits'[p] = IF p = o THEN e ELSE IF p \in w.listed THEN gone(p) ELSE edits[p]
  <2>1. edits' = [p \in OpIds |-> IF p = o THEN e ELSE IF p \in w.listed THEN gone(p) ELSE edits[p]]
    BY <1>1 DEF e, gone
  <2> QED BY <1>4, <1>5, <2>1, PaperFields
<1>7. refusals \subseteq OpIds /\ clash \subseteq w.listed /\ o \notin refusals
      /\ \A l \in refusals : l \in w.listed /\ edits[l].status = "proposed" /\ ~AtWork(l)
  BY <1>2, <1>3
<1>8. \A p \in w.listed : p \notin refusals => p \in clash
  OBVIOUS
<1> HIDE DEF w, refusals, clash
<1>9. EditsStay
  BY <1>2, <1>5, <1>6 DEF EditsStay, Used, SameEdit
<1>10. Keeps
  BY <1>1, <1>9, TypesStay DEF Keeps, RevisionsGrow, WritesAreNew
<1>11. Moves(c, AtEase) /\ ReadsPaper(c, AtEase) /\ AtEase.pc = "idle"
  BY <1>1, DocsAreTyped DEF Moves, ReadsPaper, Returns
<1>12. \A p : HasRevert(p)' => HasRevert(p)
  <2>1. \A l \in call[c].listed : Used(l)
    BY <1>2 DEF CallFits, w
  <2>2. \A r \in OpIds : Used(r)' => r = o \/ Used(r)
    BY <1>6, <2>1 DEF Used, w
  <2>3. \A r \in OpIds : Used(r) => edits'[r].kind = edits[r].kind /\ edits'[r].of = edits[r].of
    BY <1>9 DEF EditsStay, SameEdit
  <2> QED BY <1>4, <1>6, <2>2, <2>3 DEF HasRevert
<1>13. Undecided(o)
  BY DEF DsInv, PaperInv, OpHolds
<1>14. OpHolds(o)'
  <2>1. o \notin refused'
    BY <1>1, <1>2, <1>7, <1>13 DEF Undecided
  <2> QED BY <1>1, <1>2, <1>4, <1>6, <1>11, <1>12, <2>1, NewOpHolds
<1>15. ASSUME NEW p \in OpIds, p # o PROVE OpHolds(p)'
  <2>0. AtEase.op # p /\ call[c].pc \notin Working
    BY <1>2, DocsAreTyped, NumbersOfTexts DEF Working, w
  <2>1. CASE p \notin w.listed
    <3>1. edits'[p] = edits[p] /\ (p \in refused' => p \in refused)
      BY <1>1, <1>6, <1>7, <1>15, <2>1
    <3>2. Apart(c, AtEase, p)
      BY <1>1, <1>12, <2>0, <3>1 DEF Apart
    <3> QED BY <1>11, <3>2, OthersStay
  <2>2. CASE p \in w.listed
    <3>1. edits'[p].status = "declined" /\ edits'[p].before = NoText /\ written'[p] = written[p]
      BY <1>1, <1>5, <1>6, <1>15, <2>2
    <3>2. Undecided(p) /\ (p \notin botched => RecordOf(p))
      BY DEF DsInv, PaperInv, OpHolds
    <3>3. (AtWork(p)' => AtWork(p)) /\ (Restores(p)' => Restores(p)) /\ \A d \in ChatCalls : Works(d, p)' => Works(d, p)
      BY <1>11, <2>0, WorksAfter
    <3>4. Undecided(p)'
      <4>1. p \in refusals => written[p] = 0 /\ ~AtWork(p)
        BY <1>7, <3>2 DEF Undecided
      <4>2. p \in refused' => written[p] = 0 /\ ~AtWork(p)
        BY <1>1, <3>2, <4>1 DEF Undecided
      <4> QED BY <3>1, <3>2, <3>3, <4>2 DEF Undecided
    <3>5. ASSUME p \notin botched' PROVE RecordOf(p)'
      <4>1. edits[p].status = "proposed" /\ RecordOf(p) /\ written[p] = 0 /\ \A d \in ChatCalls : ~Works(d, p)
        BY <1>1, <1>7, <1>8, <2>2, <3>2, <3>5 DEF Undecided
      <4> QED BY <1>12, <3>1, <3>3, <4>1 DEF RecordOf, IsWritten
    <3> QED BY <3>4, <3>5 DEF OpHolds
  <2> QED BY <2>1, <2>2
<1>16. EditFits(o)' /\ \A p \in OpIds : ~Used(p) => EditFits(p)'
  <2>1. written'[o] = 0
    BY <1>1, <1>2, <1>13 DEF Undecided
  <2>2. PICK s : s = w.s
    OBVIOUS
  <2>3. /\ edits'[o].session = s /\ edits'[o].rev = w.rev /\ edits'[o].base = w.text
        /\ edits'[o].kind = "edit"
    BY <1>4, <1>6, <2>2
  <2>4. OpenedAt(s)' /\ IsTextAt(PaperAt(s), w.rev, w.text) /\ PaperAt(s)' = PaperAt(s) /\ paper' = paper
    BY <1>1, <1>3, <2>2 DEF OpenedAt, PaperAt
  <2>5. EditFits(o)'
    BY <2>1, <2>3, <2>4 DEF EditFits, IsTextAt
  <2>6. ASSUME NEW p \in OpIds, p # o, ~Used(p) PROVE EditFits(p)'
    <3>1. p \notin w.listed
      BY <1>2, <2>6 DEF CallFits, w
    <3> QED BY <1>6, <2>6, <3>1 DEF EditFits, Used
  <2> QED BY <2>5, <2>6
<1>17. RecordsTyped'
  <2>1. \A p \in OpIds : edits'[p].status # "none" => edits'[p].session \in SessionIds
    <3>1. \A p \in w.listed : Used(p)
      BY <1>2 DEF CallFits, w
    <3> QED BY <1>3, <1>4, <1>5, <1>6, <3>1, PaperFields DEF Used, SameEdit
  <2>2. botched' \subseteq OpIds /\ refused' \subseteq OpIds
    BY <1>1, <1>3, <1>7, TypesOfParts DEF RecordsTyped
  <2> QED BY <1>1, <1>6, <2>1, <2>2, TypesOfParts DEF RecordsTyped
<1>18. ChatTyped' /\ ChatPoints' /\ UNCHANGED <<onBoard, hour>>
  BY <1>1, <1>11, ChatStep, TypesStay
<1>19. \A p \in OpIds : OpHolds(p)'
  BY <1>14, <1>15
<1> QED BY <1>10, <1>11, <1>16, <1>17, <1>18, <1>19, RecordStep

LEMMA ProposeRevertKeeps == ASSUME DsInv, NEW c \in ChatCalls, ProposeRevert(c) PROVE DsInv'
<1> DEFINE w == call[c]
<1>1. PICK o \in OpIds :
        /\ At(c, "restore") /\ IsNextOp(o)
        /\ edits' = [edits EXCEPT ![o] = [NoEdit EXCEPT
             !.session = w.s, !.kind = "revert", !.of = w.op, !.rev = PaperOf(c).rev,
             !.base = PaperOf(c).text, !.after = w.edit.before,
             !.status = "proposed", !.expires = w.now + TTL]]
        /\ Returns(c)
        /\ UNCHANGED <<paper, written, botched, refused, chat, sessions, current, until, strayed, onBoard, hour>>
  BY DEF ProposeRevert, UnchangedChat, UnchangedWorld
<1> DEFINE e == [NoEdit EXCEPT
             !.session = w.s, !.kind = "revert", !.of = w.op, !.rev = PaperOf(c).rev,
             !.base = PaperOf(c).text, !.after = w.edit.before,
             !.status = "proposed", !.expires = w.now + TTL]
<1>2. /\ w \in ChatLocals /\ w.pc = "restore" /\ CallFits(c) /\ edits[o].status = "none"
  BY <1>1, PaperFields DEF At, IsNextOp, DsInv, PaperInv
<1>3. /\ OpenedAt(w.s) /\ w.copy.paper = PaperAt(w.s) /\ w.s \in SessionIds
      /\ w.op \in OpIds /\ Used(w.op) /\ w.edit.before \in Texts
      /\ w.now + TTL \in 0 .. MaxHour + TTL
  BY <1>2, PaperFields, FieldsOfDocs, NumbersOfTexts DEF CallFits
<1>4. PaperOf(c).rev \in Nat /\ PaperOf(c).text \in Texts /\ PaperOf(c) = paper[PaperAt(w.s)]
  BY <1>3, PaperFields DEF PaperOf
<1>5. /\ e \in EditDocs /\ e.session = w.s /\ e.rev = PaperOf(c).rev /\ e.base = PaperOf(c).text
      /\ e.status = "proposed" /\ e.before = NoText /\ e.kind = "revert" /\ e.of = w.op
  BY <1>3, <1>4, DocsAreTyped, NumbersOfTexts DEF NoEdit, EditDocs
<1>6. edits' = [edits EXCEPT ![o] = e]
  BY <1>1
<1> HIDE DEF e
<1>7. edits' \in [OpIds -> EditDocs] /\ \A p \in OpIds : edits'[p] = IF p = o THEN e ELSE edits[p]
  BY <1>5, <1>6 DEF DsInv, DsTypeOK
<1>8. w.op # o
  BY <1>2, <1>3 DEF Used
<1>9. Keeps
  <2>1. EditsStay
    BY <1>2, <1>7 DEF EditsStay, Used, SameEdit
  <2> QED BY <1>1, <2>1, TypesStay DEF Keeps, RevisionsGrow, WritesAreNew
<1>10. Moves(c, AtEase) /\ ReadsPaper(c, AtEase) /\ AtEase.pc = "idle"
  BY <1>1, DocsAreTyped DEF Moves, ReadsPaper, Returns
<1>11. \A p : HasRevert(p)' => HasRevert(p) \/ p = w.op
  BY <1>2, <1>5, <1>7 DEF HasRevert, Used
<1>12. Undecided(o)
  BY DEF DsInv, PaperInv, OpHolds
<1>13. OpHolds(o)'
  <2>1. o \notin refused'
    BY <1>1, <1>2, <1>12 DEF Undecided
  <2>2. HasRevert(o)' => HasRevert(o)
    BY <1>8, <1>11
  <2> QED BY <1>1, <1>2, <1>5, <1>7, <1>10, <2>1, <2>2, NewOpHolds
<1>14. ASSUME NEW p \in OpIds, p # o PROVE OpHolds(p)'
  <2>1. AtEase.op # p /\ edits'[p] = edits[p] /\ call[c].pc \notin Working /\ c \in ChatCalls
    BY <1>2, <1>7, <1>14, DocsAreTyped, NumbersOfTexts DEF Working
  <2>2. \A d \in ChatCalls : Works(d, p)' <=> Works(d, p)
    BY <1>10, <2>1, WorksAfter DEF Works, Working
  <2>3. \A d \in ChatCalls : Works(d, p) => (call'[d].pc = "save" <=> call[d].pc = "save")
    BY <1>10, <2>1, <2>2, WorksAfter, CallAfter DEF Works, Working
  <2>4. (AtWork(p)' => AtWork(p)) /\ (Restores(p)' => Restores(p))
    BY <1>10, <2>1, WorksAfter
  <2>5. HasRevert(p)' => HasRevert(p) \/ Restores(p)
    BY <1>2, <1>11, <2>1 DEF Restores
  <2>6. Untouched(p)
    BY <1>1, <2>1, <2>2, <2>3, <2>4, <2>5 DEF Untouched
  <2> QED BY <2>6, OpStays
<1>15. EditFits(o)' /\ \A p \in OpIds : ~Used(p) => EditFits(p)'
  <2>1. written'[o] = 0
    BY <1>1, <1>2, <1>12 DEF Undecided
  <2>2. PICK s : s = w.s
    OBVIOUS
  <2>3. /\ edits'[o].session = s /\ edits'[o].rev = paper[PaperAt(s)].rev
        /\ edits'[o].base = paper[PaperAt(s)].text /\ paper[PaperAt(s)].rev \in Nat
        /\ edits'[o].of \in OpIds /\ edits'[edits'[o].of].status # "none"
    BY <1>3, <1>4, <1>5, <1>7, <1>8, <2>2 DEF Used
  <2>4. OpenedAt(s)' /\ PaperAt(s)' = PaperAt(s) /\ paper' = paper
    BY <1>1, <1>3, <2>2 DEF OpenedAt, PaperAt
  <2>5. EditFits(o)'
    BY <2>1, <2>3, <2>4 DEF EditFits, IsTextAt, Used
  <2> QED BY <1>7, <2>5 DEF EditFits, Used
<1>16. RecordsTyped'
  BY <1>1, <1>3, <1>5, <1>7, TypesOfParts DEF RecordsTyped
<1>17. ChatTyped' /\ ChatPoints' /\ UNCHANGED <<onBoard, hour>>
  BY <1>1, <1>10, ChatStep, TypesStay
<1>18. \A p \in OpIds : OpHolds(p)'
  BY <1>13, <1>14
<1> QED BY <1>9, <1>10, <1>15, <1>16, <1>17, <1>18, RecordStep

LEMMA SaveAppliedKeeps == ASSUME DsInv, NEW c \in ChatCalls, SaveApplied(c) PROVE DsInv'
<1>. PICK o, w : w = call[c] /\ o = w.op
  OBVIOUS
<1> DEFINE e == [w.edit EXCEPT !.status = "applied", !.before = w.text]
           back(p) == [edits[p] EXCEPT !.status = "reverted"]
           undoes(p) == w.edit.kind = "revert" /\ p = w.edit.of
<1>1. /\ w.pc = "save" /\ w \in ChatLocals /\ c \in ChatCalls
      /\ edits' = [p \in OpIds |-> IF p = o THEN e ELSE IF undoes(p) THEN back(p) ELSE edits[p]]
      /\ Touched(c) /\ Returns(c)
      /\ UNCHANGED <<paper, written, botched, refused, onBoard, hour>>
  BY PaperFields DEF SaveApplied, At, UnchangedWorld
<1>2. /\ o \in OpIds /\ Used(o) /\ w.edit \in EditDocs /\ SameEdit(w.edit, edits[o])
      /\ o \notin refused /\ Undecided(o) /\ EditFits(o) /\ (o \notin botched => RecordOf(o)) /\ Works(c, o)
  BY <1>1, WorkerFacts DEF Working
<1>3. w.text = w.edit.base /\ w.text \in Texts /\ w.edit.base = edits[o].base
  BY <1>1, <1>2, FieldsOfDocs DEF DsInv, PaperInv, CallFits, SameEdit
<1>4. e \in EditDocs /\ e.status = "applied" /\ e.before = edits[o].base /\ e.base = edits[o].base /\ SameEdit(e, edits[o])
  BY <1>2, <1>3 DEF EditDocs, SameEdit
<1>5. \A p \in OpIds : /\ back(p) \in EditDocs /\ back(p).status = "reverted" /\ back(p).before = edits[p].before
                       /\ SameEdit(back(p), edits[p])
  BY PaperFields DEF EditDocs, SameEdit
<1>6. \A p \in OpIds : undoes(p) => Used(p) /\ HasRevert(p)
  BY <1>2 DEF EditFits, SameEdit, HasRevert
<1> HIDE DEF e, back, undoes
<1>7. /\ edits' \in [OpIds -> EditDocs]
      /\ \A p \in OpIds : edits'[p] = IF p = o THEN e ELSE IF undoes(p) THEN back(p) ELSE edits[p]
  BY <1>1, <1>4, <1>5, PaperFields
<1>8. EditsStay /\ \A p \in OpIds : Used(p)' => Used(p)
  BY <1>2, <1>4, <1>5, <1>6, <1>7 DEF EditsStay, Used, SameEdit
<1>9. Moves(c, AtEase) /\ AtEase.pc = "idle" /\ AtEase.op # o
  BY <1>1, <1>2, DocsAreTyped, NumbersOfTexts DEF Moves, Returns
<1>10. ChatPoints' /\ ChatTyped' /\ SessionsStay
  BY <1>1, <1>9, TouchStep
<1>11. Keeps
  BY <1>1, <1>8, <1>10 DEF Keeps, RevisionsGrow, WritesAreNew
<1>12. \A p : HasRevert(p)' => HasRevert(p)
  <2>1. \A r \in OpIds : Used(r) => edits'[r].kind = edits[r].kind /\ edits'[r].of = edits[r].of
    BY <1>8 DEF EditsStay, SameEdit
  <2> QED BY <1>8, <2>1 DEF HasRevert
<1>13. ASSUME NEW p \in OpIds, p # o PROVE OpHolds(p)'
  <2>0. AtEase.op # p /\ call[c].op # p
    BY <1>13, DocsAreTyped, NumbersOfTexts
  <2>1. CASE ~undoes(p)
    <3>1. edits'[p] = edits[p]
      BY <1>7, <1>13, <2>1
    <3>2. Apart(c, AtEase, p)
      BY <1>1, <1>12, <2>0, <3>1 DEF Apart
    <3> QED BY <1>9, <3>2, OthersStay
  <2>2. CASE undoes(p)
    <3>1. /\ edits'[p].status = "reverted" /\ edits'[p].before = edits[p].before
          /\ edits'[p].base = edits[p].base /\ written'[p] = written[p]
      BY <1>1, <1>5, <1>7, <1>13, <2>2 DEF SameEdit
    <3>2. Undecided(p) /\ (p \notin botched => RecordOf(p))
      BY DEF DsInv, PaperInv, OpHolds
    <3>3. (AtWork(p)' => AtWork(p)) /\ (Restores(p)' => Restores(p)) /\ \A d \in ChatCalls : Works(d, p)' => Works(d, p)
      BY <1>1, <1>9, <2>0, WorksAfter
    <3>4. Undecided(p)'
      BY <1>1, <3>1, <3>2, <3>3 DEF Undecided
    <3>5. ASSUME p \notin botched' PROVE RecordOf(p)'
      <4>1. RecordOf(p) /\ HasRevert(p)
        BY <1>1, <1>6, <2>2, <3>2, <3>5
      <4>2. /\ written[p] = 1 /\ edits[p].before = edits[p].base
            /\ \A d \in ChatCalls : ~Works(d, p)
        BY <4>1 DEF RecordOf
      <4> QED BY <3>1, <3>3, <4>2 DEF RecordOf, IsWritten
    <3> QED BY <3>4, <3>5 DEF OpHolds
  <2> QED BY <2>1, <2>2
<1>14. OpHolds(o)'
  <2>1. /\ edits'[o].status = "applied" /\ edits'[o].before = edits[o].base /\ edits'[o].base = edits[o].base
        /\ written'[o] = written[o] /\ o \notin refused'
    BY <1>1, <1>2, <1>4, <1>7
  <2>2. Undecided(o)'
    BY <1>2, <2>1 DEF Undecided
  <2>3. ASSUME o \notin botched' PROVE RecordOf(o)'
    <3>1. RecordOf(o) /\ written[o] = 1
      BY <1>1, <1>2, <2>3 DEF RecordOf
    <3>2. \A d \in ChatCalls : ~Works(d, o)'
      BY <1>1, <1>2, <1>9, <3>1, WorksAfter DEF RecordOf
    <3>3. ~(Restores(o) \/ HasRevert(o))'
      BY <1>1, <1>2, <1>9, <1>12, <3>1, WorksAfter DEF RecordOf
    <3> QED BY <2>1, <3>1, <3>2, <3>3 DEF RecordOf, IsWritten
  <2> QED BY <2>2, <2>3 DEF OpHolds
<1>15. RecordsTyped'
  <2>1. \A p \in OpIds : edits'[p].status # "none" => edits'[p].session \in SessionIds
    BY <1>8, PaperFields DEF EditsStay, Used, SameEdit
  <2> QED BY <1>1, <1>7, <2>1, TypesOfParts DEF RecordsTyped
<1>16. \A p \in OpIds : ~Used(p) => EditFits(p)'
  BY <1>8 DEF EditFits
<1>17. \A p \in OpIds : OpHolds(p)'
  BY <1>13, <1>14
<1> QED BY <1>1, <1>9, <1>10, <1>11, <1>15, <1>16, <1>17, RecordStep

LEMMA TouchKeeps == ASSUME DsInv, NEW c \in ChatCalls, Touch(c) PROVE DsInv'
<1> DEFINE new == [call[c] EXCEPT !.pc = "read"]
<1>1. call[c] \in ChatLocals /\ call[c].pc = "touch" /\ CallFits(c)
  BY PaperFields DEF Touch, At, DsInv, PaperInv
<1>2. new \in ChatLocals /\ new.pc = "read" /\ new.s = call[c].s /\ new.copy = call[c].copy
  BY <1>1 DEF ChatLocals, Steps
<1>3. call' = [call EXCEPT ![c] = new]
  BY DEF Touch, Proceeds
<1> HIDE DEF new
<1>4. Moves(c, new) /\ Touched(c) /\ UNCHANGED <<onBoard, hour, edits, paper, written, refused, botched>>
  BY <1>2, <1>3 DEF Moves, Touch, UnchangedPaper, UnchangedWorld
<1>5. ChatPoints' /\ ChatTyped' /\ SessionsStay
  BY <1>1, <1>2, <1>4, TouchStep
<1>6. CallFits(c)'
  <2>1. PICK s : s = call[c].s
    OBVIOUS
  <2>2. OpenedAt(s) /\ call[c].copy.status # "none" /\ call[c].copy.paper = PaperAt(s)
    BY <1>1, <2>1 DEF CallFits
  <2>3. OpenedAt(s)' /\ call[c].copy.paper = PaperAt(s)'
    BY <1>5, <2>2 DEF SessionsStay, OpenedAt, PaperAt
  <2> QED BY <1>2, <1>4, <2>1, <2>2, <2>3, CallAfter DEF CallFits, OpenedAt, PaperAt
<1>7. KeepsToItself(c, new)
  BY <1>1, <1>2, <1>4, <1>6 DEF KeepsToItself, Working
<1>8. PaperInv'
  BY <1>4, <1>5, <1>7, QuietStep
<1>9. RecordsTyped' /\ WorldTyped'
  BY <1>4, TypesOfParts DEF RecordsTyped, WorldTyped
<1>10. DsTypeOK'
  BY <1>4, <1>5, <1>9, CallAfter, TypesOfParts
<1> QED BY <1>5, <1>8, <1>10 DEF DsInv
-----------------------------------------------------------------------------
LEMMA InitDsInv == DsInit => DsInv
<1> SUFFICES ASSUME DsInit PROVE DsInv
  OBVIOUS
<1>1. /\ \A s \in SessionIds : sessions[s] = NoSession
      /\ \A o \in OpIds : edits[o] = NoEdit /\ written[o] = 0
      /\ \A d \in Papers : paper[d] = [rev |-> 1, text |-> 0]
      /\ \A c \in ChatCalls : call[c] = AtEase
  BY DEF DsInit
<1>2. DsTypeOK
  <2>1. 0 \in 0 .. MaxHour + TTL /\ 0 \in 0 .. MaxHour /\ [rev |-> 1, text |-> 0] \in [rev : Nat, text : Texts]
    BY NumbersOfTexts
  <2>2. sessions \in [SessionIds -> SessionDocs] /\ edits \in [OpIds -> EditDocs]
        /\ call \in [ChatCalls -> ChatLocals] /\ paper \in [Papers -> [rev : Nat, text : Texts]]
    BY <2>1, DocsAreTyped DEF DsInit
  <2> QED BY <1>1, <2>1, <2>2, DocsAreTyped, QuestionIsChat DEF DsInit, DsTypeOK
<1>3. ASSUME NEW c \in ChatCalls PROVE CallFits(c)
  BY <1>1, DocsAreTyped DEF CallFits
<1>4. ASSUME NEW o \in OpIds PROVE EditFits(o) /\ OpHolds(o)
  <2>1. edits[o].status = "none" /\ edits[o].before = NoText /\ written[o] = 0 /\ o \notin refused
    BY <1>1, DocsAreTyped DEF DsInit
  <2>2. \A c \in ChatCalls : ~Works(c, o) /\ call[c].pc # "restore"
    BY <1>1, DocsAreTyped DEF Works
  <2>3. ~HasRevert(o)
    BY <1>1, DocsAreTyped DEF HasRevert, Used
  <2> QED BY <2>1, <2>2, <2>3 DEF EditFits, Used, OpHolds, Undecided, RecordOf, Restores, IsWritten
<1>5. ChatPoints
  BY QuestionIsChat DEF DsInit, ChatPoints
<1> QED BY <1>2, <1>3, <1>4, <1>5 DEF DsInv, PaperInv

LEMMA DsInvStep == DsInv /\ [DsNext]_sessionvars => DsInv'
<1> SUFFICES ASSUME DsInv, [DsNext]_sessionvars PROVE DsInv'
  OBVIOUS
<1>1. CASE LosesSeat \/ HourPasses \/ UNCHANGED sessionvars \/ \E d \in Papers : PersonEdits(d)
  BY <1>1, ChatWorldKeeps
<1>2. ASSUME NEW c \in ChatCalls, DsBegin(c) PROVE DsInv'
  <2>1. ASSUME NEW d \in Papers, Open(c, d) PROVE DsInv'
    BY <2>1, OpenKeeps
  <2>2. CASE End(c) \/ RefuseText(c) \/ StartCalendar(c) \/ CalendarTurn(c)
    BY <2>2, ChatButtonsKeep DEF End, RefuseText
  <2>3. CASE Instruct(c)
    BY <2>3, InstructKeeps
  <2>4. ASSUME NEW o \in OpIds, Decline(c, o) PROVE DsInv'
    BY <2>4, DeclineKeeps
  <2>5. ASSUME NEW o \in OpIds, Confirm(c, o) PROVE DsInv'
    BY <2>5, TakenKeeps DEF Confirm, At, UnchangedChat, UnchangedPaper, UnchangedWorld
  <2>6. ASSUME NEW o \in OpIds, Undo(c, o) PROVE DsInv'
    BY <2>6, TakenKeeps DEF Undo, At, UnchangedChat, UnchangedPaper, UnchangedWorld
  <2> QED BY <1>2, <2>1, <2>2, <2>3, <2>4, <2>5, <2>6 DEF DsBegin
<1>3. ASSUME NEW c \in ChatCalls, DsProceed(c) PROVE DsInv'
  <2>1. CASE Touch(c)
    BY <2>1, TouchKeeps
  <2>2. CASE ReadPaper(c) \/ Draft(c)
    BY <2>2, ReadPaperKeeps, DraftKeeps
  <2>3. CASE NoDraft(c) \/ RevertFails(c)
    BY <2>3, GivingUpKeeps DEF GivesUp, NoDraft, RevertFails, At, Working, UnchangedChat, UnchangedPaper, UnchangedWorld
  <2>4. CASE Propose(c) \/ ProposeRevert(c)
    BY <2>4, ProposeKeeps, ProposeRevertKeeps
  <2>5. CASE Claimed(c)
    BY <2>5, ClaimedKeeps
  <2>6. CASE Look(c)
    BY <2>6, LookKeeps, SettleKeeps DEF Look, At
  <2>7. CASE WritePaper(c) \/ WriteFails(c)
    BY <2>7, WritePaperKeeps, WriteFailsKeeps
  <2>8. CASE SaveApplied(c)
    BY <2>8, SaveAppliedKeeps
  <2> QED BY <1>3, <2>1, <2>2, <2>3, <2>4, <2>5, <2>6, <2>7, <2>8 DEF DsProceed
<1>4. ASSUME NEW c \in ChatCalls, CallDies(c) PROVE DsInv'
  BY <1>4, GivingUpKeeps DEF GivesUp, CallDies, Working, UnchangedChat, UnchangedWorld
<1> QED BY <1>1, <1>2, <1>3, <1>4 DEF DsNext

LEMMA DsInvHolds == DsSpec => []DsInv
BY InitDsInv, DsInvStep, PTL DEF DsSpec

LEMMA DsInvMeans ==
    DsInv => WrittenOnce /\ RefusedStaysUnwritten /\ RecordIsTrue /\ TextsReachTheWork
<1> SUFFICES ASSUME DsInv PROVE WrittenOnce /\ RefusedStaysUnwritten /\ RecordIsTrue /\ TextsReachTheWork
  OBVIOUS
<1>1. \A o \in OpIds : Undecided(o) /\ (o \notin botched => RecordOf(o))
  BY DEF DsInv, PaperInv, OpHolds
<1>2. WrittenOnce /\ RefusedStaysUnwritten
  BY <1>1, TypesOfParts DEF WrittenOnce, RefusedStaysUnwritten, Undecided, RecordsTyped
<1>3. RecordIsTrue
  BY <1>1 DEF RecordIsTrue, RecordOf, IsWritten, AtWork, Works
<1>4. TextsReachTheWork
  BY DEF DsInv, ChatPoints, TextsReachTheWork, PointsTo
<1> QED BY <1>2, <1>3, <1>4

(* A proposal is written over the text it was drafted from.                       *)
LEMMA WritesStep ==
    DsInv /\ [DsNext]_sessionvars =>
        [\A o \in OpIds : written'[o] > written[o] =>
             paper[sessions[edits[o].session].paper].text = edits[o].base]_sessionvars
<1> SUFFICES ASSUME DsInv, DsNext, NEW o \in OpIds, written'[o] > written[o]
             PROVE  paper[sessions[edits[o].session].paper].text = edits[o].base
  OBVIOUS
<1>1. written[o] \in Nat
  BY PaperFields
<1>2. written' # written
  BY <1>1
<1>3. PICK c \in ChatCalls : DsBegin(c) \/ DsProceed(c) \/ CallDies(c)
  BY <1>2 DEF DsNext, PersonEdits, LosesSeat, HourPasses, UnchangedPaper
<1>4. ~DsBegin(c)
  BY <1>2 DEF DsBegin, Open, End, RefuseText, Leave, StartCalendar, CalendarTurn, Instruct, Decline, Confirm,
              Undo, UnchangedPaper
<1>5. WritePaper(c) \/ WriteFails(c)
  BY <1>2, <1>3, <1>4 DEF DsProceed, CallDies, Touch, ReadPaper, NoDraft, Draft, Propose, Claimed, Look, Settle,
                          SaveApplied, ProposeRevert, RevertFails, UnchangedPaper
<1>6. Rewrites(c, call[c].op)
  BY <1>2, <1>5 DEF WritePaper, WriteFails, Settle, Rewrites, At
<1>7. call[c].op = o
  BY <1>1, <1>6, PaperRewritten
<1> QED BY <1>6, <1>7, PaperRewritten DEF PaperAt

(* The documents of the chat and the locals of its calls are well formed.         *)
THEOREM PaperTypes == DsSpec => []DsTypeOK
<1>1. DsInv => DsTypeOK
  BY DEF DsInv
<1> QED BY DsInvHolds, <1>1, PTL

(* An edit agreed to in the chat is written once and over the text it was made    *)
(* from, one refused is not written, the record says which, and what a member     *)
(* writes reaches his document, for any number of documents, sessions, proposals, *)
(* calls of the chat and people who edit at the same time (handle_turn, _decide,  *)
(* _apply, _propose_revert, _touch).                                              *)
THEOREM PaperHolds == DsSpec => PaperWork
<1>1. DsSpec => NoLostUpdate
  BY DsInvHolds, WritesStep, PTL DEF DsSpec, NoLostUpdate
<1> QED BY DsInvHolds, DsInvMeans, <1>1, PTL DEF PaperWork
-----------------------------------------------------------------------------
(* The office.                                                               *)
-----------------------------------------------------------------------------
(* Of a step of the office, one component makes a step of its own and the others  *)
(* stay as they are.                                                              *)
LEMMA PartsStep ==
    OfficeNext \/ UNCHANGED officevars =>
        /\ [StNext]_storevars
        /\ [DsNext]_sessionvars
        /\ [PrNext]_ledgervars
        /\ [LgNext]_filevars
        /\ [NtNext]_noticevars
        /\ [FbNext]_fbvars
        /\ [SvNext]_surveyvars
        /\ [CwNext]_contentvars
        /\ [Tick]_deferralVars
<1> SUFFICES ASSUME OfficeNext \/ UNCHANGED officevars
    PROVE  /\ StNext \/ UNCHANGED storevars
           /\ DsNext \/ UNCHANGED sessionvars
           /\ PrNext \/ UNCHANGED ledgervars
           /\ LgNext \/ UNCHANGED filevars
           /\ NtNext \/ UNCHANGED noticevars
           /\ FbNext \/ UNCHANGED fbvars
           /\ SvNext \/ UNCHANGED surveyvars
           /\ CwNext \/ UNCHANGED contentvars
           /\ Tick \/ UNCHANGED deferralVars
  OBVIOUS
<1>1. CASE UNCHANGED officevars
  BY <1>1 DEF officevars
<1>2. CASE Rest("stores") /\ StNext
  BY <1>2 DEF Rest
<1>3. CASE Rest("sessions") /\ DsNext
  BY <1>3 DEF Rest
<1>4. CASE Rest("ledger") /\ PrNext
  BY <1>4 DEF Rest
<1>5. CASE Rest("files") /\ LgNext
  BY <1>5 DEF Rest
<1>6. CASE Rest("notices") /\ NtNext
  BY <1>6 DEF Rest
<1>7. CASE Rest("feedback") /\ FbNext
  BY <1>7 DEF Rest
<1>8. CASE Rest("surveys") /\ SvNext
  BY <1>8 DEF Rest
<1>9. CASE Rest("content") /\ CwNext
  BY <1>9 DEF Rest
<1>10. CASE Rest("deferral") /\ Tick
  BY <1>10 DEF Rest
<1> QED BY <1>1, <1>2, <1>3, <1>4, <1>5, <1>6, <1>7, <1>8, <1>9, <1>10 DEF OfficeNext

(* The office implements the specification of each of its components.             *)
LEMMA OfficeImplementsParts ==
    OfficeSpec =>
        /\ StoreSpec
        /\ DsSpec
        /\ PrSpec
        /\ LgSpec
        /\ NtSpec
        /\ FbSpec
        /\ SvSpec
        /\ CwSpec
        /\ DeferralSpec
<1>1. OfficeInit =>
        /\ StInit
        /\ DsInit
        /\ PrInit
        /\ LgInit
        /\ NtInit
        /\ FbInit
        /\ SvInit
        /\ CwInit
        /\ DeferralInit
  BY DEF OfficeInit
<1>2. [OfficeNext]_officevars =>
        /\ [StNext]_storevars
        /\ [DsNext]_sessionvars
        /\ [PrNext]_ledgervars
        /\ [LgNext]_filevars
        /\ [NtNext]_noticevars
        /\ [FbNext]_fbvars
        /\ [SvNext]_surveyvars
        /\ [CwNext]_contentvars
        /\ [Tick]_deferralVars
  BY PartsStep
<1> QED BY <1>1, <1>2, PTL DEF OfficeSpec, StoreSpec, DsSpec, PrSpec, LgSpec, NtSpec, FbSpec, SvSpec, CwSpec, DeferralSpec

(* The documents of every component and the locals of its calls are well formed,  *)
(* for any number of calls, members and documents, as long as one sync of the     *)
(* folder runs at a time.                                                         *)
THEOREM OfficeTypes == ASSUME OneSync PROVE OfficeSpec => []OfficeTypeOK
<1>1. LgSpec => []LgTypeOK
  BY OneRowHolds, PTL
<1>2. DeferralSpec => []DeferralTypeOK
  <2>1. NotBeforeHeld => DeferralTypeOK
    BY DEF NotBeforeHeld
  <2> QED BY <2>1, NeverBeforeHeld, PTL
<1> QED BY <1>1, <1>2, OfficeImplementsParts, StoreTypes, PaperTypes, ProposalTypes, NoticeTypes,
           FeedbackTypes, SurveyTypes, ContentTypes, PTL DEF OfficeTypeOK

(* What the components promise holds of the office: of the work on a document,    *)
(* the ledger and its rows, the notices, the feedback box, the surveys, the       *)
(* content of LINE, the moment a held message goes, and the two repositories.     *)
THEOREM OfficeHolds ==
    ASSUME OneSync
    PROVE  OfficeSpec =>
               /\ PaperWork /\ LedgerHolds /\ NoticesGoOnce /\ FeedbackIsKept /\ SurveyIsKept
               /\ ContentIsTrue /\ []DeferredToFirstFreeSlot /\ StoresKeepPromise
BY OfficeImplementsParts, PaperHolds, LedgerTheorem, NoticesHold, FeedbackHolds, SurveysHold,
   ContentHolds, DeferralTheorem, StoresHold, PTL
=============================================================================
