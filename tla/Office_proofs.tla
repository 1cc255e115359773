---------------------------- MODULE Office_proofs ----------------------------
(* Proofs about the components of MCOffice, each for any number of its calls,    *)
(* documents and members.                                                        *)
EXTENDS MCOffice, FiniteSetTheorems, SequenceTheorems, TLAPS

-----------------------------------------------------------------------------
(* Surveys.                                                                  *)
-----------------------------------------------------------------------------
(* A survey that is not in has nothing; a call past the search has one that will *)
(* be, and one that reminds or sums up has read one that is.                     *)
CallsNameSurveys ==
    /\ \A s \in Surveys : ~survey[s].in => survey[s].answers = {}
    /\ \A c \in Callers :
         /\ caller[c].pc = "idle" => caller[c].todo = {}
         /\ caller[c].pc \in {"found", "remind", "digest"} => caller[c].s \in Surveys
         /\ caller[c].pc \in {"remind", "digest"} => caller[c].s \in Known /\ caller[c].copy.in

(* Unless two first imports overlapped, there is one survey, found or reserved. *)
OneFormOneSurvey == twice \/ \A s, r \in Known \cup Reserved : s = r

(* What was brought in is in the survey, or was dropped. *)
NothingGoesUnseen == twice \/
    \A s \in Known : brought \subseteq dropped \cup survey[s].answers
BroughtIntoOne == Known = {} => brought = {}

SvInv == SvTypeOK /\ CallsNameSurveys /\ OneFormOneSurvey /\ NothingGoesUnseen /\ BroughtIntoOne
-----------------------------------------------------------------------------
CallLocals == [pc : {"idle", "fetched", "found", "remind", "digest"},
               s : Surveys \cup {0}, copy : SurveyDocs, answers : SUBSET form, todo : SUBSET Guests]

LEMMA AtDoorIsLocal == NoSurvey \in SurveyDocs /\ AtDoor \in CallLocals /\ AtDoor.pc = "idle" /\ AtDoor.todo = {}
BY DEF NoSurvey, AtDoor, CallLocals, SurveyDocs

LEMMA InitSvInv == SvInit => SvInv
<1> SUFFICES ASSUME SvInit PROVE SvInv
  OBVIOUS
<1>1. /\ \A s \in Surveys : survey[s] = NoSurvey
      /\ \A c \in Callers : caller[c] = AtDoor
  BY DEF SvInit
<1>2. SvTypeOK
  BY AtDoorIsLocal DEF SvInit, SvTypeOK, CallLocals
<1>3. \A s \in Surveys : ~survey[s].in /\ survey[s].answers = {}
  BY <1>1 DEF NoSurvey
<1>4. CallsNameSurveys
  BY <1>1, <1>3, AtDoorIsLocal DEF CallsNameSurveys
<1>5. Known \cup Reserved = {}
  BY <1>1, <1>3, AtDoorIsLocal DEF Known, IsIn, Reserved
<1> QED BY <1>2, <1>4, <1>5 DEF SvInv, OneFormOneSurvey, NothingGoesUnseen, BroughtIntoOne, SvInit

(* A call that begins or ends: no document changes. *)
LEMMA CallKeeps ==
    ASSUME SvInv, NEW c \in Callers, NEW new \in CallLocals,
           caller' = [caller EXCEPT ![c] = new],
           UNCHANGED <<form, survey, brought, dropped>>,
           twice' \in BOOLEAN, twice => twice',
           new.pc = "idle" => new.todo = {},
           new.pc = "found" => new.s \in Surveys
                /\ (twice' \/ new.s \in Known \/ (Known = {} /\ Reserved = {})),
           new.pc \in {"remind", "digest"} => new.s \in Known /\ new.copy.in
    PROVE  SvInv'
<1>1. \A d \in Callers : caller'[d] = IF d = c THEN new ELSE caller[d]
  BY DEF SvInv, SvTypeOK
<1>2. SvTypeOK'
  <2>1. SurveyDocs' = SurveyDocs
    BY DEF SurveyDocs
  <2>2. caller \in [Callers -> CallLocals]
    BY DEF SvInv, SvTypeOK, CallLocals
  <2>3. caller' \in [Callers -> CallLocals]
    BY <2>2
  <2> QED BY <2>1, <2>3 DEF SvInv, SvTypeOK, CallLocals
<1>3. Known' = Known
  BY DEF Known, IsIn
<1>4. CallsNameSurveys'
  <2>1. ASSUME NEW d \in Callers
        PROVE  /\ caller'[d].pc = "idle" => caller'[d].todo = {}
               /\ caller'[d].pc \in {"found", "remind", "digest"} => caller'[d].s \in Surveys
               /\ caller'[d].pc \in {"remind", "digest"} => caller'[d].s \in Known /\ caller'[d].copy.in
    <3>1. CASE d = c
      BY <1>1, <3>1 DEF Known
    <3>2. CASE d # c
      BY <1>1, <3>2 DEF SvInv, CallsNameSurveys
    <3> QED BY <3>1, <3>2
  <2>2. \A s \in Surveys : ~survey'[s].in => survey'[s].answers = {}
    BY DEF SvInv, CallsNameSurveys
  <2> QED BY <1>3, <2>1, <2>2 DEF CallsNameSurveys
<1>5. OneFormOneSurvey'
  <2>1. Reserved' \subseteq Reserved \cup (IF new.pc = "found" THEN {new.s} ELSE {})
    BY <1>1 DEF Reserved
  <2> QED BY <1>3, <2>1 DEF SvInv, OneFormOneSurvey
<1>6. NothingGoesUnseen' /\ BroughtIntoOne'
  BY <1>3 DEF SvInv, NothingGoesUnseen, BroughtIntoOne
<1> QED BY <1>2, <1>4, <1>5, <1>6 DEF SvInv

(* The save of a copy of a survey that is in, or that its call has reserved. *)
LEMMA SaveKeeps ==
    ASSUME SvInv, NEW c \in Callers, NEW copy \in SurveyDocs,
           caller[c].s \in Known \cup Reserved, caller[c].s \in Surveys,
           copy.in, SaveSurvey(caller[c].s, copy), Rests(c), UNCHANGED <<form, twice>>
    PROVE  SvInv'
<1> DEFINE s == caller[c].s
<1>1. \A d \in Callers : caller'[d] = IF d = c THEN AtDoor ELSE caller[d]
  BY DEF SvInv, SvTypeOK, Rests
<1>2. \A r \in Surveys : survey'[r] = IF r = s THEN copy ELSE survey[r]
  BY DEF SvInv, SvTypeOK, SaveSurvey
<1>3. SvTypeOK'
  <2>1. SurveyDocs' = SurveyDocs
    BY DEF SurveyDocs
  <2>2. caller \in [Callers -> CallLocals]
    BY DEF SvInv, SvTypeOK, CallLocals
  <2>3. caller' \in [Callers -> CallLocals]
    BY <2>2, AtDoorIsLocal DEF Rests
  <2>4. survey' \in [Surveys -> SurveyDocs]
    BY DEF SvInv, SvTypeOK, SaveSurvey
  <2>5. copy.answers \subseteq form
    BY DEF SurveyDocs
  <2>6. survey[s].answers \subseteq form
    BY DEF SvInv, SvTypeOK, SurveyDocs
  <2>7. brought' \subseteq form /\ dropped' \subseteq form
    BY <2>5, <2>6 DEF SaveSurvey, SvInv, SvTypeOK
  <2> QED BY <2>1, <2>3, <2>4, <2>7 DEF SvInv, SvTypeOK, CallLocals
<1>4. Known' = Known \cup {s}
  BY <1>2 DEF Known, IsIn
<1>5. Reserved' \subseteq Reserved
  BY <1>1, AtDoorIsLocal DEF Reserved
<1>6. CallsNameSurveys'
  <2>1. \A r \in Surveys : ~survey'[r].in => survey'[r].answers = {}
    BY <1>2 DEF SvInv, CallsNameSurveys
  <2>3. ASSUME NEW d \in Callers
        PROVE  /\ caller'[d].pc = "idle" => caller'[d].todo = {}
               /\ caller'[d].pc \in {"found", "remind", "digest"} => caller'[d].s \in Surveys
               /\ caller'[d].pc \in {"remind", "digest"} => caller'[d].s \in Known' /\ caller'[d].copy.in
    <3>1. CASE d = c
      BY <1>1, <3>1, AtDoorIsLocal
    <3>2. CASE d # c
      BY <1>1, <1>4, <3>2 DEF SvInv, CallsNameSurveys
    <3> QED BY <3>1, <3>2
  <2> QED BY <2>1, <2>3 DEF CallsNameSurveys
<1>7. OneFormOneSurvey'
  BY <1>4, <1>5 DEF SvInv, OneFormOneSurvey
<1>8. NothingGoesUnseen'
  <2> SUFFICES ASSUME ~twice PROVE brought' \subseteq dropped' \cup copy.answers /\ Known' = {s}
    BY <1>2, <1>4 DEF NothingGoesUnseen
  <2>1. \A r \in Known : r = s
    BY DEF SvInv, OneFormOneSurvey
  <2>2. brought \subseteq dropped \cup survey[s].answers
    BY <2>1 DEF SvInv, NothingGoesUnseen, BroughtIntoOne
  <2> QED BY <1>4, <2>1, <2>2 DEF SaveSurvey
<1>9. BroughtIntoOne'
  BY <1>4 DEF BroughtIntoOne
<1> QED BY <1>3, <1>6, <1>7, <1>8, <1>9 DEF SvInv
-----------------------------------------------------------------------------
LEMMA AnswerKeeps ==
    ASSUME SvInv, NEW g \in Guests, Answer(g)
    PROVE  SvInv'
<1>1. form \subseteq form' /\ form' \subseteq Guests
  BY DEF Answer, SvInv, SvTypeOK
<1>2. survey' = survey /\ caller' = caller /\ brought' = brought /\ dropped' = dropped /\ twice' = twice
  BY DEF Answer
<1>3. SvTypeOK'
  <2>1. \A doc \in SurveyDocs : doc \in SurveyDocs'
    BY <1>1 DEF SurveyDocs
  <2>2. \A l \in CallLocals : l \in CallLocals'
    BY <1>1, <2>1 DEF CallLocals
  <2>3. caller \in [Callers -> CallLocals] /\ survey \in [Surveys -> SurveyDocs]
    BY DEF SvInv, SvTypeOK, CallLocals
  <2>4. caller \in [Callers -> CallLocals'] /\ survey \in [Surveys -> SurveyDocs']
    BY <2>1, <2>2, <2>3
  <2> QED BY <1>1, <1>2, <2>4 DEF SvInv, SvTypeOK, CallLocals
<1>4. Known' = Known /\ Reserved' = Reserved
  BY <1>2 DEF Known, IsIn, Reserved
<1> QED BY <1>2, <1>3, <1>4
        DEF SvInv, CallsNameSurveys, OneFormOneSurvey, NothingGoesUnseen, BroughtIntoOne

(* What a step of a call does: it rests again, goes on, or saves a copy. *)
CallerGoes(c, new) ==
    /\ caller' = [caller EXCEPT ![c] = new]
    /\ UNCHANGED <<form, survey, brought, dropped>>
    /\ twice' \in BOOLEAN /\ (twice => twice')
    /\ new.pc = "idle" => new.todo = {}
    /\ new.pc = "found" => new.s \in Surveys
          /\ (twice' \/ new.s \in Known \/ (Known = {} /\ Reserved = {}))
    /\ new.pc \in {"remind", "digest"} => new.s \in Known /\ new.copy.in
    /\ caller[c].pc = "idle" /\ new.todo # {} => new.s \in Known /\ new.todo \cap survey[new.s].answers = {}
Saves(c, copy) ==
    /\ caller[c].s \in Known \cup Reserved /\ caller[c].s \in Surveys
    /\ copy.in /\ SaveSurvey(caller[c].s, copy) /\ Rests(c) /\ UNCHANGED <<form, twice>>
    /\ copy.digest \/ ~caller[c].copy.digest
    /\ copy.reminders >= caller[c].copy.reminders

LEMMA CallSteps ==
    ASSUME SvInv, NEW c \in Callers,
           \/ FetchForm(c) \/ FindSurvey(c) \/ ImportForm(c)
           \/ RemindSurvey(c) \/ SaveReminder(c) \/ DigestSurvey(c) \/ SaveDigest(c)
           \/ CallFails(c)
    PROVE  (\E new \in CallLocals : CallerGoes(c, new)) \/ (\E copy \in SurveyDocs : Saves(c, copy))
<1>1. /\ caller[c] \in CallLocals /\ caller[c].copy \in SurveyDocs
      /\ \A s \in Surveys : survey[s] \in SurveyDocs
      /\ form \subseteq Guests /\ twice \in BOOLEAN
  BY DEF SvInv, SvTypeOK, CallLocals
<1>2. CASE FetchForm(c)
  <2> DEFINE new == [AtDoor EXCEPT !.pc = "fetched", !.answers = form]
  <2>1. new \in CallLocals /\ new.pc = "fetched" /\ new.todo = {}
    BY AtDoorIsLocal DEF AtDoor, CallLocals
  <2>2. CallerGoes(c, new)
    BY <1>1, <1>2, <2>1 DEF FetchForm, CallerGoes
  <2> QED BY <2>1, <2>2
<1>3. CASE FindSurvey(c)
  <2>1. PICK s \in Surveys :
          /\ caller[c].pc = "fetched"
          /\ IF Known = {} THEN IsFresh(s) ELSE s \in Known
          /\ caller' = [caller EXCEPT ![c] = [@ EXCEPT !.pc = "found", !.s = s, !.copy = survey[s]]]
          /\ twice' = (twice \/ (Known = {} /\ Reserved # {}))
          /\ UNCHANGED <<form, survey, made, brought, dropped>>
    BY <1>3 DEF FindSurvey
  <2> DEFINE new == [caller[c] EXCEPT !.pc = "found", !.s = s, !.copy = survey[s]]
  <2>2. new \in CallLocals /\ new.pc = "found" /\ new.s = s
    BY <1>1 DEF CallLocals
  <2>3. caller' = [caller EXCEPT ![c] = new]
    BY <2>1
  <2> HIDE DEF new
  <2>4. CallerGoes(c, new)
    BY <1>1, <2>1, <2>2, <2>3 DEF CallerGoes
  <2> QED BY <2>2, <2>4
<1>4. CASE ImportForm(c)
  <2> DEFINE copy == [caller[c].copy EXCEPT !.in = TRUE, !.answers = caller[c].answers]
  <2>1. /\ copy \in SurveyDocs /\ copy.in /\ copy.digest = caller[c].copy.digest
        /\ copy.reminders = caller[c].copy.reminders /\ copy.reminders \in Nat
    BY <1>1 DEF CallLocals, SurveyDocs
  <2>2. caller[c].s \in Reserved /\ caller[c].s \in Surveys
    BY <1>4 DEF ImportForm, Reserved, SvInv, CallsNameSurveys
  <2>3. SaveSurvey(caller[c].s, copy) /\ Rests(c) /\ UNCHANGED <<form, twice>>
    BY <1>4 DEF ImportForm
  <2> HIDE DEF copy
  <2> QED BY <2>1, <2>2, <2>3 DEF Saves
<1>5. CASE RemindSurvey(c)
  <2>1. PICK s \in Surveys :
          /\ caller[c].pc = "idle" /\ IsIn(s)
          /\ caller' = [caller EXCEPT ![c] = [AtDoor EXCEPT !.pc = "remind", !.s = s,
                                         !.copy = survey[s], !.todo = Unanswered(survey[s])]]
          /\ UNCHANGED <<form, survey, brought, dropped, twice>>
    BY <1>5 DEF RemindSurvey
  <2> DEFINE new == [AtDoor EXCEPT !.pc = "remind", !.s = s,
                                         !.copy = survey[s], !.todo = Unanswered(survey[s])]
  <2>2. s \in Known /\ Unanswered(survey[s]) \in SUBSET Guests
    BY <2>1 DEF Known, Unanswered
  <2>3. /\ new \in CallLocals /\ new.pc = "remind" /\ new.s = s /\ new.copy = survey[s]
        /\ new.todo = Unanswered(survey[s])
    BY <1>1, <2>2, AtDoorIsLocal DEF AtDoor, CallLocals
  <2>4. Unanswered(survey[s]) \cap survey[s].answers = {}
    BY DEF Unanswered
  <2>5. caller' = [caller EXCEPT ![c] = new] /\ survey[s].in
    BY <2>1 DEF IsIn
  <2> HIDE DEF new
  <2>6. CallerGoes(c, new)
    BY <1>1, <2>1, <2>2, <2>3, <2>4, <2>5 DEF CallerGoes
  <2> QED BY <2>3, <2>6
<1>6. CASE SaveReminder(c)
  <2> DEFINE copy == [caller[c].copy EXCEPT !.reminders = @ + 1]
  <2>1. caller[c].s \in Known /\ caller[c].copy.in /\ caller[c].s \in Surveys
    BY <1>6 DEF SaveReminder, SvInv, CallsNameSurveys
  <2>2. /\ copy \in SurveyDocs /\ copy.in /\ copy.digest = caller[c].copy.digest
        /\ copy.reminders = caller[c].copy.reminders + 1 /\ caller[c].copy.reminders \in Nat
    BY <1>1, <2>1 DEF SurveyDocs
  <2>3. SaveSurvey(caller[c].s, copy) /\ Rests(c) /\ UNCHANGED <<form, twice>>
    BY <1>6 DEF SaveReminder
  <2> HIDE DEF copy
  <2>4. copy.reminders >= caller[c].copy.reminders
    BY <2>2
  <2> QED BY <2>1, <2>2, <2>3, <2>4 DEF Saves
<1>7. CASE DigestSurvey(c)
  <2>1. PICK s \in Surveys :
          /\ caller[c].pc = "idle" /\ IsIn(s)
          /\ caller' = [caller EXCEPT ![c] = [AtDoor EXCEPT !.pc = "digest", !.s = s, !.copy = survey[s]]]
          /\ UNCHANGED <<form, survey, brought, dropped, twice>>
    BY <1>7 DEF DigestSurvey
  <2> DEFINE new == [AtDoor EXCEPT !.pc = "digest", !.s = s, !.copy = survey[s]]
  <2>2. new \in CallLocals /\ new.pc = "digest" /\ new.s = s /\ new.copy = survey[s] /\ new.todo = {}
    BY <1>1, AtDoorIsLocal DEF AtDoor, CallLocals
  <2>3. caller' = [caller EXCEPT ![c] = new] /\ survey[s].in /\ s \in Known
    BY <2>1 DEF IsIn, Known
  <2> HIDE DEF new
  <2>4. CallerGoes(c, new)
    BY <1>1, <2>1, <2>2, <2>3 DEF CallerGoes
  <2> QED BY <2>2, <2>4
<1>8. CASE SaveDigest(c)
  <2> DEFINE copy == [caller[c].copy EXCEPT !.digest = TRUE]
  <2>1. caller[c].s \in Known /\ caller[c].copy.in /\ caller[c].s \in Surveys
    BY <1>8 DEF SaveDigest, SvInv, CallsNameSurveys
  <2>2. /\ copy \in SurveyDocs /\ copy.in /\ copy.digest
        /\ copy.reminders = caller[c].copy.reminders /\ copy.reminders \in Nat
    BY <1>1, <2>1 DEF SurveyDocs
  <2>3. SaveSurvey(caller[c].s, copy) /\ Rests(c) /\ UNCHANGED <<form, twice>>
    BY <1>8 DEF SaveDigest
  <2> HIDE DEF copy
  <2> QED BY <2>1, <2>2, <2>3 DEF Saves
<1>9. CASE CallFails(c)
  <2>1. CallerGoes(c, AtDoor)
    BY <1>1, <1>9, AtDoorIsLocal DEF CallFails, Rests, CallerGoes
  <2> QED BY <2>1, AtDoorIsLocal
<1> QED BY <1>2, <1>3, <1>4, <1>5, <1>6, <1>7, <1>8, <1>9
-----------------------------------------------------------------------------
(* The two action properties, as what one step may not do. *)
NotRemindedStep == \A c \in Callers, g \in Guests :
    caller[c].pc = "idle" /\ g \in caller'[c].todo => twice \/ g \in dropped \/ g \notin brought
WorkKeptStep == \A s \in Surveys :
    /\ survey[s].digest /\ ~survey'[s].digest =>
         \E c \in Callers : caller[c].s = s /\ caller'[c] = AtDoor /\ ~caller[c].copy.digest
    /\ survey'[s].reminders < survey[s].reminders =>
         \E c \in Callers : caller[c].s = s /\ caller'[c] = AtDoor
            /\ caller[c].copy.reminders < survey[s].reminders

LEMMA SvStutter == SvInv /\ UNCHANGED surveyvars => SvInv'
BY DEF SvInv, surveyvars, SvTypeOK, SurveyDocs, CallsNameSurveys, OneFormOneSurvey, NothingGoesUnseen,
       BroughtIntoOne, Known, IsIn, Reserved

LEMMA SvStep ==
    ASSUME SvInv, SvNext
    PROVE  SvInv' /\ NotRemindedStep /\ WorkKeptStep
<1> caller \in [Callers -> CallLocals] /\ survey \in [Surveys -> SurveyDocs]
  BY DEF SvInv, SvTypeOK, CallLocals
<1>0. \A c \in Callers : caller[c].pc = "idle" => caller[c].todo = {}
  BY DEF SvInv, CallsNameSurveys
<1>1. ASSUME NEW g \in Guests, Answer(g)
      PROVE  SvInv' /\ NotRemindedStep /\ WorkKeptStep
  <2>1. survey' = survey /\ caller' = caller
    BY <1>1 DEF Answer
  <2>2. \A s \in Surveys : survey[s].reminders \in Nat
    BY DEF SurveyDocs
  <2> QED BY <1>0, <1>1, <2>1, <2>2, AnswerKeeps DEF NotRemindedStep, WorkKeptStep
<1>2. ASSUME NEW c \in Callers, NEW new \in CallLocals, CallerGoes(c, new)
      PROVE  SvInv' /\ NotRemindedStep /\ WorkKeptStep
  <2>1. survey' = survey /\ \A d \in Callers : caller'[d] = IF d = c THEN new ELSE caller[d]
    BY <1>2 DEF CallerGoes
  <2>2. \A s \in Surveys : survey[s].reminders \in Nat
    BY DEF SurveyDocs
  <2>3. SvInv'
    BY <1>2, CallKeeps DEF CallerGoes
  <2>4. WorkKeptStep
    BY <2>1, <2>2 DEF WorkKeptStep
  <2>5. NotRemindedStep
    <3> SUFFICES ASSUME NEW g \in Guests, caller[c].pc = "idle", g \in new.todo, ~twice
                 PROVE  g \in dropped \/ g \notin brought
      BY <1>0, <2>1 DEF NotRemindedStep
    <3>1. new.s \in Known /\ g \notin survey[new.s].answers
      BY <1>2 DEF CallerGoes
    <3> QED BY <3>1 DEF SvInv, NothingGoesUnseen
  <2> QED BY <2>3, <2>4, <2>5
<1>3. ASSUME NEW c \in Callers, NEW copy \in SurveyDocs, Saves(c, copy)
      PROVE  SvInv' /\ NotRemindedStep /\ WorkKeptStep
  <2>1. /\ \A d \in Callers : caller'[d] = IF d = c THEN AtDoor ELSE caller[d]
        /\ \A s \in Surveys : survey'[s] = IF s = caller[c].s THEN copy ELSE survey[s]
    BY <1>3 DEF Saves, SaveSurvey, Rests
  <2>2. /\ \A s \in Surveys : survey[s].reminders \in Nat
        /\ copy.reminders \in Nat /\ caller[c].copy.reminders \in Nat
    BY DEF SurveyDocs, CallLocals
  <2>3. SvInv'
    BY <1>3, SaveKeeps DEF Saves
  <2>4. NotRemindedStep
    BY <1>0, <2>1, AtDoorIsLocal DEF NotRemindedStep
  <2>5. WorkKeptStep
    BY <1>3, <2>1, <2>2 DEF WorkKeptStep, Saves
  <2> QED BY <2>3, <2>4, <2>5
<1> QED BY <1>1, <1>2, <1>3, CallSteps DEF SvNext

(* The documents of surveys and the locals of calls are well formed. *)
THEOREM SurveyTypes == SvSpec => []SvTypeOK
<1>2. SvInv => SvTypeOK
  BY DEF SvInv
<1> QED BY <1>2, InitSvInv, SvStep, SvStutter, PTL DEF SvSpec

(* For any members, calls and forms: the form has one survey, nobody whose        *)
(* answer was brought in is reminded, and what was made of a survey is kept,      *)
(* but for the late copies each part names (surveys_api.py:58, :219-263).         *)
THEOREM SurveysHold == SvSpec => SurveyIsKept
<1>2. SvInv => OneSurveyPerForm
  <2> SUFFICES ASSUME SvInv, ~twice PROVE ~(Cardinality(Known) > 1)
    BY DEF OneSurveyPerForm
  <2>1. Known = {} \/ \E s \in Known : Known = {s}
    BY DEF SvInv, OneFormOneSurvey
  <2>2. Cardinality(Known) \in {0, 1}
    BY <2>1, FS_EmptySet, FS_Singleton
  <2> QED BY <2>2
<1>3. SvInv /\ [SvNext]_surveyvars => [NotRemindedStep]_surveyvars /\ [WorkKeptStep]_surveyvars
  BY SvStep
<1> QED BY <1>2, <1>3, InitSvInv, SvStep, SvStutter, PTL
        DEF SvSpec, SurveyIsKept, AnsweredIsNotReminded, WorkIsKept, NotRemindedStep, WorkKeptStep

-----------------------------------------------------------------------------
(* The feedback box.                                                         *)
-----------------------------------------------------------------------------
(* Of an item nothing was overdone of, the SED hears once: before the message     *)
(* nobody has told him, after it the item bears the mark or waits for it.         *)
HeardAndMarked == \A i \in Items \ overdone :
    /\ heard[i] \in {0, 1}
    /\ heard[i] = 1 => box[i].told \/ (tick.pc = "mark" /\ i \in tick.todo)
    /\ tick.pc = "push" /\ i \in tick.todo => heard[i] = 0

FbInv == FbTypeOK /\ HeardAndMarked
-----------------------------------------------------------------------------
Ticks == [pc : {"idle", "triage", "push", "mark"}, todo : SUBSET Items, copy : [Items -> ItemDocs]]
PenLocals == [i : Items \cup {0}, copy : ItemDocs]

LEMMA FbRests ==
    /\ NoItem \in ItemDocs /\ NoItem.status = "none"
    /\ TickAtRest \in Ticks /\ TickAtRest.pc = "idle" /\ TickAtRest.todo = {}
    /\ NoPen \in PenLocals
BY DEF NoItem, ItemDocs, TickAtRest, Ticks, NoPen, PenLocals

LEMMA InitFbInv == FbInit => FbInv
BY FbRests DEF FbInit, FbInv, FbTypeOK, HeardAndMarked, Ticks, PenLocals

(* What steps do to the tick: it has an item less, or lists those it reads. *)
LEMMA TickHasLess ==
    ASSUME FbTypeOK, NEW i \in tick.todo
    PROVE  LET less == [tick EXCEPT !.todo = @ \ {i}, !.copy[i] = NoItem] IN
           /\ less \in Ticks /\ less.pc = tick.pc /\ less.todo = tick.todo \ {i}
           /\ \A k \in less.todo : less.copy[k] = tick.copy[k]
<1> DEFINE less == [tick EXCEPT !.todo = @ \ {i}, !.copy[i] = NoItem]
<1>1. tick \in Ticks /\ i \in Items
  BY DEF FbTypeOK, Ticks
<1>2. less.pc = tick.pc /\ less.todo = tick.todo \ {i} /\ less.copy = [tick.copy EXCEPT ![i] = NoItem]
  BY <1>1 DEF Ticks
<1>3. [tick.copy EXCEPT ![i] = NoItem] \in [Items -> ItemDocs]
  BY <1>1, FbRests DEF Ticks
<1>4. less \in Ticks
  BY <1>1, <1>3 DEF Ticks
<1>5. \A k \in less.todo : less.copy[k] = tick.copy[k]
  BY <1>1, <1>2 DEF Ticks
<1> QED BY <1>2, <1>4, <1>5

LEMMA BusyWith ==
    ASSUME FbTypeOK, NEW pc \in {"triage", "push"}, NEW S, S \subseteq Items,
           \A i \in S : In(i)
    PROVE  /\ Busy(pc, S) \in Ticks /\ Busy(pc, S).pc = pc /\ Busy(pc, S).todo = S
           /\ \A i \in S : Busy(pc, S).copy[i].status # "none"
<1>1. [i \in Items |-> IF i \in S THEN box[i] ELSE NoItem] \in [Items -> ItemDocs]
  BY FbRests DEF FbTypeOK
<1> QED BY <1>1 DEF Busy, Ticks, In

(* A step that saves a copy of an item that is there: what it leaves. *)
LEMMA SaveItemKeeps ==
    ASSUME FbTypeOK, NEW i \in Items, NEW copy \in ItemDocs, SaveItem(i, copy)
    PROVE  /\ box' \in [Items -> ItemDocs]
           /\ overdone \subseteq overdone' /\ overdone' \subseteq Items
           /\ \A k \in Items : box'[k] = IF k = i THEN copy ELSE box[k]
           /\ \A k \in Items \ overdone' : box[k].told => box'[k].told
BY DEF FbTypeOK, SaveItem

FbStatusStep == \A i \in Items :
    In(i) /\ box'[i].status # box[i].status =>
        \/ \E p \in Pens : pen[p].i = i /\ pen'[p] = NoPen
        \/ tick.copy[i].status = box'[i].status

LEMMA FbTriageStep ==
    ASSUME FbInv, NEW i \in Items, NEW ok \in BOOLEAN, Triage(i, ok)
    PROVE  FbInv' /\ FbStatusStep
<1> DEFINE copy == [tick.copy[i] EXCEPT !.triage = ok, !.failed = ~ok]
           less == [tick EXCEPT !.todo = @ \ {i}, !.copy[i] = NoItem]
<1>1. /\ tick \in Ticks /\ i \in tick.todo /\ tick.copy[i] \in ItemDocs /\ tick.copy[i].status # "none"
      /\ pen' = pen /\ heard' = heard /\ tick' = less /\ tick.pc = "triage"
  BY DEF Triage, FbInv, FbTypeOK, Ticks
<1>2. copy \in ItemDocs /\ copy.status = tick.copy[i].status
  BY <1>1 DEF ItemDocs
<1>3. SaveItem(i, copy)
  BY DEF Triage
<1>4. /\ less \in Ticks /\ less.pc = tick.pc /\ less.todo = tick.todo \ {i}
      /\ \A k \in less.todo : less.copy[k] = tick.copy[k]
  BY <1>1, TickHasLess DEF FbInv
<1> HIDE DEF copy, less
<1>5. /\ box' \in [Items -> ItemDocs]
      /\ overdone \subseteq overdone' /\ overdone' \subseteq Items
      /\ \A k \in Items : box'[k] = IF k = i THEN copy ELSE box[k]
      /\ \A k \in Items \ overdone' : box[k].told => box'[k].told
  BY <1>2, <1>3, SaveItemKeeps DEF FbInv
<1>6. FbTypeOK'
  BY <1>1, <1>4, <1>5 DEF FbInv, FbTypeOK, Ticks
<1>7. HeardAndMarked'
  BY <1>1, <1>4, <1>5 DEF FbInv, HeardAndMarked
<1>8. FbStatusStep
  BY <1>2, <1>5 DEF FbStatusStep
<1> QED BY <1>6, <1>7, <1>8 DEF FbInv

LEMMA FbMarkStep ==
    ASSUME FbInv, NEW i \in Items, MarkTold(i)
    PROVE  FbInv' /\ FbStatusStep
<1> DEFINE copy == [tick.copy[i] EXCEPT !.told = TRUE]
           less == [tick EXCEPT !.todo = @ \ {i}, !.copy[i] = NoItem]
<1>1. /\ tick \in Ticks /\ i \in tick.todo /\ tick.copy[i] \in ItemDocs /\ tick.copy[i].status # "none"
      /\ pen' = pen /\ heard' = heard /\ tick.pc = "mark"
      /\ tick' = IF tick.todo = {i} THEN TickAtRest ELSE less
  BY DEF MarkTold, FbInv, FbTypeOK, Ticks
<1>2. copy \in ItemDocs /\ copy.status = tick.copy[i].status /\ copy.told
  BY <1>1 DEF ItemDocs
<1>3. SaveItem(i, copy)
  BY DEF MarkTold
<1>4. /\ less \in Ticks /\ less.pc = tick.pc /\ less.todo = tick.todo \ {i}
      /\ \A k \in less.todo : less.copy[k] = tick.copy[k]
  BY <1>1, TickHasLess DEF FbInv
<1> HIDE DEF copy, less
<1>5. /\ box' \in [Items -> ItemDocs]
      /\ overdone \subseteq overdone' /\ overdone' \subseteq Items
      /\ \A k \in Items : box'[k] = IF k = i THEN copy ELSE box[k]
      /\ \A k \in Items \ overdone' : box[k].told => box'[k].told
  BY <1>2, <1>3, SaveItemKeeps DEF FbInv
<1>6. tick' \in Ticks /\ tick'.todo = tick.todo \ {i} /\ (tick'.pc = "mark" \/ tick'.todo = {})
      /\ tick'.pc # "push" /\ \A k \in tick'.todo : tick'.copy[k].status # "none"
  <2>1. CASE tick.todo = {i}
    BY <1>1, <2>1, FbRests
  <2>2. CASE tick.todo # {i}
    BY <1>1, <1>4, <2>2 DEF FbInv, FbTypeOK
  <2> QED BY <2>1, <2>2
<1>7. FbTypeOK'
  BY <1>1, <1>5, <1>6 DEF FbInv, FbTypeOK, Ticks
<1>8. HeardAndMarked'
  <2> SUFFICES ASSUME NEW k \in Items \ overdone'
               PROVE  /\ heard[k] \in {0, 1}
                      /\ heard[k] = 1 => box'[k].told \/ (tick'.pc = "mark" /\ k \in tick'.todo)
    BY <1>1, <1>6 DEF HeardAndMarked
  <2> k \in Items \ overdone
    BY <1>5
  <2>1. CASE k = i
    BY <1>2, <1>5, <2>1 DEF FbInv, HeardAndMarked
  <2>2. CASE k # i
    BY <1>1, <1>5, <1>6, <2>2 DEF FbInv, HeardAndMarked
  <2> QED BY <2>1, <2>2
<1>9. FbStatusStep
  BY <1>2, <1>5 DEF FbStatusStep
<1> QED BY <1>7, <1>8, <1>9 DEF FbInv

LEMMA FbPenStep ==
    ASSUME FbInv, NEW p \in Pens, SetStatus(p)
    PROVE  FbInv' /\ FbStatusStep
<1>1. PICK s \in Statuses : SaveItem(pen[p].i, [pen[p].copy EXCEPT !.status = s])
  BY DEF SetStatus
<1> DEFINE copy == [pen[p].copy EXCEPT !.status = s]
           i == pen[p].i
<1>2. i \in Items /\ pen[p].copy \in ItemDocs /\ pen[p].copy.status # "none"
  BY DEF FbInv, FbTypeOK, SetStatus
<1>3. copy \in ItemDocs /\ copy.status # "none"
  BY <1>2, StatusesAssumption DEF ItemDocs
<1>4. tick' = tick /\ heard' = heard /\ pen' = [pen EXCEPT ![p] = NoPen]
  BY DEF SetStatus
<1> HIDE DEF copy
<1>5. /\ box' \in [Items -> ItemDocs]
      /\ overdone \subseteq overdone' /\ overdone' \subseteq Items
      /\ \A k \in Items : box'[k] = IF k = i THEN copy ELSE box[k]
      /\ \A k \in Items \ overdone' : box[k].told => box'[k].told
  BY <1>1, <1>2, <1>3, SaveItemKeeps DEF FbInv, copy
<1>6. pen' \in [Pens -> PenLocals] /\ \A r \in Pens : pen'[r] = NoPen \/ pen'[r] = pen[r]
  BY <1>4, FbRests DEF FbInv, FbTypeOK, PenLocals
<1>7. pen'[p] = NoPen
  BY <1>4 DEF FbInv, FbTypeOK
<1>8. FbTypeOK'
  BY <1>4, <1>5, <1>6 DEF FbInv, FbTypeOK, PenLocals
<1>9. HeardAndMarked'
  BY <1>4, <1>5 DEF FbInv, HeardAndMarked
<1>10. FbStatusStep
  BY <1>5, <1>7 DEF FbStatusStep
<1> QED BY <1>8, <1>9, <1>10 DEF FbInv

(* The steps that save nothing. *)
LEMMA FbOtherSteps ==
    ASSUME FbInv,
           \/ ListUntold \/ NotNow \/ TickFails
           \/ \E got \in BOOLEAN : Notified(got)
           \/ \E early \in BOOLEAN : ListForTriage(early)
           \/ \E i \in Items : Submit(i)
           \/ \E p \in Pens, i \in Items : ReadItem(p, i)
           \/ UNCHANGED fbvars
    PROVE  FbInv' /\ FbStatusStep
<1> tick \in Ticks /\ pen \in [Pens -> PenLocals] /\ box \in [Items -> ItemDocs]
  BY DEF FbInv, FbTypeOK, Ticks, PenLocals
<1>1. CASE ListUntold
  <2> DEFINE untold == {i \in Items : In(i) /\ ~box[i].told}
  <2>1. box' = box /\ pen' = pen /\ heard' = heard /\ overdone' = overdone /\ tick.pc = "triage"
        /\ tick' = IF untold = {} THEN TickAtRest ELSE Busy("push", untold)
    BY <1>1 DEF ListUntold
  <2>2. /\ Busy("push", untold) \in Ticks /\ Busy("push", untold).todo = untold
        /\ \A i \in untold : Busy("push", untold).copy[i].status # "none"
    BY BusyWith DEF FbInv
  <2>3. /\ tick' \in Ticks /\ tick'.todo = untold /\ \A i \in untold : tick'.copy[i].status # "none"
    BY <2>1, <2>2, FbRests
  <2> HIDE DEF untold
  <2>4. FbTypeOK'
    BY <2>1, <2>3 DEF FbInv, FbTypeOK, Ticks
  <2>5. \A i \in untold : ~box[i].told
    BY DEF untold
  <2>6. HeardAndMarked'
    BY <2>1, <2>3, <2>5 DEF FbInv, HeardAndMarked
  <2> QED BY <2>1, <2>4, <2>6 DEF FbInv, FbStatusStep
<1>2. CASE NotNow
  <2>1. box' = box /\ pen' = pen /\ heard' = heard /\ overdone' = overdone /\ tick.pc = "push"
        /\ tick' = TickAtRest
    BY <1>2 DEF NotNow
  <2>2. FbTypeOK' /\ HeardAndMarked'
    BY <2>1, FbRests DEF FbInv, FbTypeOK, Ticks, HeardAndMarked
  <2> QED BY <2>1, <2>2 DEF FbInv, FbStatusStep
<1>3. CASE TickFails
  <2>1. /\ box' = box /\ pen' = pen /\ heard' = heard /\ tick' = TickAtRest
        /\ overdone' = overdone \cup (IF tick.pc = "mark" THEN tick.todo ELSE {})
    BY <1>3 DEF TickFails
  <2>2. tick.todo \subseteq Items
    BY DEF Ticks
  <2>3. FbTypeOK' /\ HeardAndMarked'
    BY <2>1, <2>2, FbRests DEF FbInv, FbTypeOK, Ticks, HeardAndMarked
  <2> QED BY <2>1, <2>3 DEF FbInv, FbStatusStep
<1>4. ASSUME NEW got \in BOOLEAN, Notified(got)
      PROVE  FbInv' /\ FbStatusStep
  <2>1. /\ box' = box /\ pen' = pen /\ overdone' = overdone /\ tick.pc = "push"
        /\ tick' = [tick EXCEPT !.pc = "mark"]
        /\ heard' = [i \in Items |-> IF got /\ i \in tick.todo THEN heard[i] + 1 ELSE heard[i]]
    BY <1>4 DEF Notified
  <2>2. tick' \in Ticks /\ tick'.pc = "mark" /\ tick'.todo = tick.todo /\ tick'.copy = tick.copy
    BY <2>1 DEF Ticks
  <2>3. heard' \in [Items -> Nat]
    BY <2>1 DEF FbInv, FbTypeOK
  <2>4. FbTypeOK'
    BY <2>1, <2>2, <2>3 DEF FbInv, FbTypeOK, Ticks
  <2>5. HeardAndMarked'
    BY <2>1, <2>2 DEF FbInv, HeardAndMarked
  <2> QED BY <2>1, <2>4, <2>5 DEF FbInv, FbStatusStep
<1>5. ASSUME NEW early \in BOOLEAN, ListForTriage(early)
      PROVE  FbInv' /\ FbStatusStep
  <2> DEFINE S == NewestOf({i \in Items : NeedsTriage(i, early)})
  <2>1. box' = box /\ pen' = pen /\ heard' = heard /\ overdone' = overdone /\ tick.pc = "idle"
        /\ tick' = Busy("triage", S)
    BY <1>5 DEF ListForTriage
  <2>2. S \subseteq Items /\ \A i \in S : In(i)
    BY DEF NewestOf, NeedsTriage
  <2> HIDE DEF S
  <2>3. /\ tick' \in Ticks /\ tick'.pc = "triage" /\ tick'.todo = S
        /\ \A i \in S : tick'.copy[i].status # "none"
    BY <2>1, <2>2, BusyWith DEF FbInv
  <2>4. FbTypeOK'
    BY <2>1, <2>3 DEF FbInv, FbTypeOK, Ticks
  <2>5. HeardAndMarked'
    BY <2>1, <2>3 DEF FbInv, HeardAndMarked
  <2> QED BY <2>1, <2>4, <2>5 DEF FbInv, FbStatusStep
<1>6. ASSUME NEW i \in Items, Submit(i)
      PROVE  FbInv' /\ FbStatusStep
  <2>1. /\ tick' = tick /\ pen' = pen /\ heard' = heard /\ overdone' = overdone
        /\ box[i] = NoItem /\ box' = [box EXCEPT ![i].status = "new"]
    BY <1>6 DEF Submit, In, FbInv, FbTypeOK, ItemDocs
  <2> DEFINE new == [box[i] EXCEPT !.status = "new"]
  <2>2. new \in ItemDocs /\ new.told = box[i].told
    BY <2>1, StatusesAssumption DEF ItemDocs, NoItem
  <2>3. box' = [box EXCEPT ![i] = new]
    BY <2>1
  <2> HIDE DEF new
  <2>4. box' \in [Items -> ItemDocs] /\ \A k \in Items : box'[k] = IF k = i THEN new ELSE box[k]
    BY <2>2, <2>3
  <2>5. FbTypeOK'
    BY <2>1, <2>4 DEF FbInv, FbTypeOK
  <2>6. HeardAndMarked'
    BY <2>1, <2>2, <2>4 DEF FbInv, HeardAndMarked
  <2>7. FbStatusStep
    BY <1>6, <2>4 DEF FbStatusStep, Submit
  <2> QED BY <2>5, <2>6, <2>7 DEF FbInv
<1>7. ASSUME NEW p \in Pens, NEW i \in Items, ReadItem(p, i)
      PROVE  FbInv' /\ FbStatusStep
  <2> DEFINE new == [i |-> i, copy |-> box[i]]
  <2>1. /\ tick' = tick /\ box' = box /\ heard' = heard /\ overdone' = overdone
        /\ pen' = [pen EXCEPT ![p] = new]
    BY <1>7 DEF ReadItem
  <2>2. new \in PenLocals /\ new.i \in Items /\ new.copy.status # "none"
    BY <1>7 DEF PenLocals, ReadItem, In
  <2> HIDE DEF new
  <2>3. pen' \in [Pens -> PenLocals] /\ \A r \in Pens : pen'[r] = IF r = p THEN new ELSE pen[r]
    BY <2>1, <2>2
  <2>4. FbTypeOK'
    BY <2>1, <2>2, <2>3 DEF FbInv, FbTypeOK, PenLocals
  <2>5. HeardAndMarked'
    BY <2>1 DEF FbInv, HeardAndMarked
  <2> QED BY <2>1, <2>4, <2>5 DEF FbInv, FbStatusStep
<1>8. CASE UNCHANGED fbvars
  BY <1>8 DEF fbvars, FbInv, FbTypeOK, HeardAndMarked, FbStatusStep
<1> QED BY <1>1, <1>2, <1>3, <1>4, <1>5, <1>6, <1>7, <1>8

LEMMA FbStep == FbInv /\ [FbNext]_fbvars => FbInv' /\ FbStatusStep
BY FbOtherSteps, FbTriageStep, FbMarkStep, FbPenStep DEF FbNext, OnTick

(* The items and the locals of the tick and the SED's calls are well formed. *)
THEOREM FeedbackTypes == FbSpec => []FbTypeOK
<1>1. FbInv => FbTypeOK
  BY DEF FbInv
<1> QED BY <1>1, InitFbInv, FbStep, PTL DEF FbSpec

(* For any items, calls and failures: the SED hears of an item once, and a status *)
(* is changed by the SED or by the copy the tick read, but for what was overdone  *)
(* (feedback_box.py:136-171, :215).                                               *)
THEOREM FeedbackHolds == FbSpec => FeedbackIsKept
<1>1. FbInv => ToldOnce
  BY DEF FbInv, HeardAndMarked, ToldOnce
<1>2. FbInv /\ [FbNext]_fbvars => [FbStatusStep]_fbvars
  BY FbStep
<1> QED BY <1>1, <1>2, InitFbInv, FbStep, PTL DEF FbSpec, FeedbackIsKept, StatusSetStays, FbStatusStep

-----------------------------------------------------------------------------
(* Notices.                                                                  *)
-----------------------------------------------------------------------------
(* A source no two calls looked for together: one call at most is about to save  *)
(* its notice, and only while there is none.                                     *)
IsNew(d, ref) == IsAt(d, "new") /\ work[d].ref = ref
OneOfASource == \A ref \in Mails \ together :
    /\ \A n, k \in Notices : notice[n].ref = ref /\ notice[k].ref = ref => n = k
    /\ \A d, e \in Desks : IsNew(d, ref) /\ IsNew(e, ref) => d = e
    /\ \A d \in Desks : IsNew(d, ref) => \A n \in Notices : notice[n].ref # ref

(* A copy is of the notice it will be saved to. *)
CopiesAreOfTheirNotice == \A d \in Desks : work[d].pc \in {"digest", "deliver"} =>
    notice[work[d].n].status # "none" /\ work[d].copy.ref = notice[work[d].n].ref

DeliveredUnlessUndone == \A n \in Notices \ undone :
    delivered[n] > 0 => notice[n].status = "delivered"

ClosedIsDone(a) == a.status = "closed" <=> a.status # "none" /\ Pending(a) = {}
ClosedRight == ClosedIsDone(action)
    /\ \A d \in Desks : work[d].pc = "remind" => ClosedIsDone(work[d].act)

TappedUnlessUntapped == tapped \subseteq action.done \cup untapped
IdleHasNothing == \A d \in Desks : IsAt(d, "idle") => work[d].todo = {}

NtInv == /\ NtTypeOK /\ OneOfASource /\ CopiesAreOfTheirNotice /\ DeliveredUnlessUndone
         /\ ClosedRight /\ TappedUnlessUntapped /\ IdleHasNothing
-----------------------------------------------------------------------------
LEMMA NtRests ==
    /\ NoNotice \in NoticeDocs /\ NoNotice.status = "none" /\ NoNotice.ref = "none"
    /\ NoAction \in ActionDocs /\ NoAction.status = "none" /\ NoAction.done = {}
    /\ AtDesk \in DeskLocals /\ AtDesk.pc = "idle" /\ AtDesk.todo = {}
BY DEF NoNotice, NoticeDocs, NoAction, ActionDocs, AtDesk, DeskLocals

LEMMA FetchedIsLocal ==
    ASSUME NEW refs \in SUBSET Mails
    PROVE  Fetched(refs) \in DeskLocals /\ Fetched(refs).pc \in {"idle", "fetched"} /\ Fetched(refs).todo = {}
BY NtRests DEF Fetched, DeskLocals, AtDesk

LEMMA InitNtInv == NtInit => NtInv
<1> SUFFICES ASSUME NtInit PROVE NtInv
  OBVIOUS
<1>1. /\ \A n \in Notices : notice[n] = NoNotice /\ delivered[n] = 0
      /\ \A d \in Desks : work[d] = AtDesk
      /\ action = NoAction /\ tapped = {}
  BY DEF NtInit
<1>2. NtTypeOK
  BY NtRests DEF NtInit, NtTypeOK
<1>3. OneOfASource
  BY <1>1, NtRests, NoticesAssumption DEF OneOfASource, IsNew, IsAt
<1> QED BY <1>1, <1>2, <1>3, NtRests
        DEF NtInv, CopiesAreOfTheirNotice, DeliveredUnlessUndone, ClosedRight, ClosedIsDone,
            TappedUnlessUntapped, IdleHasNothing
-----------------------------------------------------------------------------
(* A step of a call that saves no document. *)
DeskGoes(d, new) ==
    /\ work' = [work EXCEPT ![d] = new]
    /\ UNCHANGED <<notice, action, delivered, tapped, undone, untapped>>
    /\ together \subseteq together' /\ together' \subseteq Mails
    /\ new.pc = "new" =>
         /\ new.ref \in Mails
         /\ new.ref \in together' \/
              ((\A n \in Notices : notice[n].ref # new.ref) /\ \A e \in Desks : ~IsNew(e, new.ref))
    /\ new.pc \in {"digest", "deliver"} =>
         /\ new.n \in Notices /\ notice[new.n].status # "none" /\ new.copy.ref = notice[new.n].ref
         /\ IsAt(d, "idle") /\ new.pc = "deliver" => new.force \/ notice[new.n].status # "delivered"
    /\ new.pc = "remind" =>
         /\ new.act.status # "none" /\ ClosedIsDone(new.act)
         /\ IsAt(d, "idle") => new.todo \cap action.done = {}
    /\ new.pc # "remind" => new.todo = {}

LEMMA DeskKeeps ==
    ASSUME NtInv, NEW d \in Desks, NEW new \in DeskLocals, DeskGoes(d, new)
    PROVE  NtInv'
<1>1. /\ notice' = notice /\ action' = action /\ delivered' = delivered /\ tapped' = tapped
      /\ undone' = undone /\ untapped' = untapped
  BY DEF DeskGoes
<1>2. \A e \in Desks : work'[e] = IF e = d THEN new ELSE work[e]
  BY DEF NtInv, NtTypeOK, DeskGoes
<1>3. work' \in [Desks -> DeskLocals]
  BY DEF NtInv, NtTypeOK, DeskGoes
<1>4. NtTypeOK'
  BY <1>1, <1>2, <1>3 DEF NtInv, NtTypeOK, DeskGoes
<1>5. OneOfASource'
  <2> SUFFICES ASSUME NEW ref \in Mails \ together'
               PROVE  /\ \A n, k \in Notices : notice[n].ref = ref /\ notice[k].ref = ref => n = k
                      /\ \A e, f \in Desks : IsNew(e, ref)' /\ IsNew(f, ref)' => e = f
                      /\ \A e \in Desks : IsNew(e, ref)' => \A n \in Notices : notice[n].ref # ref
    BY <1>1 DEF OneOfASource
  <2> ref \in Mails \ together
    BY DEF DeskGoes
  <2>1. \A e \in Desks : e # d => (IsNew(e, ref)' <=> IsNew(e, ref))
    BY <1>2 DEF IsNew, IsAt
  <2>2. CASE IsNew(d, ref)'
    <3>1. new.pc = "new" /\ new.ref = ref
      BY <1>2, <2>2 DEF IsNew, IsAt
    <3>2. (\A n \in Notices : notice[n].ref # ref) /\ \A e \in Desks : ~IsNew(e, ref)
      BY <3>1 DEF DeskGoes
    <3> QED BY <2>1, <3>2
  <2>3. CASE ~IsNew(d, ref)'
    BY <2>1, <2>3 DEF NtInv, OneOfASource
  <2> QED BY <2>2, <2>3
<1>6. CopiesAreOfTheirNotice'
  BY <1>1, <1>2 DEF NtInv, CopiesAreOfTheirNotice, DeskGoes
<1>7. DeliveredUnlessUndone' /\ TappedUnlessUntapped'
  BY <1>1 DEF NtInv, DeliveredUnlessUndone, TappedUnlessUntapped
<1>8. ClosedRight'
  BY <1>1, <1>2 DEF NtInv, ClosedRight, ClosedIsDone, Pending, DeskGoes
<1>9. IdleHasNothing'
  BY <1>2 DEF NtInv, IdleHasNothing, IsAt, DeskGoes
<1> QED BY <1>4, <1>5, <1>6, <1>7, <1>8, <1>9 DEF NtInv

LEMMA LookGoes ==
    ASSUME NtInv, NEW d \in Desks, NEW ref \in Mails, NEW rest \in SUBSET Mails,
           LookForSource(d, ref, rest),
           UNCHANGED <<notice, action, delivered, tapped, undone, untapped>>
    PROVE  \E new \in DeskLocals : DeskGoes(d, new) /\ new.pc \in {"idle", "fetched", "new"}
<1> together \subseteq Mails
  BY DEF NtInv, NtTypeOK
<1>1. CASE BySource(ref) = {}
  <2> DEFINE new == [AtDesk EXCEPT !.pc = "new", !.ref = ref, !.mails = rest]
  <2>1. new \in DeskLocals /\ new.pc = "new" /\ new.ref = ref /\ new.todo = {}
    BY NtRests DEF AtDesk, DeskLocals
  <2>2. work' = [work EXCEPT ![d] = new]
    BY <1>1 DEF LookForSource
  <2>3. together' = IF \E e \in Desks : IsNew(e, ref) THEN together \cup {ref} ELSE together
    BY <1>1 DEF LookForSource, IsNew
  <2>4. \A n \in Notices : notice[n].ref # ref
    BY <1>1 DEF BySource
  <2> HIDE DEF new
  <2>5. DeskGoes(d, new)
    BY <2>1, <2>2, <2>3, <2>4 DEF DeskGoes
  <2> QED BY <2>1, <2>5
<1>2. CASE BySource(ref) # {}
  <2>1. work' = [work EXCEPT ![d] = Fetched(rest)] /\ together' = together
    BY <1>2 DEF LookForSource
  <2>2. DeskGoes(d, Fetched(rest))
    BY <2>1, FetchedIsLocal DEF DeskGoes
  <2> QED BY <2>2, FetchedIsLocal
<1> QED BY <1>1, <1>2

LEMMA TakesGoes ==
    ASSUME NtInv, NEW d \in Desks, NEW n \in Notices, NEW pc \in {"digest", "deliver"},
           NEW force \in BOOLEAN, notice[n].status # "none", Takes(d, n, pc, force),
           pc = "deliver" => force \/ notice[n].status # "delivered",
           UNCHANGED <<notice, action, delivered, tapped, undone, untapped, together>>
    PROVE  \E new \in DeskLocals : DeskGoes(d, new)
<1> DEFINE new == [AtDesk EXCEPT !.pc = pc, !.n = n, !.copy = notice[n], !.force = force]
<1>1. notice[n] \in NoticeDocs /\ together \subseteq Mails
  BY DEF NtInv, NtTypeOK
<1>2. /\ new \in DeskLocals /\ new.pc = pc /\ new.n = n /\ new.copy = notice[n]
      /\ new.force = force /\ new.todo = {}
  BY <1>1, NtRests DEF AtDesk, DeskLocals
<1>3. work' = [work EXCEPT ![d] = new]
  BY DEF Takes
<1> HIDE DEF new
<1>4. DeskGoes(d, new)
  BY <1>1, <1>2, <1>3 DEF DeskGoes
<1> QED BY <1>2, <1>4

LEMMA DeskSteps ==
    ASSUME NtInv, NEW d \in Desks,
           \/ TypeIn(d) \/ FetchMails(d) \/ ImportMail(d) \/ DigestBegins(d) \/ DeliverBegins(d)
           \/ NothingSaved(d) \/ RemindBegins(d) \/ RemindOne(d)
    PROVE  \E new \in DeskLocals : DeskGoes(d, new)
<1>0. /\ work[d] \in DeskLocals /\ action \in ActionDocs /\ together \subseteq Mails
      /\ ClosedIsDone(action)
      /\ IsAt(d, "remind") => work[d].act.status # "none" /\ ClosedIsDone(work[d].act)
  BY DEF NtInv, NtTypeOK, ClosedRight, IsAt
<1>1. CASE TypeIn(d)
  BY <1>1, LookGoes DEF TypeIn
<1>2. CASE FetchMails(d)
  <2>1. PICK refs \in SUBSET Mails : work' = [work EXCEPT ![d] = Fetched(refs)]
    BY <1>2 DEF FetchMails
  <2>2. DeskGoes(d, Fetched(refs))
    BY <1>0, <1>2, <2>1, FetchedIsLocal DEF FetchMails, DeskGoes
  <2> QED BY <2>2, FetchedIsLocal
<1>3. CASE ImportMail(d)
  <2>1. work[d].mails \subseteq Mails
    BY <1>0 DEF DeskLocals
  <2>2. PICK ref \in Mails : LookForSource(d, ref, work[d].mails \ {ref})
    BY <1>3, <2>1 DEF ImportMail
  <2> QED BY <1>3, <2>1, <2>2, LookGoes DEF ImportMail
<1>4. CASE DigestBegins(d)
  BY <1>4, TakesGoes DEF DigestBegins
<1>5. CASE DeliverBegins(d)
  BY <1>5, TakesGoes DEF DeliverBegins
<1>6. CASE NothingSaved(d)
  <2>1. DeskGoes(d, AtDesk)
    BY <1>0, <1>6, NtRests DEF NothingSaved, LeaveDesk, DeskGoes
  <2> QED BY <2>1, NtRests
<1>7. CASE RemindBegins(d)
  <2> DEFINE new == [AtDesk EXCEPT !.pc = "remind", !.act = action, !.todo = Pending(action)]
  <2>1. Pending(action) \in SUBSET Members /\ Pending(action) \cap action.done = {}
    BY DEF Pending
  <2>2. new \in DeskLocals /\ new.pc = "remind" /\ new.act = action /\ new.todo = Pending(action)
    BY <1>0, <2>1, NtRests DEF AtDesk, DeskLocals
  <2>3. work' = [work EXCEPT ![d] = new]
    BY <1>7 DEF RemindBegins
  <2> HIDE DEF new
  <2>4. DeskGoes(d, new)
    BY <1>0, <1>7, <2>1, <2>2, <2>3 DEF RemindBegins, DeskGoes
  <2> QED BY <2>2, <2>4
<1>8. CASE RemindOne(d)
  <2>1. PICK m \in work[d].todo : work' = [work EXCEPT ![d] = [@ EXCEPT !.todo = work[d].todo \ {m}]]
    BY <1>8 DEF RemindOne
  <2> DEFINE new == [work[d] EXCEPT !.todo = work[d].todo \ {m}]
  <2>2. new \in DeskLocals /\ new.pc = "remind" /\ new.act = work[d].act /\ ~IsAt(d, "idle")
    BY <1>0, <1>8 DEF RemindOne, IsAt, DeskLocals
  <2>3. work' = [work EXCEPT ![d] = new]
    BY <2>1
  <2> HIDE DEF new
  <2>4. DeskGoes(d, new)
    <3>1. UNCHANGED <<notice, action, delivered, tapped, undone, untapped, together>>
          /\ IsAt(d, "remind")
      BY <1>8 DEF RemindOne
    <3> QED BY <1>0, <2>2, <2>3, <3>1 DEF DeskGoes
  <2> QED BY <2>2, <2>4
<1> QED BY <1>1, <1>2, <1>3, <1>4, <1>5, <1>6, <1>7, <1>8
-----------------------------------------------------------------------------
(* A notice is saved: a new one, or the copy of the one it was read from. *)
LEMMA SaveNewKeeps ==
    ASSUME NtInv, NEW d \in Desks, SaveNew(d)
    PROVE  NtInv'
<1>1. PICK n \in Notices : IsNextNotice(n)
        /\ notice' = [notice EXCEPT ![n] = [ref |-> work[d].ref, status |-> "new", digest |-> FALSE]]
  BY DEF SaveNew
<1> DEFINE ref == work[d].ref
           doc == [ref |-> ref, status |-> "new", digest |-> FALSE]
           new == Fetched(work[d].mails)
<1>2. /\ action' = action /\ delivered' = delivered /\ tapped' = tapped /\ undone' = undone
      /\ untapped' = untapped /\ together' = together /\ IsNew(d, ref)
      /\ work' = [work EXCEPT ![d] = new]
  BY DEF SaveNew, IsNew
<1>3. ref \in Mails /\ work[d] \in DeskLocals
  BY <1>2 DEF NtInv, NtTypeOK, IsNew, IsAt
<1>4. new \in DeskLocals /\ new.pc \in {"idle", "fetched"} /\ new.todo = {}
  BY <1>3, FetchedIsLocal DEF DeskLocals
<1>5. doc \in NoticeDocs /\ doc.ref = ref /\ doc.status = "new"
  BY <1>3, NoticesAssumption DEF NoticeDocs
<1>6. notice[n].status = "none" /\ notice[n].ref = "none"
  BY <1>1 DEF IsNextNotice, NtInv, NtTypeOK, NoticeDocs
<1> HIDE DEF doc, new
<1>7. \A k \in Notices : notice'[k] = IF k = n THEN doc ELSE notice[k]
  BY <1>1 DEF NtInv, NtTypeOK, doc
<1>8. \A e \in Desks : work'[e] = IF e = d THEN new ELSE work[e]
  BY <1>2 DEF NtInv, NtTypeOK
<1>9. NtTypeOK'
  <2>1. notice' \in [Notices -> NoticeDocs]
    BY <1>1, <1>5 DEF NtInv, NtTypeOK, doc
  <2>2. work' \in [Desks -> DeskLocals]
    BY <1>2, <1>4 DEF NtInv, NtTypeOK
  <2> QED BY <1>2, <1>4, <1>8, <2>1, <2>2 DEF NtInv, NtTypeOK
<1>10. OneOfASource'
  <2> SUFFICES ASSUME NEW r \in Mails \ together
               PROVE  /\ \A m, k \in Notices : notice'[m].ref = r /\ notice'[k].ref = r => m = k
                      /\ \A e, f \in Desks : IsNew(e, r)' /\ IsNew(f, r)' => e = f
                      /\ \A e \in Desks : IsNew(e, r)' => \A m \in Notices : notice'[m].ref # r
    BY <1>2 DEF OneOfASource
  <2>1. \A e \in Desks : IsNew(e, r)' => e # d /\ IsNew(e, r)
    BY <1>4, <1>8 DEF IsNew, IsAt
  <2>2. CASE r = ref
    <3>1. \A m \in Notices : notice[m].ref # r
      BY <1>2, <2>2 DEF NtInv, OneOfASource
    <3>2. \A e \in Desks : ~IsNew(e, r)'
      BY <1>2, <2>1, <2>2 DEF NtInv, OneOfASource
    <3> QED BY <1>7, <3>1, <3>2
  <2>3. CASE r # ref
    <3>1. \A m \in Notices : notice'[m].ref = r => notice[m].ref = r
      BY <1>5, <1>7, <2>3
    <3> QED BY <2>1, <3>1 DEF NtInv, OneOfASource
  <2> QED BY <2>2, <2>3
<1>11. CopiesAreOfTheirNotice'
  <2>1. \A e \in Desks : work'[e].pc \in {"digest", "deliver"} =>
          work'[e] = work[e] /\ notice[work[e].n].status # "none" /\ work[e].n \in Notices
    BY <1>4, <1>8 DEF NtInv, CopiesAreOfTheirNotice, NtTypeOK
  <2> QED BY <1>6, <1>7, <2>1 DEF NtInv, CopiesAreOfTheirNotice
<1>12. DeliveredUnlessUndone'
  BY <1>2, <1>6, <1>7 DEF NtInv, DeliveredUnlessUndone
<1>13. ClosedRight' /\ TappedUnlessUntapped' /\ IdleHasNothing'
  BY <1>2, <1>4, <1>8 DEF NtInv, ClosedRight, ClosedIsDone, Pending, TappedUnlessUntapped,
                          IdleHasNothing, IsAt
<1> QED BY <1>9, <1>10, <1>11, <1>12, <1>13 DEF NtInv

(* The copy keeps the source; a delivery it takes back is in the history. *)
LEMMA SaveNoticeKeeps ==
    ASSUME NtInv, NEW n \in Notices, NEW copy \in NoticeDocs, SaveNotice(n, copy),
           notice[n].status # "none", copy.status # "none", copy.ref = notice[n].ref,
           \/ work' = work
           \/ \E d \in Desks : LeaveDesk(d),
           delivered' \in [Notices -> Nat],
           \A k \in Notices : delivered'[k] = delivered[k] \/ (k = n /\ copy.status = "delivered"),
           UNCHANGED <<action, tapped, untapped, together>>
    PROVE  NtInv'
<1>1. \A k \in Notices : notice'[k] = IF k = n THEN copy ELSE notice[k]
  BY DEF NtInv, NtTypeOK, SaveNotice
<1>2. \A k \in Notices : /\ notice'[k].ref = notice[k].ref
                         /\ notice'[k].status = "none" <=> notice[k].status = "none"
  BY <1>1
<1>3. /\ work' \in [Desks -> DeskLocals]
      /\ \A e \in Desks : work'[e] = AtDesk \/ work'[e] = work[e]
  BY NtRests DEF NtInv, NtTypeOK, LeaveDesk
<1>4. NtTypeOK'
  <2>1. notice' \in [Notices -> NoticeDocs] /\ undone' \subseteq Notices
    BY DEF NtInv, NtTypeOK, SaveNotice
  <2>2. \A e \in Desks :
         /\ work'[e].pc = "new" => work'[e].ref \in Mails
         /\ work'[e].pc \in {"digest", "deliver"} => work'[e].n \in Notices
         /\ work'[e].pc = "remind" => work'[e].act.status # "none"
    BY <1>3, NtRests DEF NtInv, NtTypeOK
  <2> QED BY <1>3, <2>1, <2>2 DEF NtInv, NtTypeOK
<1>5. OneOfASource'
  <2>1. \A e \in Desks, ref \in Mails : IsNew(e, ref)' => IsNew(e, ref)
    BY <1>3, NtRests DEF IsNew, IsAt
  <2> QED BY <1>2, <2>1 DEF NtInv, OneOfASource
<1>6. CopiesAreOfTheirNotice'
  <2>1. \A e \in Desks : work'[e].pc \in {"digest", "deliver"} =>
          work'[e] = work[e] /\ work[e].n \in Notices
    BY <1>3, NtRests DEF NtInv, NtTypeOK
  <2> QED BY <1>2, <2>1 DEF NtInv, CopiesAreOfTheirNotice
<1>7. DeliveredUnlessUndone'
  <2> SUFFICES ASSUME NEW k \in Notices \ undone', delivered'[k] > 0
               PROVE  notice'[k].status = "delivered"
    BY DEF DeliveredUnlessUndone
  <2>1. CASE delivered'[k] = delivered[k]
    <3>1. k \notin undone
      BY DEF SaveNotice
    <3>2. notice[k].status = "delivered"
      BY <2>1, <3>1 DEF NtInv, DeliveredUnlessUndone
    <3> QED BY <1>1, <3>2 DEF SaveNotice
  <2>2. CASE k = n /\ copy.status = "delivered"
    BY <1>1, <2>2
  <2> QED BY <2>1, <2>2
<1>8. ClosedRight' /\ TappedUnlessUntapped' /\ IdleHasNothing'
  BY <1>3, NtRests DEF NtInv, ClosedRight, ClosedIsDone, Pending, TappedUnlessUntapped,
                       IdleHasNothing, IsAt
<1> QED BY <1>4, <1>5, <1>6, <1>7, <1>8 DEF NtInv

LEMMA NoticeSavesKeep ==
    ASSUME NtInv,
           \/ \E d \in Desks : DigestEnds(d) \/ DeliverEnds(d)
           \/ \E n \in Notices : ArchiveNotice(n)
    PROVE  NtInv'
<1>1. /\ notice \in [Notices -> NoticeDocs] /\ delivered \in [Notices -> Nat]
      /\ \A d \in Desks : work[d].pc \in {"digest", "deliver"} =>
           /\ work[d].n \in Notices /\ work[d].copy \in NoticeDocs
           /\ notice[work[d].n].status # "none" /\ work[d].copy.ref = notice[work[d].n].ref
  BY DEF NtInv, NtTypeOK, CopiesAreOfTheirNotice, DeskLocals
<1>2. ASSUME NEW d \in Desks, DigestEnds(d)
      PROVE  NtInv'
  <2> DEFINE n == work[d].n
             copy == [work[d].copy EXCEPT !.digest = TRUE, !.status = IF @ = "new" THEN "reviewed" ELSE @]
  <2>1. /\ n \in Notices /\ work[d].copy \in NoticeDocs /\ notice[n].status # "none"
        /\ work[d].copy.ref = notice[n].ref /\ notice[n] \in NoticeDocs
    BY <1>1, <1>2 DEF DigestEnds, IsAt
  <2>2. copy \in NoticeDocs /\ copy.ref = notice[n].ref /\ copy.status # "none"
    BY <2>1 DEF NoticeDocs
  <2>3. SaveNotice(n, copy) /\ LeaveDesk(d) /\ UNCHANGED <<action, delivered, tapped, untapped, together>>
    BY <1>2 DEF DigestEnds
  <2> HIDE DEF copy
  <2> QED BY <1>1, <2>1, <2>2, <2>3, SaveNoticeKeeps
<1>3. ASSUME NEW d \in Desks, DeliverEnds(d)
      PROVE  NtInv'
  <2> DEFINE n == work[d].n
             copy == [work[d].copy EXCEPT !.status = "delivered"]
  <2>1. /\ n \in Notices /\ work[d].copy \in NoticeDocs /\ notice[n].status # "none"
        /\ work[d].copy.ref = notice[n].ref /\ notice[n] \in NoticeDocs
    BY <1>1, <1>3 DEF DeliverEnds, IsAt
  <2>2. copy \in NoticeDocs /\ copy.ref = notice[n].ref /\ copy.status = "delivered"
    BY <2>1 DEF NoticeDocs
  <2>3. SaveNotice(n, copy) /\ LeaveDesk(d) /\ UNCHANGED <<action, tapped, untapped, together>>
    BY <1>3 DEF DeliverEnds
  <2>4. delivered' = [delivered EXCEPT ![n] = IF work[d].force THEN @ ELSE @ + 1]
    BY <1>3 DEF DeliverEnds
  <2> HIDE DEF copy
  <2>5. /\ delivered' \in [Notices -> Nat]
        /\ \A k \in Notices : delivered'[k] = delivered[k] \/ k = n
    BY <1>1, <2>1, <2>4
  <2> QED BY <2>1, <2>2, <2>3, <2>5, SaveNoticeKeeps
<1>4. ASSUME NEW n \in Notices, ArchiveNotice(n)
      PROVE  NtInv'
  <2> DEFINE copy == [notice[n] EXCEPT !.status = "archived"]
  <2>1. notice[n].status # "none" /\ notice[n] \in NoticeDocs
    BY <1>1, <1>4 DEF ArchiveNotice
  <2>2. copy \in NoticeDocs /\ copy.ref = notice[n].ref /\ copy.status # "none"
    BY <2>1 DEF NoticeDocs
  <2>3. SaveNotice(n, copy) /\ UNCHANGED <<action, work, delivered, tapped, untapped, together>>
    BY <1>4 DEF ArchiveNotice
  <2> HIDE DEF copy
  <2> QED BY <1>1, <2>1, <2>2, <2>3, SaveNoticeKeeps
<1> QED BY <1>2, <1>3, <1>4

(* A step on the action alone. *)
LEMMA ActionKeeps ==
    ASSUME NtInv,
           CreateAction \/ (\E m \in Members : MarkDone(m)) \/ (\E d \in Desks : RemindEnds(d))
    PROVE  NtInv'
<1>1. /\ action \in ActionDocs /\ ClosedIsDone(action) /\ tapped \subseteq action.done \cup untapped
      /\ tapped \cup untapped \subseteq Members
  BY DEF NtInv, NtTypeOK, ClosedRight, TappedUnlessUntapped
<1>2. /\ notice' = notice /\ delivered' = delivered /\ undone' = undone /\ together' = together
      /\ work' = work \/ \E d \in Desks : LeaveDesk(d)
  BY DEF CreateAction, MarkDone, RemindEnds
<1>3. /\ action' \in ActionDocs /\ ClosedIsDone(action)' /\ tapped' \subseteq action'.done \cup untapped'
      /\ tapped' \cup untapped' \subseteq Members
  <2>1. CASE CreateAction
    <3>1. action' = [NoAction EXCEPT !.status = "open"] /\ tapped' = tapped /\ untapped' = untapped
          /\ action.status = "none"
      BY <2>1 DEF CreateAction
    <3>2. action' \in ActionDocs /\ action'.status = "open" /\ action'.done = {}
      BY <3>1, NtRests DEF ActionDocs
    <3>3. action.done = {}
      BY <1>1, <3>1 DEF ActionDocs
    <3> QED BY <1>1, <3>1, <3>2, <3>3, NoticesAssumption DEF ClosedIsDone, Pending
  <2>2. ASSUME NEW m \in Members, MarkDone(m)
        PROVE  /\ action' \in ActionDocs /\ ClosedIsDone(action)'
               /\ tapped' \subseteq action'.done \cup untapped' /\ tapped' \cup untapped' \subseteq Members
    <3> DEFINE done == action.done \cup {m}
    <3>1. /\ action' = [action EXCEPT !.done = done,
                          !.status = IF Members \subseteq done THEN "closed" ELSE action.status]
          /\ tapped' = tapped \cup {m} /\ untapped' = untapped /\ action.status # "none"
      BY <2>2 DEF MarkDone
    <3>2. done \in SUBSET Members
      BY <1>1 DEF ActionDocs
    <3>3. action' \in ActionDocs /\ action'.done = done
          /\ action'.status = IF Members \subseteq done THEN "closed" ELSE action.status
      BY <1>1, <3>1, <3>2 DEF ActionDocs
    <3>4. ClosedIsDone(action)'
      BY <1>1, <3>1, <3>3 DEF ClosedIsDone, Pending
    <3> QED BY <1>1, <3>1, <3>3, <3>4
  <2>3. ASSUME NEW d \in Desks, RemindEnds(d)
        PROVE  /\ action' \in ActionDocs /\ ClosedIsDone(action)'
               /\ tapped' \subseteq action'.done \cup untapped' /\ tapped' \cup untapped' \subseteq Members
    <3> DEFINE act == work[d].act
    <3>1. /\ action' = [act EXCEPT !.reminders = @ + 1] /\ tapped' = tapped
          /\ untapped' = untapped \cup (action.done \ act.done) /\ IsAt(d, "remind")
      BY <2>3 DEF RemindEnds
    <3>2. act \in ActionDocs /\ ClosedIsDone(act)
      BY <3>1 DEF NtInv, NtTypeOK, ClosedRight, IsAt, DeskLocals
    <3>3. action' \in ActionDocs /\ action'.done = act.done /\ action'.status = act.status
      BY <3>1, <3>2 DEF ActionDocs
    <3>4. action.done \subseteq Members
      BY <1>1 DEF ActionDocs
    <3> QED BY <1>1, <3>1, <3>2, <3>3, <3>4 DEF ClosedIsDone, Pending
  <2> QED BY <2>1, <2>2, <2>3
<1>4. /\ work' \in [Desks -> DeskLocals]
      /\ \A e \in Desks : work'[e] = AtDesk \/ work'[e] = work[e]
  BY <1>2, NtRests DEF NtInv, NtTypeOK, LeaveDesk
<1>5. NtTypeOK'
  BY <1>2, <1>3, <1>4, NtRests DEF NtInv, NtTypeOK
<1>6. OneOfASource'
  <2>1. \A e \in Desks, ref \in Mails : IsNew(e, ref)' => IsNew(e, ref)
    BY <1>4, NtRests DEF IsNew, IsAt
  <2> QED BY <1>2, <2>1 DEF NtInv, OneOfASource
<1>7. CopiesAreOfTheirNotice' /\ DeliveredUnlessUndone'
  BY <1>2, <1>4, NtRests DEF NtInv, CopiesAreOfTheirNotice, DeliveredUnlessUndone
<1>8. ClosedRight' /\ TappedUnlessUntapped' /\ IdleHasNothing'
  BY <1>3, <1>4, NtRests DEF NtInv, ClosedRight, ClosedIsDone, Pending, TappedUnlessUntapped,
                             IdleHasNothing, IsAt
<1> QED BY <1>5, <1>6, <1>7, <1>8 DEF NtInv
-----------------------------------------------------------------------------
(* The two action properties, as what one step may not do. *)
NotDeliveredAgain == \A d \in Desks, n \in Notices :
    (IsAt(d, "idle") /\ work'[d].pc = "deliver" /\ work'[d].n = n /\ ~work'[d].force) =>
        delivered[n] = 0 \/ n \in undone
NotAskedAgain == \A d \in Desks, m \in Members :
    (IsAt(d, "idle") /\ m \in work'[d].todo) => m \notin tapped \/ m \in untapped

RestsNow(e) == work'[e].pc \in {"idle", "fetched"} /\ work'[e].todo = {}

LEMMA NothingBegins ==
    ASSUME NtInv,
           \A e \in Desks : work'[e] = work[e] \/ RestsNow(e)
    PROVE  NotDeliveredAgain /\ NotAskedAgain
BY DEF NtInv, IdleHasNothing, NotDeliveredAgain, NotAskedAgain, IsAt, RestsNow

LEMMA NtStep == NtInv /\ [NtNext]_noticevars => NtInv' /\ NotDeliveredAgain /\ NotAskedAgain
<1> SUFFICES ASSUME NtInv, [NtNext]_noticevars
             PROVE  NtInv' /\ NotDeliveredAgain /\ NotAskedAgain
  OBVIOUS
<1>0. work \in [Desks -> DeskLocals]
  BY DEF NtInv, NtTypeOK
<1>1. ASSUME NEW d \in Desks, NEW new \in DeskLocals, DeskGoes(d, new)
      PROVE  NtInv' /\ NotDeliveredAgain /\ NotAskedAgain
  <2>1. \A e \in Desks : work'[e] = IF e = d THEN new ELSE work[e]
    BY <1>0, <1>1 DEF DeskGoes
  <2>2. \A e \in Desks \ {d} : ~(IsAt(e, "idle") /\ work'[e].pc = "deliver") /\ (IsAt(e, "idle") => work'[e].todo = {})
    BY <2>1 DEF NtInv, IdleHasNothing, IsAt
  <2>3. NotDeliveredAgain
    <3> SUFFICES ASSUME IsAt(d, "idle"), new.pc = "deliver", ~new.force, new.n \in Notices
                 PROVE  delivered[new.n] = 0 \/ new.n \in undone
      BY <2>1, <2>2 DEF NotDeliveredAgain
    <3>1. notice[new.n].status # "delivered"
      BY <1>1 DEF DeskGoes
    <3>2. delivered[new.n] \in Nat
      BY DEF NtInv, NtTypeOK
    <3> QED BY <3>1, <3>2 DEF NtInv, DeliveredUnlessUndone
  <2>4. NotAskedAgain
    <3> SUFFICES ASSUME IsAt(d, "idle"), NEW m \in new.todo
                 PROVE  m \notin tapped \/ m \in untapped
      BY <2>1, <2>2 DEF NotAskedAgain
    <3>1. m \notin action.done
      BY <1>1 DEF DeskGoes
    <3> QED BY <3>1 DEF NtInv, TappedUnlessUntapped
  <2> QED BY <1>1, <2>3, <2>4, DeskKeeps
<1>2. ASSUME NEW d \in Desks, SaveNew(d)
      PROVE  NtInv' /\ NotDeliveredAgain /\ NotAskedAgain
  <2>1. work' = [work EXCEPT ![d] = Fetched(work[d].mails)]
    BY <1>2 DEF SaveNew
  <2>2. work[d].mails \in SUBSET Mails
    BY <1>0 DEF DeskLocals
  <2>3. \A e \in Desks : work'[e] = work[e] \/ RestsNow(e)
    BY <1>0, <2>1, <2>2, FetchedIsLocal DEF RestsNow
  <2> QED BY <1>2, <2>3, NothingBegins, SaveNewKeeps
<1>3. ASSUME \/ \E d \in Desks : DigestEnds(d) \/ DeliverEnds(d)
             \/ \E n \in Notices : ArchiveNotice(n)
             \/ CreateAction \/ (\E m \in Members : MarkDone(m)) \/ (\E d \in Desks : RemindEnds(d))
      PROVE  NtInv' /\ NotDeliveredAgain /\ NotAskedAgain
  <2>1. work' = work \/ \E d \in Desks : work' = [work EXCEPT ![d] = AtDesk]
    BY <1>3 DEF DigestEnds, DeliverEnds, ArchiveNotice, CreateAction, MarkDone, RemindEnds, LeaveDesk
  <2>2. \A e \in Desks : work'[e] = work[e] \/ RestsNow(e)
    BY <1>0, <2>1, NtRests DEF RestsNow
  <2> QED BY <1>3, <2>2, NothingBegins, NoticeSavesKeep, ActionKeeps
<1>4. CASE UNCHANGED noticevars
  <2>1. NtInv'
    BY <1>4 DEF noticevars, NtInv, NtTypeOK, OneOfASource, IsNew, IsAt, CopiesAreOfTheirNotice,
                DeliveredUnlessUndone, ClosedRight, ClosedIsDone, Pending, TappedUnlessUntapped, IdleHasNothing
  <2>2. work' = work
    BY <1>4 DEF noticevars
  <2> QED BY <2>1, <2>2, NothingBegins
<1>5. ASSUME NEW d \in Desks,
             \/ TypeIn(d) \/ FetchMails(d) \/ ImportMail(d) \/ DigestBegins(d) \/ DeliverBegins(d)
             \/ NothingSaved(d) \/ RemindBegins(d) \/ RemindOne(d)
      PROVE  NtInv' /\ NotDeliveredAgain /\ NotAskedAgain
  BY <1>1, <1>5, DeskSteps
<1> HIDE DEF NotDeliveredAgain, NotAskedAgain
<1> QED BY <1>2, <1>3, <1>4, <1>5 DEF NtNext

(* The documents of notices and actions and the locals of calls are well formed. *)
THEOREM NoticeTypes == NtSpec => []NtTypeOK
<1>1. NtInv => NtTypeOK
  BY DEF NtInv
<1> QED BY <1>1, InitNtInv, NtStep, PTL DEF NtSpec

(* For any mails, members and calls: a source is one notice, a notice is          *)
(* delivered once unless forced or undone by a late copy, an action is closed     *)
(* just when all have done it, and who has tapped is not reminded again           *)
(* (notices_api.py:74-77, :219, :372-402; notice_actions.py:59-63).               *)
THEOREM NoticesHold == NtSpec => NoticesGoOnce
<1>1. NtInv => OneNoticePerSource
  <2> SUFFICES ASSUME NtInv, NEW ref \in Mails \ together PROVE Cardinality(BySource(ref)) <= 1
    BY DEF OneNoticePerSource
  <2>1. BySource(ref) = {} \/ \E n \in Notices : BySource(ref) = {n}
    BY DEF NtInv, OneOfASource, BySource
  <2>2. Cardinality(BySource(ref)) \in {0, 1}
    BY <2>1, FS_EmptySet, FS_Singleton
  <2> QED BY <2>2
<1>2. NtInv => ClosedWhenAllAreDone
  BY DEF NtInv, ClosedRight, ClosedIsDone, ClosedWhenAllAreDone
<1>3. NtInv /\ [NtNext]_noticevars => [NotDeliveredAgain]_noticevars /\ [NotAskedAgain]_noticevars
  BY NtStep
<1> QED BY <1>1, <1>2, <1>3, InitNtInv, NtStep, PTL
        DEF NtSpec, NoticesGoOnce, NoDeliveryOfTheDelivered, DoneIsNotRemindedAgain,
            NotDeliveredAgain, NotAskedAgain

-----------------------------------------------------------------------------
(* The content of LINE messages.                                             *)
-----------------------------------------------------------------------------
(* A call at a place is at work on the event it is the place of. *)
PlacesOfEvents == \A w \in Workers :
    /\ worker[w].pc \in {"content", "uploaded"} => worker[w].e = "message"
    /\ worker[w].pc \in {"unsend", "found", "deleted"} => worker[w].e = "unsend"

(* Whoever is through with the unsending, the file was looked for, and what was   *)
(* there is gone, or came late.                                                   *)
FileGone == order = "late" \/ (order = "looked" /\ ~stored)
UnsendingLeavesNothing ==
    /\ incoming["unsend"].at = "acked" => FileGone
    /\ \A w \in Workers : worker[w].pc \in {"deleted", "done"} /\ worker[w].e = "unsend" => FileGone

(* Whoever stored the file, it is there, or its deletion is recorded, or will be, *)
(* or its call died.                                                              *)
Explained ==
    \/ stored \/ "deleted_unsent" \in records \/ unrecorded
    \/ \E w \in Workers : StandsAt(w, "deleted")
StoredIsThere ==
    /\ "stored" \in records => Explained
    /\ \A w \in Workers : StandsAt(w, "uploaded") => Explained

CwInv == CwTypeOK /\ PlacesOfEvents /\ UnsendingLeavesNothing /\ StoredIsThere
-----------------------------------------------------------------------------
WorkerLocals == [pc : WorkerPlaces, e : Happenings \cup {"none"},
                 i : Instances \cup {"none"}, copy : GroupDocs]
Incomings == [at : {"none", "topic", "acked", "dead"}, times : 0 .. MaxDeliveries]
Fields == <<stored, records, group, known, order, unrecorded>>

LEMMA CwRests == /\ NoGroup \in GroupDocs /\ AtHome \in WorkerLocals /\ AtHome.pc = "idle"
                 /\ [at |-> "none", times |-> 0] \in Incomings
BY DeliveriesAssumption DEF NoGroup, GroupDocs, AtHome, WorkerLocals, WorkerPlaces, Incomings

LEMMA InitCwInv == CwInit => CwInv
<1> SUFFICES ASSUME CwInit PROVE CwInv
  OBVIOUS
<1>1. /\ \A w \in Workers : worker[w] = AtHome
      /\ \A e \in Happenings : incoming[e] = [at |-> "none", times |-> 0]
  BY DEF CwInit
<1>2. CwTypeOK
  BY CwRests DEF CwInit, CwTypeOK, WorkerLocals, Incomings
<1> QED BY <1>1, <1>2, CwRests
        DEF CwInit, CwInv, PlacesOfEvents, UnsendingLeavesNothing, StoredIsThere, StandsAt, Happenings

(* What the state apart from the calls may be after a step. *)
FieldsTyped ==
    /\ stored \in BOOLEAN /\ records \subseteq {"stored", "no_file", "deleted_unsent"}
    /\ group \in GroupDocs /\ known \in [Instances -> BOOLEAN]
    /\ order \in {"no", "looked", "late"} /\ unrecorded \in BOOLEAN

(* One call goes on to a new place; what held of the file holds on. *)
LEMMA WorkerKeeps ==
    ASSUME CwInv, NEW w \in Workers, NEW new \in WorkerLocals,
           worker' = [worker EXCEPT ![w] = new], FieldsTyped', incoming' = incoming,
           new.pc # "idle" => new.e = worker[w].e /\ new.i = worker[w].i /\ worker[w].pc # "idle",
           new.pc \in {"content", "uploaded"} => new.e = "message",
           new.pc \in {"unsend", "found", "deleted"} => new.e = "unsend",
           FileGone => FileGone', new.pc \in {"deleted", "done"} /\ new.e = "unsend" => FileGone',
           Explained => Explained',
           "stored" \in records' => "stored" \in records \/ Explained',
           new.pc = "uploaded" => Explained'
    PROVE  CwInv'
<1>1. \A v \in Workers : worker'[v] = IF v = w THEN new ELSE worker[v]
  BY DEF CwInv, CwTypeOK
<1>2. CwTypeOK'
  <2>1. worker' \in [Workers -> WorkerLocals]
    BY DEF CwInv, CwTypeOK, WorkerLocals
  <2> QED BY <1>1, <2>1 DEF CwInv, CwTypeOK, FieldsTyped, WorkerLocals
<1>3. PlacesOfEvents'
  BY <1>1 DEF CwInv, PlacesOfEvents
<1>4. UnsendingLeavesNothing'
  BY <1>1 DEF CwInv, UnsendingLeavesNothing
<1>5. StoredIsThere'
  BY <1>1 DEF CwInv, StoredIsThere, StandsAt
<1> QED BY <1>2, <1>3, <1>4, <1>5 DEF CwInv

(* A call stays where it is, ends elsewhere than between a deletion and its record, *)
(* or begins with an event that was delivered.                                     *)
Turns(v) ==
    \/ worker'[v] = worker[v]
    \/ worker'[v].pc = "idle" /\ ~StandsAt(v, "deleted")
    \/ /\ StandsAt(v, "idle") /\ worker'[v].pc = "begun" /\ worker'[v].e \in Happenings
       /\ worker'[v].i \in Instances /\ incoming'[worker'[v].e].times > 0

(* An event comes, is delivered, is acknowledged or goes to the dead letters. *)
LEMMA EventsKeep ==
    ASSUME CwInv, incoming' \in [Happenings -> Incomings],
           \A e \in Happenings : incoming[e].times > 0 => incoming'[e].times > 0,
           incoming'["unsend"].at = "acked" => incoming["unsend"].at = "acked" \/ FileGone,
           UNCHANGED Fields, worker' \in [Workers -> WorkerLocals],
           \A v \in Workers : Turns(v)
    PROVE  CwInv'
<1>1. stored' = stored /\ records' = records /\ group' = group /\ known' = known /\ order' = order
      /\ unrecorded' = unrecorded
  BY DEF Fields
<1>3. CwTypeOK'
  <2>1. \A v \in Workers : worker'[v].pc # "idle" =>
         /\ worker'[v].e \in Happenings /\ worker'[v].i \in Instances
         /\ incoming'[worker'[v].e].times > 0
    BY DEF CwInv, CwTypeOK, Turns, StandsAt
  <2> QED BY <1>1, <2>1 DEF CwInv, CwTypeOK, WorkerLocals, Incomings
<1>4. PlacesOfEvents'
  BY DEF CwInv, PlacesOfEvents, Turns, StandsAt
<1>5. UnsendingLeavesNothing'
  BY <1>1 DEF CwInv, UnsendingLeavesNothing, FileGone, Turns, StandsAt
<1>6. Explained => Explained'
  BY <1>1 DEF Explained, StandsAt, Turns
<1>7. StoredIsThere'
  BY <1>1, <1>6 DEF CwInv, StoredIsThere, StandsAt, Turns
<1> QED BY <1>3, <1>4, <1>5, <1>7 DEF CwInv

(* The call goes on from one place to the next. *)
LEMMA MovesKeep ==
    ASSUME CwInv, NEW w \in Workers, NEW pc \in WorkerPlaces \ {"idle"}, MovesTo(w, pc),
           worker[w].pc # "idle", FieldsTyped', incoming' = incoming,
           pc \in {"content", "uploaded"} => worker[w].e = "message",
           pc \in {"unsend", "found", "deleted"} => worker[w].e = "unsend",
           FileGone => FileGone', pc \in {"deleted", "done"} /\ worker[w].e = "unsend" => FileGone',
           Explained => Explained',
           "stored" \in records' => "stored" \in records \/ Explained',
           pc = "uploaded" => Explained'
    PROVE  CwInv'
<1> DEFINE new == [worker[w] EXCEPT !.pc = pc]
<1>1. worker[w] \in WorkerLocals
  BY DEF CwInv, CwTypeOK, WorkerLocals
<1>2. new \in WorkerLocals /\ new.pc = pc /\ new.e = worker[w].e /\ new.i = worker[w].i
  BY <1>1 DEF WorkerLocals
<1>3. worker' = [worker EXCEPT ![w] = new]
  BY DEF MovesTo
<1> HIDE DEF new
<1> QED BY <1>2, <1>3, WorkerKeeps

LEMMA FieldsAre == CwInv => FieldsTyped
BY DEF CwInv, CwTypeOK, FieldsTyped

LEMMA NextPlaces ==
    ASSUME CwInv, NEW w \in Workers, worker[w].pc \in {"begun", "group"}
    PROVE  /\ NextPlace(w) \in WorkerPlaces \ {"idle", "uploaded", "deleted", "found"}
           /\ NextPlace(w) = "content" => worker[w].e = "message"
           /\ NextPlace(w) = "unsend" => worker[w].e = "unsend"
           /\ NextPlace(w) = "done" => worker[w].e # "unsend"
BY DEF CwInv, CwTypeOK, NextPlace, WorkerPlaces, Happenings

(* What the calls stand at does not change what explains a missing file. *)
LEMMA ExplainedOn ==
    ASSUME CwInv, NEW w \in Workers, NEW pc, MovesTo(w, pc), ~StandsAt(w, "deleted"),
           stored' = stored, records \subseteq records', unrecorded' = unrecorded
    PROVE  Explained => Explained'
<1>1. \A v \in Workers : v # w => worker'[v] = worker[v]
  BY DEF MovesTo, CwInv, CwTypeOK
<1> QED BY <1>1 DEF Explained, StandsAt

LEMMA GroupKeeps ==
    ASSUME CwInv, NEW w \in Workers, GroupIsKnown(w) \/ SaveGroup(w)
    PROVE  CwInv'
<1>1. worker[w].pc \in {"begun", "group"} /\ MovesTo(w, NextPlace(w)) /\ incoming' = incoming
      /\ stored' = stored /\ records' = records /\ order' = order /\ unrecorded' = unrecorded
  BY DEF GroupIsKnown, SaveGroup, StandsAt
<1>2. FieldsTyped'
  <2>1. group' \in GroupDocs /\ known' \in [Instances -> BOOLEAN]
    <3>1. /\ group \in GroupDocs /\ worker[w].copy \in GroupDocs
          /\ known \in [Instances -> BOOLEAN]
      BY DEF CwInv, CwTypeOK
    <3>2. [known EXCEPT ![worker[w].i] = TRUE] \in [Instances -> BOOLEAN]
      BY <3>1
    <3> QED BY <3>1, <3>2 DEF GroupIsKnown, SaveGroup
  <2> QED BY FieldsAre, <1>1, <2>1 DEF FieldsTyped
<1>3. (Explained => Explained') /\ (FileGone => FileGone')
  BY <1>1, ExplainedOn DEF StandsAt, FileGone
<1> QED BY <1>1, <1>2, <1>3, NextPlaces, MovesKeep

LEMMA ReadGroupKeeps ==
    ASSUME CwInv, NEW w \in Workers, ReadGroup(w)
    PROVE  CwInv'
<1> DEFINE copy == CASE worker[w].e = "join" -> [in |-> TRUE, left |-> FALSE]
                     [] worker[w].e = "leave" -> [in |-> TRUE, left |-> TRUE]
                     [] OTHER -> [in |-> TRUE, left |-> group.left]
           new == [worker[w] EXCEPT !.pc = "group", !.copy = copy]
<1>1. worker[w] \in WorkerLocals /\ worker[w].pc = "begun" /\ group.left \in BOOLEAN
  BY DEF CwInv, CwTypeOK, WorkerLocals, ReadGroup, StandsAt, GroupDocs
<1>2. copy \in GroupDocs
  BY <1>1 DEF GroupDocs
<1>3. worker' = [worker EXCEPT ![w] = [worker[w] EXCEPT !.pc = "group", !.copy = copy]]
  BY DEF ReadGroup, CwInv, CwTypeOK
<1> HIDE DEF copy
<1>4. "group" \in WorkerPlaces
  BY DEF WorkerPlaces
<1>5. new \in WorkerLocals /\ new.pc = "group" /\ new.e = worker[w].e /\ new.i = worker[w].i
  BY <1>1, <1>2, <1>4 DEF WorkerLocals
<1>6. worker' = [worker EXCEPT ![w] = new]
  BY <1>3
<1> HIDE DEF new
<1>7. UNCHANGED Fields /\ incoming' = incoming
  BY DEF ReadGroup, Fields
<1>8. FieldsTyped' /\ (FileGone => FileGone') /\ records' = records /\ stored' = stored /\ unrecorded' = unrecorded
  BY <1>7, FieldsAre DEF Fields, FieldsTyped, FileGone
<1>9. \A v \in Workers : v # w => worker'[v] = worker[v]
  BY <1>6 DEF CwInv, CwTypeOK
<1>10. Explained => Explained'
  BY <1>1, <1>8, <1>9 DEF Explained, StandsAt
<1> QED BY <1>1, <1>5, <1>6, <1>7, <1>8, <1>10, WorkerKeeps

LEMMA FailsKeeps ==
    ASSUME CwInv, NEW w \in Workers, Fails(w)
    PROVE  CwInv'
<1>1. /\ worker' = [worker EXCEPT ![w] = AtHome] /\ incoming' = incoming /\ stored' = stored
      /\ records' = records /\ group' = group /\ known' = known /\ order' = order
      /\ unrecorded' = (unrecorded \/ StandsAt(w, "deleted"))
  BY DEF Fails
<1>2. FieldsTyped' /\ (FileGone => FileGone')
  BY <1>1, FieldsAre DEF FieldsTyped, FileGone
<1>3. \A v \in Workers : v # w => worker'[v] = worker[v]
  BY <1>1 DEF CwInv, CwTypeOK
<1>4. Explained => Explained'
  BY <1>1, <1>3 DEF Explained, StandsAt
<1> QED BY <1>1, <1>2, <1>4, CwRests, WorkerKeeps

LEMMA StoreKeeps ==
    ASSUME CwInv, NEW w \in Workers, NoContent(w) \/ Upload(w) \/ RecordStored(w)
    PROVE  CwInv'
<1>1. worker[w].pc \in {"content", "uploaded"} /\ worker[w].e = "message" /\ incoming' = incoming
  BY DEF NoContent, Upload, RecordStored, StandsAt, CwInv, PlacesOfEvents
<1>2. {"done", "uploaded"} \subseteq WorkerPlaces \ {"idle"}
  BY DEF WorkerPlaces
<1>3. CASE NoContent(w) \/ RecordStored(w)
  <2>1. MovesTo(w, "done") /\ stored' = stored /\ order' = order /\ unrecorded' = unrecorded
        /\ group' = group /\ known' = known /\ records \subseteq records'
        /\ records' \subseteq records \cup {"stored", "no_file"}
        /\ ("stored" \in records' => "stored" \in records \/ StandsAt(w, "uploaded"))
    BY <1>3 DEF NoContent, RecordStored, Publish
  <2>2. FieldsTyped' /\ (FileGone => FileGone')
    BY <2>1, FieldsAre DEF FieldsTyped, FileGone
  <2>3. Explained => Explained'
    BY <1>1, <2>1, ExplainedOn DEF StandsAt
  <2>4. "stored" \in records' => "stored" \in records \/ Explained'
    BY <2>1, <2>3 DEF CwInv, StoredIsThere
  <2> QED BY <1>1, <1>2, <2>1, <2>2, <2>3, <2>4, MovesKeep
<1>4. CASE Upload(w)
  <2>1. MovesTo(w, "uploaded") /\ stored' = TRUE /\ order' = (IF order = "no" THEN "no" ELSE "late")
        /\ UNCHANGED <<records, group, known, unrecorded>>
    BY <1>4 DEF Upload
  <2>2. FieldsTyped' /\ (FileGone => FileGone') /\ Explained'
    BY <2>1, FieldsAre DEF FieldsTyped, FileGone, Explained
  <2> QED BY <1>1, <1>2, <2>1, <2>2, MovesKeep
<1> QED BY <1>3, <1>4

LEMMA UnsendKeeps ==
    ASSUME CwInv, NEW w \in Workers, ListContent(w) \/ DeleteContent(w) \/ RecordDeleted(w)
    PROVE  CwInv'
<1>1. worker[w].pc \in {"unsend", "found", "deleted"} /\ worker[w].e = "unsend" /\ incoming' = incoming
  BY DEF ListContent, DeleteContent, RecordDeleted, StandsAt, CwInv, PlacesOfEvents
<1>2. {"done", "found", "deleted"} \subseteq WorkerPlaces \ {"idle"}
  BY DEF WorkerPlaces
<1>0. FieldsTyped
  BY FieldsAre
<1>3. CASE ListContent(w)
  <2> DEFINE pc == IF stored THEN "found" ELSE "done"
  <2>1. MovesTo(w, pc) /\ order' = (IF order = "no" \/ ~stored THEN "looked" ELSE order)
        /\ UNCHANGED <<stored, records, group, known, unrecorded>> /\ StandsAt(w, "unsend")
    BY <1>3 DEF ListContent
  <2>2. pc \in {"found", "done"} /\ (pc = "done" => ~stored)
    OBVIOUS
  <2> HIDE DEF pc
  <2>3. FieldsTyped' /\ (FileGone => FileGone') /\ (~stored => FileGone')
    BY <1>0, <2>1 DEF FieldsTyped, FileGone
  <2>4. Explained => Explained'
    BY <2>1, ExplainedOn DEF StandsAt
  <2> QED BY <1>1, <1>2, <2>1, <2>2, <2>3, <2>4, MovesKeep
<1>4. CASE DeleteContent(w)
  <2>1. MovesTo(w, "deleted") /\ stored' = FALSE /\ order' = "looked"
        /\ UNCHANGED <<records, group, known, unrecorded>>
    BY <1>4 DEF DeleteContent
  <2>2. FieldsTyped' /\ FileGone'
    BY <1>0, <2>1 DEF FieldsTyped, FileGone
  <2>3. worker'[w].pc = "deleted"
    BY <2>1 DEF MovesTo, CwInv, CwTypeOK
  <2>4. Explained'
    BY <2>3 DEF Explained, StandsAt
  <2> QED BY <1>1, <1>2, <2>1, <2>2, <2>4, MovesKeep
<1>5. CASE RecordDeleted(w)
  <2>1. MovesTo(w, "done") /\ records' = records \cup {"deleted_unsent"}
        /\ UNCHANGED <<stored, group, known, order, unrecorded>> /\ StandsAt(w, "deleted")
    BY <1>5 DEF RecordDeleted, Publish
  <2>2. FieldsTyped' /\ Explained' /\ FileGone'
    BY <1>0, <1>1, <2>1 DEF FieldsTyped, Explained, FileGone, CwInv, UnsendingLeavesNothing, StandsAt
  <2> QED BY <1>1, <1>2, <2>1, <2>2, MovesKeep
<1> QED BY <1>3, <1>4, <1>5
-----------------------------------------------------------------------------
LEMMA TopicKeeps ==
    ASSUME CwInv, NEW e \in Happenings, HappensAt(e) \/ DeadLetter(e)
    PROVE  CwInv'
<1>1. incoming \in [Happenings -> Incomings] /\ worker \in [Workers -> WorkerLocals]
  BY DEF CwInv, CwTypeOK, Incomings, WorkerLocals
<1>2. \E at \in {"topic", "dead"} : incoming' = [incoming EXCEPT ![e].at = at]
  BY DEF HappensAt, DeadLetter
<1>3. PICK at \in {"topic", "dead"} : incoming' = [incoming EXCEPT ![e].at = at]
  BY <1>2
<1>4. incoming' \in [Happenings -> Incomings]
      /\ \A h \in Happenings : /\ incoming'[h].times = incoming[h].times
                               /\ incoming'[h].at = "acked" => incoming[h].at = "acked"
  BY <1>1, <1>3 DEF Incomings
<1>6. \A h \in Happenings : incoming[h].times > 0 => incoming'[h].times > 0
  BY <1>4
<1>7. UNCHANGED Fields /\ worker' = worker
  BY DEF HappensAt, DeadLetter, Fields
<1>8. \A v \in Workers : Turns(v)
  BY <1>7 DEF Turns
<1> QED BY <1>1, <1>4, <1>6, <1>7, <1>8, EventsKeep DEF Happenings

LEMMA DeliverKeeps ==
    ASSUME CwInv, NEW w \in Workers, Deliver(w)
    PROVE  CwInv'
<1>1. PICK e \in Happenings, i \in Instances :
        /\ StandsAt(w, "idle") /\ incoming[e].times < MaxDeliveries
        /\ incoming' = [incoming EXCEPT ![e].times = @ + 1]
        /\ worker' = [worker EXCEPT ![w] = [AtHome EXCEPT !.pc = "begun", !.e = e, !.i = i]]
        /\ UNCHANGED Fields
  BY DEF Deliver, Fields
<1> DEFINE new == [AtHome EXCEPT !.pc = "begun", !.e = e, !.i = i]
<1>2. new \in WorkerLocals /\ new.pc = "begun" /\ new.e = e /\ new.i = i
  BY CwRests DEF WorkerLocals, WorkerPlaces
<1> HIDE DEF new
<1>3. incoming \in [Happenings -> Incomings] /\ worker \in [Workers -> WorkerLocals]
  BY DEF CwInv, CwTypeOK, Incomings, WorkerLocals
<1>4. \A h \in Happenings : incoming[h].times \in 0 .. MaxDeliveries
  BY <1>3 DEF Incomings
<1>5. incoming[e].times + 1 \in 0 .. MaxDeliveries
  BY <1>1, <1>4, DeliveriesAssumption
<1>6. incoming' \in [Happenings -> Incomings]
  BY <1>1, <1>3, <1>5 DEF Incomings
<1>7. \A h \in Happenings : /\ incoming'[h].at = incoming[h].at
                            /\ incoming'[h].times = IF h = e THEN incoming[h].times + 1 ELSE incoming[h].times
  BY <1>1, <1>3 DEF Incomings
<1>9. incoming'[e].times > 0
  BY <1>4, <1>7, DeliveriesAssumption
<1>8. \A h \in Happenings : incoming[h].times > 0 => incoming'[h].times > 0
  BY <1>7, <1>9
<1>10. worker' = [worker EXCEPT ![w] = new]
  BY <1>1 DEF new
<1>11. worker' \in [Workers -> WorkerLocals] /\ \A v \in Workers : worker'[v] = IF v = w THEN new ELSE worker[v]
  BY <1>2, <1>3, <1>10
<1>12. \A v \in Workers : Turns(v)
  BY <1>1, <1>2, <1>9, <1>11 DEF Turns
<1> QED BY <1>1, <1>6, <1>7, <1>8, <1>11, <1>12, EventsKeep DEF Happenings

LEMMA AnsweredKeeps ==
    ASSUME CwInv, NEW w \in Workers, NEW inTime \in BOOLEAN, Answered(w, inTime)
    PROVE  CwInv'
<1>1. incoming \in [Happenings -> Incomings] /\ worker \in [Workers -> WorkerLocals]
  BY DEF CwInv, CwTypeOK, Incomings, WorkerLocals
<1>2. StandsAt(w, "done") /\ worker' = [worker EXCEPT ![w] = AtHome] /\ UNCHANGED Fields
      /\ incoming' = IF inTime THEN [incoming EXCEPT ![worker[w].e].at = "acked"] ELSE incoming
  BY DEF Answered, Fields
<1>3. worker[w].e \in Happenings /\ (worker[w].e = "unsend" => FileGone)
  BY <1>2 DEF StandsAt, CwInv, CwTypeOK, UnsendingLeavesNothing
<1>4. incoming' \in [Happenings -> Incomings]
      /\ \A h \in Happenings : /\ incoming'[h].times = incoming[h].times
                               /\ incoming'[h].at = "acked" => incoming[h].at = "acked" \/ h = worker[w].e
  BY <1>1, <1>2, <1>3 DEF Incomings
<1>6. \A h \in Happenings : incoming[h].times > 0 => incoming'[h].times > 0
  BY <1>4
<1>7. worker' \in [Workers -> WorkerLocals] /\ \A v \in Workers : worker'[v] = IF v = w THEN AtHome ELSE worker[v]
  BY <1>1, <1>2, CwRests
<1>8. ~StandsAt(w, "deleted")
  BY <1>2 DEF StandsAt
<1>9. incoming'["unsend"].at = "acked" => incoming["unsend"].at = "acked" \/ FileGone
  BY <1>3, <1>4 DEF Happenings
<1>10. \A v \in Workers : Turns(v)
  BY <1>7, <1>8, CwRests DEF Turns
<1> QED BY <1>2, <1>4, <1>6, <1>7, <1>9, <1>10, EventsKeep

LEMMA ProfileKeeps ==
    ASSUME CwInv, NEW i \in Instances, ProfileIsOld(i)
    PROVE  CwInv'
<1>1. known' \in [Instances -> BOOLEAN]
      /\ UNCHANGED <<incoming, worker, stored, records, group, order, unrecorded>>
  BY DEF ProfileIsOld, CwInv, CwTypeOK
<1>2. CwTypeOK'
  BY <1>1 DEF CwInv, CwTypeOK
<1>3. (Explained <=> Explained') /\ (FileGone <=> FileGone')
  BY <1>1 DEF Explained, FileGone, StandsAt
<1> QED BY <1>1, <1>2, <1>3 DEF CwInv, PlacesOfEvents, UnsendingLeavesNothing, StoredIsThere, StandsAt

LEMMA CwStep == CwInv /\ [CwNext]_contentvars => CwInv'
<1> SUFFICES ASSUME CwInv, [CwNext]_contentvars PROVE CwInv'
  OBVIOUS
<1>1. CASE UNCHANGED contentvars
  BY <1>1 DEF contentvars, CwInv, CwTypeOK, PlacesOfEvents, UnsendingLeavesNothing, FileGone,
              StoredIsThere, Explained, StandsAt
<1>2. CASE CwNext
  BY <1>2, TopicKeeps, ProfileKeeps, DeliverKeeps, FailsKeeps, GroupKeeps, ReadGroupKeeps, StoreKeeps,
     UnsendKeeps, AnsweredKeeps DEF CwNext
<1> QED BY <1>1, <1>2
-----------------------------------------------------------------------------
LEMMA CwInvHolds == CwSpec => []CwInv
BY InitCwInv, CwStep, PTL DEF CwSpec

(* A group the bot has left is joined again by the copy of a join, or an old one. *)
LEMMA LeftStep ==
    CwInv /\ [CwNext]_contentvars => (group.left /\ ~group'.left =>
        \E w \in Workers : StandsAt(w, "group") /\ worker'[w].pc # "group"
            /\ (worker[w].e = "join" \/ ~worker[w].copy.left))
<1> SUFFICES ASSUME CwInv, [CwNext]_contentvars, group.left, ~group'.left
             PROVE  \E w \in Workers : StandsAt(w, "group") /\ worker'[w].pc # "group"
                        /\ (worker[w].e = "join" \/ ~worker[w].copy.left)
  OBVIOUS
<1>1. PICK w \in Workers : SaveGroup(w)
  BY DEF contentvars, CwNext, HappensAt, DeadLetter, ProfileIsOld, Deliver, Fails, GroupIsKnown,
         ReadGroup, NoContent, Upload, RecordStored, ListContent, DeleteContent, RecordDeleted, Answered
<1>2. StandsAt(w, "group") /\ group' = worker[w].copy /\ MovesTo(w, NextPlace(w))
  BY <1>1 DEF SaveGroup
<1>3. worker[w] \in WorkerLocals
  BY DEF CwInv, CwTypeOK, WorkerLocals
<1>4. NextPlace(w) # "group"
  BY DEF NextPlace
<1>5. worker'[w].pc # "group"
  BY <1>2, <1>3, <1>4 DEF MovesTo, CwInv, CwTypeOK, WorkerLocals
<1> QED BY <1>2, <1>5

(* The documents, the topic and the calls of the LINE worker stay well formed,   *)
(* for any number of calls, instances and deliveries (line_worker.py).           *)
THEOREM ContentTypes == CwSpec => []CwTypeOK
<1>1. CwInv => CwTypeOK
  BY DEF CwInv
<1> QED BY CwInvHolds, <1>1, PTL

(* The files and groups of LINE are as its events say, for any number of         *)
(* overlapping calls and redeliveries in any order (line_worker.py:159-318).     *)
THEOREM ContentHolds == CwSpec => ContentIsTrue
<1>1. CwInv => UnsentIsGone
  BY DEF CwInv, UnsendingLeavesNothing, FileGone, UnsentIsGone
<1>2. CwInv => RecordsAreTrue
  BY DEF CwInv, StoredIsThere, Explained, RecordsAreTrue
<1>3. CwSpec => LeftStaysLeft
  <2>1. CwInv /\ [CwNext]_contentvars => [group.left /\ ~group'.left =>
            \E w \in Workers : StandsAt(w, "group") /\ worker'[w].pc # "group"
                /\ \/ worker[w].e = "join" \/ ~worker[w].copy.left]_contentvars
    BY LeftStep
  <2> QED BY CwInvHolds, <2>1, PTL DEF CwSpec, LeftStaysLeft
<1> QED BY CwInvHolds, <1>1, <1>2, <1>3, PTL DEF ContentIsTrue

-----------------------------------------------------------------------------
(* Deferred messages.                                                        *)
-----------------------------------------------------------------------------
(* A deferred message leaves in the first slot that is not quiet, within a day *)
(* of being held back: the operator alone, for a day and two times of the day. *)
LEMMA NextSendTimeIsFirstFree ==
    ASSUME NEW set \in QuietHours, NEW date \in Nat, NEW tod \in TimeOfDay,
           NEW d \in Nat, NEW u \in TimeOfDay, ~Earlier(<<d, u>>, <<date, tod>>)
    PROVE  LET send == next_send_time(date, tod, set) IN
           /\ ~Earlier(send, <<date, tod>>) /\ Earlier(send, <<date + 1, tod>>)
           /\ <<d, u>> = send => ~is_quiet_hours(u, set)
           /\ Earlier(<<d, u>>, send) => is_quiet_hours(u, set)
<1>1. set.start \in TimeOfDay /\ set.end \in TimeOfDay
  BY DEF QuietHours
<1>2. CASE ~is_quiet_hours(tod, set)
  BY <1>1, <1>2, SlotsAssumption DEF next_send_time, Earlier, TimeOfDay
<1>3. CASE is_quiet_hours(tod, set)
  BY <1>1, <1>3, SlotsAssumption DEF next_send_time, is_quiet_hours, Earlier, TimeOfDay
<1> QED BY <1>2, <1>3

(* The clock of a held message never runs before the moment it was held back. *)
NotBeforeHeld == DeferralTypeOK /\ ~Earlier(moment, held)

LEMMA NeverBeforeHeld == DeferralSpec => []NotBeforeHeld
<1>1. DeferralInit => NotBeforeHeld
  BY MaxDayAssumption, SlotsAssumption
     DEF DeferralInit, NotBeforeHeld, DeferralTypeOK, Moments, Earlier, TimeOfDay
<1>2. NotBeforeHeld /\ [Tick]_deferralVars => NotBeforeHeld'
  <2> SUFFICES ASSUME NotBeforeHeld, [Tick]_deferralVars PROVE NotBeforeHeld'
    OBVIOUS
  <2>1. CASE Tick
    BY <2>1, SlotsAssumption
       DEF Tick, NotBeforeHeld, DeferralTypeOK, Moments, Earlier, TimeOfDay
  <2>2. CASE UNCHANGED deferralVars
    BY <2>2 DEF deferralVars, NotBeforeHeld, DeferralTypeOK, Moments, Earlier
  <2> QED BY <2>1, <2>2
<1> QED BY <1>1, <1>2, PTL DEF DeferralSpec

(* guardrails.next_send_time defers to the first slot allowed, whatever the    *)
(* quiet hours, the moment and the number of slots in a day.                    *)
THEOREM DeferralTheorem == DeferralSpec => []DeferredToFirstFreeSlot
<1>1. NotBeforeHeld => DeferredToFirstFreeSlot
  <2> SUFFICES ASSUME NotBeforeHeld PROVE DeferredToFirstFreeSlot
    OBVIOUS
  <2>1. /\ held[1] \in Nat /\ held[2] \in TimeOfDay /\ held = <<held[1], held[2]>>
        /\ moment[1] \in Nat /\ moment[2] \in TimeOfDay /\ moment = <<moment[1], moment[2]>>
    BY DEF NotBeforeHeld, DeferralTypeOK, Moments
  <2> QED BY <2>1, NextSendTimeIsFirstFree
          DEF NotBeforeHeld, DeferralTypeOK, DeferredToFirstFreeSlot
<1> QED BY <1>1, NeverBeforeHeld, PTL
-----------------------------------------------------------------------------
(* The two repositories.                                                     *)
-----------------------------------------------------------------------------
(* Logs and records are sequences of whole records in memory; a document of       *)
(* Firestore is under its own id.                                                 *)
RecordsKept ==
    /\ mem \in Seq(Records) /\ memLog \in Seq(Records) /\ memTurns \in Seq(Records)
    /\ \A i \in Ids : /\ fire[i] # NoRecord => fire[i].id = i
                      /\ fireLog[i] # NoRecord => fireLog[i].id = i

(* A claim is as old as the event at least, and goes when the event is past; who  *)
(* claimed an event has a claim that holds, or the event is past.                 *)
ClaimsHold == \A e \in LineEvents :
    /\ taken[e] <= 1
    /\ fireClaims[e] # None => comes[e] # None /\ comes[e] <= fireClaims[e] /\ fireClaims[e] <= today
    /\ comes[e] # None => comes[e] <= today
    /\ fireClaims[e] = None /\ taken[e] > 0 => comes[e] # None /\ ~IsBrought(e)

StInv == StTypeOK /\ RecordsKept /\ ClaimsHold
-----------------------------------------------------------------------------
LEMMA DaysOfStores ==
    /\ StoreDays \in Nat /\ None \in Nat /\ 0 .. StoreDays \subseteq 0 .. None /\ None \in 0 .. None
    /\ 0 \in 0 .. StoreDays /\ None \notin 0 .. StoreDays
    /\ \A d \in 0 .. None : d \in Nat /\ (d # None => d \in 0 .. StoreDays)
BY StoresAssumption DEF None

LEMMA NoRecordIsNone == NoRecord \notin Records /\ \A r \in Records : r.id \in Ids /\ r # NoRecord
<1>1. \A r \in Records : r.id \in Ids /\ r.at \in 0 .. StoreDays
  BY DEF Records
<1>2. NoRecord.at = None
  BY DEF NoRecord
<1> QED BY <1>1, <1>2, DaysOfStores

LEMMA AppendedRecords ==
    ASSUME NEW s \in Seq(Records), NEW r \in Records
    PROVE  Append(s, r) \in Seq(Records) /\ Ran(Append(s, r)) = Ran(s) \cup {r} /\ Ran(s) \subseteq Records
<1>1. Append(s, r) \in Seq(Records) /\ Len(Append(s, r)) = Len(s) + 1 /\ Len(s) \in Nat
  OBVIOUS
<1>2. \A i \in 1 .. Len(s) + 1 : Append(s, r)[i] = IF i <= Len(s) THEN s[i] ELSE r
  OBVIOUS
<1>3. DOMAIN s = 1 .. Len(s) /\ DOMAIN Append(s, r) = 1 .. Len(s) + 1
  BY <1>1
<1>4. Ran(Append(s, r)) \subseteq Ran(s) \cup {r}
  BY <1>1, <1>2, <1>3 DEF Ran
<1>5. Ran(s) \subseteq Ran(Append(s, r))
  <2> SUFFICES ASSUME NEW i \in DOMAIN s PROVE s[i] \in Ran(Append(s, r))
    BY DEF Ran
  <2>1. i \in DOMAIN Append(s, r) /\ Append(s, r)[i] = s[i]
    BY <1>1, <1>2, <1>3
  <2> QED BY <2>1 DEF Ran
<1>6. r \in Ran(Append(s, r))
  <2>1. Len(s) + 1 \in DOMAIN Append(s, r) /\ Append(s, r)[Len(s) + 1] = r
    BY <1>1, <1>2, <1>3
  <2> QED BY <2>1 DEF Ran
<1>7. Ran(s) \subseteq Records
  BY <1>3 DEF Ran
<1> QED BY <1>1, <1>4, <1>5, <1>6, <1>7

(* A record in memory is what was saved last under its id.                        *)
LEMMA PutInMemory ==
    ASSUME NEW s \in Seq(Records), NEW r \in Records
    PROVE  PutMem(s, r) \in Seq(Records) /\ Ran(PutMem(s, r)) = {d \in Ran(s) : d.id # r.id} \cup {r}
<1>1. CASE \E i \in DOMAIN s : s[i].id = r.id
  <2>1. PutMem(s, r) = [i \in DOMAIN s |-> IF s[i].id = r.id THEN r ELSE s[i]]
    BY <1>1 DEF PutMem
  <2>2. DOMAIN s = 1 .. Len(s) /\ Len(s) \in Nat /\ \A i \in DOMAIN s : s[i] \in Records
    OBVIOUS
  <2>3. PutMem(s, r) \in Seq(Records)
    BY <2>1, <2>2, IsASeq
  <2> QED BY <1>1, <2>1, <2>3 DEF Ran
<1>2. CASE ~\E i \in DOMAIN s : s[i].id = r.id
  BY <1>2, AppendedRecords DEF PutMem, Ran
<1> QED BY <1>1, <1>2

LEMMA PutInFirestore ==
    ASSUME NEW f \in [Ids -> Records \cup {NoRecord}], NEW r \in Records,
           \A i \in Ids : f[i] # NoRecord => f[i].id = i
    PROVE  /\ PutFire(f, r) \in [Ids -> Records \cup {NoRecord}]
           /\ \A i \in Ids : PutFire(f, r)[i] = IF i = r.id THEN r ELSE f[i]
           /\ \A i \in Ids : PutFire(f, r)[i] # NoRecord => PutFire(f, r)[i].id = i
           /\ {PutFire(f, r)[i] : i \in Saved(PutFire(f, r))} =
                  {d \in {f[i] : i \in Saved(f)} : d.id # r.id} \cup {r}
<1>1. r.id \in Ids /\ r # NoRecord
  BY NoRecordIsNone
<1>2. /\ PutFire(f, r) \in [Ids -> Records \cup {NoRecord}]
      /\ \A i \in Ids : PutFire(f, r)[i] = IF i = r.id THEN r ELSE f[i]
  BY <1>1 DEF PutFire
<1> DEFINE g == PutFire(f, r)
<1>3. DOMAIN f = Ids /\ DOMAIN g = Ids
  BY <1>2
<1> HIDE DEF g
<1>4. {g[i] : i \in Saved(g)} = {d \in {f[i] : i \in Saved(f)} : d.id # r.id} \cup {r}
  <2>1. \A i \in Ids : g[i] = IF i = r.id THEN r ELSE f[i]
    BY <1>2 DEF g
  <2>2. Saved(g) = {i \in Ids : g[i] # NoRecord} /\ Saved(f) = {i \in Ids : f[i] # NoRecord}
    BY <1>3 DEF Saved
  <2>3. \A i \in Saved(g) : g[i] \in {d \in {f[j] : j \in Saved(f)} : d.id # r.id} \cup {r}
    BY <2>1, <2>2
  <2>4. ASSUME NEW i \in Saved(f), f[i].id # r.id PROVE i \in Saved(g) /\ g[i] = f[i]
    BY <2>1, <2>2, <2>4
  <2>5. r.id \in Saved(g) /\ g[r.id] = r
    BY <1>1, <2>1, <2>2
  <2> QED BY <2>3, <2>4, <2>5
<1> QED BY <1>1, <1>2, <1>4 DEF g
-----------------------------------------------------------------------------
LEMMA InitStInv == StInit => StInv
<1> SUFFICES ASSUME StInit PROVE StInv
  OBVIOUS
<1>1. Ran(<<>>) = {} /\ <<>> \in Seq(Records)
  BY DEF Ran
<1>2. RecordsKept
  BY <1>1 DEF StInit, RecordsKept
<1>3. \A e \in LineEvents : comes[e] = None /\ fireClaims[e] = None /\ taken[e] = 0
  BY DEF StInit
<1>4. ClaimsHold
  BY <1>3 DEF ClaimsHold
<1>5. StTypeOK
  BY <1>1, DaysOfStores DEF StInit, StTypeOK
<1> QED BY <1>2, <1>4, <1>5 DEF StInv

UnchangedClaims == UNCHANGED <<memClaims, fireClaims, comes, taken, today>>
UnchangedRecords == UNCHANGED <<mem, fire, memLog, fireLog, memTurns, fireTurns>>

LEMMA ClaimsStay == ClaimsHold /\ UnchangedClaims => ClaimsHold'
BY DEF ClaimsHold, UnchangedClaims, IsBrought, None

LEMMA RecordsStay == RecordsKept /\ UnchangedRecords => RecordsKept'
BY DEF RecordsKept, UnchangedRecords, NoRecord, None

LEMMA SavesKeep ==
    ASSUME StInv, NEW r \in Records, Save(r) \/ AddLog(r) \/ AddTurn(r)
    PROVE  StInv'
<1>1. /\ fire \in [Ids -> Records \cup {NoRecord}] /\ fireLog \in [Ids -> Records \cup {NoRecord}]
      /\ fireTurns \in [Ids -> Records \cup {NoRecord}]
      /\ mem \in Seq(Records) /\ memLog \in Seq(Records) /\ memTurns \in Seq(Records)
      /\ \A i \in Ids : fire[i] # NoRecord => fire[i].id = i
      /\ \A i \in Ids : fireLog[i] # NoRecord => fireLog[i].id = i
  BY DEF StInv, StTypeOK, RecordsKept
<1>2. ClaimsHold' /\ UnchangedClaims
  BY ClaimsStay DEF StInv, Save, AddLog, AddTurn, UnchangedClaims
<1>3. NoRecord' = NoRecord /\ Records' = Records
  BY DEF NoRecord, Records, None
<1>4. RecordsKept'
  <2>1. CASE Save(r)
    <3>1. mem' \in Seq(Records) /\ \A i \in Ids : fire'[i] # NoRecord => fire'[i].id = i
      <4>1. mem' = PutMem(mem, r) /\ fire' = PutFire(fire, r)
        BY <2>1 DEF Save
      <4>2. PutMem(mem, r) \in Seq(Records)
        BY <1>1, PutInMemory
      <4>3. \A i \in Ids : PutFire(fire, r)[i] # NoRecord => PutFire(fire, r)[i].id = i
        BY <1>1, PutInFirestore
      <4> QED BY <4>1, <4>2, <4>3
    <3>2. UNCHANGED <<memLog, memTurns, fireLog>>
      BY <2>1 DEF Save
    <3> QED BY <1>1, <1>3, <3>1, <3>2 DEF RecordsKept
  <2>2. CASE AddLog(r)
    <3>1. memLog' \in Seq(Records) /\ \A i \in Ids : fireLog'[i] # NoRecord => fireLog'[i].id = i
      BY <1>1, <2>2, AppendedRecords, PutInFirestore DEF AddLog
    <3>2. UNCHANGED <<mem, memTurns, fire>>
      BY <2>2 DEF AddLog
    <3> QED BY <1>1, <1>3, <3>1, <3>2 DEF RecordsKept
  <2>3. CASE AddTurn(r)
    BY <1>1, <1>3, <2>3, AppendedRecords DEF AddTurn, RecordsKept
  <2> QED BY <2>1, <2>2, <2>3
<1>5. \A s \in Seq(Records) : Ran(s) \subseteq Records
  BY DEF Ran
<1>6. /\ fire' \in [Ids -> Records \cup {NoRecord}] /\ fireLog' \in [Ids -> Records \cup {NoRecord}]
      /\ fireTurns' \in [Ids -> Records \cup {NoRecord}]
  <2>1. \A f \in [Ids -> Records \cup {NoRecord}] : PutFire(f, r) \in [Ids -> Records \cup {NoRecord}]
    BY NoRecordIsNone DEF PutFire
  <2> QED BY <1>1, <2>1 DEF Save, AddLog, AddTurn
<1>7. StTypeOK'
  <2>1. Ran(mem') \subseteq Records /\ Ran(memLog') \subseteq Records /\ Ran(memTurns') \subseteq Records
    BY <1>4, <1>5, <1>3 DEF RecordsKept
  <2> QED BY <1>2, <1>3, <1>6, <2>1 DEF StInv, StTypeOK, UnchangedClaims, Ran
<1> QED BY <1>2, <1>4, <1>7 DEF StInv

LEMMA ClaimTypes ==
    ASSUME StInv
    PROVE  /\ \A e \in LineEvents : comes[e] \in 0 .. None /\ fireClaims[e] \in 0 .. None /\ taken[e] \in Nat
           /\ today \in 0 .. StoreDays /\ today \in Nat /\ today # None /\ None \in Nat /\ today \in 0 .. None
           /\ \A d \in 0 .. None : d \in Nat
           /\ Retention \in Nat /\ ClaimTTL \in Nat /\ ClaimTTL >= Retention
BY DaysOfStores, StoresAssumption DEF StInv, StTypeOK

LEMMA LineEventsKeep ==
    ASSUME StInv, NEW e \in LineEvents, Send(e) \/ Claim(e) \/ Expire(e)
    PROVE  StInv'
<1>1. RecordsKept' /\ UnchangedRecords /\ today' = today
  BY RecordsStay DEF StInv, Send, Claim, Expire, UnchangedRecords
<1>2. ClaimsHold
  BY DEF StInv
<1>3. /\ comes \in [LineEvents -> 0 .. None] /\ fireClaims \in [LineEvents -> 0 .. None]
      /\ taken \in [LineEvents -> Nat] /\ memClaims \subseteq LineEvents
  BY DEF StInv, StTypeOK
<1>4. /\ comes' \in [LineEvents -> 0 .. None] /\ fireClaims' \in [LineEvents -> 0 .. None]
      /\ taken' \in [LineEvents -> Nat] /\ memClaims' \subseteq LineEvents
  BY <1>3, ClaimTypes DEF Send, Claim, Expire
<1>5. StTypeOK'
  BY <1>1, <1>4 DEF StInv, StTypeOK, UnchangedRecords, Records, NoRecord, None, Ran
<1>6. ASSUME NEW f \in LineEvents, f # e
      PROVE  comes'[f] = comes[f] /\ fireClaims'[f] = fireClaims[f] /\ taken'[f] = taken[f]
  BY <1>3, <1>6 DEF Send, Claim, Expire
<1>7. /\ taken'[e] <= 1
      /\ fireClaims'[e] # None => comes'[e] # None /\ comes'[e] <= fireClaims'[e] /\ fireClaims'[e] <= today
      /\ comes'[e] # None => comes'[e] <= today
      /\ fireClaims'[e] = None /\ taken'[e] > 0 => comes'[e] # None /\ ~(today < comes'[e] + Retention)
  <2>0. /\ taken[e] <= 1
        /\ fireClaims[e] # None => comes[e] # None /\ comes[e] <= fireClaims[e] /\ fireClaims[e] <= today
        /\ comes[e] # None => comes[e] <= today
        /\ fireClaims[e] = None /\ taken[e] > 0 => comes[e] # None /\ ~(today < comes[e] + Retention)
    BY <1>2 DEF ClaimsHold, IsBrought
  <2>1. CASE Send(e)
    <3>1. comes'[e] = today /\ fireClaims'[e] = fireClaims[e] /\ taken'[e] = taken[e] /\ comes[e] = None
      BY <1>3, <2>1 DEF Send
    <3> QED BY <2>0, <3>1, ClaimTypes
  <2>2. CASE Claim(e)
    <3>1. comes' = comes /\ comes[e] # None /\ today < comes[e] + Retention
      BY <2>2 DEF Claim, IsBrought
    <3>2. \/ fireClaims[e] = None /\ fireClaims'[e] = today /\ taken'[e] = taken[e] + 1
          \/ fireClaims[e] # None /\ fireClaims'[e] = fireClaims[e] /\ taken'[e] = taken[e]
      BY <1>3, <2>2 DEF Claim
    <3> QED BY <2>0, <3>1, <3>2, ClaimTypes
  <2>3. CASE Expire(e)
    <3>1. /\ comes'[e] = comes[e] /\ fireClaims'[e] = None /\ taken'[e] = taken[e]
          /\ fireClaims[e] # None /\ today >= fireClaims[e] + ClaimTTL
      BY <1>3, <2>3 DEF Expire
    <3> QED BY <2>0, <3>1, ClaimTypes
  <2> QED BY <2>1, <2>2, <2>3
<1>8. ClaimsHold'
  BY <1>1, <1>2, <1>6, <1>7 DEF ClaimsHold, IsBrought, None
<1> QED BY <1>1, <1>5, <1>8 DEF StInv

LEMMA TomorrowKeeps == ASSUME StInv, Tomorrow PROVE StInv'
<1>1. RecordsKept' /\ UnchangedRecords /\ UNCHANGED <<memClaims, fireClaims, comes, taken>>
  BY RecordsStay DEF StInv, Tomorrow, UnchangedRecords
<1>2. today' = today + 1 /\ today' \in 0 .. StoreDays
  BY ClaimTypes, DaysOfStores DEF Tomorrow
<1>3. StTypeOK'
  BY <1>1, <1>2 DEF StInv, StTypeOK, UnchangedRecords, Records, NoRecord, None, Ran
<1>4. ASSUME NEW e \in LineEvents
      PROVE  /\ taken[e] <= 1
             /\ fireClaims[e] # None => comes[e] # None /\ comes[e] <= fireClaims[e] /\ fireClaims[e] <= today'
             /\ comes[e] # None => comes[e] <= today'
             /\ fireClaims[e] = None /\ taken[e] > 0 => comes[e] # None /\ ~(today' < comes[e] + Retention)
  BY <1>2, ClaimTypes DEF StInv, ClaimsHold, IsBrought
<1>5. ClaimsHold'
  BY <1>1, <1>4 DEF ClaimsHold, IsBrought, None
<1> QED BY <1>1, <1>3, <1>5 DEF StInv

LEMMA StInvStep == StInv /\ [StNext]_storevars => StInv'
<1> SUFFICES ASSUME StInv, [StNext]_storevars PROVE StInv'
  OBVIOUS
<1>1. ASSUME NEW r \in Records, Save(r) \/ AddLog(r) \/ AddTurn(r) PROVE StInv'
  BY <1>1, SavesKeep
<1>2. ASSUME NEW e \in LineEvents, Send(e) \/ Claim(e) \/ Expire(e) PROVE StInv'
  BY <1>2, LineEventsKeep
<1>3. CASE Tomorrow
  BY <1>3, TomorrowKeeps
<1>4. CASE UNCHANGED storevars
  <2>1. UnchangedRecords /\ UnchangedClaims
    BY <1>4 DEF storevars, UnchangedRecords, UnchangedClaims
  <2>2. StTypeOK'
    BY <2>1 DEF StInv, StTypeOK, UnchangedRecords, UnchangedClaims, Records, NoRecord, None, Ran
  <2> QED BY <2>1, <2>2, ClaimsStay, RecordsStay DEF StInv
<1> QED BY <1>1, <1>2, <1>3, <1>4 DEF StNext

LEMMA StInvHolds == StoreSpec => []StInv
BY InitStInv, StInvStep, PTL DEF StoreSpec
-----------------------------------------------------------------------------
(* Both stores keep the promise: the steps of the memory.                         *)
Docs == {fire[i] : i \in Saved(fire)}
Logs == {fireLog[i] : i \in Saved(fireLog)}
Claims == {e \in LineEvents : fireClaims[e] # None}

LEMMA PromiseVars ==
    /\ InMemory!promisevars = <<Ran(mem), Ran(memLog), memClaims, Gone>>
    /\ Firestore!promisevars = <<Docs, Logs, Claims, Gone>>
BY DEF InMemory!promisevars, Firestore!promisevars, Docs, Logs, Claims

LEMMA InitPromise == StInit => InMemory!PInit /\ Firestore!PInit
<1> SUFFICES ASSUME StInit PROVE InMemory!PInit /\ Firestore!PInit
  OBVIOUS
<1>1. Ran(mem) = {} /\ Ran(memLog) = {} /\ memClaims = {}
  BY DEF StInit, Ran
<1>2. Gone = {} /\ Claims = {}
  BY DEF StInit, Gone, Claims
<1>3. Docs = {} /\ Logs = {}
  BY DEF StInit, Docs, Logs, Saved
<1> QED BY <1>1, <1>2, <1>3 DEF InMemory!PInit, Firestore!PInit, Docs, Logs, Claims

LEMMA SavePromise ==
    ASSUME StInv, NEW r \in Records, Save(r)
    PROVE  InMemory!PNext /\ Firestore!PNext
<1>1. mem \in Seq(Records) /\ fire \in [Ids -> Records \cup {NoRecord}]
      /\ \A i \in Ids : fire[i] # NoRecord => fire[i].id = i
  BY DEF StInv, StTypeOK, RecordsKept
<1>2. mem' = PutMem(mem, r) /\ fire' = PutFire(fire, r)
      /\ UNCHANGED <<memLog, fireLog, memClaims, fireClaims, comes, today>>
  BY DEF Save
<1>3. Ran(mem') = {d \in Ran(mem) : d.id # r.id} \cup {r}
  BY <1>1, <1>2, PutInMemory
<1>4. Docs' = {d \in Docs : d.id # r.id} \cup {r}
  <2>1. NoRecord' = NoRecord /\ Saved(fire)' = Saved(PutFire(fire, r)) /\ Docs' = {fire'[i] : i \in Saved(fire')}
    BY <1>2 DEF NoRecord, None, Docs, Saved
  <2>2. {PutFire(fire, r)[i] : i \in Saved(PutFire(fire, r))} = {d \in {fire[i] : i \in Saved(fire)} : d.id # r.id} \cup {r}
    BY <1>1, PutInFirestore
  <2> QED BY <1>2, <2>1, <2>2 DEF Docs
<1>5. UNCHANGED <<Ran(memLog), Logs, Claims, Gone>>
  BY <1>2 DEF Ran, Logs, Claims, Gone, Saved, NoRecord, None, IsBrought
<1>6. InMemory!PSave(r)
  BY <1>2, <1>3, <1>5 DEF InMemory!PSave
<1>7. Firestore!PSave(r)
  BY <1>4, <1>5 DEF Firestore!PSave, Docs, Logs, Claims
<1>8. InMemory!PNext
  BY <1>3, <1>6 DEF InMemory!PNext
<1>9. Firestore!PNext
  BY <1>4, <1>7 DEF Firestore!PNext, Docs
<1> QED BY <1>8, <1>9

LEMMA LogPromise ==
    ASSUME StInv, NEW r \in Records, AddLog(r)
    PROVE  InMemory!PNext /\ Firestore!PNext
<1>1. memLog \in Seq(Records) /\ fireLog \in [Ids -> Records \cup {NoRecord}] /\ r.id \in Ids
      /\ \A i \in Ids : fireLog[i] # NoRecord => fireLog[i].id = i
  BY NoRecordIsNone DEF StInv, StTypeOK, RecordsKept
<1>2. memLog' = Append(memLog, r) /\ fireLog' = PutFire(fireLog, r) /\ fireLog[r.id] = NoRecord
      /\ UNCHANGED <<mem, fire, memClaims, fireClaims, comes, today>>
  BY DEF AddLog
<1>3. Ran(memLog') = Ran(memLog) \cup {r}
  BY <1>1, <1>2, AppendedRecords
<1>4. Logs' = Logs \cup {r}
  <2>1. Logs' = {fireLog'[i] : i \in Saved(fireLog')}
    BY <1>2 DEF NoRecord, None, Logs, Saved
  <2>2. {PutFire(fireLog, r)[i] : i \in Saved(PutFire(fireLog, r))} = {d \in Logs : d.id # r.id} \cup {r}
    BY <1>1, PutInFirestore DEF Logs
  <2>3. \A d \in Logs : d.id # r.id
    BY <1>1, <1>2 DEF Logs, Saved
  <2> QED BY <1>2, <2>1, <2>2, <2>3
<1>5. UNCHANGED <<Ran(mem), Docs, Claims, Gone>>
  BY <1>2 DEF Ran, Docs, Claims, Gone, Saved, NoRecord, None, IsBrought
<1>6. InMemory!PLog(r)
  BY <1>2, <1>3, <1>5 DEF InMemory!PLog
<1>7. Firestore!PLog(r)
  BY <1>4, <1>5 DEF Firestore!PLog, Docs, Logs, Claims
<1>8. InMemory!PNext
  BY <1>3, <1>6 DEF InMemory!PNext
<1>9. Firestore!PNext
  BY <1>4, <1>7 DEF Firestore!PNext, Logs
<1> QED BY <1>8, <1>9

LEMMA ClaimPromise ==
    ASSUME StInv, NEW e \in LineEvents, Claim(e)
    PROVE  /\ InMemory!PNext \/ UNCHANGED InMemory!promisevars
           /\ Firestore!PNext \/ UNCHANGED Firestore!promisevars
<1>1. /\ UNCHANGED <<mem, memLog, fire, fireLog, comes, today>> /\ IsBrought(e) /\ memClaims' = memClaims \cup {e}
      /\ fireClaims' = IF fireClaims[e] = None THEN [fireClaims EXCEPT ![e] = today] ELSE fireClaims
  BY DEF Claim
<1>2. UNCHANGED <<Ran(mem), Ran(memLog), Docs, Logs, Gone>> /\ e \notin Gone
  BY <1>1 DEF Ran, Docs, Logs, Gone, Saved, NoRecord, None, IsBrought
<1>3. e \notin memClaims => InMemory!PClaim(e)
  BY <1>1, <1>2 DEF InMemory!PClaim
<1>4. e \in memClaims => UNCHANGED InMemory!promisevars
  BY <1>1, <1>2 DEF InMemory!promisevars
<1>5. fireClaims[e] = None => Firestore!PClaim(e)
  <2> SUFFICES ASSUME fireClaims[e] = None PROVE Firestore!PClaim(e)
    OBVIOUS
  <2>1. Claims' = Claims \cup {e} /\ e \notin Claims
    BY <1>1, ClaimTypes DEF Claims, StInv, StTypeOK, None
  <2> QED BY <1>2, <2>1 DEF Firestore!PClaim, Docs, Logs, Claims
<1>6. fireClaims[e] # None => UNCHANGED Firestore!promisevars
  BY <1>1, <1>2 DEF Firestore!promisevars, Docs, Logs, None
<1> QED BY <1>3, <1>4, <1>5, <1>6 DEF InMemory!PNext, Firestore!PNext

LEMMA ExpirePromise ==
    ASSUME StInv, NEW e \in LineEvents, Expire(e)
    PROVE  Firestore!PNext /\ UNCHANGED InMemory!promisevars
<1>1. /\ UNCHANGED <<mem, memLog, fire, fireLog, memClaims, comes, today>>
      /\ fireClaims' = [fireClaims EXCEPT ![e] = None]
      /\ fireClaims[e] # None /\ today >= fireClaims[e] + ClaimTTL
  BY DEF Expire
<1>2. UNCHANGED <<Ran(mem), Ran(memLog), Docs, Logs, Gone>>
  BY <1>1 DEF Ran, Docs, Logs, Gone, Saved, NoRecord, None, IsBrought
<1>3. e \in Gone
  <2>1. comes[e] # None /\ comes[e] <= fireClaims[e]
    BY <1>1 DEF StInv, ClaimsHold
  <2>2. ~(today < comes[e] + Retention)
    BY <1>1, <2>1, ClaimTypes
  <2> QED BY <2>1, <2>2 DEF Gone, IsBrought
<1>4. Claims' = Claims \ {e}
  BY <1>1, ClaimTypes DEF Claims, StInv, StTypeOK, None
<1>5. Firestore!PForget(e)
  BY <1>2, <1>3, <1>4 DEF Firestore!PForget, Docs, Logs, Claims
<1> QED BY <1>1, <1>2, <1>5 DEF Firestore!PNext, InMemory!promisevars

LEMMA LeavePromise ==
    ASSUME StInv, Tomorrow \/ \E e \in LineEvents : Send(e)
    PROVE  InMemory!PNext /\ Firestore!PNext
<1>1. UNCHANGED <<mem, memLog, fire, fireLog, memClaims, fireClaims>>
  BY DEF Tomorrow, Send
<1>2. UNCHANGED <<Ran(mem), Ran(memLog), Docs, Logs, Claims>>
  BY <1>1 DEF Ran, Docs, Logs, Claims, Saved, NoRecord, None
<1>3. \A f \in LineEvents : comes[f] # None => comes'[f] = comes[f]
  BY DEF Tomorrow, Send, StInv, StTypeOK
<1>4. today' >= today /\ today' \in Nat
  BY ClaimTypes DEF Tomorrow, Send
<1>5. Gone \subseteq Gone' /\ Gone' \subseteq LineEvents
  <2>1. ASSUME NEW f \in LineEvents, comes[f] # None, ~(today < comes[f] + Retention)
        PROVE  comes'[f] # None /\ ~(today' < comes'[f] + Retention)
    BY <1>3, <1>4, <2>1, ClaimTypes
  <2> QED BY <2>1 DEF Gone, IsBrought, None
<1>6. InMemory!PLeave /\ Firestore!PLeave
  BY <1>1, <1>2, <1>5 DEF InMemory!PLeave, Firestore!PLeave, Docs, Logs, Claims
<1> QED BY <1>6 DEF InMemory!PNext, Firestore!PNext

LEMMA PromiseStep ==
    StInv /\ [StNext]_storevars =>
        [InMemory!PNext]_(InMemory!promisevars) /\ [Firestore!PNext]_(Firestore!promisevars)
<1> SUFFICES ASSUME StInv, [StNext]_storevars
             PROVE  /\ InMemory!PNext \/ UNCHANGED InMemory!promisevars
                    /\ Firestore!PNext \/ UNCHANGED Firestore!promisevars
  OBVIOUS
<1>1. CASE UNCHANGED storevars
  BY <1>1 DEF storevars, InMemory!promisevars, Firestore!promisevars, Ran, Saved, NoRecord, None, Gone, IsBrought
<1>2. ASSUME NEW r \in Records, AddTurn(r)
      PROVE  UNCHANGED InMemory!promisevars /\ UNCHANGED Firestore!promisevars
  BY <1>2 DEF AddTurn, InMemory!promisevars, Firestore!promisevars, Ran, Saved, NoRecord, None, Gone, IsBrought
<1> QED BY <1>1, <1>2, SavePromise, LogPromise, ClaimPromise, ExpirePromise, LeavePromise DEF StNext

LEMMA StoreInvMeans == StInv => StTypeOK /\ ClaimedOnce
BY DEF StInv, ClaimsHold, ClaimedOnce

(* Whole records are kept and claims have their days, in both stores.             *)
THEOREM StoreTypes == StoreSpec => []StTypeOK
BY StInvHolds, StoreInvMeans, PTL

(* The store of the tests and the one in service both implement the promise of    *)
(* the protocol Repository, for any records, logs and events; and a claim outlives*)
(* what LINE and Pub/Sub may bring again, so an event goes to one call            *)
(* (claim_line_event, LINE_EVENT_CLAIM_TTL).                                      *)
THEOREM StoresImplementPromise ==
    StoreSpec => MemoryKeepsPromise /\ FirestoreKeepsPromise /\ []ClaimedOnce
<1>1. StoreSpec => MemoryKeepsPromise
  BY StInvHolds, InitPromise, PromiseStep, PTL DEF StoreSpec, MemoryKeepsPromise, InMemory!PromiseSpec
<1>2. StoreSpec => FirestoreKeepsPromise
  BY StInvHolds, InitPromise, PromiseStep, PTL DEF StoreSpec, FirestoreKeepsPromise, Firestore!PromiseSpec
<1> QED BY <1>1, <1>2, StInvHolds, StoreInvMeans, PTL

-----------------------------------------------------------------------------
(* Lists in order: each element has as many before it as its place says.          *)
-----------------------------------------------------------------------------
(* The pairs of ahead put the elements of D one behind the other.                 *)
PutsInOrder(ahead, D) ==
    /\ \A x \in D : <<x, x>> \notin ahead
    /\ \A x, y \in D : x # y => <<x, y>> \in ahead \/ <<y, x>> \in ahead
    /\ \A x, y, z \in D : <<x, y>> \in ahead /\ <<y, z>> \in ahead => <<x, z>> \in ahead

CameBefore(x, ahead, D) == {y \in D : <<y, x>> \in ahead}

LEMMA FewerBefore ==
    ASSUME NEW D, IsFiniteSet(D), NEW ahead, PutsInOrder(ahead, D)
    PROVE  /\ \A x \in D : Cardinality(CameBefore(x, ahead, D)) \in Nat
           /\ \A x \in D : Cardinality(CameBefore(x, ahead, D)) < Cardinality(D)
           /\ \A x, y \in D : x # y =>
                  Cardinality(CameBefore(x, ahead, D)) # Cardinality(CameBefore(y, ahead, D))
<1>1. \A S : S \subseteq D => IsFiniteSet(S) /\ Cardinality(S) \in Nat
  BY FS_Subset, FS_CardinalityType
<1>2. ASSUME NEW S, NEW T, T \subseteq D, S \subseteq T, S # T
      PROVE  Cardinality(S) < Cardinality(T)
  BY <1>1, <1>2, FS_Subset
<1>3. \A x \in D : CameBefore(x, ahead, D) \subseteq D /\ CameBefore(x, ahead, D) # D
  BY DEF CameBefore, PutsInOrder
<1>4. ASSUME NEW x \in D, NEW y \in D, <<x, y>> \in ahead
      PROVE  CameBefore(x, ahead, D) \subseteq CameBefore(y, ahead, D)
             /\ CameBefore(x, ahead, D) # CameBefore(y, ahead, D)
  <2>1. x \in CameBefore(y, ahead, D) /\ x \notin CameBefore(x, ahead, D)
    BY <1>4 DEF CameBefore, PutsInOrder
  <2>2. CameBefore(x, ahead, D) \subseteq CameBefore(y, ahead, D)
    BY <1>4 DEF CameBefore, PutsInOrder
  <2> QED BY <2>1, <2>2
<1>5. ASSUME NEW x \in D, NEW y \in D, <<x, y>> \in ahead
      PROVE  Cardinality(CameBefore(x, ahead, D)) < Cardinality(CameBefore(y, ahead, D))
  BY <1>2, <1>3, <1>4, <1>5
<1>6. \A x \in D : /\ Cardinality(CameBefore(x, ahead, D)) \in Nat
                   /\ Cardinality(CameBefore(x, ahead, D)) < Cardinality(D)
  BY <1>1, <1>2, <1>3
<1>7. ASSUME NEW x \in D, NEW y \in D, x # y
      PROVE  Cardinality(CameBefore(x, ahead, D)) # Cardinality(CameBefore(y, ahead, D))
  <2>1. <<x, y>> \in ahead \/ <<y, x>> \in ahead
    BY <1>7 DEF PutsInOrder
  <2> QED BY <1>5, <1>6, <2>1
<1> QED BY <1>6, <1>7

(* The rank of a key is how many are before it.                                   *)
Ranks(rank, ahead, K) ==
    rank \in [K -> Nat] /\ \A i \in K : rank[i] = Cardinality(CameBefore(i, ahead, K))

(* The ranks are the places from first to last.                                   *)
LEMMA RanksArePlaces ==
    ASSUME NEW K, IsFiniteSet(K), NEW ahead, PutsInOrder(ahead, K), NEW rank, Ranks(rank, ahead, K)
    PROVE  /\ Cardinality(K) \in Nat
           /\ \A i \in K : rank[i] + 1 \in 1 .. Cardinality(K)
           /\ \A i, j \in K : i # j => rank[i] # rank[j]
           /\ \A k \in 1 .. Cardinality(K) : \E i \in K : k = rank[i] + 1
<1> DEFINE n == Cardinality(K)
<1>1. n \in Nat
  BY FS_CardinalityType
<1>2. DOMAIN rank = K /\ (\A i \in K : rank[i] \in Nat /\ rank[i] < n)
      /\ \A i, j \in K : i # j => rank[i] # rank[j]
  BY FewerBefore DEF Ranks
<1>3. rank \in [K -> 0 .. (n - 1)]
  <2>1. \A i \in K : rank[i] \in 0 .. (n - 1)
    BY <1>1, <1>2
  <2>2. rank = [i \in K |-> rank[i]]
    BY DEF Ranks
  <2> QED BY <2>1, <2>2
<1>4. rank \in Injection(K, 0 .. (n - 1))
  BY <1>2, <1>3 DEF Injection, IsInjective
<1>5. IsFiniteSet(0 .. (n - 1)) /\ Cardinality(0 .. (n - 1)) = n
  BY <1>1, FS_Interval
<1>6. rank \in Surjection(K, 0 .. (n - 1))
  BY <1>4, <1>5, FS_Injection
<1>7. ASSUME NEW k \in 1 .. n PROVE \E i \in K : k = rank[i] + 1
  <2>1. k - 1 \in 0 .. (n - 1)
    BY <1>1
  <2>2. PICK i \in K : rank[i] = k - 1
    BY <1>6, <2>1 DEF Surjection
  <2> QED BY <1>1, <2>2
<1> QED BY <1>1, <1>2, <1>7

(* FiniteKeys are placed by their ranks, each once.                                     *)
LEMMA PlacedByRank ==
    ASSUME NEW K, IsFiniteSet(K), NEW ahead, PutsInOrder(ahead, K), NEW rank, Ranks(rank, ahead, K),
           NEW f, NEW S, \A i \in K : f[i] \in S
    PROVE  /\ Placed(f, rank) \in Seq(S) /\ Len(Placed(f, rank)) = Cardinality(K)
           /\ \A i \in K : Placed(f, rank)[rank[i] + 1] = f[i]
<1> DEFINE n == Cardinality(K)
           p == Placed(f, rank)
<1>1. n \in Nat /\ DOMAIN rank = K
  BY RanksArePlaces DEF Ranks
<1>2. p = [k \in 1 .. n |-> f[CHOOSE i \in K : rank[i] = k - 1]]
  BY <1>1 DEF Placed
<1>3. ASSUME NEW i \in K PROVE rank[i] + 1 \in 1 .. n /\ p[rank[i] + 1] = f[i]
  <2>1. rank[i] + 1 \in 1 .. n /\ (rank[i] + 1) - 1 = rank[i]
    BY RanksArePlaces DEF Ranks
  <2>2. (CHOOSE j \in K : rank[j] = (rank[i] + 1) - 1) = i
    BY <2>1, RanksArePlaces
  <2>3. p[rank[i] + 1] = f[CHOOSE j \in K : rank[j] = (rank[i] + 1) - 1]
    BY <1>2, <2>1
  <2> QED BY <2>1, <2>2, <2>3
<1>4. p \in [1 .. n -> S]
  <2>1. ASSUME NEW k \in 1 .. n PROVE p[k] \in S
    <3>1. PICK i \in K : k = rank[i] + 1
      BY RanksArePlaces
    <3> QED BY <1>3, <3>1
  <2>2. p = [k \in 1 .. n |-> p[k]]
    BY <1>2
  <2> QED BY <2>1, <2>2
<1>5. p \in Seq(S) /\ Len(p) = n
  BY <1>1, <1>4, SeqDef
<1> QED BY <1>3, <1>5

LEMMA RanksExist ==
    ASSUME NEW K, IsFiniteSet(K), NEW ahead, PutsInOrder(ahead, K)
    PROVE  \E rank : Ranks(rank, ahead, K)
<1> DEFINE r == [i \in K |-> Cardinality(CameBefore(i, ahead, K))]
<1>1. r \in [K -> Nat]
  BY FewerBefore
<1>2. \A i \in K : r[i] = Cardinality(CameBefore(i, ahead, K))
  OBVIOUS
<1> HIDE DEF r
<1>3. Ranks(r, ahead, K)
  BY <1>1, <1>2 DEF Ranks
<1> QED BY <1>3

(* Every key has its place, and every place holds one key.                        *)
LEMMA PlacesAreFilled ==
    ASSUME NEW K, IsFiniteSet(K), NEW ahead, PutsInOrder(ahead, K), NEW rank, Ranks(rank, ahead, K),
           NEW f, NEW S, \A i \in K : f[i] \in S, NEW p, p = Placed(f, rank)
    PROVE  /\ p \in Seq(S) /\ Len(p) = Cardinality(K) /\ Ran(p) = {f[i] : i \in K}
           /\ \A k \in DOMAIN p : \E i \in K : k = rank[i] + 1 /\ p[k] = f[i]
           /\ \A k, l \in DOMAIN p : k # l => \E i, j \in K : i # j /\ p[k] = f[i] /\ p[l] = f[j]
<1>1. p \in Seq(S) /\ Len(p) = Cardinality(K) /\ \A i \in K : p[rank[i] + 1] = f[i]
  BY PlacedByRank
<1>2. /\ \A i \in K : rank[i] + 1 \in 1 .. Cardinality(K)
      /\ \A k \in 1 .. Cardinality(K) : \E i \in K : k = rank[i] + 1
  BY RanksArePlaces
<1>3. DOMAIN p = 1 .. Cardinality(K)
  BY <1>1
<1>4. \A k \in DOMAIN p : \E i \in K : k = rank[i] + 1 /\ p[k] = f[i]
  BY <1>1, <1>2, <1>3
<1>5. \A i \in K : rank[i] + 1 \in DOMAIN p
  BY <1>2, <1>3
<1>6. Ran(p) = {f[i] : i \in K}
  <2>1. \A k \in DOMAIN p : p[k] \in {f[i] : i \in K}
    BY <1>4
  <2>2. \A i \in K : f[i] \in Ran(p)
    BY <1>1, <1>5 DEF Ran
  <2> QED BY <2>1, <2>2 DEF Ran
<1>7. ASSUME NEW k \in DOMAIN p, NEW l \in DOMAIN p, k # l
      PROVE  \E i, j \in K : i # j /\ p[k] = f[i] /\ p[l] = f[j]
  <2>1. PICK i \in K : k = rank[i] + 1 /\ p[k] = f[i]
    BY <1>4
  <2>2. PICK j \in K : l = rank[j] + 1 /\ p[l] = f[j]
    BY <1>4
  <2> QED BY <1>7, <2>1, <2>2
<1> QED BY <1>1, <1>4, <1>6, <1>7

FiniteKeys == {K \in SUBSET Nat : IsFiniteSet(K)}
Lower(K) == {p \in K \X K : p[1] < p[2]}

LEMMA KeysHaveRanks ==
    ASSUME NEW K \in FiniteKeys, NEW f
    PROVE  IsFiniteSet(K) /\ \E ahead, rank :
               PutsInOrder(ahead, K) /\ Ranks(rank, ahead, K) /\ InOrder(f, K) = Placed(f, rank)
<1>0. IsFiniteSet(K) /\ K \subseteq Nat
  BY DEF FiniteKeys
<1>1. PICK ahead : ahead = Lower(K)
  OBVIOUS
<1>2. PutsInOrder(ahead, K)
  BY <1>0, <1>1 DEF PutsInOrder, Lower
<1>3. PICK rank : Ranks(rank, ahead, K)
  BY <1>0, <1>2, RanksExist
<1>4. InOrder(f, K) = Placed(f, rank)
  <2>1. \A i \in K : CameBefore(i, ahead, K) = {j \in K : j < i}
    BY <1>0, <1>1 DEF CameBefore, Lower
  <2>2. rank = [i \in K |-> Cardinality({j \in K : j < i})]
    BY <1>3, <2>1 DEF Ranks
  <2> QED BY <2>2 DEF InOrder
<1> QED BY <1>0, <1>2, <1>3, <1>4

(* A list in the order of its keys has a place for each of them.                  *)
LEMMA ListedInOrder ==
    ASSUME NEW K \in FiniteKeys, NEW f, NEW S, \A i \in K : f[i] \in S, NEW p, p = InOrder(f, K)
    PROVE  /\ p \in Seq(S) /\ Len(p) = Cardinality(K) /\ Ran(p) = {f[i] : i \in K}
           /\ \A k, l \in DOMAIN p : k # l => \E i, j \in K : i # j /\ p[k] = f[i] /\ p[l] = f[j]
<1>1. PICK ahead, rank : PutsInOrder(ahead, K) /\ Ranks(rank, ahead, K) /\ p = Placed(f, rank)
  BY KeysHaveRanks
<1>2. IsFiniteSet(K)
  BY KeysHaveRanks
<1> QED BY <1>1, <1>2, PlacesAreFilled
-----------------------------------------------------------------------------
(* The elements of D in an order: each has as many before it as its place says.   *)
Counted(p, ahead, D) == \A k \in DOMAIN p :
    p[k] \in D /\ Cardinality(CameBefore(p[k], ahead, D)) = k - 1

LEMMA OneOrder ==
    ASSUME NEW D, IsFiniteSet(D), NEW ahead, PutsInOrder(ahead, D),
           NEW p \in Seq(Records), NEW q \in Seq(Records), Len(p) = Len(q),
           Counted(p, ahead, D), Counted(q, ahead, D)
    PROVE  p = q
<1>1. DOMAIN p = 1 .. Len(p) /\ DOMAIN q = 1 .. Len(p)
  OBVIOUS
<1>2. ASSUME NEW k \in 1 .. Len(p) PROVE p[k] = q[k]
  <2>1. /\ p[k] \in D /\ q[k] \in D
        /\ Cardinality(CameBefore(p[k], ahead, D)) = k - 1
        /\ Cardinality(CameBefore(q[k], ahead, D)) = k - 1
    BY <1>1 DEF Counted
  <2> QED BY <2>1, FewerBefore
<1> QED BY <1>1, <1>2, SeqEqual

(* Different places of a list that holds nothing twice hold as many elements.     *)
LEMMA AsManyAsPlaces ==
    ASSUME NEW s, NEW P, IsFiniteSet(P), \A i, j \in P : i # j => s[i] # s[j]
    PROVE  IsFiniteSet({s[i] : i \in P}) /\ Cardinality({s[i] : i \in P}) = Cardinality(P)
<1> DEFINE T == {s[i] : i \in P}
           g == [i \in P |-> s[i]]
<1>1. g \in [P -> T]
  OBVIOUS
<1>2. \A t \in T : \E i \in P : g[i] = t
  OBVIOUS
<1>3. \A i, j \in P : g[i] = g[j] => i = j
  OBVIOUS
<1>4. g \in Bijection(P, T)
  BY <1>1, <1>2, <1>3 DEF Bijection, Injection, Surjection, IsInjective
<1>5. ExistsBijection(P, T)
  BY <1>4 DEF ExistsBijection
<1> QED BY <1>5, FS_Bijection

LEMMA PlacesOfSeq ==
    ASSUME NEW s \in Seq(Records)
    PROVE  /\ DOMAIN s = 1 .. Len(s) /\ Len(s) \in Nat /\ \A i \in DOMAIN s : s[i] \in Records
           /\ IsFiniteSet(DOMAIN s) /\ Cardinality(DOMAIN s) = Len(s)
<1>1. DOMAIN s = 1 .. Len(s) /\ Len(s) \in Nat /\ \A i \in DOMAIN s : s[i] \in Records
  OBVIOUS
<1>2. \A n \in Nat : IsFiniteSet(1 .. n) /\ Cardinality(1 .. n) = n
  BY FS_Interval
<1> QED BY <1>1, <1>2

(* Its places in order are its elements in the order that goes with theirs.       *)
LEMMA PlacedCounted ==
    ASSUME NEW s \in Seq(Records), \A i, j \in DOMAIN s : i # j => s[i] # s[j],
           NEW ahead, PutsInOrder(ahead, DOMAIN s), NEW rank, Ranks(rank, ahead, DOMAIN s),
           NEW among, \A i, j \in DOMAIN s : <<s[j], s[i]>> \in among <=> <<j, i>> \in ahead,
           NEW p, p = Placed(s, rank)
    PROVE  p \in Seq(Records) /\ Len(p) = Len(s) /\ Counted(p, among, Ran(s))
<1>1. DOMAIN s = 1 .. Len(s) /\ Len(s) \in Nat /\ \A i \in DOMAIN s : s[i] \in Records
  OBVIOUS
<1>2. IsFiniteSet(DOMAIN s) /\ Cardinality(DOMAIN s) = Len(s)
  BY PlacesOfSeq
<1>3. PICK K : K = DOMAIN s
  OBVIOUS
<1>4. /\ IsFiniteSet(K) /\ PutsInOrder(ahead, K) /\ Ranks(rank, ahead, K) /\ Cardinality(K) = Len(s)
      /\ \A i \in K : s[i] \in Records
  BY <1>1, <1>2, <1>3
<1>5. /\ p \in Seq(Records) /\ Len(p) = Cardinality(K)
      /\ \A k \in DOMAIN p : \E i \in K : k = rank[i] + 1 /\ p[k] = s[i]
  BY <1>4, PlacesAreFilled
<1>6. ASSUME NEW i \in K
      PROVE  Cardinality(CameBefore(s[i], among, Ran(s))) = rank[i]
  <2> DEFINE P == CameBefore(i, ahead, K)
  <2>1. P \subseteq K /\ IsFiniteSet(P)
    BY <1>4, FS_Subset DEF CameBefore
  <2>2. \A j, l \in P : j # l => s[j] # s[l]
    BY <1>3, <2>1
  <2>3. Cardinality({s[j] : j \in P}) = Cardinality(P)
    BY <2>1, <2>2, AsManyAsPlaces
  <2>4. CameBefore(s[i], among, Ran(s)) = {s[j] : j \in P}
    BY <1>3 DEF CameBefore, Ran
  <2>5. Cardinality(P) = rank[i]
    BY <1>4 DEF Ranks
  <2> QED BY <2>3, <2>4, <2>5
<1>7. ASSUME NEW k \in DOMAIN p
      PROVE  p[k] \in Ran(s) /\ Cardinality(CameBefore(p[k], among, Ran(s))) = k - 1
  <2>1. PICK i \in K : k = rank[i] + 1 /\ p[k] = s[i]
    BY <1>5
  <2>2. rank[i] \in Nat
    BY <1>4 DEF Ranks
  <2> QED BY <1>3, <1>6, <2>1, <2>2 DEF Ran
<1> QED BY <1>4, <1>5, <1>7 DEF Counted
-----------------------------------------------------------------------------
LatestFirst(D) == {p \in D \X D : p[1].at > p[2].at}
EarliestFirst(D) == {p \in D \X D : p[1].at < p[2].at}

TimesDiffer(D) == \A r, q \in D : r.at = q.at => r = q

LEMMA TimesPutInOrder ==
    ASSUME NEW D \in SUBSET Records, TimesDiffer(D)
    PROVE  PutsInOrder(LatestFirst(D), D) /\ PutsInOrder(EarliestFirst(D), D)
<1>1. \A r \in D : r.at \in Nat
  BY DaysOfStores DEF Records
<1> QED BY <1>1 DEF PutsInOrder, LatestFirst, EarliestFirst, TimesDiffer

LEMMA AllTimesDiffer ==
    ASSUME NEW s \in Seq(Records), AllDiffer(s)
    PROVE  /\ \A i, j \in DOMAIN s : i # j => s[i] # s[j] /\ s[i].at # s[j].at
           /\ TimesDiffer(Ran(s)) /\ Ran(s) \subseteq Records
           /\ \A i \in DOMAIN s : s[i] \in Ran(s) /\ s[i].at \in Nat
<1>1. \A i \in DOMAIN s : s[i] \in Records
  OBVIOUS
<1>2. \A r \in Records : r.at \in Nat
  BY DaysOfStores DEF Records
<1> QED BY <1>1, <1>2 DEF AllDiffer, TimesDiffer, Ran

(* The order of the places of s by time: sorted keeps that of equal times.        *)
NewestPlaces(s) == {q \in (DOMAIN s) \X (DOMAIN s) :
    s[q[1]].at > s[q[2]].at \/ (s[q[1]].at = s[q[2]].at /\ q[1] < q[2])}
SortedPlaces(s) == {q \in (DOMAIN s) \X (DOMAIN s) :
    s[q[1]].at < s[q[2]].at \/ (s[q[1]].at = s[q[2]].at /\ q[1] < q[2])}

LEMMA NewestCounted ==
    ASSUME NEW s \in Seq(Records), AllDiffer(s), NEW p, p = Newest(s)
    PROVE  p \in Seq(Records) /\ Len(p) = Len(s) /\ Counted(p, LatestFirst(Ran(s)), Ran(s))
<1>1. /\ \A i, j \in DOMAIN s : i # j => s[i] # s[j] /\ s[i].at # s[j].at
      /\ \A i \in DOMAIN s : s[i] \in Ran(s) /\ s[i].at \in Nat
      /\ DOMAIN s = 1 .. Len(s) /\ Len(s) \in Nat
  BY AllTimesDiffer
<1>2. PICK ahead : ahead = NewestPlaces(s)
  OBVIOUS
<1>3. PutsInOrder(ahead, DOMAIN s)
  BY <1>1, <1>2 DEF PutsInOrder, NewestPlaces
<1>4. IsFiniteSet(DOMAIN s)
  BY PlacesOfSeq
<1>5. PICK rank : Ranks(rank, ahead, DOMAIN s)
  BY <1>3, <1>4, RanksExist
<1>6. p = Placed(s, rank)
  <2>1. \A i \in DOMAIN s : CameBefore(i, ahead, DOMAIN s) =
            {j \in DOMAIN s : s[j].at > s[i].at \/ (s[j].at = s[i].at /\ j < i)}
    BY <1>2 DEF CameBefore, NewestPlaces
  <2>2. rank = [i \in DOMAIN s |->
            Cardinality({j \in DOMAIN s : s[j].at > s[i].at \/ (s[j].at = s[i].at /\ j < i)})]
    BY <1>5, <2>1 DEF Ranks
  <2> QED BY <2>2 DEF Newest
<1>7. PICK among : among = LatestFirst(Ran(s))
  OBVIOUS
<1>8. \A i, j \in DOMAIN s : <<s[j], s[i]>> \in among <=> <<j, i>> \in ahead
  BY <1>1, <1>2, <1>7 DEF LatestFirst, NewestPlaces
<1> QED BY <1>1, <1>3, <1>5, <1>6, <1>7, <1>8, PlacedCounted

LEMMA SortedCounted ==
    ASSUME NEW s \in Seq(Records), AllDiffer(s), NEW p, p = Sorted(s)
    PROVE  p \in Seq(Records) /\ Len(p) = Len(s) /\ Counted(p, EarliestFirst(Ran(s)), Ran(s))
<1>1. /\ \A i, j \in DOMAIN s : i # j => s[i] # s[j] /\ s[i].at # s[j].at
      /\ \A i \in DOMAIN s : s[i] \in Ran(s) /\ s[i].at \in Nat
      /\ DOMAIN s = 1 .. Len(s) /\ Len(s) \in Nat
  BY AllTimesDiffer
<1>2. PICK ahead : ahead = SortedPlaces(s)
  OBVIOUS
<1>3. PutsInOrder(ahead, DOMAIN s)
  BY <1>1, <1>2 DEF PutsInOrder, SortedPlaces
<1>4. IsFiniteSet(DOMAIN s)
  BY PlacesOfSeq
<1>5. PICK rank : Ranks(rank, ahead, DOMAIN s)
  BY <1>3, <1>4, RanksExist
<1>6. p = Placed(s, rank)
  <2>1. \A i \in DOMAIN s : CameBefore(i, ahead, DOMAIN s) =
            {j \in DOMAIN s : s[j].at < s[i].at \/ (s[j].at = s[i].at /\ j < i)}
    BY <1>2 DEF CameBefore, SortedPlaces
  <2>2. rank = [i \in DOMAIN s |->
            Cardinality({j \in DOMAIN s : s[j].at < s[i].at \/ (s[j].at = s[i].at /\ j < i)})]
    BY <1>5, <2>1 DEF Ranks
  <2> QED BY <2>2 DEF Sorted
<1>7. PICK among : among = EarliestFirst(Ran(s))
  OBVIOUS
<1>8. \A i, j \in DOMAIN s : <<s[j], s[i]>> \in among <=> <<j, i>> \in ahead
  BY <1>1, <1>2, <1>7 DEF EarliestFirst, SortedPlaces
<1> QED BY <1>1, <1>3, <1>5, <1>6, <1>7, <1>8, PlacedCounted

(* A list of rising times is in order already.                                    *)
LEMMA RisingCounted ==
    ASSUME NEW s \in Seq(Records), Rising(s)
    PROVE  AllDiffer(s) /\ Counted(s, EarliestFirst(Ran(s)), Ran(s))
<1>1. DOMAIN s = 1 .. Len(s) /\ Len(s) \in Nat /\ \A i \in DOMAIN s : s[i] \in Records
  OBVIOUS
<1>2. \A i \in DOMAIN s : s[i].at \in Nat
  BY <1>1, DaysOfStores DEF Records
<1>3. AllDiffer(s)
  BY <1>1, <1>2 DEF Rising, AllDiffer
<1>4. \A i, j \in DOMAIN s : s[j].at < s[i].at <=> j < i
  BY <1>1, <1>2 DEF Rising
<1>5. ASSUME NEW k \in DOMAIN s
      PROVE  s[k] \in Ran(s) /\ Cardinality(CameBefore(s[k], EarliestFirst(Ran(s)), Ran(s))) = k - 1
  <2> DEFINE P == 1 .. (k - 1)
  <2>0. k - 1 \in Nat /\ k \in 1 .. Len(s)
    BY <1>1
  <2>6. \A n \in Nat : IsFiniteSet(1 .. n) /\ Cardinality(1 .. n) = n
    BY FS_Interval
  <2>1. P \subseteq DOMAIN s /\ IsFiniteSet(P) /\ Cardinality(P) = k - 1
    BY <1>1, <2>0, <2>6
  <2>2. \A i, j \in P : i # j => s[i] # s[j]
    BY <1>3, <2>1 DEF AllDiffer
  <2>3. Cardinality({s[j] : j \in P}) = k - 1
    BY <2>1, <2>2, AsManyAsPlaces
  <2>4. \A j \in DOMAIN s : j \in P <=> s[j].at < s[k].at
    BY <1>1, <1>4
  <2>5. CameBefore(s[k], EarliestFirst(Ran(s)), Ran(s)) = {s[j] : j \in P}
    <3> HIDE DEF P
    <3> QED BY <2>1, <2>4 DEF CameBefore, EarliestFirst, Ran
  <2> QED BY <2>3, <2>5 DEF Ran
<1> QED BY <1>3, <1>5 DEF Counted
-----------------------------------------------------------------------------
(* A dict in memory and a collection of Firestore hold the same: each record once *)
(* and under its id, in whatever order.                                           *)
KeptAlike(s, f) ==
    /\ s \in Seq(Records) /\ f \in [Ids -> Records \cup {NoRecord}]
    /\ \A i \in Ids : f[i] # NoRecord => f[i].id = i
    /\ \A i, j \in DOMAIN s : s[i].id = s[j].id => i = j
    /\ Ran(s) = {f[i] : i \in Saved(f)}

LEMMA FoundInBoth ==
    ASSUME NEW s, NEW f, KeptAlike(s, f)
    PROVE  /\ \A i \in Saved(f) : i \in Ids /\ f[i] \in Records /\ f[i].id = i
           /\ \A i \in DOMAIN s : s[i] \in Records /\ s[i].id \in Saved(f) /\ f[s[i].id] = s[i]
           /\ \A i \in Saved(f) : \E j \in DOMAIN s : s[j] = f[i]
<1>1. \A i \in Saved(f) : i \in Ids /\ f[i] \in Records /\ f[i].id = i
  BY DEF Saved, KeptAlike
<1>2. {s[i] : i \in DOMAIN s} = {f[i] : i \in Saved(f)}
  BY DEF KeptAlike, Ran
<1>3. ASSUME NEW i \in DOMAIN s PROVE s[i] \in Records /\ s[i].id \in Saved(f) /\ f[s[i].id] = s[i]
  <2>1. s[i] \in {f[j] : j \in Saved(f)}
    BY <1>2
  <2>2. PICK j \in Saved(f) : s[i] = f[j]
    BY <2>1
  <2> QED BY <1>1, <2>2
<1>4. ASSUME NEW i \in Saved(f) PROVE \E j \in DOMAIN s : s[j] = f[i]
  <2>1. f[i] \in {s[j] : j \in DOMAIN s}
    BY <1>2
  <2> QED BY <2>1
<1> QED BY <1>1, <1>3, <1>4

LEMMA SavedInBoth ==
    ASSUME NEW s, NEW f, KeptAlike(s, f), NEW r \in Records
    PROVE  /\ KeptAlike(PutMem(s, r), PutFire(f, r))
           /\ f[r.id] = NoRecord => PutMem(s, r) = Append(s, r)
<1>1. /\ s \in Seq(Records) /\ f \in [Ids -> Records \cup {NoRecord}]
      /\ \A i \in Ids : f[i] # NoRecord => f[i].id = i
      /\ \A i, j \in DOMAIN s : s[i].id = s[j].id => i = j
      /\ Ran(s) = {f[i] : i \in Saved(f)}
  BY DEF KeptAlike
<1>2. PutMem(s, r) \in Seq(Records) /\ Ran(PutMem(s, r)) = {d \in Ran(s) : d.id # r.id} \cup {r}
  BY <1>1, PutInMemory
<1>3. /\ PutFire(f, r) \in [Ids -> Records \cup {NoRecord}]
      /\ \A i \in Ids : PutFire(f, r)[i] # NoRecord => PutFire(f, r)[i].id = i
      /\ {PutFire(f, r)[i] : i \in Saved(PutFire(f, r))} =
             {d \in {f[i] : i \in Saved(f)} : d.id # r.id} \cup {r}
  BY <1>1, PutInFirestore
<1>4. \A i, j \in DOMAIN PutMem(s, r) : PutMem(s, r)[i].id = PutMem(s, r)[j].id => i = j
  <2>1. CASE \E i \in DOMAIN s : s[i].id = r.id
    <3>1. PutMem(s, r) = [i \in DOMAIN s |-> IF s[i].id = r.id THEN r ELSE s[i]]
      BY <2>1 DEF PutMem
    <3>2. \A i \in DOMAIN s : PutMem(s, r)[i].id = s[i].id
      BY <3>1
    <3> QED BY <1>1, <3>1, <3>2
  <2>2. CASE ~\E i \in DOMAIN s : s[i].id = r.id
    <3>1. PutMem(s, r) = Append(s, r)
      BY <2>2 DEF PutMem
    <3>2. DOMAIN s = 1 .. Len(s) /\ Len(s) \in Nat /\ DOMAIN Append(s, r) = 1 .. Len(s) + 1
          /\ \A i \in 1 .. Len(s) + 1 : Append(s, r)[i] = IF i <= Len(s) THEN s[i] ELSE r
      BY <1>1
    <3>3. ASSUME NEW i \in 1 .. Len(s) + 1, NEW j \in 1 .. Len(s) + 1,
                 Append(s, r)[i].id = Append(s, r)[j].id
          PROVE  i = j
      <4>1. CASE i <= Len(s) /\ j <= Len(s)
        BY <1>1, <3>2, <3>3, <4>1
      <4>2. CASE i <= Len(s) /\ ~(j <= Len(s))
        BY <2>2, <3>2, <3>3, <4>2
      <4>3. CASE ~(i <= Len(s)) /\ j <= Len(s)
        BY <2>2, <3>2, <3>3, <4>3
      <4>4. CASE ~(i <= Len(s)) /\ ~(j <= Len(s))
        BY <3>2, <4>4
      <4> QED BY <4>1, <4>2, <4>3, <4>4
    <3> QED BY <3>1, <3>2, <3>3
  <2> QED BY <2>1, <2>2
<1>5. ASSUME f[r.id] = NoRecord PROVE PutMem(s, r) = Append(s, r)
  <2>1. ASSUME NEW i \in DOMAIN s, s[i].id = r.id PROVE FALSE
    <3>1. r.id \in Saved(f)
      BY <2>1, FoundInBoth
    <3> QED BY <1>5, <3>1 DEF Saved
  <2> QED BY <2>1 DEF PutMem
<1>6. KeptAlike(PutMem(s, r), PutFire(f, r))
  BY <1>1, <1>2, <1>3, <1>4 DEF KeptAlike
<1> QED BY <1>5, <1>6
-----------------------------------------------------------------------------
PlacesIn(s, G) == {i \in DOMAIN s : s[i] \in G}
IdsIn(f, G) == {i \in Saved(f) : f[i] \in G}

(* What is asked of both is as much, and the same records.                        *)
LEMMA AskedOfBoth ==
    ASSUME NEW s, NEW f, KeptAlike(s, f), NEW G
    PROVE  /\ PlacesIn(s, G) \in FiniteKeys /\ IdsIn(f, G) \in FiniteKeys
           /\ Cardinality(PlacesIn(s, G)) = Cardinality(IdsIn(f, G))
           /\ {s[i] : i \in PlacesIn(s, G)} = {f[i] : i \in IdsIn(f, G)}
           /\ \A i \in PlacesIn(s, G) : s[i] \in Records
           /\ \A i \in IdsIn(f, G) : f[i] \in Records
           /\ \A i, j \in IdsIn(f, G) : i # j => f[i] # f[j]
<1> DEFINE P == PlacesIn(s, G)
           Q == IdsIn(f, G)
<1>1. /\ s \in Seq(Records) /\ f \in [Ids -> Records \cup {NoRecord}]
      /\ \A i \in Ids : f[i] # NoRecord => f[i].id = i
      /\ \A i, j \in DOMAIN s : s[i].id = s[j].id => i = j
      /\ Ran(s) = {f[i] : i \in Saved(f)}
  BY DEF KeptAlike
<1>2. DOMAIN s = 1 .. Len(s) /\ IsFiniteSet(DOMAIN s) /\ Len(s) \in Nat
  BY <1>1, PlacesOfSeq
<1>3. P = {i \in DOMAIN s : s[i] \in G} /\ Q = {i \in Saved(f) : f[i] \in G}
  BY DEF PlacesIn, IdsIn
<1> HIDE DEF P, Q
<1>4. IsFiniteSet(P) /\ P \in FiniteKeys
  <2>1. P \subseteq DOMAIN s
    BY <1>3
  <2> QED BY <1>2, <2>1, FS_Subset DEF FiniteKeys
<1>5. \A i \in Saved(f) : i \in Ids /\ f[i] \in Records /\ f[i].id = i
  BY FoundInBoth
<1>6. \A i \in DOMAIN s : s[i] \in Records /\ s[i].id \in Saved(f) /\ f[s[i].id] = s[i]
  BY FoundInBoth
<1>7. \A i \in Saved(f) : \E j \in DOMAIN s : s[j] = f[i]
  BY FoundInBoth
<1> DEFINE g == [i \in P |-> s[i].id]
<1>8. g \in Bijection(P, Q)
  <2>1. g \in [P -> Q]
    BY <1>3, <1>6
  <2>2. \A i, j \in P : g[i] = g[j] => i = j
    BY <1>1, <1>3
  <2>3. \A q \in Q : \E i \in P : g[i] = q
    <3> SUFFICES ASSUME NEW q \in Q PROVE \E i \in P : g[i] = q
      OBVIOUS
    <3>1. PICK i \in DOMAIN s : s[i] = f[q]
      BY <1>3, <1>7
    <3>2. i \in P /\ s[i].id = q
      BY <1>3, <1>5, <3>1
    <3> QED BY <3>2
  <2> QED BY <2>1, <2>2, <2>3 DEF Bijection, Injection, Surjection, IsInjective
<1>9. ExistsBijection(P, Q)
  BY <1>8 DEF ExistsBijection
<1>10. IsFiniteSet(Q) /\ Cardinality(P) = Cardinality(Q)
  BY <1>4, <1>9, FS_Bijection
<1>11. Q \in FiniteKeys
  BY <1>3, <1>5, <1>10, StoresAssumption DEF FiniteKeys
<1>12. {s[i] : i \in P} = {f[i] : i \in Q}
  <2>1. \A i \in P : s[i] \in {f[j] : j \in Q}
    BY <1>3, <1>6
  <2>2. \A j \in Q : f[j] \in {s[i] : i \in P}
    BY <1>3, <1>7
  <2> QED BY <2>1, <2>2
<1>13. \A i, j \in Q : i # j => f[i] # f[j]
  BY <1>3, <1>5
<1>14. (\A i \in P : s[i] \in Records) /\ \A i \in Q : f[i] \in Records
  BY <1>3, <1>5, <1>6
<1> QED BY <1>4, <1>10, <1>11, <1>12, <1>13, <1>14 DEF P, Q

(* So the lists differ in their order alone, and not at all once they are sorted  *)
(* by times that differ.                                                          *)
LEMMA ListsAgree ==
    ASSUME NEW s, NEW f, KeptAlike(s, f), NEW G,
           NEW p, NEW q, p = InOrder(s, PlacesIn(s, G)), q = InOrder(f, IdsIn(f, G))
    PROVE  /\ p \in Seq(Records) /\ q \in Seq(Records) /\ Len(p) = Len(q) /\ Ran(p) = Ran(q)
           /\ Ran(p) = {s[i] : i \in PlacesIn(s, G)}
           /\ TimesDiffer(Ran(q)) => AllDiffer(q)
<1> DEFINE P == PlacesIn(s, G)
           Q == IdsIn(f, G)
<1>1. /\ P \in FiniteKeys /\ Q \in FiniteKeys /\ Cardinality(P) = Cardinality(Q)
      /\ {s[i] : i \in P} = {f[i] : i \in Q}
      /\ \A i \in P : s[i] \in Records
      /\ \A i \in Q : f[i] \in Records
      /\ \A i, j \in Q : i # j => f[i] # f[j]
  BY AskedOfBoth
<1>5. p = InOrder(s, P) /\ q = InOrder(f, Q)
  OBVIOUS
<1> HIDE DEF P, Q
<1>2. p \in Seq(Records) /\ Len(p) = Cardinality(P) /\ Ran(p) = {s[i] : i \in P}
  BY <1>1, <1>5, ListedInOrder
<1>3. /\ q \in Seq(Records) /\ Len(q) = Cardinality(Q) /\ Ran(q) = {f[i] : i \in Q}
      /\ \A k, l \in DOMAIN q : k # l => \E i, j \in Q : i # j /\ q[k] = f[i] /\ q[l] = f[j]
  BY <1>1, <1>5, ListedInOrder
<1>4. ASSUME TimesDiffer(Ran(q)) PROVE AllDiffer(q)
  <2>1. \A k, l \in DOMAIN q : k # l => q[k] # q[l]
    BY <1>1, <1>3
  <2> QED BY <1>4, <2>1 DEF AllDiffer, TimesDiffer, Ran
<1> QED BY <1>1, <1>2, <1>3, <1>4 DEF P

LEMMA NewestAgree ==
    ASSUME NEW p \in Seq(Records), NEW q \in Seq(Records), Len(p) = Len(q), Ran(p) = Ran(q),
           AllDiffer(p), AllDiffer(q)
    PROVE  Newest(p) = Newest(q)
<1>1. PICK D, among : D = Ran(p) /\ among = LatestFirst(D)
  OBVIOUS
<1>2. PutsInOrder(among, D) /\ IsFiniteSet(D)
  <2>1. TimesDiffer(D) /\ D \subseteq Records
    BY <1>1, AllTimesDiffer
  <2>2. IsFiniteSet({p[i] : i \in DOMAIN p})
    <3>1. IsFiniteSet(DOMAIN p) /\ \A i, j \in DOMAIN p : i # j => p[i] # p[j]
      BY PlacesOfSeq, AllTimesDiffer
    <3> QED BY <3>1, AsManyAsPlaces
  <2> QED BY <1>1, <2>1, <2>2, TimesPutInOrder DEF Ran
<1>3. Newest(p) \in Seq(Records) /\ Len(Newest(p)) = Len(p) /\ Counted(Newest(p), among, D)
  BY <1>1, NewestCounted
<1>4. Newest(q) \in Seq(Records) /\ Len(Newest(q)) = Len(q) /\ Counted(Newest(q), among, D)
  BY <1>1, NewestCounted
<1> QED BY <1>2, <1>3, <1>4, OneOrder

LEMMA RisingAgree ==
    ASSUME NEW p \in Seq(Records), NEW q \in Seq(Records), Len(p) = Len(q), Ran(p) = Ran(q),
           Rising(p), AllDiffer(q)
    PROVE  p = Sorted(q)
<1>1. PICK D, among : D = Ran(p) /\ among = EarliestFirst(D)
  OBVIOUS
<1>2. AllDiffer(p) /\ Counted(p, among, D)
  BY <1>1, RisingCounted
<1>3. PutsInOrder(among, D) /\ IsFiniteSet(D)
  <2>1. TimesDiffer(D) /\ D \subseteq Records
    BY <1>1, <1>2, AllTimesDiffer
  <2>2. IsFiniteSet({p[i] : i \in DOMAIN p})
    <3>1. IsFiniteSet(DOMAIN p) /\ \A i, j \in DOMAIN p : i # j => p[i] # p[j]
      BY <1>2, PlacesOfSeq, AllTimesDiffer
    <3> QED BY <3>1, AsManyAsPlaces
  <2> QED BY <1>1, <2>1, <2>2, TimesPutInOrder DEF Ran
<1>4. Sorted(q) \in Seq(Records) /\ Len(Sorted(q)) = Len(q) /\ Counted(Sorted(q), among, D)
  BY <1>1, SortedCounted
<1> QED BY <1>2, <1>3, <1>4, OneOrder
-----------------------------------------------------------------------------
StoresAlike == KeptAlike(mem, fire) /\ KeptAlike(memLog, fireLog) /\ KeptAlike(memTurns, fireTurns)

LEMMA InitAlike == StInit => StoresAlike
<1> SUFFICES ASSUME StInit PROVE StoresAlike
  OBVIOUS
<1>1. ASSUME NEW f, f = [i \in Ids |-> NoRecord] PROVE KeptAlike(<<>>, f)
  <2>1. Ran(<<>>) = {} /\ Saved(f) = {} /\ <<>> \in Seq(Records) /\ DOMAIN <<>> = {}
    BY <1>1 DEF Ran, Saved
  <2> QED BY <1>1, <2>1 DEF KeptAlike
<1> QED BY <1>1 DEF StoresAlike, StInit

LEMMA AlikeStep == StoresAlike /\ [StNext]_storevars => StoresAlike'
<1> SUFFICES ASSUME StoresAlike, [StNext]_storevars PROVE StoresAlike'
  OBVIOUS
<1>2. ASSUME NEW r \in Records, Save(r) \/ AddLog(r) \/ AddTurn(r)
      PROVE  /\ KeptAlike(mem', fire') /\ KeptAlike(memLog', fireLog') /\ KeptAlike(memTurns', fireTurns')
  <2>1. CASE Save(r)
    <3>1. mem' = PutMem(mem, r) /\ fire' = PutFire(fire, r)
          /\ memLog' = memLog /\ fireLog' = fireLog /\ memTurns' = memTurns /\ fireTurns' = fireTurns
      BY <2>1 DEF Save
    <3> QED BY <3>1, SavedInBoth DEF StoresAlike
  <2>2. CASE AddLog(r)
    <3>1. memLog' = Append(memLog, r) /\ fireLog' = PutFire(fireLog, r) /\ fireLog[r.id] = NoRecord
          /\ mem' = mem /\ fire' = fire /\ memTurns' = memTurns /\ fireTurns' = fireTurns
      BY <2>2 DEF AddLog
    <3>2. KeptAlike(PutMem(memLog, r), PutFire(fireLog, r)) /\ PutMem(memLog, r) = Append(memLog, r)
      BY <3>1, SavedInBoth DEF StoresAlike
    <3> QED BY <3>1, <3>2 DEF StoresAlike
  <2>3. CASE AddTurn(r)
    <3>1. memTurns' = Append(memTurns, r) /\ fireTurns' = PutFire(fireTurns, r) /\ fireTurns[r.id] = NoRecord
          /\ mem' = mem /\ fire' = fire /\ memLog' = memLog /\ fireLog' = fireLog
      BY <2>3 DEF AddTurn
    <3>2. KeptAlike(PutMem(memTurns, r), PutFire(fireTurns, r)) /\ PutMem(memTurns, r) = Append(memTurns, r)
      BY <3>1, SavedInBoth DEF StoresAlike
    <3> QED BY <3>1, <3>2 DEF StoresAlike
  <2> QED BY <1>2, <2>1, <2>2, <2>3
<1>3. CASE UNCHANGED <<mem, fire, memLog, fireLog, memTurns, fireTurns>>
  BY <1>3 DEF StoresAlike
<1>4. ASSUME NEW e \in LineEvents, Send(e) \/ Claim(e) \/ Expire(e)
      PROVE  UNCHANGED <<mem, fire, memLog, fireLog, memTurns, fireTurns>>
  BY <1>4 DEF Send, Claim, Expire
<1>5. Tomorrow \/ UNCHANGED storevars => UNCHANGED <<mem, fire, memLog, fireLog, memTurns, fireTurns>>
  BY DEF Tomorrow, storevars
<1>6. \A r \in Records : Save(r) \/ AddLog(r) \/ AddTurn(r) => StoresAlike'
  BY <1>2 DEF StoresAlike
<1> QED BY <1>3, <1>4, <1>5, <1>6 DEF StNext
-----------------------------------------------------------------------------
(* What only one record has is found in both.                                     *)
LEMMA FoundByRef ==
    ASSUME StoresAlike, NEW ref \in Refs, Cardinality(Owners(ref)) <= 1
    PROVE  MemByRef(ref) = FireByRef(ref)
<1> DEFINE G == {r \in Records : r.ref = ref}
<1>1. KeptAlike(mem, fire)
  BY DEF StoresAlike
<1>2. PICK p, q : p = InOrder(mem, PlacesIn(mem, G)) /\ q = InOrder(fire, IdsIn(fire, G))
  OBVIOUS
<1>3. {i \in DOMAIN mem : mem[i].ref = ref} = PlacesIn(mem, G)
      /\ {i \in Saved(fire) : fire[i].ref = ref} = IdsIn(fire, G)
  BY <1>1, FoundInBoth DEF PlacesIn, IdsIn
<1>4. MemByRef(ref) = FirstOf(p) /\ FireByRef(ref) = FirstOf(q)
  BY <1>2, <1>3 DEF MemByRef, FireByRef
<1>10. PlacesIn(mem, G) \subseteq DOMAIN mem /\ \A i \in PlacesIn(mem, G) : mem[i].ref = ref
  BY DEF PlacesIn
<1> HIDE DEF G
<1>5. p \in Seq(Records) /\ q \in Seq(Records) /\ Len(p) = Len(q) /\ Ran(p) = Ran(q)
      /\ Ran(p) = {mem[i] : i \in PlacesIn(mem, G)}
  BY <1>1, <1>2, ListsAgree
<1>6. Ran(p) \subseteq Owners(ref)
  BY <1>5, <1>10 DEF Owners, Ran
<1>7. \A x, y \in Owners(ref) : x = y
  <2>1. IsFiniteSet(Owners(ref))
    <3>1. IsFiniteSet(DOMAIN mem)
      BY <1>1, PlacesOfSeq DEF KeptAlike
    <3>2. \A i, j \in DOMAIN mem : i # j => mem[i] # mem[j]
      BY <1>1 DEF KeptAlike
    <3>3. IsFiniteSet({mem[i] : i \in DOMAIN mem})
      BY <3>1, <3>2, AsManyAsPlaces
    <3>4. Owners(ref) \subseteq {mem[i] : i \in DOMAIN mem}
      BY DEF Owners, Ran
    <3> QED BY <3>3, <3>4, FS_Subset
  <2> SUFFICES ASSUME NEW x \in Owners(ref), NEW y \in Owners(ref) PROVE x = y
    OBVIOUS
  <2>2. IsFiniteSet({x}) /\ Cardinality({x}) = 1
    BY FS_Singleton
  <2>3. {x} \subseteq Owners(ref) /\ Cardinality({x}) <= Cardinality(Owners(ref))
        /\ (Cardinality({x}) = Cardinality(Owners(ref)) => {x} = Owners(ref))
    BY <2>1, FS_Subset
  <2>4. Cardinality(Owners(ref)) \in Nat
    BY <2>1, FS_CardinalityType
  <2> QED BY <2>2, <2>3, <2>4
<1>8. CASE p = <<>>
  <2>1. q = <<>>
    BY <1>5, <1>8
  <2> QED BY <1>4, <1>8, <2>1
<1>9. CASE p # <<>>
  <2>1. q # <<>> /\ 1 \in DOMAIN p /\ 1 \in DOMAIN q
    BY <1>5, <1>9
  <2>2. p[1] \in Ran(p) /\ q[1] \in Ran(p)
    BY <1>5, <2>1 DEF Ran
  <2>3. p[1] = q[1]
    BY <1>6, <1>7, <2>2
  <2> QED BY <1>4, <1>9, <2>1, <2>3 DEF FirstOf
<1> QED BY <1>8, <1>9

LEMMA ListedAlike ==
    ASSUME StoresAlike, NEW g \in Groups
    PROVE  /\ Len(MemList(g)) = Len(FireList(g)) /\ Ran(MemList(g)) = Ran(FireList(g))
           /\ AllDiffer(MemList(g)) => MemNewest(g) = FireNewest(g)
<1> DEFINE G == {r \in Records : r.group = g}
<1>1. KeptAlike(mem, fire)
  BY DEF StoresAlike
<1>2. PICK p, q : p = InOrder(mem, PlacesIn(mem, G)) /\ q = InOrder(fire, IdsIn(fire, G))
  OBVIOUS
<1>3. {i \in DOMAIN mem : mem[i].group = g} = PlacesIn(mem, G)
      /\ {i \in Saved(fire) : fire[i].group = g} = IdsIn(fire, G)
  BY <1>1, FoundInBoth DEF PlacesIn, IdsIn
<1>4. MemList(g) = p /\ FireList(g) = q
  BY <1>2, <1>3 DEF MemList, FireList
<1>5. p \in Seq(Records) /\ q \in Seq(Records) /\ Len(p) = Len(q) /\ Ran(p) = Ran(q)
      /\ (TimesDiffer(Ran(q)) => AllDiffer(q))
  BY <1>1, <1>2, ListsAgree
<1>6. ASSUME AllDiffer(p) PROVE Newest(p) = Newest(q)
  <2>1. TimesDiffer(Ran(q))
    BY <1>5, <1>6, AllTimesDiffer
  <2> QED BY <1>5, <1>6, <2>1, NewestAgree
<1> QED BY <1>4, <1>5, <1>6 DEF MemNewest, FireNewest

LEMMA LogsAlike ==
    ASSUME StoresAlike, NEW t \in 0 .. StoreDays
    PROVE  Len(MemSince(t)) = Len(FireSince(t)) /\ Ran(MemSince(t)) = Ran(FireSince(t))
<1> DEFINE G == {r \in Records : r.at >= t}
<1>1. KeptAlike(memLog, fireLog)
  BY DEF StoresAlike
<1>2. PICK p, q : p = InOrder(memLog, PlacesIn(memLog, G)) /\ q = InOrder(fireLog, IdsIn(fireLog, G))
  OBVIOUS
<1>3. {i \in DOMAIN memLog : memLog[i].at >= t} = PlacesIn(memLog, G)
      /\ {i \in Saved(fireLog) : fireLog[i].at >= t} = IdsIn(fireLog, G)
  BY <1>1, FoundInBoth DEF PlacesIn, IdsIn
<1>4. MemSince(t) = p /\ FireSince(t) = q
  BY <1>2, <1>3 DEF MemSince, FireSince
<1> QED BY <1>1, <1>2, <1>4, ListsAgree

LEMMA TurnsAlike == StoresAlike => SameTurns
<1> SUFFICES ASSUME StoresAlike, Rising(memTurns) PROVE MemTurns = FireTurns
  BY DEF SameTurns
<1>1. KeptAlike(memTurns, fireTurns) /\ memTurns \in Seq(Records)
  BY DEF StoresAlike, KeptAlike
<1>2. PICK p, q : p = InOrder(memTurns, PlacesIn(memTurns, Records)) /\ q = InOrder(fireTurns, IdsIn(fireTurns, Records))
  OBVIOUS
<1>3. DOMAIN memTurns = PlacesIn(memTurns, Records) /\ Saved(fireTurns) = IdsIn(fireTurns, Records)
  BY <1>1, FoundInBoth DEF PlacesIn, IdsIn
<1>4. q = InOrder(fireTurns, Saved(fireTurns))
  BY <1>2, <1>3
<1>5. p \in Seq(Records) /\ q \in Seq(Records) /\ Len(p) = Len(q) /\ Ran(p) = Ran(q)
      /\ Ran(p) = {memTurns[i] : i \in PlacesIn(memTurns, Records)}
      /\ (TimesDiffer(Ran(q)) => AllDiffer(q))
  BY <1>1, <1>2, ListsAgree
<1>6. Ran(memTurns) = Ran(q)
  BY <1>3, <1>5 DEF Ran
<1>7. Len(memTurns) = Len(q)
  <2>1. PlacesIn(memTurns, Records) \in FiniteKeys /\ \A i \in PlacesIn(memTurns, Records) : memTurns[i] \in Records
    BY <1>1, AskedOfBoth
  <2>2. Len(p) = Cardinality(PlacesIn(memTurns, Records))
    BY <1>2, <2>1, ListedInOrder
  <2> QED BY <1>1, <1>3, <1>5, <2>2, PlacesOfSeq
<1>8. TimesDiffer(Ran(memTurns))
  BY <1>1, RisingCounted, AllTimesDiffer
<1>9. memTurns = Sorted(q)
  BY <1>1, <1>5, <1>6, <1>7, <1>8, RisingAgree
<1> QED BY <1>4, <1>9 DEF MemTurns, FireTurns

LEMMA GotById == StoresAlike => \A id \in Ids : MemGet(id) = FireGet(id)
<1> SUFFICES ASSUME StoresAlike, NEW id \in Ids PROVE MemGet(id) = FireGet(id)
  OBVIOUS
<1>1. \A i \in Saved(fire) : fire[i].id = i
  BY FoundInBoth DEF StoresAlike
<1>2. Ran(mem) = {fire[i] : i \in Saved(fire)}
  BY DEF StoresAlike, KeptAlike
<1> QED BY <1>1, <1>2 DEF MemGet, FireGet

(* So the store of the tests can stand for the one in service (repository.py,     *)
(* firestore_repo.py): it keeps the same promise, what is looked up or listed is  *)
(* the same as far as SameAnswers says, and so are the last turns of a session,   *)
(* for any records, logs, turns and events of LINE.                               *)
THEOREM StoresHold == StoreSpec => StoresKeepPromise
<1>1. StoresAlike => SameAnswers
  BY GotById, FoundByRef, ListedAlike, LogsAlike DEF SameAnswers
<1>2. StoreSpec => []StoresAlike
  BY InitAlike, AlikeStep, PTL DEF StoreSpec
<1> QED BY <1>1, <1>2, TurnsAlike, StoresImplementPromise, PTL DEF StoresKeepPromise
=============================================================================
