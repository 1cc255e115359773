-------------------------------- MODULE Surveys --------------------------------
(* A survey is a form at Google whose answers are brought in again and again by  *)
(* a button: import_form fetches the form, looks for the survey of the form and  *)
(* replaces it, keeping what was made here. Who has not answered is reminded,    *)
(* and the model sums up the answers; both wait before they save the survey.     *)
EXTENDS Naturals, FiniteSets

CONSTANTS
    Guests,         \* the members a survey is for
    Surveys,        \* survey ids: naturals, taken in turn
    Callers,        \* calls
    MaxCalls        \* bound of the calls and of the answers together

VARIABLES
    form,       \* the form at Google: who has answered
    survey,     \* survey[s]: the Survey document of the form
    caller,     \* caller[c]: locals of call c
    made,       \* how many calls and answers there were
    brought,    \* history: whose answer was ever brought in
    dropped,    \* history: whose answer a late save took away again
    twice       \* history: two imports looked for the survey before either saved

surveyvars == <<form, survey, caller, made, brought, dropped, twice>>

NoSurvey == [in |-> FALSE, answers |-> {}, digest |-> FALSE, reminders |-> 0]
AtDoor == [pc |-> "idle", s |-> 0, copy |-> NoSurvey, answers |-> {}, todo |-> {}]

(* what was made of a survey is with a survey *)
SurveyDocs == {doc \in [in : BOOLEAN, answers : SUBSET form, digest : BOOLEAN, reminders : Nat] :
            doc.digest \/ doc.reminders > 0 => doc.in}

(* Type invariant: documents and locals have their types; what was made from a   *)
(* survey is with a survey.                                                      *)
SvTypeOK ==
    /\ form \subseteq Guests
    /\ survey \in [Surveys -> SurveyDocs]
    /\ caller \in [Callers -> [pc : {"idle", "fetched", "found", "remind", "digest"},
                               s : Surveys \cup {0}, copy : SurveyDocs, answers : SUBSET form,
                               todo : SUBSET Guests]]
    /\ brought \cup dropped \subseteq form /\ twice \in BOOLEAN

SvInit ==
    /\ form = {} /\ survey = [s \in Surveys |-> NoSurvey]
    /\ caller = [c \in Callers |-> AtDoor]
    /\ made = 0 /\ brought = {} /\ dropped = {} /\ twice = FALSE
-----------------------------------------------------------------------------
Make == made < MaxCalls /\ made' = made + 1
Rests(c) == caller' = [caller EXCEPT ![c] = AtDoor]
IsIn(s) == survey[s].in
Known == {s \in Surveys : IsIn(s)}
Reserved == {caller[c].s : c \in {d \in Callers : caller[d].pc = "found"}}
IsFresh(s) == s \notin Known \cup Reserved /\ \A k \in Surveys : k < s => k \in Known \cup Reserved

(* upsert_survey: the whole copy *)
SaveSurvey(s, copy) ==
    /\ survey' = [survey EXCEPT ![s] = copy]
    /\ brought' = brought \cup copy.answers
    /\ dropped' = dropped \cup (survey[s].answers \ copy.answers)

Answer(g) ==
    /\ g \notin form /\ Make
    /\ form' = form \cup {g}
    /\ UNCHANGED <<survey, caller, brought, dropped, twice>>
-----------------------------------------------------------------------------
(* import_form, also for sync_survey *)
FetchForm(c) ==
    /\ caller[c].pc = "idle" /\ Make
    /\ caller' = [caller EXCEPT ![c] = [AtDoor EXCEPT !.pc = "fetched", !.answers = form]]
    /\ UNCHANGED <<form, survey, brought, dropped, twice>>

(* get_survey_by_form_id: any one of those there are *)
FindSurvey(c) == \E s \in Surveys :
    /\ caller[c].pc = "fetched"
    /\ IF Known = {} THEN IsFresh(s) ELSE s \in Known
    /\ caller' = [caller EXCEPT ![c] = [@ EXCEPT !.pc = "found", !.s = s, !.copy = survey[s]]]
    /\ twice' = (twice \/ (Known = {} /\ Reserved # {}))
    /\ UNCHANGED <<form, survey, made, brought, dropped>>

(* build_survey, saved; apply_matches saves it again with the members who match *)
ImportForm(c) ==
    /\ caller[c].pc = "found"
    /\ SaveSurvey(caller[c].s, [caller[c].copy EXCEPT !.in = TRUE, !.answers = caller[c].answers])
    /\ Rests(c)
    /\ UNCHANGED <<form, made, twice>>

Unanswered(doc) == Guests \ doc.answers

(* mutant: everybody is reminded *)
RemindEverybody(c) == \E s \in Surveys :
    /\ caller[c].pc = "idle" /\ IsIn(s) /\ Unanswered(survey[s]) # {} /\ Make
    /\ caller' = [caller EXCEPT ![c] = [AtDoor EXCEPT !.pc = "remind", !.s = s,
                                         !.copy = survey[s], !.todo = Guests]]
    /\ UNCHANGED <<form, survey, brought, dropped, twice>>

(* remind_survey reads the survey and lets the messages go out (Delivery) *)
RemindSurvey(c) == \E s \in Surveys :
    /\ caller[c].pc = "idle" /\ IsIn(s) /\ Unanswered(survey[s]) # {} /\ Make
    /\ caller' = [caller EXCEPT ![c] = [AtDoor EXCEPT !.pc = "remind", !.s = s,
                                         !.copy = survey[s], !.todo = Unanswered(survey[s])]]
    /\ UNCHANGED <<form, survey, brought, dropped, twice>>

SaveReminder(c) ==
    /\ caller[c].pc = "remind"
    /\ SaveSurvey(caller[c].s, [caller[c].copy EXCEPT !.reminders = @ + 1])
    /\ Rests(c)
    /\ UNCHANGED <<form, made, twice>>

DigestSurvey(c) == \E s \in Surveys :
    /\ caller[c].pc = "idle" /\ IsIn(s) /\ survey[s].answers # {} /\ Make
    /\ caller' = [caller EXCEPT ![c] = [AtDoor EXCEPT !.pc = "digest", !.s = s, !.copy = survey[s]]]
    /\ UNCHANGED <<form, survey, brought, dropped, twice>>

SaveDigest(c) ==
    /\ caller[c].pc = "digest"
    /\ SaveSurvey(caller[c].s, [caller[c].copy EXCEPT !.digest = TRUE])
    /\ Rests(c)
    /\ UNCHANGED <<form, made, twice>>

(* the form is not shared, the delivery is halted, the model answers nothing, or *)
(* the call dies *)
CallFails(c) ==
    /\ caller[c].pc # "idle"
    /\ Rests(c)
    /\ UNCHANGED <<form, survey, made, brought, dropped, twice>>

SvNext ==
    \/ \E g \in Guests : Answer(g)
    \/ \E c \in Callers :
         \/ FetchForm(c) \/ FindSurvey(c) \/ ImportForm(c)
         \/ RemindSurvey(c) \/ SaveReminder(c) \/ DigestSurvey(c) \/ SaveDigest(c)
         \/ CallFails(c)

SvSpec == SvInit /\ [][SvNext]_surveyvars
-----------------------------------------------------------------------------
(* A form is one survey, however often it is imported (surveys_api.py:58), unless *)
(* two first imports look before either saves.                                   *)
OneSurveyPerForm == Cardinality(Known) > 1 => twice

(* Whose answer was brought in is not reminded by a later reminder, unless a     *)
(* copy saved late took the answer away, or two surveys of the form are there    *)
(* (survey_match.py:66-76, surveys_api.py:219-263).                              *)
AnsweredIsNotReminded == [][\A c \in Callers, g \in Guests :
    caller[c].pc = "idle" /\ g \in caller'[c].todo =>
        twice \/ g \in dropped \/ g \notin brought]_surveyvars

(* What was made of a survey is kept by an import: a digest or a count is lost   *)
(* only to a call that had read the survey before it was there                   *)
(* (survey_import.py:133-137, surveys_api.py:252-254, :312-313).                 *)
WorkIsKept == [][\A s \in Surveys :
    /\ survey[s].digest /\ ~survey'[s].digest =>
         \E c \in Callers : caller[c].s = s /\ caller'[c] = AtDoor /\ ~caller[c].copy.digest
    /\ survey'[s].reminders < survey[s].reminders =>
         \E c \in Callers : caller[c].s = s /\ caller'[c] = AtDoor
            /\ caller[c].copy.reminders < survey[s].reminders]_surveyvars

(* Imports, reminders and digests of a survey do not undo each other, but by *)
(* the copies each part names.                                               *)
SurveyIsKept == []OneSurveyPerForm /\ AnsweredIsNotReminded /\ WorkIsKept
=============================================================================
