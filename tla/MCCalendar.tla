------------------------------ MODULE MCCalendar ------------------------------
(* The calendar's sync with Google, the questions in the chat that change an     *)
(* event, and the way of messages to the data lake, for TLC; one of them, the    *)
(* focus, moves (as in MCOffice).                                                *)
EXTENDS CalendarSync, CalendarOps, Lake, TLC

VARIABLE focus

calendarvars == <<focus, calvars, opsvars, lakevars>>

CalendarInit ==
    /\ focus \in {"sync", "chat", "lake"}
    /\ CalInit /\ CoInit /\ LkInit
    /\ focus # "chat" => event[1].end = Unsaid   \* the chat that does not move begins in one way

CalendarNext ==
    /\ UNCHANGED focus
    /\ \/ focus = "sync" /\ CalNext /\ UNCHANGED <<opsvars, lakevars>>
       \/ focus = "chat" /\ CoNext /\ UNCHANGED <<calvars, lakevars>>
       \/ focus = "lake" /\ LkNext /\ UNCHANGED <<calvars, opsvars>>

CalendarSpec == CalendarInit /\ [][CalendarNext]_calendarvars

(* Events, entries, questions, envelopes and the locals of calls are well formed. *)
CalendarTypeOK == CalTypeOK /\ CoTypeOK /\ LkTypeOK

(* the values of the fields, and two taps in the chat, change places together *)
Symmetry == Permutations(Values)
=============================================================================
