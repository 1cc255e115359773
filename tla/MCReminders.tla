----------------------------- MODULE MCReminders -----------------------------
(* Values of the constants of Reminders for TLC: days of two slots whose second *)
(* is night, one event of two stages, two members of whom the first is an       *)
(* officer.                                                                     *)
EXTENDS Reminders

MCQuiet == [start |-> 1, end |-> 0]
Doc(kill, limit) == [kill_switch |-> kill, quiet_hours |-> MCQuiet, per_member_per_day |-> limit]

MCStages == {1, 2}
MCBefore == [s \in MCStages |-> IF s = 1 THEN 4 ELSE 2]
MCAudience == [s \in MCStages |-> IF s = 1 THEN "all" ELSE "unanswered"]
MCAttendees == [s \in MCStages |-> IF s = 1 THEN "all" ELSE "attendees"]

Meeting(start, policy, clean) ==
    [start |-> start, end |-> start, deadline |-> NoDeadline,
     policy |-> policy, scope |-> Members, clean |-> clean]
OneForm == {Meeting(4, TRUE, TRUE)}
TwoForms == {Meeting(3, TRUE, TRUE), [Meeting(3, TRUE, TRUE) EXCEPT !.deadline = 2]}
BadForms == {Meeting(4, TRUE, TRUE), Meeting(4, FALSE, TRUE), Meeting(4, TRUE, FALSE)}

OnlyOn == {Doc(FALSE, 1)}
OnOff == {Doc(k, 1) : k \in BOOLEAN}
OnOffTwo == {Doc(k, 2) : k \in BOOLEAN}
MCJobs == EventJobs
=============================================================================
