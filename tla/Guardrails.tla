----------------------------- MODULE Guardrails -----------------------------
(* The guardrails of app/guardrails.py as operators: quiet hours, the instant  *)
(* a message held back by them may leave, and the sanity check of a batch.     *)
(*                                                                             *)
(* A datetime is a number of slots since the first midnight; a day has         *)
(* SlotsPerDay of them.  time() of a datetime is its slot of the day.          *)
EXTENDS Integers

CONSTANT SlotsPerDay

ASSUME SlotsAssumption == SlotsPerDay \in Nat \ {0}

TimeOfDay == 0..(SlotsPerDay - 1)

Day(t) == t \div SlotsPerDay
Tod(t) == t % SlotsPerDay

(* Settings.quiet_hours as [start, end], two times of the day *)
QuietHours == [start : TimeOfDay, end : TimeOfDay]

(* a window whose start is after its end goes past midnight (21:00-08:00) *)
is_quiet_hours(tod, quiet) ==
    IF quiet.start <= quiet.end
    THEN quiet.start <= tod /\ tod < quiet.end
    ELSE tod >= quiet.start \/ tod < quiet.end

(* mutant: the end of the quiet hours is always taken on the same day *)
next_send_time_same_day(day, tod, quiet) ==
    IF ~is_quiet_hours(tod, quiet) THEN <<day, tod>> ELSE <<day, quiet.end>>

(* the next datetime at which a send is allowed, as <<day, time of day>> *)
next_send_time(day, tod, quiet) ==
    IF ~is_quiet_hours(tod, quiet) THEN <<day, tod>>
    ELSE <<IF quiet.end <= tod THEN day + 1 ELSE day, quiet.end>>

(* no problem found: the body is filled in and somebody is to receive it.      *)
(* too_many_targets cannot be: targets are drawn from the member documents,    *)
(* and nothing deletes one                                                     *)
sanity_check_ok(targets, clean) == targets # {} /\ clean
=============================================================================
