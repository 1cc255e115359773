------------------------------ MODULE Deferral ------------------------------
(* A message held back by the quiet hours, and a clock that runs on from there: *)
(* guardrails.next_send_time against what it is to compute, the first slot the  *)
(* message may be sent in.                                                      *)
EXTENDS Guardrails

CONSTANT MaxDay  \* bound: the last day on which a message is held back

ASSUME MaxDayAssumption == MaxDay \in Nat

VARIABLES
    quiet,   \* the quiet hours of the settings
    held,    \* when the message was held back, as <<day, time of day>>
    moment   \* the clock, as <<day, time of day>>

deferralVars == <<quiet, held, moment>>

Moments == Nat \X TimeOfDay

DeferralTypeOK == quiet \in QuietHours /\ held \in Moments /\ moment \in Moments

Earlier(a, b) == a[1] < b[1] \/ (a[1] = b[1] /\ a[2] < b[2])

DeferralInit ==
    /\ quiet \in QuietHours
    /\ held \in (0..MaxDay) \X TimeOfDay
    /\ moment = held

Tick ==
    /\ Earlier(moment, <<held[1] + 1, held[2]>>)
    /\ moment' = IF moment[2] + 1 \in TimeOfDay THEN <<moment[1], moment[2] + 1>>
                 ELSE <<moment[1] + 1, 0>>
    /\ UNCHANGED <<quiet, held>>

DeferralSpec == DeferralInit /\ [][Tick]_deferralVars

(* The deferred time is the first slot the message is not held back in: every  *)
(* slot before it is quiet, it is not, and it comes within a day, also when    *)
(* the quiet hours run over midnight (guardrails.py:29, :37-39).               *)
DeferredToFirstFreeSlot ==
    LET send == next_send_time(held[1], held[2], quiet) IN
    /\ ~Earlier(send, held) /\ Earlier(send, <<held[1] + 1, held[2]>>)
    /\ moment = send => ~is_quiet_hours(moment[2], quiet)
    /\ Earlier(moment, send) => is_quiet_hours(moment[2], quiet)
=============================================================================
