----------------------------- MODULE MCLineIntake -----------------------------
(* One request of LINE with all the events, for TLC. *)
EXTENDS LineIntake

MCBodies == {Events}
=============================================================================
