------------------------------- MODULE MCPolls -------------------------------
(* Two accounts, the first of them linked, for TLC. *)
EXTENDS Polls, TLC

CONSTANTS u1, u2, m1, m2, c1, c2
MCLinkedTo == (u1 :> m1) @@ (u2 :> NoMember)
MCSheets == {(c1 :> "maybe") @@ (c2 :> "ng")}
=============================================================================
