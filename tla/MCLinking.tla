------------------------------ MODULE MCLinking ------------------------------
(* Symmetry of Linking for TLC: members, accounts and codes are interchangeable *)
EXTENDS Linking, TLC

Symmetry == Permutations(Members) \cup Permutations(Users) \cup Permutations(Codes)
=============================================================================
