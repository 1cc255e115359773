------------------------------ MODULE MCMembers ------------------------------
(* Members' accounts, their menus, their answers, and what is found in the       *)
(* Drive, for TLC: components that share no state here, one of which, the focus, *)
(* moves (as in MCOffice).                                                       *)
EXTENDS Linking, RichMenus, Attendances, Knowledge, TLC

VARIABLE focus

membervars == <<focus, vars, menuvars, attvars, kvars>>

(* a second seat may be the chair's *)
OneSeating == {<<[committee |-> "k1", chair |-> FALSE], [committee |-> "k1", chair |-> TRUE]>>}

(* the menus do not vary where they do not move *)
MembersInit ==
    /\ focus \in {"links", "menus", "answers", "drive"}
    /\ Init /\ RmInit /\ AtInit /\ KnInit
    /\ focus # "menus" => /\ made = 0 /\ friend = [u \in Accounts |-> FALSE]
                          /\ \A i \in MemberIds : ~person[i].ops

(* the components other than part p stay as they are *)
RestIn(p) ==
    /\ focus = p /\ UNCHANGED focus
    /\ p # "links" => UNCHANGED vars
    /\ p # "menus" => UNCHANGED menuvars
    /\ p # "answers" => UNCHANGED attvars
    /\ p # "drive" => UNCHANGED kvars

MembersNext ==
    \/ RestIn("links") /\ Next
    \/ RestIn("menus") /\ RmNext
    \/ RestIn("answers") /\ AtNext
    \/ RestIn("drive") /\ KnNext

MembersSpec == MembersInit /\ [][MembersNext]_membervars

(* Every member's documents, the rows of the Drive and its index, and the locals *)
(* of the calls at work are well formed.                                         *)
MembersTypeOK == TypeOK /\ RmTypeOK /\ AtTypeOK /\ KnTypeOK

(* members and names, accounts, and calls change places *)
MembersSymmetry == Permutations(Members) \cup Permutations(Users) \cup Permutations(Hands)
=============================================================================
