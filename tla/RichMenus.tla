------------------------------ MODULE RichMenus ------------------------------
(* The menu LINE shows a member by his standing (app/rich_menu_link.py,        *)
(* scripts/setup_rich_menu.py), and what changes his standing: the edit of the *)
(* member document (app/admin_api.py) and the import of the year's roster      *)
(* (app/org_import.py, scripts/import_org.py).                                 *)
(*                                                                             *)
(* A call goes from one read, save or LINE call to the next with its copies.   *)
(* How an account comes to be linked is in Linking; here it is one step.       *)
EXTENDS Naturals, Sequences, FiniteSets

CONSTANTS
    Numbered,       \* member ids the import gives: m1, m2, ...
    Drawn,         \* member ids drawn at random by the office's form
    People, NoName,
    Committees, NoCommittee,
    Seatings,      \* the seats a roster entry may list
    Accounts, NoAccount,
    Hands,         \* calls, ticks and scripts under way
    MaxChores      \* bound: what people do, and calls that die

MemberIds == Numbered \cup Drawn
Seats == [committee : Committees, chair : BOOLEAN]

ASSUME RichMenusAssumption ==
    /\ Numbered \subseteq Nat \ {0} /\ IsFiniteSet(Numbered) /\ Numbered \cap Drawn = {}
    /\ NoName \notin People /\ NoCommittee \notin Committees /\ NoAccount \notin Accounts
    /\ Seatings \subseteq Seq(Seats)
    /\ MaxChores \in Nat

VARIABLES
    person,    \* person[i]: the member document
    made,      \* times the menus were made on LINE; their tabs lead to the last ones
    menus,     \* Settings.rich_menus: the ids of which making, 0 before the first
    shown,     \* shown[u]: the menu linked to account u on LINE
    friend,    \* friend[u]: u has the account as a friend
    follows,   \* events of accounts that became friends, on their way
    hand,      \* hand[h]: locals of h
    shared,   \* history: numbers that imports which overlapped gave to two members
    chores     \* what people have done so far

menuvars == <<person, made, menus, shown, friend, follows, hand, shared, chores>>

Persons_ == [known : BOOLEAN, active : BOOLEAN, name : People \cup {NoName}, ops : BOOLEAN,
             committee : Committees \cup {NoCommittee}, chair : BOOLEAN,
             seats : Seq(Seats), line : Accounts \cup {NoAccount}]
Unknown == [known |-> FALSE, active |-> FALSE, name |-> NoName, ops |-> FALSE,
            committee |-> NoCommittee, chair |-> FALSE, seats |-> <<>>, line |-> NoAccount]

Kinds == {"member", "board", "officer", "officer_ops"}
NoMenu == <<0, "member">>      \* the default menu
Menus == (0..MaxChores + 1) \X Kinds

FreeHand == [pc |-> "idle", what |-> "none", copies |-> [i \in MemberIds |-> Unknown], todo |-> {},
         linked |-> {}, new |-> {}, at |-> 0, seen |-> 0, menu |-> NoMenu, others |-> {}, stale |-> {},
         names |-> {}]

HandDocs == [
    pc : {"idle", "edit", "walk", "link", "post", "made", "apply"},
    what : {"none", "edit", "link", "follow", "sweep", "all", "setup", "import"},
    copies : [MemberIds -> Persons_], todo : SUBSET MemberIds, linked : SUBSET MemberIds,
    new : SUBSET MemberIds, at : MemberIds \cup {0}, seen : Nat, menu : Menus,
    others : SUBSET MemberIds, stale : SUBSET Accounts, names : SUBSET People]

(* Type invariant: documents, menus and locals have their types. *)
RmTypeOK ==
    /\ person \in [MemberIds -> Persons_]
    /\ made \in Nat /\ menus \in 0..made
    /\ shown \in [Accounts -> Menus] /\ \A u \in Accounts : shown[u][1] <= made
    /\ friend \in [Accounts -> BOOLEAN] /\ follows \subseteq Accounts
    /\ hand \in [Hands -> HandDocs] /\ shared \subseteq MemberIds
    /\ \A h \in Hands :
         /\ hand[h].pc \in {"link", "post"} => hand[h].copies[hand[h].at].line \in Accounts
         /\ hand[h].pc = "post" => hand[h].menu[1] > 0
    /\ chores \in 0..MaxChores

RosterEntries == [ops : BOOLEAN, seats : Seatings]

(* _apply: the member is in the roster, so he is active *)
ApplyEntry(d, n, x) == [d EXCEPT !.known = TRUE, !.active = TRUE, !.name = n, !.ops = x.ops,
    !.seats = x.seats,
    !.committee = IF x.seats = <<>> THEN NoCommittee ELSE Head(x.seats).committee,
    !.chair = x.seats # <<>> /\ Head(x.seats).chair]

(* the menus are there or not; the first roster had one name, and its member is *)
(* linked to an account or not                                                  *)
RmInit ==
    /\ made \in 0..1 /\ menus = made
    /\ \E i \in Numbered, n \in People, x \in RosterEntries, u \in Accounts \cup {NoAccount} :
         /\ \A j \in Numbered : i <= j
         /\ person = [[j \in MemberIds |-> Unknown] EXCEPT ![i] =
                        [ApplyEntry(Unknown, n, x) EXCEPT !.line = u]]
         /\ friend = [v \in Accounts |-> v = u]
    /\ shown = [v \in Accounts |-> NoMenu]
    /\ follows = {} /\ shared = {} /\ chores = 0
    /\ hand = [h \in Hands |-> FreeHand]

IsAt(h, pc) == hand[h].pc = pc
Bothers == chores < MaxChores /\ chores' = chores + 1
Ends(h) == hand' = [hand EXCEPT ![h] = FreeHand]
-----------------------------------------------------------------------------
(* roles.is_ops; roles.is_board: a chair, of whichever committee *)
IsBoard(d) == d.chair \/ \E n \in DOMAIN d.seats : d.seats[n].chair

kind_for(d) == IF d.ops THEN "officer" ELSE IF IsBoard(d) THEN "board" ELSE "member"

(* the menus of making v that fit; officers may have switched to the second tab *)
Fitting(d, v) ==
    {<<v, kind_for(d)>>} \cup (IF kind_for(d) = "officer" THEN {<<v, "officer_ops">>} ELSE {})

(* the sweeps and imports under way that have a copy of member i, or a look at  *)
(* account u, from before a change                                              *)
Outdated(hs, i, us) == [g \in Hands |->
    IF hs[g].pc = "idle" THEN hs[g] ELSE
    [hs[g] EXCEPT !.others = @ \cup {i}, !.stale = @ \cup us]]

(* upsert_member *)
SaveMember(h, i, d, hs) ==
    /\ person' = [person EXCEPT ![i] = d]
    /\ hand' = [Outdated(hand, i, {d.line, person[i].line} \ {NoAccount}) EXCEPT ![h] = hs]
-----------------------------------------------------------------------------
(* the LINE account                                                           *)
Befriend(u) ==
    /\ ~friend[u] /\ Bothers
    /\ friend' = [friend EXCEPT ![u] = TRUE]
    /\ follows' = follows \cup {u}
    /\ UNCHANGED <<person, made, menus, shown, hand, shared>>

(* a menu linked before is gone when the block is lifted *)
BlockAccount(u) ==
    /\ friend[u] /\ Bothers
    /\ friend' = [friend EXCEPT ![u] = FALSE]
    /\ shown' = [shown EXCEPT ![u] = NoMenu]
    /\ UNCHANGED <<person, made, menus, follows, hand, shared>>

(* the tabs of the officers' menu lead to the menus made last *)
SwitchTab(u) ==
    /\ friend[u] /\ shown[u][2] \in {"officer", "officer_ops"} /\ Bothers
    /\ \E tab \in {"officer", "officer_ops"} \ {shown[u][2]} :
         shown' = [shown EXCEPT ![u] = <<made, tab>>]
    /\ hand' = [g \in Hands |->
         IF hand[g].pc \in {"link", "post"} /\ hand[g].copies[hand[g].at].line = u
         THEN [hand[g] EXCEPT !.stale = @ \cup {u}] ELSE hand[g]]
    /\ UNCHANGED <<person, made, menus, friend, follows, shared>>
-----------------------------------------------------------------------------
(* the member document                                                        *)
(* create_member: with no list of seats *)
CreateMember == \E i \in Drawn, n \in People, c \in Committees \cup {NoCommittee}, o \in BOOLEAN :
    /\ ~person[i].known /\ Bothers
    /\ person' = [person EXCEPT ![i] = [Unknown EXCEPT
         !.known = TRUE, !.active = TRUE, !.name = n, !.ops = o, !.committee = c]]
    /\ hand' = Outdated(hand, i, {})
    /\ UNCHANGED <<made, menus, shown, friend, follows, shared>>

OpenMember(h) == \E i \in MemberIds :
    /\ IsAt(h, "idle") /\ person[i].known /\ Bothers
    /\ hand' = [hand EXCEPT ![h] = [FreeHand EXCEPT
         !.pc = "edit", !.what = "edit", !.copies[i] = person[i], !.at = i]]
    /\ UNCHANGED <<person, made, menus, shown, friend, follows, shared>>

(* the first seat is the primary one; it goes when the primary committee does *)
SeatsFor(d, c, ch) ==
    IF d.seats = <<>> THEN <<>>
    ELSE IF c = NoCommittee THEN Tail(d.seats)
    ELSE <<[committee |-> c, chair |-> ch]>> \o Tail(d.seats)

(* update_member: the menu is not linked anew *)
UpdateMember(h) ==
    LET i == hand[h].at
        d == hand[h].copies[i]
    IN  /\ IsAt(h, "edit")
        /\ \/ \E c \in Committees \cup {NoCommittee}, ch \in BOOLEAN :
                SaveMember(h, i, [d EXCEPT !.committee = c, !.chair = ch,
                                           !.seats = SeatsFor(d, c, ch)], FreeHand)
           \/ \E o, a \in BOOLEAN : SaveMember(h, i, [d EXCEPT !.ops = o, !.active = a], FreeHand)
        /\ UNCHANGED <<made, menus, shown, friend, follows, chores, shared>>
-----------------------------------------------------------------------------
(* the link of a menu                                                         *)

(* an account is linked to a member, by approval or by code *)
LinkAccount(h) == \E i \in MemberIds, u \in Accounts :
    LET d == [person[i] EXCEPT !.line = u]
    IN  /\ IsAt(h, "idle") /\ Bothers
        /\ person[i].known /\ person[i].line = NoAccount
        /\ \A j \in MemberIds : person[j].line # u
        /\ SaveMember(h, i, d, [FreeHand EXCEPT !.pc = "link", !.what = "link",
                                            !.copies[i] = d, !.at = i])
        /\ UNCHANGED <<made, menus, shown, friend, follows, shared>>

(* _link_menu_on_follow *)
LinkMenuOnFollow(h) == \E u \in follows :
    /\ IsAt(h, "idle")
    /\ follows' = follows \ {u}
    /\ IF \E i \in MemberIds : person[i].line = u
       THEN \E i \in MemberIds :
              /\ person[i].line = u
              /\ hand' = [hand EXCEPT ![h] = [FreeHand EXCEPT !.pc = "link", !.what = "follow",
                                              !.copies[i] = person[i], !.at = i]]
       ELSE UNCHANGED hand
    /\ UNCHANGED <<person, made, menus, shown, friend, chores, shared>>

(* the members with an account, as they are listed now *)
ListedNow(h, what) == hand' = [hand EXCEPT ![h] = [FreeHand EXCEPT
    !.pc = "walk", !.what = what, !.seen = menus,
    !.todo = {i \in MemberIds : person[i].line # NoAccount},
    !.copies = [i \in MemberIds |-> IF person[i].line # NoAccount THEN person[i] ELSE Unknown]]]

(* reconcile, at eight o'clock *)
Reconcile(h) ==
    /\ IsAt(h, "idle") /\ menus # 0
    /\ \E i \in MemberIds : person[i].line # NoAccount
    /\ ListedNow(h, "sweep")
    /\ UNCHANGED <<person, made, menus, shown, friend, follows, chores, shared>>

(* setup_rich_menu.py --link-all *)
LinkAll(h) ==
    /\ IsAt(h, "idle") /\ Bothers /\ ListedNow(h, "all")
    /\ UNCHANGED <<person, made, menus, shown, friend, follows, shared>>

Passed(h, i) == [hand[h] EXCEPT !.pc = "walk", !.todo = @ \ {i}, !.at = 0, !.menu = NoMenu,
    !.copies[i] = IF hand[h].what = "import" THEN @ ELSE Unknown]

(* mutant: who has no menu has the default one *)
IsRightOrDefault(h, i) == LET u == hand[h].copies[i].line
                          IN  shown[u] \in Fitting(hand[h].copies[i], hand[h].seen) \cup {NoMenu}

IsRight(h, i) == LET u == hand[h].copies[i].line
                 IN  shown[u] \in Fitting(hand[h].copies[i], hand[h].seen)

(* a sweep looks at the menu the member has now; the look may fail *)
LookAtMenu(h, answers) == \E i \in hand[h].todo :
    /\ IsAt(h, "walk") /\ hand[h].what = "sweep"
    /\ hand' = [hand EXCEPT ![h] = IF answers => IsRight(h, i) THEN Passed(h, i)
                                   ELSE [@ EXCEPT !.pc = "link", !.at = i]]
    /\ UNCHANGED <<person, made, menus, shown, friend, follows, chores, shared>>

TakeNext(h) == \E i \in hand[h].todo :
    /\ IsAt(h, "walk") /\ hand[h].what # "sweep"
    /\ hand' = [hand EXCEPT ![h].pc = "link", ![h].at = i]
    /\ UNCHANGED <<person, made, menus, shown, friend, follows, chores, shared>>

(* mutant: the menus are there *)
ChooseMenuAnyhow(h) ==
    /\ IsAt(h, "link")
    /\ hand' = [hand EXCEPT ![h].pc = "post",
                            ![h].menu = <<menus, kind_for(hand[h].copies[hand[h].at])>>]
    /\ UNCHANGED <<person, made, menus, shown, friend, follows, chores, shared>>

(* link: what the settings say by now, for the standing in the copy *)
ChooseMenu(h) ==
    /\ IsAt(h, "link")
    /\ hand' = [hand EXCEPT ![h] =
         IF menus = 0 THEN Passed(h, hand[h].at)
         ELSE [@ EXCEPT !.pc = "post",
                        !.menu = <<menus, kind_for(hand[h].copies[hand[h].at])>>]]
    /\ UNCHANGED <<person, made, menus, shown, friend, follows, chores, shared>>

(* a menu linked to an account that is no friend does not stay; failures are    *)
(* passed over                                                                  *)
PostMenu(h, works) ==
    LET i == hand[h].at
        u == hand[h].copies[i].line
    IN  /\ IsAt(h, "post")
        /\ shown' = IF works /\ friend[u] THEN [shown EXCEPT ![u] = hand[h].menu] ELSE shown
        /\ hand' = [hand EXCEPT ![h] = Passed(h, i)]
        /\ UNCHANGED <<person, made, menus, friend, follows, chores, shared>>

WalkEnds(h) ==
    /\ IsAt(h, "walk") /\ hand[h].todo = {} /\ Ends(h)
    /\ UNCHANGED <<person, made, menus, shown, friend, follows, chores, shared>>

(* setup_rich_menu.py --create: the menus and their tabs on LINE, then the settings *)
MakeMenus(h) ==
    /\ IsAt(h, "idle") /\ Bothers
    /\ made' = made + 1
    /\ hand' = [hand EXCEPT ![h] = [FreeHand EXCEPT !.pc = "made", !.what = "setup", !.seen = made + 1]]
    /\ UNCHANGED <<person, menus, shown, friend, follows, shared>>

SaveMenus(h) ==
    /\ IsAt(h, "made")
    /\ menus' = hand[h].seen
    /\ hand' = [g \in Hands |-> IF g = h THEN FreeHand ELSE IF hand[g].pc = "idle" THEN hand[g]
                                ELSE [hand[g] EXCEPT !.stale = Accounts]]
    /\ UNCHANGED <<person, made, shown, friend, follows, chores, shared>>
-----------------------------------------------------------------------------
(* the roster                                                                 *)
Rosters == UNION {[names -> RosterEntries] : names \in (SUBSET People) \ {{}}}

Highest == LET used == {i \in Numbered : person[i].known}
           IN  IF used = {} THEN 0 ELSE CHOOSE i \in used : \A j \in used : j <= i

(* mutant: on from the highest number itself *)
NewIdsFromHighest(news) == {f \in [news -> Numbered] :
    /\ \A n \in news : f[n] >= Highest
    /\ \A n \in news : f[n] < Highest + Cardinality(news)
    /\ \A n, o \in news : n # o => f[n] # f[o]}

(* _next_ids: on from the highest number in use *)
NewIds(news) == {f \in [news -> Numbered] :
    /\ \A n \in news : f[n] > Highest
    /\ \A n \in news : f[n] <= Highest + Cardinality(news)
    /\ \A n, o \in news : n # o => f[n] # f[o]}

NamedBy(n) == {i \in MemberIds : person[i].known /\ person[i].name = n}

(* whose the names are: members are found by them, the last of the list if two   *)
(* have one; the others are new                                                  *)
Owners(names) ==
    LET news == {n \in names : NamedBy(n) = {}}
    IN  {f \in [names -> MemberIds] :
           /\ \A n \in names \ news : f[n] \in NamedBy(n)
           /\ [n \in news |-> f[n]] \in NewIds(news)}

(* what the documents become; with deactivate, who is not in the roster leaves *)
Planned(roster, whose, deactivate) == [i \in MemberIds |->
    LET named == {n \in DOMAIN roster : whose[n] = i}
        out == deactivate /\ person[i].known /\ person[i].active
                          /\ person[i].name \notin DOMAIN roster
    IN  IF named # {} THEN LET n == CHOOSE m \in named : TRUE
                           IN  ApplyEntry(person[i], n, roster[n])
        ELSE IF out THEN [person[i] EXCEPT !.active = FALSE]
        ELSE person[i]]

(* plan *)
ImportRoster(h) == \E roster \in Rosters, deactivate \in BOOLEAN :
    \E whose \in Owners(DOMAIN roster) :
      LET names == DOMAIN roster
          planned == Planned(roster, whose, deactivate)
          changed == {i \in MemberIds : planned[i] # person[i]}
      IN  /\ IsAt(h, "idle") /\ Bothers
          /\ hand' = [hand EXCEPT ![h] = [FreeHand EXCEPT
               !.pc = "apply", !.what = "import", !.copies = planned, !.todo = changed,
               !.new = {whose[n] : n \in {m \in names : NamedBy(m) = {}}},
               !.linked = {i \in changed : planned[i].line # NoAccount
                                             /\ \E n \in names : whose[n] = i},
               !.names = names]]
          /\ UNCHANGED <<person, made, menus, shown, friend, follows, shared>>

(* the planned documents are saved whole, whatever they have become meanwhile *)
ApplyChange(h) == \E i \in hand[h].todo :
    /\ IsAt(h, "apply")
    /\ SaveMember(h, i, hand[h].copies[i], [hand[h] EXCEPT !.todo = @ \ {i}])
    /\ shared' = IF i \in hand[h].new \cap hand[h].others THEN shared \cup {i} ELSE shared
    /\ UNCHANGED <<made, menus, shown, friend, follows, chores>>

(* then the menus of those who changed, by the planned documents *)
ApplyEnds(h) ==
    /\ IsAt(h, "apply") /\ hand[h].todo = {}
    /\ hand' = [hand EXCEPT ![h].pc = "walk", ![h].todo = hand[h].linked]
    /\ UNCHANGED <<person, made, menus, shown, friend, follows, chores, shared>>

(* an instance stops, or the script is interrupted *)
HandDies(h) ==
    /\ ~IsAt(h, "idle") /\ Bothers /\ Ends(h)
    /\ UNCHANGED <<person, made, menus, shown, friend, follows, shared>>
-----------------------------------------------------------------------------
GoesOnWith(h) ==
    \/ TakeNext(h) \/ ChooseMenu(h) \/ WalkEnds(h)
    \/ UpdateMember(h) \/ SaveMenus(h) \/ ApplyChange(h) \/ ApplyEnds(h)
    \/ \E works \in BOOLEAN : LookAtMenu(h, works) \/ PostMenu(h, works)

RmNext ==
    \/ CreateMember
    \/ \E u \in Accounts : Befriend(u) \/ BlockAccount(u) \/ SwitchTab(u)
    \/ \E h \in Hands :
         \/ OpenMember(h) \/ LinkAccount(h) \/ LinkMenuOnFollow(h) \/ Reconcile(h) \/ LinkAll(h)
         \/ MakeMenus(h) \/ ImportRoster(h) \/ HandDies(h)
         \/ GoesOnWith(h)

RmSpec == RmInit /\ [][RmNext]_menuvars

(* a call that runs goes on; the sweep comes every morning, and LINE answers    *)
(* and does what it is asked now and then                                       *)
RmFairness ==
    /\ \A h \in Hands : WF_menuvars(GoesOnWith(h)) /\ WF_menuvars(Reconcile(h))
    /\ \A h \in Hands : SF_menuvars(LookAtMenu(h, TRUE)) /\ SF_menuvars(PostMenu(h, TRUE))

RmFairSpec == RmSpec /\ RmFairness
-----------------------------------------------------------------------------
(* Whatever is edited or imported, a member with a primary committee has it,    *)
(* and his role in it, as the first of his seats (admin_api.py:642-648,         *)
(* org_import.py:50-71).                                                        *)
SeatsNameThePrimary == \A i \in MemberIds :
    LET d == person[i] IN
    d.committee # NoCommittee /\ d.seats # <<>> =>
        Head(d.seats) = [committee |-> d.committee, chair |-> d.chair]

(* When an import has saved its changes, everybody in the roster is an active   *)
(* member, but for those saved by another call meanwhile (org_import.py:50-71,  *)
(* scripts/import_org.py:87-89).                                                *)
RosterIsApplied == \A h \in Hands :
    hand[h].what = "import" /\ IsAt(h, "walk") => \A n \in hand[h].names :
        \/ \E i \in MemberIds : person[i].name = n /\ person[i].active
        \/ \E i \in hand[h].others : hand[h].copies[i].name = n

(* Nobody's document becomes that of another, unless two imports that overlap   *)
(* have given two new members his number (org_import.py:42-47): no form and no  *)
(* import saves a copy under another name, however old.                         *)
NobodyIsReplaced == [][\A i \in MemberIds :
    person[i].known /\ person'[i].name # person[i].name => i \in shared']_menuvars

(* The morning's sweep takes no officer off the second tab, unless he turned to *)
(* it, he was saved or the menus were made after the sweep looked, or a copy    *)
(* saved late gave his account to another as well (rich_menu_link.py:84-115).   *)
OpsTabIsLeftAlone == [][\A h \in Hands, i \in MemberIds :
    LET u == person[i].line IN
    /\ IsAt(h, "post") /\ hand'[h].pc = "walk" /\ hand[h].what = "sweep"
    /\ u # NoAccount /\ kind_for(person[i]) = "officer"
    /\ \A j \in MemberIds : person[j].line = u => j = i
    /\ shown[u] = <<menus, "officer_ops">> /\ u \notin hand[h].stale
    => shown'[u] = shown[u]]_menuvars

(* Once people rest, every member who is a friend has the menu of his standing, *)
(* whatever was missed before (rich_menu_link.py:84-115).                       *)
MenuFitsInTheEnd == <>[](\A i \in MemberIds :
    LET u == person[i].line IN
    menus # 0 /\ u # NoAccount /\ friend[u] => shown[u] \in Fitting(person[i], menus))

(* Forms, imports and sweeps that overlap keep the seats in order, the       *)
(* roster applied, every member himself and every tab where it was turned.   *)
RosterAndTabs == [](SeatsNameThePrimary /\ RosterIsApplied) /\ NobodyIsReplaced /\ OpsTabIsLeftAlone
=============================================================================
