---------------------------- MODULE Members_proofs ----------------------------
(* Proofs about the answers to events, the index of the Drive, the menus and the *)
(* roster, for any members, events, files, accounts and calls that overlap; and  *)
(* that the documents of all of them stay well formed together.                  *)
EXTENDS MCMembers, Linking_proofs, FiniteSetTheorems, SequenceTheorems, WellFoundedInduction

(* A document whose status is its last answer, and whose proxy was delegated. *)
Honest(d) ==
    /\ IF d.known THEN d.history # <<>> /\ d.status = d.history[Len(d.history)] ELSE d = NoAnswer
    /\ d.proxy # Nobody => \E i \in DOMAIN d.history : d.history[i] = "proxy"

AllHonest == \A e \in Meetings, m \in Persons : Honest(att[e][m])

Locals == [
    pc : {"idle", "look", "store", "check", "answer"},
    kind : {"tap", "late", "reason", "app", "office"},
    m : Persons \cup {Nobody}, asked : Seq(Entries), at : Nat \ {0},
    allowed : SUBSET Meetings, proxy : Persons \cup {Nobody, Stranger},
    copy : Documents, others : SUBSET Meetings]

(* A call is about a member, stands at an answer of its page, and answers to an *)
(* event once.                                                                  *)
Typed(w) ==
    /\ w \in Locals
    /\ w.pc # "idle" => w.m \in Persons
    /\ w.pc \in {"look", "store", "check"} => w.at \in DOMAIN w.asked
    /\ w.kind \in {"late", "reason"} => w.pc \in {"idle", "look", "store"}
    /\ \A i, j \in DOMAIN w.asked : w.asked[i].e = w.asked[j].e => i = j

(* The copy a call is about to save is honest, too. *)
CopyHonest(w) ==
    w.pc \in {"store", "check"} =>
        /\ Honest(w.copy)
        /\ w.pc = "store" /\ w.kind \in {"late", "reason"} => w.copy.known
        /\ w.pc = "check" => w.copy.known /\ w.copy.status = w.asked[w.at].status

(* The answers a call has behind it are saved, but for events answered to in     *)
(* another way meanwhile.                                                        *)
Behind(w) == IF w.pc = "answer" THEN DOMAIN w.asked ELSE {i \in DOMAIN w.asked : i < w.at}
BehindSaved(w) == \A i \in Behind(w) :
    att[w.asked[i].e][w.m].status = w.asked[i].status \/ w.asked[i].e \in w.others

Good(w) == Typed(w) /\ CopyHonest(w) /\ (w.pc # "idle" => BehindSaved(w))

AnswersInv ==
    /\ AtTypeOK /\ AllHonest /\ NoAnswerIsLost
    /\ \A c \in Writers : Good(writer[c])
-----------------------------------------------------------------------------
LEMMA RestIsTyped == Resting \in Locals /\ NoAnswer \in Documents /\ Honest(NoAnswer)
<1>1. NoAnswer \in Documents
  BY AttendancesAssumption DEF NoAnswer, Documents, Statuses
<1>2. Resting \in Locals
  BY <1>1 DEF Resting, Locals, Entries
<1>3. Honest(NoAnswer)
  BY DEF NoAnswer, Honest
<1> QED BY <1>1, <1>2, <1>3

LEMMA RestIsGood == Good(Resting)
BY RestIsTyped DEF Resting, Good, Typed, CopyHonest

LEMMA InitAnswersInv == AtInit => AnswersInv
<1> SUFFICES ASSUME AtInit PROVE AnswersInv
  OBVIOUS
<1>1. AtTypeOK
  BY RestIsTyped DEF AtInit, AtTypeOK, Locals, Resting
<1>2. AllHonest /\ NoAnswerIsLost
  BY RestIsTyped DEF AtInit, AllHonest, NoAnswerIsLost, NoAnswer
<1>3. \A c \in Writers : Good(writer[c])
  BY RestIsGood DEF AtInit
<1> QED BY <1>1, <1>2, <1>3 DEF AnswersInv

(* What being typed says of the parts of a call. *)
LEMMA Fields ==
    ASSUME NEW w, Typed(w)
    PROVE  /\ w.asked \in Seq(Entries) /\ w.at \in Nat \ {0} /\ w.others \subseteq Meetings
           /\ w.copy \in Documents /\ w.copy.history \in Seq(Statuses) /\ Len(w.copy.history) \in Nat
           /\ \A i \in DOMAIN w.asked : w.asked[i].e \in Meetings /\ w.asked[i].status \in Statuses
<1>1. w.asked \in Seq(Entries) /\ w.at \in Nat \ {0} /\ w.others \subseteq Meetings /\ w.copy \in Documents
  BY DEF Typed, Locals
<1>2. w.copy.history \in Seq(Statuses) /\ Len(w.copy.history) \in Nat
  BY <1>1 DEF Documents
<1>3. \A i \in DOMAIN w.asked : w.asked[i] \in Entries
  BY <1>1
<1> QED BY <1>1, <1>2, <1>3 DEF Entries

LEMMA HistoryIsFinite ==
    ASSUME NEW d \in Documents PROVE d.history \in Seq(Statuses) /\ Len(d.history) \in Nat
<1>1. d.history \in Seq(Statuses)
  BY DEF Documents
<1> QED BY <1>1

LEMMA OthersOnly ==
    ASSUME NEW w \in Locals, NEW e, NEW x, x = [w EXCEPT !.others = @ \cup {e}]
    PROVE  /\ x.pc = w.pc /\ x.m = w.m /\ x.asked = w.asked /\ x.at = w.at
           /\ x.others = w.others \cup {e}
BY DEF Locals
-----------------------------------------------------------------------------
(* A step of a call that saves nothing. *)
LEMMA LocalStep ==
    ASSUME AnswersInv, NEW c \in Writers, NEW w, Good(w),
           writer' = [writer EXCEPT ![c] = w],
           UNCHANGED <<open, att, answered, raced>>, asks' \in Nat
    PROVE  AnswersInv'
<1> USE DEF AnswersInv
<1>1. \A d \in Writers : writer'[d] = IF d = c THEN w ELSE writer[d]
  BY DEF AtTypeOK
<1>2. AtTypeOK'
  <2>1. w \in Locals /\ writer \in [Writers -> Locals]
    BY DEF Good, Typed, AtTypeOK, Locals
  <2>2. writer' \in [Writers -> Locals]
    BY <2>1
  <2>3. \A d \in Writers : Typed(writer'[d])
    BY <1>1 DEF Good
  <2> QED BY <2>2, <2>3 DEF AtTypeOK, Locals, Typed
<1>3. AllHonest' /\ NoAnswerIsLost'
  BY DEF AllHonest, NoAnswerIsLost
<1>4. \A d \in Writers : Good(writer'[d])
  BY <1>1
<1>5. \A d \in Writers : Good(writer[d])'
  BY <1>4 DEF Good, BehindSaved
<1> QED BY <1>2, <1>3, <1>5

(* A save: the document, and what the other calls see of it. *)
LEMMA SaveStep ==
    ASSUME AnswersInv, NEW c \in Writers, writer[c].pc \in {"store", "check"},
           NEW d \in Documents, Honest(d), Save(c, d),
           NEW w, Typed(w), CopyHonest(w),
           w.pc # "idle" => \A i \in Behind(w) :
               att'[w.asked[i].e][w.m].status = w.asked[i].status \/ w.asked[i].e \in w.others,
           writer' = [SeenBy(c, Entry(c).e, writer[c].m) EXCEPT ![c] = w],
           answered' \in [Meetings -> [Persons -> Nat]],
           \A e \in Meetings, m \in Persons :
               e # Entry(c).e \/ m # writer[c].m => answered'[e][m] = answered[e][m],
           answered'[Entry(c).e][writer[c].m] + Len(writer[c].copy.history)
               <= answered[Entry(c).e][writer[c].m] + Len(d.history),
           UNCHANGED <<open, asks>>
    PROVE  AnswersInv'
<1> USE DEF AnswersInv
<1> DEFINE f == Entry(c).e
           n == writer[c].m
<1>1. f \in Meetings /\ n \in Persons /\ writer[c] \in Locals
  <2>1. Typed(writer[c])
    BY DEF Good
  <2>2. writer[c].at \in DOMAIN writer[c].asked /\ writer[c].m \in Persons /\ writer[c] \in Locals
    BY <2>1 DEF Typed
  <2> QED BY <2>1, <2>2, Fields DEF Entry
<1>2. /\ att' = [att EXCEPT ![f][n] = d]
      /\ raced' = IF att[f][n] # writer[c].copy THEN raced \cup {<<f, n>>} ELSE raced
  BY DEF Save
<1>3. /\ att' \in [Meetings -> [Persons -> Documents]]
      /\ att'[f][n] = d
      /\ \A e \in Meetings, m \in Persons : e # f \/ m # n => att'[e][m] = att[e][m]
  BY <1>1, <1>2 DEF AtTypeOK
<1> HIDE DEF f, n
<1>4. \A k \in Writers : writer'[k] =
        IF k = c THEN w
        ELSE IF writer[k].m = n THEN [writer[k] EXCEPT !.others = @ \cup {f}] ELSE writer[k]
  BY DEF SeenBy, f, n
<1>5. \A k \in Writers : Typed(writer'[k])
  <2> SUFFICES ASSUME NEW k \in Writers, k # c PROVE Typed(writer'[k])
    BY <1>4
  <2>1. Typed(writer[k]) /\ writer[k] \in Locals
    BY DEF Good, Typed
  <2>2. [writer[k] EXCEPT !.others = @ \cup {f}] \in Locals
    BY <2>1, <1>1 DEF Locals
  <2>3. Typed([writer[k] EXCEPT !.others = @ \cup {f}])
    BY <2>1, <2>2 DEF Typed, Locals
  <2> QED BY <2>1, <2>3, <1>4
<1>6. AtTypeOK'
  <2>1. writer' \in [Writers -> Locals]
    <3>1. DOMAIN writer' = Writers /\ writer' = [k \in Writers |-> writer'[k]]
      BY DEF SeenBy
    <3> QED BY <3>1, <1>5 DEF Typed
  <2>2. raced' \subseteq Meetings \X Persons
    BY <1>1, <1>2 DEF AtTypeOK
  <2>3. /\ \A k \in Writers : writer'[k].pc # "idle" => writer'[k].m \in Persons
        /\ \A k \in Writers : writer'[k].pc \in {"store", "check"} =>
             writer'[k].at \in DOMAIN writer'[k].asked
    BY <1>5 DEF Typed
  <2>4. open' \subseteq Meetings /\ asks' \in Nat
    BY DEF AtTypeOK
  <2> QED BY <2>1, <2>2, <2>3, <2>4, <1>3 DEF AtTypeOK, Locals
<1>7. AllHonest'
  BY <1>3 DEF AllHonest
<1>8. NoAnswerIsLost'
  <2> SUFFICES ASSUME NEW e \in Meetings, NEW m \in Persons,
                      Len(att'[e][m].history) < answered'[e][m]
               PROVE <<e, m>> \in raced'
    BY DEF NoAnswerIsLost
  <2>1. CASE e # f \/ m # n
    BY <2>1, <1>2, <1>3 DEF NoAnswerIsLost, f, n
  <2>2. CASE e = f /\ m = n
    <3>1. CASE att[f][n] # writer[c].copy
      BY <3>1, <2>2, <1>2
    <3>2. CASE att[f][n] = writer[c].copy
      <4>1. /\ Len(d.history) \in Nat /\ Len(att[f][n].history) \in Nat
            /\ answered[f][n] \in Nat /\ answered'[f][n] \in Nat
        <5>1. att[f][n] \in Documents
          BY <1>1 DEF AtTypeOK
        <5>2. answered[f][n] \in Nat /\ answered'[f][n] \in Nat
          BY <1>1 DEF AtTypeOK
        <5> QED BY <5>1, <5>2, HistoryIsFinite
      <4>2. answered'[f][n] + Len(att[f][n].history) <= answered[f][n] + Len(d.history)
        BY <3>2 DEF f, n
      <4>3. Len(att[f][n].history) < answered[f][n]
        BY <4>1, <4>2, <2>2, <1>3
      <4> QED BY <4>3, <2>2, <1>1, <1>2 DEF NoAnswerIsLost
    <3> QED BY <3>1, <3>2
  <2> QED BY <2>1, <2>2
<1>9. \A k \in Writers : Good(writer[k])'
  <2> SUFFICES ASSUME NEW k \in Writers PROVE Good(writer[k])'
    OBVIOUS
  <2>1. CASE k = c
    <3>1. writer'[k] = w
      BY <2>1, <1>4
    <3>2. Typed(writer'[k]) /\ CopyHonest(writer'[k])
      BY <3>1
    <3>3. ASSUME writer'[k].pc # "idle", NEW i \in Behind(writer'[k])
          PROVE  \/ att'[writer'[k].asked[i].e][writer'[k].m].status = writer'[k].asked[i].status
                 \/ writer'[k].asked[i].e \in writer'[k].others
      BY <3>1, <3>3
    <3> QED BY <3>2, <3>3 DEF Good, CopyHonest, Typed, BehindSaved, Behind
  <2>2. CASE k # c
    <3>1. Good(writer[k])
      OBVIOUS
    <3>2. CopyHonest(writer'[k])
      <4>1. writer[k] \in Locals /\ CopyHonest(writer[k])
        BY <3>1 DEF Good, Typed
      <4>2. CopyHonest([writer[k] EXCEPT !.others = @ \cup {f}])
        BY <4>1 DEF CopyHonest, Locals
      <4> QED BY <4>1, <4>2, <2>2, <1>4
    <3>3. ASSUME writer'[k].pc # "idle", NEW i \in Behind(writer'[k])
          PROVE  \/ att'[writer'[k].asked[i].e][writer'[k].m].status = writer'[k].asked[i].status
                 \/ writer'[k].asked[i].e \in writer'[k].others
      <4>1. Typed(writer[k])
        BY <3>1 DEF Good
      <4>2. /\ writer'[k].pc = writer[k].pc /\ writer'[k].m = writer[k].m
            /\ writer'[k].asked = writer[k].asked /\ writer'[k].at = writer[k].at
            /\ writer[k].others \subseteq writer'[k].others
            /\ writer[k].m = n => f \in writer'[k].others
        <5>1. writer[k] \in Locals
          BY <4>1 DEF Typed
        <5>2. CASE writer[k].m = n
          <6>1. writer'[k] = [writer[k] EXCEPT !.others = @ \cup {f}]
            BY <5>2, <2>2, <1>4
          <6> QED BY <5>1, <6>1 DEF Locals
        <5>3. CASE writer[k].m # n
          BY <5>3, <2>2, <1>4
        <5> QED BY <5>2, <5>3
      <4>3. i \in Behind(writer[k]) /\ i \in DOMAIN writer[k].asked
        BY <3>3, <4>2 DEF Behind
      <4>4. writer[k].asked[i].e \in Meetings /\ writer[k].m \in Persons
        BY <3>3, <4>1, <4>2, <4>3, Fields DEF Typed
      <4>5. \/ att[writer[k].asked[i].e][writer[k].m].status = writer[k].asked[i].status
            \/ writer[k].asked[i].e \in writer[k].others
        BY <3>1, <3>3, <4>2, <4>3 DEF Good, BehindSaved
      <4>6. CASE writer[k].asked[i].e = f /\ writer[k].m = n
        BY <4>6, <4>2
      <4>7. CASE writer[k].asked[i].e # f \/ writer[k].m # n
        <5>1. att'[writer[k].asked[i].e][writer[k].m] = att[writer[k].asked[i].e][writer[k].m]
          BY <4>7, <4>4, <1>3
        <5> QED BY <5>1, <4>2, <4>5
      <4> QED BY <4>6, <4>7
    <3> QED BY <3>2, <3>3, <1>5 DEF Good, CopyHonest, Typed, BehindSaved, Behind
  <2> QED BY <2>1, <2>2
<1> QED BY <1>6, <1>7, <1>8, <1>9
-----------------------------------------------------------------------------
LEMMA CallBegins ==
    ASSUME AnswersInv, NEW c \in Writers, Begins(c),
           NEW kind \in {"tap", "late", "reason", "app", "office"}, NEW m \in Persons,
           NEW entries \in Seq(Entries), NEW proxy \in Persons \cup {Nobody, Stranger},
           Len(entries) >= 1,
           \A i, j \in DOMAIN entries : entries[i].e = entries[j].e => i = j,
           Called(c, kind, m, entries, proxy)
    PROVE  AnswersInv'
<1> DEFINE allowed == IF kind = "app" THEN open ELSE {}
           w == [Resting EXCEPT !.pc = "look", !.kind = kind, !.m = m, !.asked = entries,
                     !.proxy = proxy, !.allowed = allowed]
<1>1. /\ w.pc = "look" /\ w.kind = kind /\ w.m = m /\ w.asked = entries /\ w.at = 1
      /\ w.proxy = proxy /\ w.allowed = allowed /\ w.copy = NoAnswer /\ w.others = {}
  BY DEF Resting
<1>2. allowed \subseteq Meetings
  BY DEF AnswersInv, AtTypeOK
<1>3. w \in Locals
  BY <1>2, RestIsTyped DEF Locals, Resting
<1>4. 1 \in DOMAIN entries
  OBVIOUS
<1>5. writer' = [writer EXCEPT ![c] = w]
  BY DEF Called
<1>6. UNCHANGED <<open, att, answered, raced>> /\ asks' \in Nat
  BY DEF Begins, AnswersInv, AtTypeOK
<1> HIDE DEF w
<1>7. Good(w)
  <2>1. Typed(w)
    BY <1>1, <1>3, <1>4 DEF Typed
  <2>2. Behind(w) = {}
    BY <1>1 DEF Behind
  <2> QED BY <2>1, <2>2, <1>1 DEF Good, CopyHonest, BehindSaved
<1> QED BY <1>5, <1>6, <1>7, LocalStep

LEMMA OneEntry ==
    ASSUME NEW e \in Meetings, NEW s \in Statuses
    PROVE  LET a == <<[e |-> e, status |-> s]>> IN
           /\ a \in Seq(Entries) /\ Len(a) >= 1
           /\ \A i, j \in DOMAIN a : a[i].e = a[j].e => i = j
BY DEF Entries

LEMMA OnePage ==
    ASSUME NEW page \in Pages
    PROVE  /\ page \in Seq(Entries) /\ Len(page) >= 1
           /\ \A i, j \in DOMAIN page : page[i].e = page[j].e => i = j
<1> DEFINE X == [e : Meetings, status : Buttons]
<1>1. X \subseteq Entries
  BY AttendancesAssumption DEF Entries
<1>2. CASE \E x \in X : page = <<x>>
  BY <1>1, <1>2
<1>3. CASE page \in [1..2 -> X] /\ page[1].e # page[2].e
  <2>1. page[1] \in Entries /\ page[2] \in Entries /\ page = <<page[1], page[2]>>
    BY <1>1, <1>3
  <2>2. page \in Seq(Entries) /\ Len(page) = 2
    <3>1. \A x, y \in Entries : <<x, y>> \in Seq(Entries) /\ Len(<<x, y>>) = 2
      OBVIOUS
    <3> QED BY <2>1, <3>1, Zenon
  <2>3. DOMAIN page = 1..2
    BY <1>3
  <2> QED BY <2>2, <2>3, <1>3
<1> QED BY <1>2, <1>3 DEF Pages

LEMMA BeginsKeep ==
    ASSUME AnswersInv, NEW c \in Writers,
           TapAnswer(c) \/ TapFollowUp(c) \/ AnswerPage(c) \/ UpdateAttendance(c)
    PROVE  AnswersInv'
<1>1. Buttons \subseteq Statuses /\ "none" \in Statuses
  BY AttendancesAssumption DEF Statuses
<1>2. CASE TapAnswer(c)
  <2>1. PICK m \in Persons, e \in Meetings, s \in Buttons :
          Begins(c) /\ Called(c, "tap", m, <<[e |-> e, status |-> s]>>, Nobody)
    BY <1>2 DEF TapAnswer
  <2>2. s \in Statuses
    BY <1>1
  <2> QED BY <2>1, <2>2, OneEntry, CallBegins
<1>3. CASE TapFollowUp(c)
  <2>1. PICK m \in Persons, e \in Meetings, kind \in {"late", "reason"} :
          Begins(c) /\ Called(c, kind, m, <<[e |-> e, status |-> "none"]>>, Nobody)
    BY <1>3 DEF TapFollowUp
  <2> QED BY <2>1, <1>1, OneEntry, CallBegins
<1>4. CASE AnswerPage(c)
  <2>1. PICK m \in Persons, page \in Pages : Begins(c) /\ Called(c, "app", m, page, Nobody)
    BY <1>4 DEF AnswerPage
  <2> QED BY <2>1, OnePage, CallBegins
<1>5. CASE UpdateAttendance(c)
  <2>1. PICK m \in Persons, e \in Meetings, s \in Buttons \cup {"none"},
             proxy \in Persons \cup {Nobody, Stranger} :
          Begins(c) /\ Called(c, "office", m, <<[e |-> e, status |-> s]>>, proxy)
    BY <1>5 DEF UpdateAttendance
  <2>2. s \in Statuses
    BY <1>1
  <2> QED BY <2>1, <2>2, OneEntry, CallBegins
<1> QED BY <1>2, <1>3, <1>4, <1>5

(* A call that ends without a save. *)
LEMMA ReturnsKeep ==
    ASSUME AnswersInv, NEW c \in Writers, Returns(c), Kept
    PROVE  AnswersInv'
<1>1. UNCHANGED <<open, att, answered, raced>> /\ asks' \in Nat
  BY DEF Kept, AnswersInv, AtTypeOK
<1> QED BY <1>1, RestIsGood, LocalStep DEF Returns
-----------------------------------------------------------------------------
(* Where a call stands, and the document it looks at. *)
LEMMA AtEntry ==
    ASSUME AnswersInv, NEW c \in Writers, writer[c].pc \in {"look", "store", "check"}
    PROVE  /\ Typed(writer[c]) /\ writer[c] \in Locals
           /\ writer[c].at \in 1 .. Len(writer[c].asked) /\ Len(writer[c].asked) \in Nat
           /\ Entry(c).e \in Meetings /\ Entry(c).status \in Statuses
           /\ writer[c].m \in Persons
           /\ Current(c) \in Documents /\ Honest(Current(c))
<1>1. Typed(writer[c])
  BY DEF AnswersInv, Good
<1>2. writer[c] \in Locals /\ writer[c].at \in DOMAIN writer[c].asked /\ writer[c].m \in Persons
  BY <1>1 DEF Typed
<1>3. writer[c].asked \in Seq(Entries)
  BY <1>1, Fields
<1>4. Entry(c).e \in Meetings /\ Entry(c).status \in Statuses
  BY <1>1, <1>2, Fields DEF Entry
<1>5. Current(c) \in Documents /\ Honest(Current(c))
  BY <1>2, <1>4 DEF Current, AnswersInv, AtTypeOK, AllHonest
<1> QED BY <1>1, <1>2, <1>3, <1>4, <1>5

(* The answer a call stands at is behind it when it goes on. *)
LEMMA GoesOnToNext ==
    ASSUME AnswersInv, NEW c \in Writers, writer[c].pc \in {"look", "store"},
           writer[c].kind \notin {"late", "reason"},
           NEW w,
           w = TurnedOver(writer[c])
    PROVE  /\ Typed(w) /\ CopyHonest(w) /\ w.m = writer[c].m /\ w.asked = writer[c].asked
           /\ w.others = writer[c].others
           /\ Behind(w) = Behind(writer[c]) \cup {writer[c].at}
<1>1. /\ Typed(writer[c]) /\ writer[c] \in Locals
      /\ writer[c].at \in 1 .. Len(writer[c].asked) /\ Len(writer[c].asked) \in Nat
  BY AtEntry
<1>2. writer[c].asked \in Seq(Entries)
  BY <1>1, Fields
<1>3. /\ w \in Locals /\ w.m = writer[c].m /\ w.asked = writer[c].asked /\ w.kind = writer[c].kind
      /\ w.others = writer[c].others
      /\ IF writer[c].at < Len(writer[c].asked) THEN w.at = writer[c].at + 1 /\ w.pc = "look"
         ELSE w.at = writer[c].at /\ w.pc = "answer"
  <2>1. CASE writer[c].at < Len(writer[c].asked)
    <3>1. w = [writer[c] EXCEPT !.at = writer[c].at + 1, !.pc = "look", !.copy = NoAnswer]
      BY <2>1 DEF TurnedOver
    <3>2. writer[c].at + 1 \in Nat \ {0}
      BY <1>1
    <3> QED BY <1>1, <2>1, <3>1, <3>2, RestIsTyped DEF Locals
  <2>2. CASE ~(writer[c].at < Len(writer[c].asked))
    <3>1. w = [writer[c] EXCEPT !.pc = "answer", !.copy = NoAnswer]
      BY <2>2 DEF TurnedOver
    <3> QED BY <1>1, <2>2, <3>1, RestIsTyped DEF Locals
  <2> QED BY <2>1, <2>2
<1>4. Typed(w)
  BY <1>1, <1>2, <1>3 DEF Typed
<1>5. Behind(w) = Behind(writer[c]) \cup {writer[c].at}
  BY <1>1, <1>2, <1>3 DEF Behind
<1> QED BY <1>3, <1>4, <1>5 DEF CopyHonest

LEMMA SkipUnchangedKeeps ==
    ASSUME AnswersInv, NEW c \in Writers, SkipUnchanged(c)
    PROVE  AnswersInv'
<1> DEFINE w == TurnedOver(writer[c])
<1>1. writer[c].pc = "look" /\ writer[c].kind = "app" /\ Current(c).status = Entry(c).status
  BY DEF SkipUnchanged, IsAtStep, IsUnchanged
<1>2. writer' = [writer EXCEPT ![c] = w]
  BY DEF SkipUnchanged, AnswersInv, AtTypeOK
<1>3. UNCHANGED <<open, att, answered, raced>> /\ asks' \in Nat
  BY DEF SkipUnchanged, Kept, AnswersInv, AtTypeOK
<1>4. /\ Typed(w) /\ CopyHonest(w) /\ w.m = writer[c].m /\ w.asked = writer[c].asked
      /\ w.others = writer[c].others
      /\ Behind(w) = Behind(writer[c]) \cup {writer[c].at}
  BY <1>1, GoesOnToNext
<1> HIDE DEF w
<1>5. BehindSaved(writer[c])
  BY <1>1 DEF AnswersInv, Good
<1>6. BehindSaved(w)
  BY <1>1, <1>4, <1>5 DEF BehindSaved, Current, Entry
<1> QED BY <1>2, <1>3, <1>4, <1>6, LocalStep DEF Good

LEMMA LookKeeps ==
    ASSUME AnswersInv, NEW c \in Writers, Look(c)
    PROVE  AnswersInv'
<1> DEFINE w == [writer[c] EXCEPT !.pc = "store", !.copy = Current(c)]
<1>1. writer[c].pc = "look" /\ (writer[c].kind \in {"late", "reason"} => Current(c).known)
  BY DEF Look, IsAtStep
<1>2. writer' = [writer EXCEPT ![c] = w]
  BY DEF Look, AnswersInv, AtTypeOK
<1>3. UNCHANGED <<open, att, answered, raced>> /\ asks' \in Nat
  BY DEF Look, Kept, AnswersInv, AtTypeOK
<1>4. /\ Typed(writer[c]) /\ writer[c] \in Locals
      /\ Current(c) \in Documents /\ Honest(Current(c))
  BY <1>1, AtEntry
<1>5. /\ w \in Locals /\ w.pc = "store" /\ w.copy = Current(c) /\ w.m = writer[c].m
      /\ w.asked = writer[c].asked /\ w.at = writer[c].at /\ w.kind = writer[c].kind
      /\ w.others = writer[c].others
  BY <1>4 DEF Locals
<1> HIDE DEF w
<1>6. Typed(w) /\ CopyHonest(w)
  BY <1>1, <1>4, <1>5 DEF Typed, CopyHonest
<1>7. BehindSaved(writer[c])
  BY <1>1 DEF AnswersInv, Good
<1>8. BehindSaved(w)
  BY <1>1, <1>5, <1>7 DEF BehindSaved, Behind
<1> QED BY <1>2, <1>3, <1>6, <1>8, LocalStep DEF Good
-----------------------------------------------------------------------------
(* What the steps that save have in common: the call is at an answer, and it     *)
(* still holds what it looked at.                                                *)
LEMMA AtSave ==
    ASSUME AnswersInv, NEW c \in Writers, writer[c].pc \in {"store", "check"}
    PROVE  /\ writer[c].copy \in Documents /\ Honest(writer[c].copy)
           /\ Len(writer[c].copy.history) \in Nat /\ writer[c].copy.history \in Seq(Statuses)
           /\ answered[Entry(c).e][writer[c].m] \in Nat
<1>1. Typed(writer[c]) /\ Entry(c).e \in Meetings /\ writer[c].m \in Persons
  BY AtEntry
<1>2. Honest(writer[c].copy)
  BY DEF AnswersInv, Good, CopyHonest
<1>3. answered[Entry(c).e][writer[c].m] \in Nat
  BY <1>1 DEF AnswersInv, AtTypeOK
<1> QED BY <1>1, <1>2, <1>3, Fields

(* A call that saves and is over. *)
LEMMA SaveAndRest ==
    ASSUME AnswersInv, NEW c \in Writers, writer[c].pc \in {"store", "check"},
           NEW d \in Documents, Honest(d), d.history = writer[c].copy.history, Save(c, d),
           writer' = [SeenBy(c, Entry(c).e, writer[c].m) EXCEPT ![c] = Resting],
           UNCHANGED <<open, answered, asks>>
    PROVE  AnswersInv'
<1>1. Typed(Resting) /\ CopyHonest(Resting) /\ Resting.pc = "idle"
  BY RestIsGood DEF Good, Resting
<1>2. answered' \in [Meetings -> [Persons -> Nat]]
  BY DEF AnswersInv, AtTypeOK
<1>3. answered'[Entry(c).e][writer[c].m] + Len(writer[c].copy.history)
        <= answered[Entry(c).e][writer[c].m] + Len(d.history)
  BY AtSave
<1> QED BY <1>1, <1>2, <1>3, SaveStep

LEMMA FollowUpKeeps ==
    ASSUME AnswersInv, NEW c \in Writers, FollowUp(c)
    PROVE  AnswersInv'
<1> DEFINE b == writer[c].copy
           d == IF writer[c].kind = "late" THEN [b EXCEPT !.late = TRUE] ELSE [b EXCEPT !.reason = TRUE]
<1>1. writer[c].pc = "store" /\ writer[c].kind \in {"late", "reason"}
  BY DEF FollowUp, IsAtStep
<1>2. b \in Documents /\ Honest(b)
  BY <1>1, AtSave
<1>3. b.known
  BY <1>1 DEF AnswersInv, Good, CopyHonest
<1>4. /\ d \in Documents /\ d.history = b.history /\ d.known = b.known /\ d.status = b.status
      /\ d.proxy = b.proxy
  <2>1. CASE writer[c].kind = "late"
    BY <2>1, <1>2 DEF Documents
  <2>2. CASE writer[c].kind # "late"
    BY <2>2, <1>2 DEF Documents
  <2> QED BY <2>1, <2>2
<1>5. /\ Save(c, d) /\ UNCHANGED <<open, answered, asks>>
      /\ writer' = [SeenBy(c, Entry(c).e, writer[c].m) EXCEPT ![c] = Resting]
  BY DEF FollowUp
<1> HIDE DEF d
<1>6. Honest(d)
  BY <1>2, <1>3, <1>4 DEF Honest
<1> QED BY <1>1, <1>4, <1>5, <1>6, SaveAndRest

LEMMA SetProxyKeeps ==
    ASSUME AnswersInv, NEW c \in Writers, SetProxy(c)
    PROVE  AnswersInv'
<1> DEFINE b == writer[c].copy
           d == [b EXCEPT !.proxy = writer[c].proxy]
<1>1. writer[c].pc = "check" /\ writer[c].proxy \in Persons /\ Entry(c).status = "proxy"
  BY DEF SetProxy, IsAtStep, IsProxy
<1>2. b \in Documents /\ Honest(b) /\ Len(b.history) \in Nat /\ b.history \in Seq(Statuses)
  BY <1>1, AtSave
<1>3. b.known /\ b.status = "proxy"
  BY <1>1 DEF AnswersInv, Good, CopyHonest, Entry
<1>4. /\ d \in Documents /\ d.history = b.history /\ d.known = b.known /\ d.status = b.status
  BY <1>1, <1>2 DEF Documents
<1>5. /\ Save(c, d) /\ UNCHANGED <<open, answered, asks>>
      /\ writer' = [SeenBy(c, Entry(c).e, writer[c].m) EXCEPT ![c] = Resting]
  BY DEF SetProxy
<1> HIDE DEF d
<1>6. b.history # <<>> /\ b.history[Len(b.history)] = "proxy"
  BY <1>2, <1>3 DEF Honest
<1>7. Len(b.history) \in DOMAIN b.history
  BY <1>2, <1>6
<1>8. Honest(d)
  BY <1>2, <1>3, <1>4, <1>6, <1>7 DEF Honest
<1> QED BY <1>1, <1>4, <1>5, <1>8, SaveAndRest
-----------------------------------------------------------------------------
(* An answer added to an honest document makes an honest one. *)
LEMMA RecordedIsHonest ==
    ASSUME NEW b \in Documents, NEW s \in Statuses, Honest(b)
    PROVE  LET d == Recorded(b, s) IN
           /\ d \in Documents /\ Honest(d) /\ d.known /\ d.status = s
           /\ Len(d.history) = Len(b.history) + 1
<1> DEFINE d == Recorded(b, s)
           h == Append(b.history, s)
<1>1. b.history \in Seq(Statuses) /\ Len(b.history) \in Nat
  BY HistoryIsFinite
<1>2. /\ h \in Seq(Statuses) /\ Len(h) = Len(b.history) + 1 /\ h[Len(h)] = s /\ h # <<>>
      /\ \A i \in DOMAIN b.history : i \in DOMAIN h /\ h[i] = b.history[i]
  BY <1>1
<1> HIDE DEF h
<1>3. /\ d.known /\ d.status = s /\ d.history = h /\ d.proxy = b.proxy /\ d \in Documents
  BY <1>2 DEF Recorded, Documents, h
<1> HIDE DEF d
<1>4. Honest(d)
  BY <1>2, <1>3 DEF Honest
<1> QED BY <1>2, <1>3, <1>4 DEF d

LEMMA RecordKeeps ==
    ASSUME AnswersInv, NEW c \in Writers, RecordAttendance(c)
    PROVE  AnswersInv'
<1> DEFINE e == Entry(c).e
           m == writer[c].m
           s == Entry(c).status
           b == writer[c].copy
           d == Recorded(b, s)
           next == TurnedOver(writer[c])
           w == IF writer[c].kind = "office" /\ writer[c].proxy # Nobody
                THEN [writer[c] EXCEPT !.pc = "check", !.copy = d] ELSE next
<1>1. writer[c].pc = "store" /\ writer[c].kind \notin {"late", "reason"}
  BY DEF RecordAttendance, IsAtStep
<1>2. /\ Typed(writer[c]) /\ writer[c] \in Locals /\ writer[c].at \in DOMAIN writer[c].asked
      /\ e \in Meetings /\ s \in Statuses /\ m \in Persons
  BY <1>1, AtEntry DEF Typed
<1>3. b \in Documents /\ Honest(b) /\ Len(b.history) \in Nat /\ answered[e][m] \in Nat
  BY <1>1, AtSave
<1>4. /\ d \in Documents /\ Honest(d) /\ d.known /\ d.status = s
      /\ Len(d.history) = Len(b.history) + 1
  BY <1>2, <1>3, RecordedIsHonest
<1>5. /\ Save(c, d) /\ UNCHANGED <<open, asks>>
      /\ answered' = [answered EXCEPT ![e][m] = @ + 1]
  BY DEF RecordAttendance
<1>6. writer' = [SeenBy(c, e, m) EXCEPT ![c] = w]
  <2>1. SeenBy(c, e, m)[c] = writer[c]
    BY DEF SeenBy
  <2> QED BY <2>1 DEF RecordAttendance
<1>7. /\ answered' \in [Meetings -> [Persons -> Nat]]
      /\ answered'[e][m] = answered[e][m] + 1
      /\ \A f \in Meetings, n \in Persons : f # e \/ n # m => answered'[f][n] = answered[f][n]
  BY <1>2, <1>3, <1>5 DEF AnswersInv, AtTypeOK
<1>8. att' \in [Meetings -> [Persons -> Documents]] /\ att'[e][m] = d
      /\ \A f \in Meetings : f # e => att'[f] = att[f]
  BY <1>2, <1>4, <1>5 DEF Save, AnswersInv, AtTypeOK
<1> HIDE DEF d
<1>9. /\ Typed(w) /\ CopyHonest(w) /\ w.m = m /\ w.asked = writer[c].asked
      /\ w.others = writer[c].others
      /\ Behind(w) \subseteq Behind(writer[c]) \cup {writer[c].at}
  <2>1. CASE writer[c].kind = "office" /\ writer[c].proxy # Nobody
    <3>1. w = [writer[c] EXCEPT !.pc = "check", !.copy = d]
      BY <2>1
    <3>2. /\ w \in Locals /\ w.pc = "check" /\ w.copy = d /\ w.m = m /\ w.asked = writer[c].asked
          /\ w.at = writer[c].at /\ w.kind = writer[c].kind /\ w.others = writer[c].others
      BY <3>1, <1>2, <1>4 DEF Locals
    <3> HIDE DEF w
    <3>3. Typed(w)
      BY <3>2, <1>1, <1>2 DEF Typed
    <3>4. CopyHonest(w)
      BY <3>2, <1>4 DEF CopyHonest, Entry
    <3>5. Behind(w) = Behind(writer[c])
      BY <3>2, <1>1 DEF Behind
    <3> QED BY <3>2, <3>3, <3>4, <3>5
  <2>2. CASE ~(writer[c].kind = "office" /\ writer[c].proxy # Nobody)
    <3>1. w = next
      BY <2>2
    <3>2. /\ Typed(next) /\ CopyHonest(next) /\ next.m = m /\ next.asked = writer[c].asked
          /\ next.others = writer[c].others
          /\ Behind(next) = Behind(writer[c]) \cup {writer[c].at}
      BY <1>1, GoesOnToNext
    <3> HIDE DEF w, next
    <3> QED BY <3>1, <3>2
  <2> QED BY <2>1, <2>2
<1> HIDE DEF w, next
<1>10. ASSUME NEW i \in Behind(w)
       PROVE  att'[w.asked[i].e][w.m].status = w.asked[i].status \/ w.asked[i].e \in w.others
  <2>1. CASE i = writer[c].at
    BY <2>1, <1>4, <1>8, <1>9 DEF Entry
  <2>2. CASE i # writer[c].at
    <3>1. i \in Behind(writer[c]) /\ i \in DOMAIN writer[c].asked
      BY <1>10, <2>2, <1>9 DEF Behind
    <3>2. writer[c].asked[i].e # e /\ writer[c].asked[i].e \in Meetings
      BY <2>2, <3>1, <1>2, Fields DEF Typed, Entry
    <3>3. att[writer[c].asked[i].e][m].status = writer[c].asked[i].status
          \/ writer[c].asked[i].e \in writer[c].others
      BY <3>1, <1>1 DEF AnswersInv, Good, BehindSaved
    <3> QED BY <3>2, <3>3, <1>8, <1>9
  <2> QED BY <2>1, <2>2
<1>11. answered'[e][m] + Len(b.history) <= answered[e][m] + Len(d.history)
  BY <1>3, <1>4, <1>7
<1> QED BY <1>1, <1>4, <1>5, <1>6, <1>7, <1>9, <1>10, <1>11, SaveStep
-----------------------------------------------------------------------------
LEMMA ShutKeeps ==
    ASSUME AnswersInv, ShutMeeting
    PROVE  AnswersInv'
<1>1. open' \subseteq Meetings /\ UNCHANGED <<att, writer, answered, raced, asks>>
  BY DEF ShutMeeting, AnswersInv, AtTypeOK
<1>2. AtTypeOK' /\ AllHonest' /\ NoAnswerIsLost'
  BY <1>1 DEF AnswersInv, AtTypeOK, AllHonest, NoAnswerIsLost
<1>3. \A c \in Writers : Good(writer[c])'
  BY <1>1 DEF AnswersInv, Good, BehindSaved
<1> QED BY <1>2, <1>3 DEF AnswersInv

LEMMA AnswersInvStep == AnswersInv /\ [AtNext]_attvars => AnswersInv'
<1> SUFFICES ASSUME AnswersInv, [AtNext]_attvars PROVE AnswersInv'
  OBVIOUS
<1>1. CASE ShutMeeting
  BY <1>1, ShutKeeps
<1>2. ASSUME NEW c \in Writers,
             TapAnswer(c) \/ TapFollowUp(c) \/ AnswerPage(c) \/ UpdateAttendance(c)
      PROVE  AnswersInv'
  BY <1>2, BeginsKeep
<1>3. ASSUME NEW c \in Writers, RefusePage(c) \/ NothingToAdd(c) \/ RefuseProxy(c) \/ Answer(c)
      PROVE  AnswersInv'
  BY <1>3, ReturnsKeep DEF RefusePage, NothingToAdd, RefuseProxy, Answer
<1>4. ASSUME NEW c \in Writers, SkipUnchanged(c) PROVE AnswersInv'
  BY <1>4, SkipUnchangedKeeps
<1>5. ASSUME NEW c \in Writers, Look(c) PROVE AnswersInv'
  BY <1>5, LookKeeps
<1>6. ASSUME NEW c \in Writers, RecordAttendance(c) PROVE AnswersInv'
  BY <1>6, RecordKeeps
<1>7. ASSUME NEW c \in Writers, FollowUp(c) PROVE AnswersInv'
  BY <1>7, FollowUpKeeps
<1>8. ASSUME NEW c \in Writers, SetProxy(c) PROVE AnswersInv'
  BY <1>8, SetProxyKeeps
<1>9. CASE UNCHANGED attvars
  <2>1. UNCHANGED <<open, att, writer, answered, raced, asks>>
    BY <1>9 DEF attvars
  <2>2. AtTypeOK' /\ AllHonest' /\ NoAnswerIsLost'
    BY <2>1 DEF AnswersInv, AtTypeOK, AllHonest, NoAnswerIsLost
  <2>3. \A c \in Writers : Good(writer[c])'
    BY <2>1 DEF AnswersInv, Good, BehindSaved
  <2> QED BY <2>2, <2>3 DEF AnswersInv
<1> QED BY <1>1, <1>2, <1>3, <1>4, <1>5, <1>6, <1>7, <1>8, <1>9 DEF AtNext

LEMMA AnswersFollow == AnswersInv => AtTypeOK /\ AnswersAreTrue
<1> SUFFICES ASSUME AnswersInv PROVE AtTypeOK /\ AnswersAreTrue
  OBVIOUS
<1>1. StatusIsTheLastAnswer /\ ProxyWasDelegated
  BY DEF AnswersInv, AllHonest, Honest, StatusIsTheLastAnswer, ProxyWasDelegated
<1>2. AcceptedIsSaved
  <2> SUFFICES ASSUME NEW c \in Writers, IsAtStep(c, "answer"), NEW i \in DOMAIN writer[c].asked
               PROVE  LET x == writer[c].asked[i] IN
                      att[x.e][writer[c].m].status = x.status \/ x.e \in writer[c].others
    BY DEF AcceptedIsSaved
  <2> QED BY DEF IsAtStep, AnswersInv, Good, BehindSaved, Behind
<1> QED BY <1>1, <1>2 DEF AnswersInv, AnswersAreTrue

(* Documents and locals have their types, for any members, events and calls.     *)
THEOREM AttendanceTypes == AtSpec => []AtTypeOK
<1>1. AnswersInv => AtTypeOK
  BY AnswersFollow
<1> QED BY <1>1, InitAnswersInv, AnswersInvStep, PTL DEF AtSpec

(* What is on record of the answers is what the members answered, by a button, a *)
(* page or the office, but where an older copy was saved over an answer          *)
(* (attendance.py:31-66, liff_api.py:134-152, admin_api.py:325-334).             *)
THEOREM AnswersHold == AtSpec => []AnswersAreTrue
<1>1. AnswersInv => AnswersAreTrue
  BY AnswersFollow
<1> QED BY <1>1, InitAnswersInv, AnswersInvStep, PTL DEF AtSpec
-----------------------------------------------------------------------------
(* The index of the Drive.                                                     *)

(* A text is read once by a set of rows; and two sets that have one in common  *)
(* are known to have it.                                                       *)
Single(R) == \A c, d \in R : SameId(c, d) => c = d
Apart(R, S) == \A c \in R, d \in S : SameId(c, d) => c.source \in twice

(* What a tick has listed is still so, and the texts it has read are of the     *)
(* versions it listed, but for the files that were touched since.              *)
Listed(w) == \A x \in w.files \cup w.changed \cup w.moved :
    x.f \notin w.stale => drive[x.f].there /\ drive[x.f].place = x.place /\ drive[x.f].v = x.v
ReadAsListed(w) == \A c \in w.copied :
    c.entry.f \notin w.stale => c.text = c.entry.v /\ c.entry.place \in lain[c.entry.f][c.text]

DriveIsRemembered == \A f \in Drives : drive[f].there => drive[f].place \in lain[f][drive[f].v]

RowIsTrue(f) == document[f].there /\ f \notin outrun =>
    document[f].text = document[f].v /\ document[f].access \in lain[f][document[f].text]

CopyInv ==
    /\ DriveIsRemembered
    /\ \A f \in Drives : RowIsTrue(f)
    /\ \A t \in Rounds : round[t].pc # "idle" => Listed(round[t]) /\ ReadAsListed(round[t])

CurrentInv == \A c \in chunks \cup UnderWay : IsCurrent(c) \/ c.source \in dirty

OnceInv ==
    /\ \A t \in Rounds : Single(round[t].rows)
    /\ \A R \in inserting : Single(R)
    /\ \A s, t \in Rounds : s # t => Apart(round[s].rows, round[t].rows)
    /\ \A t \in Rounds : \A R \in inserting : Apart(round[t].rows, R)
    /\ \A R, S \in inserting : R # S => Apart(R, S)
    /\ Apart(chunks, UnderWay)
    /\ OneChunkPerText

(* A tick's locals are typed, and tell the truth. *)
GoodRound(w) ==
    /\ w \in RoundDocs
    /\ IsFiniteSet(w.copied) /\ Cardinality(w.copied) <= Batch
    /\ w.pc # "idle" => Listed(w) /\ ReadAsListed(w)

KnTyped ==
    /\ drive \in [Drives -> FileDocs] /\ document \in [Drives -> DocumentRows]
    /\ talk \in [Talks -> {"none", "sent", "unsent"}]
    /\ chunks \subseteq Chunks /\ inserting \subseteq SUBSET Chunks
    /\ round \in [Rounds -> RoundDocs]
    /\ lain \in [Drives -> [Versions -> SUBSET Places]]
    /\ outrun \subseteq Drives
    /\ dirty \cup twice \subseteq Drives \cup Talks
    /\ edits \in Nat /\ troubles \in Nat

CopyIsTrue ==
    /\ KnTyped
    /\ \A t \in Rounds : GoodRound(round[t])
    /\ DriveIsRemembered
    /\ \A f \in Drives : RowIsTrue(f)

(* Tick t goes on with the locals w. *)
RoundTurns(t, w) == GoodRound(w) /\ round' = [round EXCEPT ![t] = w]

LEMMA WaitingIsGood ==
    /\ GoodRound(Waiting) /\ GoodRound([Waiting EXCEPT !.pc = "cleanup"])
    /\ Waiting.rows = {} /\ [Waiting EXCEPT !.pc = "cleanup"].rows = {}
<1>1. IsFiniteSet({}) /\ Cardinality({}) = 0
  BY FS_EmptySet
<1>2. Waiting \in RoundDocs /\ [Waiting EXCEPT !.pc = "cleanup"] \in RoundDocs
  BY DEF Waiting, RoundDocs
<1> QED BY <1>1, <1>2, KnowledgeAssumption DEF GoodRound, Listed, ReadAsListed, Waiting

LEMMA KnInitIsTrue == KnInit => CopyIsTrue /\ CurrentInv /\ OnceInv
<1> SUFFICES ASSUME KnInit PROVE CopyIsTrue /\ CurrentInv /\ OnceInv
  OBVIOUS
<1>1. \A t \in Rounds : round[t] = Waiting
  BY DEF KnInit
<1>2. round \in [Rounds -> RoundDocs] /\ \A t \in Rounds : GoodRound(round[t])
  BY <1>1, WaitingIsGood DEF KnInit, GoodRound
<1>3. 0 \in Versions
  BY KnowledgeAssumption DEF Versions
<1>4. /\ drive \in [Drives -> FileDocs] /\ document \in [Drives -> DocumentRows]
      /\ lain \in [Drives -> [Versions -> SUBSET Places]]
  BY <1>3 DEF KnInit, FileDocs, DocumentRows, NoDocument, Places, Accesses
<1>5. CopyIsTrue
  BY <1>2, <1>4 DEF KnInit, CopyIsTrue, KnTyped, DriveIsRemembered, RowIsTrue, NoDocument
<1>6. UnderWay = {} /\ \A t \in Rounds : round[t].rows = {}
  BY <1>1, WaitingIsGood DEF KnInit, UnderWay
<1>7. CurrentInv
  BY <1>6 DEF CurrentInv, KnInit
<1>8. OnceInv
  BY <1>6 DEF OnceInv, KnInit, Single, Apart, OneChunkPerText
<1> QED BY <1>5, <1>7, <1>8

(* A step of a tick that leaves the files alone, and the rows true *)
LEMMA RoundGoesOn ==
    ASSUME CopyIsTrue, NEW t \in Rounds, NEW w, RoundTurns(t, w), UNCHANGED <<drive, lain>>
    PROVE  /\ round' \in [Rounds -> RoundDocs]
           /\ \A s \in Rounds : GoodRound(round[s])'
           /\ DriveIsRemembered'
<1>1. round' \in [Rounds -> RoundDocs]
  BY DEF RoundTurns, CopyIsTrue, KnTyped, GoodRound
<1>2. ASSUME NEW s \in Rounds PROVE GoodRound(round[s])'
  <2>1. GoodRound(round'[s])
    BY DEF RoundTurns, CopyIsTrue, KnTyped
  <2> QED BY <2>1 DEF GoodRound, Listed, ReadAsListed
<1> QED BY <1>1, <1>2 DEF CopyIsTrue, DriveIsRemembered

(* People                                                                     *)
LEMMA BecomesKeeps ==
    ASSUME CopyIsTrue, NEW f \in Drives, NEW d \in FileDocs, Becomes(f, d), edits' \in Nat
    PROVE  CopyIsTrue'
<1>1. /\ drive' = [drive EXCEPT ![f] = d] /\ UNCHANGED <<talk, troubles, tables>>
      /\ lain' = [lain EXCEPT ![f][d.v] = lain[f][d.v] \cup {d.place}]
  BY DEF Becomes
<1>2. d.v \in Versions /\ d.place \in Places
  BY DEF FileDocs
<1>3. /\ drive' \in [Drives -> FileDocs] /\ drive'[f] = d
      /\ \A g \in Drives : g # f => drive'[g] = drive[g]
  BY <1>1 DEF CopyIsTrue, KnTyped
<1>4. /\ lain' \in [Drives -> [Versions -> SUBSET Places]]
      /\ \A g \in Drives, v \in Versions : lain[g][v] \subseteq lain'[g][v]
      /\ d.place \in lain'[f][d.v]
  BY <1>1, <1>2 DEF CopyIsTrue, KnTyped
<1>5. ASSUME NEW t \in Rounds
      PROVE  round'[t] \in RoundDocs /\ GoodRound(round[t])'
  <2> DEFINE w == round[t]
  <2>1. w \in RoundDocs /\ GoodRound(w)
    BY DEF CopyIsTrue, KnTyped
  <2>2. CASE w.pc = "idle"
    BY <2>1, <2>2 DEF Becomes, GoodRound
  <2>3. CASE w.pc # "idle"
    <3>1. PICK n : n = [w EXCEPT !.stale = w.stale \cup {f}]
      OBVIOUS
    <3>2. /\ n \in RoundDocs /\ n.stale = w.stale \cup {f} /\ n.files = w.files
          /\ n.changed = w.changed /\ n.moved = w.moved /\ n.copied = w.copied
      BY <2>1, <3>1 DEF RoundDocs
    <3>3. round'[t] = n
      BY <2>3, <3>1 DEF Becomes
    <3>4. ASSUME NEW x \in n.files \cup n.changed \cup n.moved, x.f \notin n.stale
          PROVE  drive'[x.f].there /\ drive'[x.f].place = x.place /\ drive'[x.f].v = x.v
      <4>1. x \in Listings
        BY <2>1, <3>2, <3>4 DEF RoundDocs
      <4>2. x.f \in Drives /\ x.f # f /\ x.f \notin w.stale
        BY <3>2, <3>4, <4>1 DEF Listings
      <4> QED BY <1>3, <2>1, <2>3, <3>2, <3>4, <4>2 DEF GoodRound, Listed
    <3>5. ASSUME NEW c \in n.copied, c.entry.f \notin n.stale
          PROVE  c.text = c.entry.v /\ c.entry.place \in lain'[c.entry.f][c.text]
      <4>1. c \in Copied
        BY <2>1, <3>2, <3>5 DEF RoundDocs
      <4>2. c.entry.f \in Drives /\ c.text \in Versions /\ c.entry.f \notin w.stale
        BY <3>2, <3>5, <4>1 DEF Copied, Listings
      <4> QED BY <1>4, <2>1, <2>3, <3>2, <3>5, <4>2 DEF GoodRound, ReadAsListed
    <3> QED BY <2>1, <3>2, <3>3, <3>4, <3>5 DEF GoodRound, Listed, ReadAsListed
  <2> QED BY <2>2, <2>3
<1>6. round' \in [Rounds -> RoundDocs]
  BY <1>5 DEF Becomes
<1>7. DriveIsRemembered'
  BY <1>2, <1>3, <1>4 DEF DriveIsRemembered, CopyIsTrue, KnTyped, FileDocs
<1>8. ASSUME NEW g \in Drives PROVE RowIsTrue(g)'
  <2>1. document'[g] = document[g] /\ document[g].text \in Versions /\ outrun' = outrun
    BY <1>1 DEF tables, CopyIsTrue, KnTyped, DocumentRows
  <2> QED BY <1>4, <2>1 DEF CopyIsTrue, RowIsTrue
<1> QED BY <1>1, <1>3, <1>4, <1>5, <1>6, <1>7, <1>8 DEF CopyIsTrue, KnTyped, tables

LEMMA PeopleAreTrue ==
    ASSUME CopyIsTrue, WriteDrive \/ MoveDrive \/ TrashDrive \/ Converse
    PROVE  CopyIsTrue'
<1>1. CASE WriteDrive
  <2>1. PICK f \in Drives, p \in Places :
          /\ edits < MaxEdits /\ edits' = edits + 1
          /\ Becomes(f, [there |-> TRUE, place |-> p, v |-> edits + 1])
    BY <1>1 DEF WriteDrive, Touches
  <2>2. edits + 1 \in Versions /\ edits' \in Nat
    BY <2>1, KnowledgeAssumption DEF Versions, CopyIsTrue, KnTyped
  <2>3. [there |-> TRUE, place |-> p, v |-> edits + 1] \in FileDocs
    BY <2>2 DEF FileDocs
  <2> QED BY <2>1, <2>2, <2>3, BecomesKeeps
<1>2. CASE MoveDrive
  <2>1. PICK f \in Drives, p \in Places :
          edits' = edits + 1 /\ Becomes(f, [drive[f] EXCEPT !.place = p])
    BY <1>2 DEF MoveDrive, Touches
  <2>2. drive[f] \in FileDocs /\ edits' \in Nat
    BY <2>1 DEF CopyIsTrue, KnTyped
  <2>3. [drive[f] EXCEPT !.place = p] \in FileDocs
    BY <2>2 DEF FileDocs
  <2> QED BY <2>1, <2>2, <2>3, BecomesKeeps
<1>3. CASE TrashDrive
  <2>1. PICK f \in Drives :
          edits' = edits + 1 /\ Becomes(f, [drive[f] EXCEPT !.there = FALSE])
    BY <1>3 DEF TrashDrive, Touches
  <2>2. drive[f] \in FileDocs /\ edits' \in Nat
    BY <2>1 DEF CopyIsTrue, KnTyped
  <2>3. [drive[f] EXCEPT !.there = FALSE] \in FileDocs
    BY <2>2 DEF FileDocs
  <2> QED BY <2>1, <2>2, <2>3, BecomesKeeps
<1>4. CASE Converse
  <2>1. PICK m \in Talks :
          /\ edits' = edits + 1
          /\ \/ talk' = [talk EXCEPT ![m] = "sent"] /\ UNCHANGED dirty
             \/ talk' = [talk EXCEPT ![m] = "unsent"] /\ dirty' = dirty \cup {m}
    BY <1>4 DEF Converse, Touches
  <2>2. UNCHANGED <<drive, document, chunks, inserting, round, lain, outrun, twice, troubles>>
    BY <1>4 DEF Converse
  <2>3. talk' \in [Talks -> {"none", "sent", "unsent"}] /\ edits' \in Nat
        /\ dirty' \cup twice' \subseteq Drives \cup Talks
    BY <2>1, <2>2 DEF CopyIsTrue, KnTyped
  <2>4. \A t \in Rounds : GoodRound(round[t])'
    BY <2>2 DEF CopyIsTrue, GoodRound, Listed, ReadAsListed
  <2> QED BY <2>2, <2>3, <2>4 DEF CopyIsTrue, KnTyped, DriveIsRemembered, RowIsTrue
<1> QED BY <1>1, <1>2, <1>3, <1>4

(* The steps of a tick that touch no table *)
LEMMA CrawlTurns ==
    ASSUME CopyIsTrue, NEW t \in Rounds, Crawl(t)
    PROVE  \E w : RoundTurns(t, w) /\ w.rows = round[t].rows
<1> DEFINE r == round[t]
<1>1. r \in RoundDocs /\ GoodRound(r) /\ r.pc = "crawl"
  BY DEF CopyIsTrue, KnTyped, Crawl, IsIn
<1>2. PICK p \in r.todo :
        round' = [round EXCEPT ![t].todo = r.todo \ {p}, ![t].files = r.files \cup
         {[f |-> f, place |-> p, v |-> drive[f].v] :
             f \in {g \in Drives : drive[g].there /\ drive[g].place = p}}]
  BY DEF Crawl
<1> DEFINE new == {[f |-> f, place |-> p, v |-> drive[f].v] :
                       f \in {g \in Drives : drive[g].there /\ drive[g].place = p}}
<1>3. PICK w : w = [r EXCEPT !.todo = r.todo \ {p}, !.files = r.files \cup new]
  OBVIOUS
<1>4. p \in Accesses /\ new \subseteq Listings
  BY <1>1, <1>2 DEF RoundDocs, Listings, CopyIsTrue, KnTyped, FileDocs
<1>5. \A x \in new : drive[x.f].there /\ drive[x.f].place = x.place /\ drive[x.f].v = x.v
  OBVIOUS
<1>6. PICK n : n = new
  OBVIOUS
<1>7. /\ w \in RoundDocs /\ w.files = r.files \cup n /\ w.changed = r.changed
      /\ w.moved = r.moved /\ w.copied = r.copied /\ w.stale = r.stale /\ w.rows = r.rows
      /\ w.pc = "crawl"
  BY <1>1, <1>3, <1>4, <1>6 DEF RoundDocs
<1>8. round' = [round EXCEPT ![t] = w]
  BY <1>1, <1>2, <1>3 DEF CopyIsTrue, KnTyped, RoundDocs
<1>9. Listed(w)
  BY <1>1, <1>5, <1>6, <1>7 DEF GoodRound, Listed
<1>10. GoodRound(w)
  BY <1>1, <1>7, <1>9 DEF GoodRound, ReadAsListed
<1> QED BY <1>7, <1>8, <1>10 DEF RoundTurns

LEMMA CompareTurns ==
    ASSUME CopyIsTrue, NEW t \in Rounds, Compare(t)
    PROVE  \E w : RoundTurns(t, w) /\ w.rows = round[t].rows
<1> DEFINE r == round[t]
           shifted == {x \in r.files : ~IsNew(x) /\ document[x.f].access # x.place}
           changed == {x \in r.files : IsNew(x)}
           gone == {f \in Drives : document[f].there /\ \A x \in r.files : x.f # f}
           pc == IF shifted = {} THEN "extract" ELSE "move"
<1>1. r \in RoundDocs /\ GoodRound(r) /\ r.pc = "crawl"
  BY DEF CopyIsTrue, KnTyped, Compare, IsIn
<1>2. PICK m, c, g, k : m = shifted /\ c = changed /\ g = gone /\ k = pc
  OBVIOUS
<1>3. m \subseteq r.files /\ c \subseteq r.files /\ g \subseteq Drives /\ k \in {"extract", "move"}
  BY <1>2
<1>4. round' = [round EXCEPT ![t] =
                  [r EXCEPT !.pc = k, !.files = {}, !.changed = c, !.moved = m, !.gone = g]]
  BY <1>2 DEF Compare
<1>5. PICK w : w = [r EXCEPT !.pc = k, !.files = {}, !.changed = c, !.moved = m, !.gone = g]
  OBVIOUS
<1>6. /\ w \in RoundDocs /\ w.files = {} /\ w.changed = c /\ w.moved = m
      /\ w.copied = r.copied /\ w.stale = r.stale /\ w.rows = r.rows
  BY <1>1, <1>3, <1>5 DEF RoundDocs
<1>7. GoodRound(w)
  BY <1>1, <1>3, <1>6 DEF GoodRound, Listed, ReadAsListed
<1> QED BY <1>4, <1>5, <1>6, <1>7 DEF RoundTurns

LEMMA ExtractTurns ==
    ASSUME CopyIsTrue, NEW t \in Rounds, NEW x \in Listings, Extract(t, x)
    PROVE  \E w : RoundTurns(t, w) /\ w.rows = round[t].rows
<1> DEFINE r == round[t]
           text == drive[x.f].v
<1>1. /\ r \in RoundDocs /\ GoodRound(r) /\ r.pc = "extract" /\ x \in r.changed
      /\ Cardinality(r.copied) < Batch
  BY DEF CopyIsTrue, KnTyped, Extract, IsIn
<1>2. x.f \in Drives /\ drive[x.f] \in FileDocs /\ text \in Versions
  BY DEF CopyIsTrue, KnTyped, Listings, FileDocs
<1>3. PICK c : c = [entry |-> x, text |-> text]
  OBVIOUS
<1>4. c \in Copied /\ c.entry = x /\ c.text = text
  BY <1>2, <1>3 DEF Copied
<1>5. PICK w : w = [r EXCEPT !.changed = r.changed \ {x}, !.copied = r.copied \cup {c}]
  OBVIOUS
<1>6. /\ w \in RoundDocs /\ w.files = r.files /\ w.changed = r.changed \ {x} /\ w.moved = r.moved
      /\ w.copied = r.copied \cup {c} /\ w.stale = r.stale /\ w.rows = r.rows /\ w.pc = "extract"
  BY <1>1, <1>4, <1>5 DEF RoundDocs
<1>7. round' = [round EXCEPT ![t] = w]
  BY <1>1, <1>3, <1>5 DEF Extract, CopyIsTrue, KnTyped, RoundDocs
<1>8. IsFiniteSet(w.copied) /\ Cardinality(w.copied) <= Batch
  <2>1. IsFiniteSet(r.copied) /\ Cardinality(r.copied) \in Nat
    BY <1>1, FS_CardinalityType DEF GoodRound
  <2>2. IsFiniteSet(w.copied)
        /\ (Cardinality(w.copied) = Cardinality(r.copied)
            \/ Cardinality(w.copied) = Cardinality(r.copied) + 1)
    <3>1. /\ IsFiniteSet(r.copied \cup {c})
          /\ Cardinality(r.copied \cup {c}) =
               IF c \in r.copied THEN Cardinality(r.copied) ELSE Cardinality(r.copied) + 1
      BY <2>1, FS_AddElement
    <3> QED BY <1>6, <3>1
  <2> QED BY <1>1, <2>1, <2>2, KnowledgeAssumption
<1>9. x.f \notin w.stale => text = x.v /\ x.place \in lain[x.f][text]
  BY <1>1, <1>2, <1>6 DEF GoodRound, Listed, CopyIsTrue, DriveIsRemembered
<1>10. Listed(w) /\ ReadAsListed(w)
  BY <1>1, <1>4, <1>6, <1>9 DEF GoodRound, Listed, ReadAsListed
<1> QED BY <1>6, <1>7, <1>8, <1>10 DEF RoundTurns, GoodRound

(* A tick that gives up the copy goes on with the index. *)
LEMMA GivesUpTurns ==
    ASSUME NEW t \in Rounds, GivesUp(t)
    PROVE  \E w : RoundTurns(t, w) /\ w.rows = {}
BY WaitingIsGood DEF GivesUp, RoundTurns

(* A tick may forget a list. *)
LEMMA ForgetsTurns ==
    ASSUME CopyIsTrue, NEW t \in Rounds, NEW pc \in {"extract", "delete", "upsert", "index"},
           round[t].pc # "idle",
           \/ round' = [round EXCEPT ![t].pc = pc]
           \/ round' = [round EXCEPT ![t].pc = pc, ![t].moved = {}]
           \/ round' = [round EXCEPT ![t].pc = pc, ![t].changed = {}]
    PROVE  \E w : RoundTurns(t, w) /\ w.rows = round[t].rows
<1> DEFINE r == round[t]
<1>1. r \in RoundDocs /\ GoodRound(r)
  BY DEF CopyIsTrue, KnTyped
<1>2. PICK w : /\ round' = [round EXCEPT ![t] = w]
               /\ \/ w = [r EXCEPT !.pc = pc]
                  \/ w = [r EXCEPT !.pc = pc, !.moved = {}]
                  \/ w = [r EXCEPT !.pc = pc, !.changed = {}]
  BY <1>1 DEF CopyIsTrue, KnTyped, RoundDocs
<1>3. /\ w \in RoundDocs /\ w.files = r.files /\ w.changed \subseteq r.changed
      /\ w.moved \subseteq r.moved /\ w.copied = r.copied /\ w.stale = r.stale /\ w.rows = r.rows
  BY <1>1, <1>2 DEF RoundDocs
<1>4. GoodRound(w)
  BY <1>1, <1>3 DEF GoodRound, Listed, ReadAsListed
<1> QED BY <1>2, <1>3, <1>4 DEF RoundTurns

(* A row that a statement writes for a listed file is true, or the file is known *)
(* to have outrun the tick.                                                      *)
RowsAreTrue(rows, behind) == \A x \in DOMAIN rows : x.f \notin behind /\ rows[x].there =>
    rows[x].text = rows[x].v /\ rows[x].access \in lain[x.f][rows[x].text]

LEMMA StatementWrites ==
    ASSUME CopyIsTrue, NEW t \in Rounds, NEW D \in SUBSET Listings, NEW rows \in [D -> DocumentRows],
           NEW ends \in BOOLEAN, NEW next, NEW behind, RowsAreTrue(rows, behind),
           Statement(t, rows, ends, next, behind)
    PROVE  /\ document' \in [Drives -> DocumentRows] /\ outrun' \subseteq Drives
           /\ dirty \subseteq dirty' /\ dirty' \subseteq Drives \cup Talks
           /\ \A f \in Drives : RowIsTrue(f)'
           /\ \A f \in Drives : document'[f] = document[f] \/ f \in dirty'
<1> DEFINE fs == {x.f : x \in D}
           Row(f) == rows[CHOOSE x \in D : x.f = f]
<1>0. DOMAIN rows = D /\ fs \subseteq Drives /\ UNCHANGED <<drive, lain>>
  BY DEF Listings, Statement, world
<1>1. CASE UNCHANGED <<document, outrun, dirty>>
  BY <1>0, <1>1 DEF CopyIsTrue, KnTyped, RowIsTrue
<1>2. ASSUME document' = [f \in Drives |-> IF f \in fs THEN Row(f) ELSE document[f]],
             outrun' = (outrun \ fs) \cup (fs \cap behind), dirty' = dirty \cup fs
      PROVE  /\ document' \in [Drives -> DocumentRows] /\ outrun' \subseteq Drives
             /\ dirty \subseteq dirty' /\ dirty' \subseteq Drives \cup Talks
             /\ \A f \in Drives : RowIsTrue(f)'
             /\ \A f \in Drives : document'[f] = document[f] \/ f \in dirty'
  <2>1. ASSUME NEW f \in fs PROVE \E x \in D : x.f = f /\ Row(f) = rows[x]
    <3>1. (CHOOSE x \in D : x.f = f) \in D /\ (CHOOSE x \in D : x.f = f).f = f
      OBVIOUS
    <3> QED BY <3>1
  <2>2. \A f \in fs : Row(f) \in DocumentRows
    BY <2>1
  <2> HIDE DEF Row
  <2>3. document' \in [Drives -> DocumentRows]
    BY <1>2, <2>2 DEF CopyIsTrue, KnTyped
  <2>4. ASSUME NEW f \in Drives PROVE RowIsTrue(f)'
    <3>1. CASE f \notin fs
      BY <1>0, <1>2, <3>1 DEF CopyIsTrue, RowIsTrue
    <3>2. CASE f \in fs
      <4>1. PICK x \in D : x.f = f /\ Row(f) = rows[x]
        BY <2>1, <3>2
      <4>2. document'[f] = rows[x] /\ (f \notin outrun' => f \notin behind)
        BY <1>2, <3>2, <4>1
      <4> QED BY <1>0, <4>1, <4>2 DEF RowsAreTrue, RowIsTrue
    <3> QED BY <3>1, <3>2
  <2> HIDE DEF fs
  <2> QED BY <1>0, <1>2, <2>3, <2>4 DEF CopyIsTrue, KnTyped
<1> QED BY <1>0, <1>1, <1>2 DEF Statement

LEMMA StatementKeeps ==
    ASSUME CopyIsTrue, NEW t \in Rounds, round[t].pc # "idle",
           NEW D \in SUBSET Listings, NEW rows \in [D -> DocumentRows],
           NEW ends \in BOOLEAN, NEW next \in {"extract", "delete"}, NEW behind,
           RowsAreTrue(rows, behind), Statement(t, rows, ends, next, behind)
    PROVE  /\ CopyIsTrue'
           /\ \E w : RoundTurns(t, w) /\ w.rows \in {{}, round[t].rows}
           /\ UNCHANGED <<talk, chunks, inserting, twice>> /\ dirty \subseteq dirty'
           /\ \A f \in Drives : document'[f] = document[f] \/ f \in dirty'
<1>1. /\ UNCHANGED <<drive, talk, lain, edits, chunks, inserting, twice>>
      /\ troubles' \in Nat
  BY DEF Statement, world, Trouble, CopyIsTrue, KnTyped
<1>2. \E w : RoundTurns(t, w) /\ w.rows \in {{}, round[t].rows}
  <2>1. \/ round' = [round EXCEPT ![t].pc = next, ![t].moved = {}]
        \/ GivesUp(t)
    BY DEF Statement
  <2> QED BY <2>1, ForgetsTurns, GivesUpTurns
<1>3. PICK w : RoundTurns(t, w)
  BY <1>2
<1>4. /\ round' \in [Rounds -> RoundDocs] /\ DriveIsRemembered'
      /\ \A s \in Rounds : GoodRound(round[s])'
  BY <1>1, <1>3, RoundGoesOn
<1>5. /\ document' \in [Drives -> DocumentRows] /\ outrun' \subseteq Drives
      /\ dirty \subseteq dirty' /\ dirty' \subseteq Drives \cup Talks
      /\ \A f \in Drives : RowIsTrue(f)'
      /\ \A f \in Drives : document'[f] = document[f] \/ f \in dirty'
  BY StatementWrites
<1> QED BY <1>1, <1>2, <1>4, <1>5 DEF CopyIsTrue, KnTyped

(* What a tick does to the table of documents: it goes on, with the rows it had *)
(* or none, and every file whose row it changes is known to have changed.       *)
RowsTurn(t) ==
    /\ CopyIsTrue'
    /\ \E w : RoundTurns(t, w) /\ w.rows \in {{}, round[t].rows}
    /\ UNCHANGED <<talk, chunks, inserting, twice>> /\ dirty \subseteq dirty'
    /\ \A f \in Drives : document'[f] = document[f] \/ f \in dirty'

LEMMA MoveRowsTurns ==
    ASSUME CopyIsTrue, NEW t \in Rounds, NEW ends \in BOOLEAN, MoveRows(t, ends)
    PROVE  RowsTurn(t)
<1> DEFINE r == round[t]
           rows == [x \in r.moved |-> IF document[x.f].there
                       THEN [document[x.f] EXCEPT !.access = x.place] ELSE document[x.f]]
           behind == outrun \cup r.stale \cup {x.f : x \in {y \in r.moved : document[y.f].v # y.v}}
<1>1. /\ r \in RoundDocs /\ GoodRound(r) /\ r.pc = "move" /\ r.moved \subseteq Listings
  BY DEF CopyIsTrue, KnTyped, MoveRows, IsIn, RoundDocs
<1>2. ASSUME NEW x \in r.moved
      PROVE  /\ rows[x] \in DocumentRows
             /\ x.f \notin behind /\ rows[x].there =>
                  rows[x].text = rows[x].v /\ rows[x].access \in lain[x.f][rows[x].text]
  <2>1. x \in Listings /\ x.f \in Drives /\ x.place \in Accesses
    BY <1>1 DEF Listings
  <2>2. document[x.f] \in DocumentRows /\ RowIsTrue(x.f)
    BY <2>1 DEF CopyIsTrue, KnTyped
  <2>3. CASE ~document[x.f].there
    BY <2>2, <2>3
  <2>4. CASE document[x.f].there
    <3>1. /\ rows[x] \in DocumentRows /\ rows[x].access = x.place
          /\ rows[x].v = document[x.f].v /\ rows[x].text = document[x.f].text
      BY <2>1, <2>2, <2>4 DEF DocumentRows
    <3>2. ASSUME x.f \notin behind
          PROVE  x.f \notin outrun /\ x.f \notin r.stale /\ document[x.f].v = x.v
      BY <3>2
    <3>3. x.f \notin r.stale => x.place \in lain[x.f][x.v]
      BY <1>1, <2>1 DEF GoodRound, Listed, CopyIsTrue, DriveIsRemembered
    <3> QED BY <2>2, <2>4, <3>1, <3>2, <3>3 DEF RowIsTrue
  <2> QED BY <2>3, <2>4
<1>3. rows \in [r.moved -> DocumentRows] /\ RowsAreTrue(rows, behind)
  <2> HIDE DEF behind
  <2> QED BY <1>2 DEF RowsAreTrue
<1>4. Statement(t, rows, ends, "extract", behind)
  BY DEF MoveRows
<1> HIDE DEF rows, behind
<1> QED BY <1>1, <1>3, <1>4, StatementKeeps DEF RowsTurn

LEMMA UpsertRowsTurns ==
    ASSUME CopyIsTrue, NEW t \in Rounds, NEW ends \in BOOLEAN, UpsertRows(t, ends)
    PROVE  RowsTurn(t)
<1> DEFINE r == round[t]
           D == {c.entry : c \in r.copied}
           Text(x) == (CHOOSE c \in r.copied : c.entry = x).text
           rows == [x \in D |-> Upserted(x, Text(x))]
<1>1. /\ r \in RoundDocs /\ GoodRound(r) /\ r.pc = "upsert" /\ r.copied \subseteq Copied
  BY DEF CopyIsTrue, KnTyped, UpsertRows, IsIn, RoundDocs
<1>2. D \subseteq Listings
  BY <1>1 DEF Copied
<1>3. ASSUME NEW x \in D
      PROVE  /\ rows[x] \in DocumentRows
             /\ x.f \notin r.stale /\ rows[x].there =>
                  rows[x].text = rows[x].v /\ rows[x].access \in lain[x.f][rows[x].text]
  <2>1. PICK c \in r.copied : c.entry = x /\ Text(x) = c.text
    <3>1. /\ (CHOOSE c \in r.copied : c.entry = x) \in r.copied
          /\ (CHOOSE c \in r.copied : c.entry = x).entry = x
      OBVIOUS
    <3> QED BY <3>1
  <2>2. c \in Copied /\ c.text \in Versions /\ x \in Listings
    BY <1>1, <2>1 DEF Copied
  <2>3. rows[x] = Upserted(x, c.text)
    BY <2>1
  <2>4. Upserted(x, c.text) \in DocumentRows
    BY <2>2 DEF Upserted, DocumentRows, Listings
  <2>5. x.f \notin r.stale => c.text = x.v /\ x.place \in lain[x.f][c.text]
    BY <1>1, <2>1 DEF GoodRound, ReadAsListed
  <2> QED BY <2>3, <2>4, <2>5 DEF Upserted
<1>4. rows \in [D -> DocumentRows] /\ RowsAreTrue(rows, r.stale)
  BY <1>3 DEF RowsAreTrue
<1>5. Statement(t, rows, ends, "delete", r.stale)
  BY DEF UpsertRows
<1> HIDE DEF rows, D
<1> QED BY <1>1, <1>2, <1>4, <1>5, StatementKeeps DEF RowsTurn

LEMMA DeleteRowsTurns ==
    ASSUME CopyIsTrue, NEW t \in Rounds, NEW ends \in BOOLEAN, DeleteRows(t, ends)
    PROVE  RowsTurn(t)
<1>1. /\ UNCHANGED <<drive, talk, lain, edits, chunks, inserting, twice>>
      /\ troubles' \in Nat /\ GivesUp(t)
  BY DEF DeleteRows, Stays, world, Trouble, CopyIsTrue, KnTyped
<1>2. PICK w : RoundTurns(t, w) /\ w.rows = {}
  BY <1>1, GivesUpTurns
<1>3. /\ round' \in [Rounds -> RoundDocs] /\ DriveIsRemembered'
      /\ \A s \in Rounds : GoodRound(round[s])'
  BY <1>1, <1>2, RoundGoesOn
<1>4. /\ round[t].gone \subseteq Drives /\ NoDocument \in DocumentRows /\ ~NoDocument.there
  BY KnowledgeAssumption
     DEF CopyIsTrue, KnTyped, RoundDocs, NoDocument, DocumentRows, Accesses, Versions
<1>5. /\ document' \in [Drives -> DocumentRows] /\ outrun' \subseteq Drives
      /\ dirty \subseteq dirty' /\ dirty' \subseteq Drives \cup Talks
      /\ \A f \in Drives : RowIsTrue(f)'
      /\ \A f \in Drives : document'[f] = document[f] \/ f \in dirty'
  <2>1. CASE UNCHANGED <<document, outrun, dirty>>
    BY <1>1, <2>1 DEF CopyIsTrue, KnTyped, RowIsTrue
  <2>2. CASE /\ document' = [f \in Drives |-> IF f \in round[t].gone THEN NoDocument ELSE document[f]]
             /\ outrun' = outrun \ round[t].gone /\ dirty' = dirty \cup round[t].gone
    BY <1>1, <1>4, <2>2 DEF CopyIsTrue, KnTyped, RowIsTrue
  <2> QED BY <2>1, <2>2 DEF DeleteRows
<1> QED BY <1>1, <1>2, <1>3, <1>5 DEF CopyIsTrue, KnTyped, RowsTurn

KnowledgeIsTrue == CopyIsTrue /\ CurrentInv /\ OnceInv

LEMMA UnderWayIsTyped ==
    ASSUME CopyIsTrue
    PROVE  /\ UnderWay \subseteq Chunks
           /\ \A t \in Rounds : round[t].rows \subseteq Chunks /\ round[t].rows \subseteq UnderWay
           /\ \A R \in inserting : R \subseteq UnderWay
<1>1. \A t \in Rounds : round[t].rows \subseteq Chunks
  BY DEF CopyIsTrue, KnTyped, RoundDocs
<1> QED BY <1>1 DEF UnderWay, CopyIsTrue, KnTyped

(* Whether a text is current is a matter of its source, version and access, and *)
(* of what the tables say of its source.                                        *)
LEMMA CurrentStays ==
    ASSUME NEW c \in Chunks, NEW d \in Chunks, d.source = c.source, d.v = c.v,
           d.access = c.access, IsCurrent(c)
    PROVE  IsCurrent(d)
BY DEF IsCurrent

LEMMA CurrentKeeps ==
    ASSUME KnowledgeIsTrue, UNCHANGED talk,
           chunks' \subseteq chunks, UnderWay' \subseteq UnderWay, dirty \subseteq dirty',
           \A f \in Drives : document'[f] = document[f] \/ f \in dirty'
    PROVE  CurrentInv'
<1> SUFFICES ASSUME NEW c \in chunks' \cup UnderWay'
             PROVE  IsCurrent(c)' \/ c.source \in dirty'
  BY DEF CurrentInv
<1>1. c \in chunks \cup UnderWay /\ c \in Chunks
  BY UnderWayIsTyped DEF KnowledgeIsTrue, CopyIsTrue, KnTyped
<1>2. IsCurrent(c) \/ c.source \in dirty
  BY <1>1 DEF KnowledgeIsTrue, CurrentInv
<1>3. CASE c.source \in Talks
  BY <1>2, <1>3 DEF IsCurrent
<1>4. CASE c.source \notin Talks
  <2>1. c.source \in Drives
    BY <1>1, <1>4 DEF Chunks
  <2> QED BY <1>2, <1>4, <2>1 DEF IsCurrent, RowHasText
<1> QED BY <1>3, <1>4

LEMMA OnceKeeps ==
    ASSUME KnowledgeIsTrue, UNCHANGED inserting, chunks' \subseteq chunks, twice \subseteq twice',
           \A t \in Rounds : round'[t].rows \subseteq round[t].rows
    PROVE  OnceInv'
<1>1. UnderWay' \subseteq UnderWay
  BY DEF UnderWay
<1> QED BY <1>1 DEF KnowledgeIsTrue, OnceInv, Single, Apart, OneChunkPerText

LEMMA RowsShrink ==
    ASSUME CopyIsTrue, NEW t \in Rounds, NEW w, RoundTurns(t, w), w.rows \subseteq round[t].rows,
           UNCHANGED inserting
    PROVE  /\ \A s \in Rounds : round'[s].rows \subseteq round[s].rows
           /\ UnderWay' \subseteq UnderWay
<1>1. ASSUME NEW s \in Rounds PROVE round'[s].rows \subseteq round[s].rows
  BY DEF RoundTurns, CopyIsTrue, KnTyped
<1> QED BY <1>1 DEF UnderWay

(* What the copy of the Drive does *)
LEMMA RowsTurnKeeps ==
    ASSUME KnowledgeIsTrue, NEW t \in Rounds, RowsTurn(t)
    PROVE  KnowledgeIsTrue'
<1>1. PICK w : RoundTurns(t, w) /\ w.rows \in {{}, round[t].rows}
  BY DEF RowsTurn
<1>2. /\ \A s \in Rounds : round'[s].rows \subseteq round[s].rows
      /\ UnderWay' \subseteq UnderWay
  BY <1>1, RowsShrink DEF RowsTurn, KnowledgeIsTrue
<1>3. CurrentInv' /\ OnceInv'
  BY <1>2, CurrentKeeps, OnceKeeps DEF RowsTurn
<1> QED BY <1>3 DEF RowsTurn, KnowledgeIsTrue

(* A step that writes no table *)
LEMMA QuietTurn ==
    ASSUME KnowledgeIsTrue, NEW t \in Rounds, NEW w, RoundTurns(t, w),
           w.rows \subseteq round[t].rows, Stays, UNCHANGED tables, troubles' \in Nat
    PROVE  KnowledgeIsTrue'
<1>1. UNCHANGED <<drive, talk, lain, edits, document, chunks, inserting, outrun, dirty, twice>>
  BY DEF Stays, world, tables
<1>3. /\ round' \in [Rounds -> RoundDocs] /\ DriveIsRemembered'
      /\ \A s \in Rounds : GoodRound(round[s])'
  BY <1>1, RoundGoesOn DEF KnowledgeIsTrue
<1>4. CopyIsTrue'
  BY <1>1, <1>3 DEF KnowledgeIsTrue, CopyIsTrue, KnTyped, RowIsTrue
<1>5. /\ \A s \in Rounds : round'[s].rows \subseteq round[s].rows
      /\ UnderWay' \subseteq UnderWay
  BY <1>1, RowsShrink DEF KnowledgeIsTrue
<1>6. CurrentInv' /\ OnceInv'
  BY <1>1, <1>5, CurrentKeeps, OnceKeeps
<1> QED BY <1>4, <1>6 DEF KnowledgeIsTrue

LEMMA PeopleKeep ==
    ASSUME KnowledgeIsTrue, WriteDrive \/ MoveDrive \/ TrashDrive \/ Converse
    PROVE  KnowledgeIsTrue'
<1>1. CopyIsTrue'
  BY PeopleAreTrue DEF KnowledgeIsTrue
<1>2. /\ UNCHANGED <<document, chunks, inserting, twice>>
      /\ \A t \in Rounds : round'[t].rows = round[t].rows
  <2>1. ASSUME NEW f, NEW d, Becomes(f, d)
        PROVE  /\ UNCHANGED <<document, chunks, inserting, twice>>
               /\ \A t \in Rounds : round'[t].rows = round[t].rows
    <3>1. ASSUME NEW t \in Rounds PROVE round'[t].rows = round[t].rows
      <4>1. round[t] \in RoundDocs
        BY DEF KnowledgeIsTrue, CopyIsTrue, KnTyped
      <4> QED BY <2>1, <4>1 DEF Becomes, RoundDocs
    <3> QED BY <2>1, <3>1 DEF Becomes, tables
  <2>2. CASE Converse
    BY <2>2 DEF Converse
  <2> QED BY <2>1, <2>2 DEF WriteDrive, MoveDrive, TrashDrive
<1>3. UnderWay' = UnderWay
  BY <1>2 DEF UnderWay
<1>4. OnceInv'
  BY <1>2, OnceKeeps
<1>5. CurrentInv'
  <2>1. CASE UNCHANGED <<talk, dirty>>
    BY <1>2, <1>3, <2>1, CurrentKeeps
  <2>2. CASE Converse
    <3>1. PICK m \in Talks :
            \/ talk[m] = "none" /\ talk' = [talk EXCEPT ![m] = "sent"] /\ UNCHANGED dirty
            \/ talk[m] = "sent" /\ talk' = [talk EXCEPT ![m] = "unsent"] /\ dirty' = dirty \cup {m}
      BY <2>2 DEF Converse
    <3> SUFFICES ASSUME NEW c \in chunks \cup UnderWay
                 PROVE  IsCurrent(c)' \/ c.source \in dirty'
      BY <1>2, <1>3 DEF CurrentInv
    <3>2. IsCurrent(c) \/ c.source \in dirty
      BY DEF KnowledgeIsTrue, CurrentInv
    <3>3. CASE c.source \in Talks
      BY <3>1, <3>2, <3>3 DEF IsCurrent, KnowledgeIsTrue, CopyIsTrue, KnTyped
    <3>4. CASE c.source \notin Talks
      BY <1>2, <3>1, <3>2, <3>4 DEF IsCurrent, RowHasText
    <3> QED BY <3>3, <3>4
  <2>3. CASE WriteDrive \/ MoveDrive \/ TrashDrive
    BY <2>1, <2>3 DEF WriteDrive, MoveDrive, TrashDrive, Becomes, tables
  <2> QED BY <2>2, <2>3
<1> QED BY <1>1, <1>4, <1>5 DEF KnowledgeIsTrue

(* The texts that get an embedding: current, and each once *)
LEMMA TextsAreTrue ==
    ASSUME CopyIsTrue
    PROVE  /\ Texts \subseteq Chunks
           /\ \A c \in Texts : IsCurrent(c)
           /\ \A c, d \in Texts : c.source = d.source => c = d
<1> DEFINE Ds == {g \in Drives : RowHasText(g)}
           Ms == {n \in Talks : talk[n] = "sent"}
           Of(f) == [source |-> f, v |-> document[f].v, access |-> document[f].access,
                     text |-> document[f].text, copy |-> 1]
           Said(m) == [source |-> m, v |-> 0, access |-> "members", text |-> 0, copy |-> 1]
<1>1. Texts = {Of(f) : f \in Ds} \cup {Said(m) : m \in Ms}
  BY DEF Texts
<1>2. ASSUME NEW f \in Ds
      PROVE  Of(f) \in Chunks /\ Of(f).source = f /\ IsCurrent(Of(f))
  <2>1. document[f] \in DocumentRows /\ f \notin Talks
    BY KnowledgeAssumption DEF CopyIsTrue, KnTyped
  <2>2. Of(f) \in Chunks
    BY <2>1 DEF DocumentRows, Chunks
  <2> QED BY <2>1, <2>2 DEF IsCurrent
<1>3. ASSUME NEW m \in Ms
      PROVE  Said(m) \in Chunks /\ Said(m).source = m /\ IsCurrent(Said(m))
  <2>1. 0 \in Versions /\ "members" \in Accesses
    BY KnowledgeAssumption DEF Versions, Accesses
  <2>2. Said(m) \in Chunks
    BY <2>1 DEF Chunks
  <2>3. Said(m).source = m /\ m \in Talks /\ talk[m] # "unsent"
    OBVIOUS
  <2> QED BY <2>2, <2>3 DEF IsCurrent
<1>4. \A f \in Ds, m \in Ms : f # m
  BY KnowledgeAssumption
<1> HIDE DEF Of, Said, Ds, Ms
<1>5. ASSUME NEW c \in Texts PROVE c \in Chunks /\ IsCurrent(c)
  BY <1>1, <1>2, <1>3
<1>6. ASSUME NEW c \in Texts, NEW d \in Texts, c.source = d.source PROVE c = d
  BY <1>1, <1>2, <1>3, <1>4, <1>6
<1> QED BY <1>5, <1>6

LEMMA StartInsertKeeps ==
    ASSUME KnowledgeIsTrue, NEW t \in Rounds, NEW rows, StartInsert(t, rows)
    PROVE  KnowledgeIsTrue'
<1> DEFINE new == [Waiting EXCEPT !.pc = "insert", !.rows = rows]
<1>1. /\ rows \subseteq Candidates
      /\ round' = [round EXCEPT ![t] = IF Candidates = {} THEN Waiting ELSE new]
      /\ twice' = twice \cup {c.source : c \in {d \in rows : \E e \in UnderWay : SameId(d, e)}}
      /\ UNCHANGED <<drive, talk, lain, edits, document, chunks, inserting, outrun, dirty, troubles>>
  BY DEF StartInsert, Stays, world
<1>2. /\ rows \subseteq Texts /\ rows \subseteq Chunks
      /\ \A c \in rows : IsCurrent(c) /\ \A d \in chunks : ~SameId(c, d)
      /\ \A c, d \in rows : SameId(c, d) => c = d
  BY <1>1, TextsAreTrue DEF KnowledgeIsTrue, Candidates, SameId
<1>3. PICK w : /\ round' = [round EXCEPT ![t] = w] /\ w.rows = rows /\ GoodRound(w)
  <2>1. CASE Candidates = {}
    BY <1>1, <2>1, WaitingIsGood
  <2>2. CASE Candidates # {}
    <3>1. PICK w : w = new
      OBVIOUS
    <3>2. /\ w \in RoundDocs /\ w.rows = rows /\ w.files = {} /\ w.changed = {} /\ w.moved = {}
          /\ w.copied = {}
      BY <1>2, <3>1 DEF RoundDocs, Waiting
    <3>3. IsFiniteSet(w.copied) /\ Cardinality(w.copied) <= Batch
      BY <3>2, FS_EmptySet, KnowledgeAssumption
    <3>4. GoodRound(w)
      BY <3>2, <3>3 DEF GoodRound, Listed, ReadAsListed
    <3> QED BY <1>1, <2>2, <3>1, <3>2, <3>4
  <2> QED BY <2>1, <2>2
<1>4. RoundTurns(t, w)
  BY <1>3 DEF RoundTurns
<1>5. /\ round' \in [Rounds -> RoundDocs] /\ DriveIsRemembered'
      /\ \A s \in Rounds : GoodRound(round[s])'
  BY <1>1, <1>4, RoundGoesOn DEF KnowledgeIsTrue
<1>6. twice' \subseteq Drives \cup Talks
  BY <1>1, <1>2 DEF KnowledgeIsTrue, CopyIsTrue, KnTyped, Chunks
<1>7. CopyIsTrue'
  BY <1>1, <1>5, <1>6 DEF KnowledgeIsTrue, CopyIsTrue, KnTyped, RowIsTrue
<1>8. \A s \in Rounds : round'[s] = IF s = t THEN w ELSE round[s]
  BY <1>3 DEF KnowledgeIsTrue, CopyIsTrue, KnTyped
<1>9. UnderWay' \subseteq UnderWay \cup rows
  BY <1>1, <1>3, <1>8 DEF UnderWay
<1>10. CurrentInv'
  <2> SUFFICES ASSUME NEW c \in chunks \cup UnderWay \cup rows
               PROVE  IsCurrent(c)' \/ c.source \in dirty'
    BY <1>1, <1>9 DEF CurrentInv
  <2>1. IsCurrent(c) \/ c.source \in dirty
    BY <1>2 DEF KnowledgeIsTrue, CurrentInv
  <2> QED BY <1>1, <2>1 DEF IsCurrent, RowHasText
<1>11. ASSUME NEW S, S \subseteq UnderWay PROVE Apart(S, rows)' /\ Apart(rows, S)'
  BY <1>1, <1>11 DEF Apart, SameId
<1>12. OnceInv'
  <2>1. OnceInv /\ twice \subseteq twice'
    BY <1>1 DEF KnowledgeIsTrue
  <2>2. \A s \in Rounds : Single(round'[s].rows)
    BY <1>2, <1>3, <1>8, <2>1 DEF OnceInv, Single
  <2>3. ASSUME NEW s \in Rounds, NEW r \in Rounds, s # r
        PROVE  Apart(round[s].rows, round[r].rows)'
    <3>1. CASE s = t
      BY <1>3, <1>8, <1>11, <2>3, <3>1, UnderWayIsTyped DEF KnowledgeIsTrue
    <3>2. CASE r = t
      BY <1>3, <1>8, <1>11, <2>3, <3>2, UnderWayIsTyped DEF KnowledgeIsTrue
    <3>3. CASE s # t /\ r # t
      BY <1>8, <2>1, <2>3, <3>3 DEF OnceInv, Apart
    <3> QED BY <3>1, <3>2, <3>3
  <2>4. ASSUME NEW s \in Rounds, NEW R \in inserting PROVE Apart(round[s].rows, R)'
    <3>1. CASE s = t
      BY <1>3, <1>8, <1>11, <3>1, UnderWayIsTyped DEF KnowledgeIsTrue
    <3>2. CASE s # t
      BY <1>8, <2>1, <3>2 DEF OnceInv, Apart
    <3> QED BY <3>1, <3>2
  <2>5. ASSUME NEW R \in inserting, NEW S \in inserting, R # S PROVE Apart(R, S)'
    BY <2>1, <2>5 DEF OnceInv, Apart
  <2>6. Apart(chunks, UnderWay)'
    <3> SUFFICES ASSUME NEW c \in chunks, NEW d \in UnderWay \cup rows, SameId(c, d)
                 PROVE  c.source \in twice'
      BY <1>1, <1>9 DEF Apart, SameId
    <3>1. d \notin rows
      BY <1>2 DEF SameId
    <3> QED BY <2>1, <3>1 DEF OnceInv, Apart
  <2>7. OneChunkPerText'
    BY <1>1, <2>1 DEF OnceInv, OneChunkPerText, SameId
  <2>8. \A R \in inserting : Single(R)'
    BY <2>1 DEF OnceInv, Single, SameId
  <2> QED BY <1>1, <2>2, <2>3, <2>4, <2>5, <2>6, <2>7, <2>8 DEF OnceInv, Single, SameId
<1> QED BY <1>7, <1>10, <1>12 DEF KnowledgeIsTrue

(* What an insertion puts in the index says the same as what was read for it.   *)
LEMMA AddedIsRead ==
    ASSUME KnowledgeIsTrue, NEW R \in SUBSET Chunks, Single(R), R \subseteq UnderWay,
           chunks' = Added(R), twice' = twice
    PROVE  /\ chunks' \subseteq Chunks
           /\ \A c \in chunks' : c \in chunks \/ \E d \in R :
                c.source = d.source /\ c.v = d.v /\ c.access = d.access
           /\ OneChunkPerText'
<1> DEFINE Put(c) == IF \E d \in chunks : SameId(c, d) THEN [c EXCEPT !.copy = 2] ELSE c
<1>1. chunks' = chunks \cup {Put(c) : c \in R}
  BY DEF Added
<1>2. ASSUME NEW c \in R
      PROVE  Put(c) \in Chunks /\ Put(c).source = c.source /\ Put(c).v = c.v
             /\ Put(c).access = c.access
  BY DEF Chunks
<1> HIDE DEF Put
<1>3. chunks \subseteq Chunks
  BY DEF KnowledgeIsTrue, CopyIsTrue, KnTyped
<1>4. ASSUME NEW c \in chunks', NEW d \in chunks', SameId(c, d), c # d
      PROVE  c.source \in twice
  <2>1. CASE c \in chunks /\ d \in chunks
    BY <1>4, <2>1 DEF KnowledgeIsTrue, OnceInv, OneChunkPerText
  <2>2. ASSUME NEW e \in R, c = Put(e), d \in chunks PROVE c.source \in twice
    BY <1>2, <1>4, <2>2 DEF KnowledgeIsTrue, OnceInv, Apart, SameId
  <2>3. ASSUME NEW e \in R, d = Put(e), c \in chunks PROVE c.source \in twice
    BY <1>2, <1>4, <2>3 DEF KnowledgeIsTrue, OnceInv, Apart, SameId
  <2>4. ASSUME NEW e \in R, NEW g \in R, c = Put(e), d = Put(g) PROVE FALSE
    BY <1>2, <1>4, <2>4 DEF Single, SameId
  <2> QED BY <1>1, <2>1, <2>2, <2>3, <2>4
<1> QED BY <1>1, <1>2, <1>3, <1>4 DEF OneChunkPerText, SameId

(* The rows R come to their end, and what is still under way is Rest. *)
LEMMA InsertionKeeps ==
    ASSUME KnowledgeIsTrue, NEW R \in SUBSET Chunks, Single(R), R \subseteq UnderWay,
           chunks' = Added(R), UNCHANGED <<twice, talk, document, dirty>>,
           UnderWay' \subseteq UnderWay, Apart(R, UnderWay')
    PROVE  /\ chunks' \subseteq Chunks /\ CurrentInv' /\ OneChunkPerText'
           /\ Apart(chunks, UnderWay)'
<1>1. /\ chunks' \subseteq Chunks
      /\ \A c \in chunks' : c \in chunks \/ \E d \in R :
           c.source = d.source /\ c.v = d.v /\ c.access = d.access
      /\ OneChunkPerText'
  BY AddedIsRead
<1>2. CurrentInv'
  <2> SUFFICES ASSUME NEW c \in chunks' \cup UnderWay'
               PROVE  IsCurrent(c)' \/ c.source \in dirty'
    BY DEF CurrentInv
  <2>1. \E d \in chunks \cup UnderWay : c.source = d.source /\ c.v = d.v /\ c.access = d.access
    BY <1>1
  <2>2. PICK d \in chunks \cup UnderWay : c.source = d.source /\ c.v = d.v /\ c.access = d.access
    BY <2>1
  <2>3. c \in Chunks /\ d \in Chunks
    BY <1>1, UnderWayIsTyped DEF KnowledgeIsTrue, CopyIsTrue, KnTyped
  <2>4. IsCurrent(d) \/ d.source \in dirty
    BY DEF KnowledgeIsTrue, CurrentInv
  <2>5. IsCurrent(c) \/ c.source \in dirty
    BY <2>2, <2>3, <2>4, CurrentStays
  <2> QED BY <2>5 DEF IsCurrent, RowHasText
<1>3. Apart(chunks, UnderWay)'
  <2> SUFFICES ASSUME NEW c \in chunks', NEW d \in UnderWay', SameId(c, d)
               PROVE  c.source \in twice
    BY DEF Apart, SameId
  <2>1. CASE c \in chunks
    BY <2>1 DEF KnowledgeIsTrue, OnceInv, Apart
  <2>2. CASE \E e \in R : c.source = e.source /\ c.v = e.v
    BY <2>2 DEF Apart, SameId
  <2> QED BY <1>1, <2>1, <2>2
<1> QED BY <1>1, <1>2, <1>3

(* A tick is over, its rows R are forgotten here. *)
LEMMA RoundEnds ==
    ASSUME KnowledgeIsTrue, NEW t \in Rounds, round' = [round EXCEPT ![t] = Waiting],
           UNCHANGED <<drive, talk, lain, edits, document, outrun, dirty, twice>>,
           troubles' \in Nat, chunks' \subseteq Chunks, inserting' \subseteq SUBSET Chunks
    PROVE  /\ CopyIsTrue'
           /\ \A s \in Rounds : round'[s].rows = IF s = t THEN {} ELSE round[s].rows
<1>1. RoundTurns(t, Waiting)
  BY WaitingIsGood DEF RoundTurns
<1>2. /\ round' \in [Rounds -> RoundDocs] /\ DriveIsRemembered'
      /\ \A s \in Rounds : GoodRound(round[s])'
  BY <1>1, RoundGoesOn DEF KnowledgeIsTrue
<1>3. CopyIsTrue'
  BY <1>2 DEF KnowledgeIsTrue, CopyIsTrue, KnTyped, RowIsTrue
<1>4. \A s \in Rounds : round'[s].rows = IF s = t THEN {} ELSE round[s].rows
  BY WaitingIsGood DEF KnowledgeIsTrue, CopyIsTrue, KnTyped
<1> QED BY <1>3, <1>4

LEMMA FinishInsertKeeps ==
    ASSUME KnowledgeIsTrue, NEW t \in Rounds, FinishInsert(t)
    PROVE  KnowledgeIsTrue'
<1> DEFINE R == round[t].rows
<1>1. /\ chunks' = Added(R) /\ round' = [round EXCEPT ![t] = Waiting]
      /\ UNCHANGED <<drive, talk, lain, edits, document, inserting, outrun, dirty, twice, troubles>>
  BY DEF FinishInsert, Stays, world
<1>2. R \subseteq Chunks /\ R \subseteq UnderWay /\ Single(R)
  BY UnderWayIsTyped DEF KnowledgeIsTrue, OnceInv
<1>3. \A s \in Rounds : round'[s].rows = IF s = t THEN {} ELSE round[s].rows
  BY <1>1, WaitingIsGood DEF KnowledgeIsTrue, CopyIsTrue, KnTyped
<1>4. UnderWay' \subseteq UnderWay
  BY <1>1, <1>3 DEF UnderWay
<1>5. Apart(R, UnderWay')
  <2> SUFFICES ASSUME NEW c \in R, NEW d \in UnderWay', SameId(c, d) PROVE c.source \in twice
    BY DEF Apart
  <2>1. (\E s \in Rounds : s # t /\ d \in round[s].rows) \/ (\E S \in inserting : d \in S)
    BY <1>1, <1>3 DEF UnderWay
  <2> QED BY <2>1 DEF KnowledgeIsTrue, OnceInv, Apart
<1>6. /\ chunks' \subseteq Chunks /\ CurrentInv' /\ OneChunkPerText'
      /\ Apart(chunks, UnderWay)'
  BY <1>1, <1>2, <1>4, <1>5, InsertionKeeps
<1>7. CopyIsTrue'
  BY <1>1, <1>6, RoundEnds DEF KnowledgeIsTrue, CopyIsTrue, KnTyped
<1>8. OnceInv'
  BY <1>1, <1>3, <1>6 DEF KnowledgeIsTrue, OnceInv, Single, Apart
<1> QED BY <1>6, <1>7, <1>8 DEF KnowledgeIsTrue

LEMMA StopWaitingKeeps ==
    ASSUME KnowledgeIsTrue, NEW t \in Rounds, StopWaiting(t)
    PROVE  KnowledgeIsTrue'
<1> DEFINE R == round[t].rows
<1>1. /\ inserting' = inserting \cup {R} /\ round' = [round EXCEPT ![t] = Waiting]
      /\ UNCHANGED <<drive, talk, lain, edits, document, chunks, outrun, dirty, twice>>
      /\ troubles' \in Nat
  BY DEF StopWaiting, Stays, world, Trouble, KnowledgeIsTrue, CopyIsTrue, KnTyped
<1>2. R \subseteq Chunks /\ R \subseteq UnderWay /\ Single(R)
      /\ inserting' \subseteq SUBSET Chunks /\ chunks \subseteq Chunks
  BY <1>1, UnderWayIsTyped DEF KnowledgeIsTrue, OnceInv, CopyIsTrue, KnTyped
<1>3. \A s \in Rounds : round'[s].rows = IF s = t THEN {} ELSE round[s].rows
  BY <1>1, WaitingIsGood DEF KnowledgeIsTrue, CopyIsTrue, KnTyped
<1>4. UnderWay' \subseteq UnderWay
  BY <1>1, <1>3 DEF UnderWay
<1>5. CopyIsTrue'
  BY <1>1, <1>2, RoundEnds
<1>6. CurrentInv'
  BY <1>1, <1>4, CurrentKeeps
<1>7. ASSUME NEW S \in inserting', NEW P \in inserting', S # P PROVE Apart(S, P)
  <2>1. ASSUME NEW Q \in inserting PROVE Apart(R, Q) /\ Apart(Q, R)
    BY DEF KnowledgeIsTrue, OnceInv, Apart, SameId
  <2> QED BY <1>1, <1>7, <2>1 DEF KnowledgeIsTrue, OnceInv
<1>8. ASSUME NEW s \in Rounds, NEW S \in inserting' PROVE Apart(round'[s].rows, S)
  <2>1. CASE s = t
    BY <1>3, <2>1 DEF Apart
  <2>2. CASE s # t
    BY <1>1, <1>3, <2>2 DEF KnowledgeIsTrue, OnceInv
  <2> QED BY <2>1, <2>2
<1>9. OnceInv'
  <2>1. \A s \in Rounds : Single(round'[s].rows)
    BY <1>3 DEF KnowledgeIsTrue, OnceInv, Single
  <2>2. \A S \in inserting' : Single(S)
    BY <1>1, <1>2 DEF KnowledgeIsTrue, OnceInv
  <2>3. \A s, r \in Rounds : s # r => Apart(round'[s].rows, round'[r].rows)
    BY <1>3 DEF KnowledgeIsTrue, OnceInv, Apart
  <2>4. Apart(chunks, UnderWay') /\ OneChunkPerText'
    BY <1>1, <1>4 DEF KnowledgeIsTrue, OnceInv, Apart, OneChunkPerText
  <2> QED BY <1>1, <1>7, <1>8, <2>1, <2>2, <2>3, <2>4 DEF OnceInv, Single, Apart
<1> QED BY <1>5, <1>6, <1>9 DEF KnowledgeIsTrue

LEMMA InsertInTheEndKeeps ==
    ASSUME KnowledgeIsTrue, InsertInTheEnd
    PROVE  KnowledgeIsTrue'
<1>1. PICK R \in inserting :
        /\ inserting' = inserting \ {R} /\ chunks' = Added(R)
        /\ UNCHANGED <<drive, talk, lain, edits, document, round, outrun, dirty, twice, troubles>>
  BY DEF InsertInTheEnd, Stays, world
<1>2. R \subseteq Chunks /\ R \subseteq UnderWay /\ Single(R)
  BY UnderWayIsTyped DEF KnowledgeIsTrue, OnceInv
<1>3. UnderWay' \subseteq UnderWay
  BY <1>1 DEF UnderWay
<1>4. Apart(R, UnderWay')
  <2> SUFFICES ASSUME NEW c \in R, NEW d \in UnderWay', SameId(c, d) PROVE c.source \in twice
    BY DEF Apart
  <2>1. (\E s \in Rounds : d \in round[s].rows) \/ (\E S \in inserting : S # R /\ d \in S)
    BY <1>1 DEF UnderWay
  <2> QED BY <2>1 DEF KnowledgeIsTrue, OnceInv, Apart, SameId
<1>5. /\ chunks' \subseteq Chunks /\ CurrentInv' /\ OneChunkPerText'
      /\ Apart(chunks, UnderWay)'
  BY <1>1, <1>2, <1>3, <1>4, InsertionKeeps
<1>6. CopyIsTrue'
  BY <1>1, <1>5 DEF KnowledgeIsTrue, CopyIsTrue, KnTyped, GoodRound, Listed, ReadAsListed,
                    DriveIsRemembered, RowIsTrue
<1>7. OnceInv'
  BY <1>1, <1>5 DEF KnowledgeIsTrue, OnceInv, Single, Apart
<1> QED BY <1>5, <1>6, <1>7 DEF KnowledgeIsTrue

LEMMA CleanupKeeps ==
    ASSUME KnowledgeIsTrue, NEW t \in Rounds, NEW ends \in BOOLEAN, Cleanup(t, ends)
    PROVE  KnowledgeIsTrue'
<1>1. /\ round' = [round EXCEPT ![t].pc = "index"] /\ round[t].pc = "cleanup"
      /\ UNCHANGED <<drive, talk, lain, edits, document, inserting, outrun, twice>>
      /\ troubles' \in Nat
  BY DEF Cleanup, To, IsIn, Stays, world, Trouble, KnowledgeIsTrue, CopyIsTrue, KnTyped
<1>2. PICK w : RoundTurns(t, w) /\ w.rows = round[t].rows
  BY <1>1, ForgetsTurns DEF KnowledgeIsTrue
<1>3. /\ round' \in [Rounds -> RoundDocs] /\ DriveIsRemembered'
      /\ \A s \in Rounds : GoodRound(round[s])'
  BY <1>1, <1>2, RoundGoesOn DEF KnowledgeIsTrue
<1>4. /\ \A s \in Rounds : round'[s].rows \subseteq round[s].rows
      /\ UnderWay' \subseteq UnderWay
  BY <1>1, <1>2, RowsShrink DEF KnowledgeIsTrue
<1>5. /\ chunks' \subseteq chunks /\ dirty' \subseteq Drives \cup Talks /\ CurrentInv'
  <2>1. CASE UNCHANGED <<chunks, dirty>>
    BY <1>1, <1>4, <2>1, CurrentKeeps DEF KnowledgeIsTrue, CopyIsTrue, KnTyped
  <2>2. CASE /\ chunks' = {c \in chunks : Remains(c)}
             /\ dirty' = {c.source : c \in {d \in UnderWay : ~IsCurrent(d)}}
    <3>1. dirty' \subseteq Drives \cup Talks
      BY <2>2, UnderWayIsTyped DEF KnowledgeIsTrue, Chunks
    <3>2. ASSUME NEW c \in chunks' \cup UnderWay' PROVE IsCurrent(c)' \/ c.source \in dirty'
      <4>1. IsCurrent(c) \/ c.source \in dirty'
        BY <1>4, <2>2 DEF Remains
      <4> QED BY <1>1, <4>1 DEF IsCurrent, RowHasText
    <3> QED BY <2>2, <3>1, <3>2 DEF CurrentInv
  <2> QED BY <2>1, <2>2 DEF Cleanup
<1>6. CopyIsTrue'
  BY <1>1, <1>3, <1>5 DEF KnowledgeIsTrue, CopyIsTrue, KnTyped, RowIsTrue
<1>7. OnceInv'
  BY <1>1, <1>4, <1>5, OnceKeeps
<1> QED BY <1>5, <1>6, <1>7 DEF KnowledgeIsTrue

(* The steps of a tick that only read, or give up *)
LEMMA ReadingKeeps ==
    ASSUME KnowledgeIsTrue, NEW t \in Rounds,
           \/ BeginRound(t) \/ Crawl(t) \/ Compare(t) \/ ExtractFails(t) \/ ExtractEnds(t)
           \/ IndexFails(t) \/ \E x \in Listings : Extract(t, x)
    PROVE  KnowledgeIsTrue'
<1>1. CopyIsTrue /\ troubles \in Nat
  BY DEF KnowledgeIsTrue, CopyIsTrue, KnTyped
<1>2. CASE BeginRound(t)
  <2>1. PICK w : w = [Waiting EXCEPT !.pc = "crawl", !.todo = Accesses]
    OBVIOUS
  <2>2. /\ w \in RoundDocs /\ w.rows = {} /\ w.files = {} /\ w.changed = {} /\ w.moved = {}
        /\ w.copied = {}
    BY <2>1 DEF RoundDocs, Waiting
  <2>3. GoodRound(w)
    BY <2>2, FS_EmptySet, KnowledgeAssumption DEF GoodRound, Listed, ReadAsListed
  <2> QED BY <1>1, <1>2, <2>1, <2>2, <2>3, QuietTurn DEF BeginRound, RoundTurns
<1>3. CASE Crawl(t)
  BY <1>1, <1>3, CrawlTurns, QuietTurn DEF Crawl
<1>4. CASE Compare(t)
  BY <1>1, <1>4, CompareTurns, QuietTurn DEF Compare
<1>5. ASSUME NEW x \in Listings, Extract(t, x) PROVE KnowledgeIsTrue'
  BY <1>1, <1>5, ExtractTurns, QuietTurn DEF Extract
<1>6. CASE ExtractFails(t)
  <2>1. GivesUp(t) /\ Stays /\ UNCHANGED tables /\ troubles' \in Nat
    BY <1>1, <1>6 DEF ExtractFails, Trouble
  <2> QED BY <2>1, GivesUpTurns, QuietTurn
<1>7. CASE ExtractEnds(t)
  <2>1. /\ round[t].pc = "extract" /\ Stays /\ UNCHANGED <<tables, troubles>>
        /\ \/ round' = [round EXCEPT ![t].pc = "delete", ![t].changed = {}]
           \/ round' = [round EXCEPT ![t].pc = "upsert", ![t].changed = {}]
    BY <1>7 DEF ExtractEnds, IsIn
  <2> QED BY <1>1, <2>1, ForgetsTurns, QuietTurn
<1>8. CASE IndexFails(t)
  <2>1. /\ round' = [round EXCEPT ![t] = Waiting] /\ Stays /\ UNCHANGED tables
        /\ troubles' \in Nat
    BY <1>1, <1>8 DEF IndexFails, Trouble
  <2> QED BY <2>1, WaitingIsGood, QuietTurn DEF RoundTurns
<1> QED BY <1>2, <1>3, <1>4, <1>5, <1>6, <1>7, <1>8

LEMMA KnowledgeStep == KnowledgeIsTrue /\ [KnNext]_kvars => KnowledgeIsTrue'
<1> SUFFICES ASSUME KnowledgeIsTrue, [KnNext]_kvars PROVE KnowledgeIsTrue'
  OBVIOUS
<1>1. CASE WriteDrive \/ MoveDrive \/ TrashDrive \/ Converse
  BY <1>1, PeopleKeep
<1>2. CASE InsertInTheEnd
  BY <1>2, InsertInTheEndKeeps
<1>3. ASSUME NEW t \in Rounds, BeginRound(t) \/ CopyGoesOn(t) \/ IndexGoesOn(t)
      PROVE  KnowledgeIsTrue'
  <2>1. CASE \/ BeginRound(t) \/ Crawl(t) \/ Compare(t) \/ ExtractFails(t) \/ ExtractEnds(t)
             \/ IndexFails(t) \/ \E x \in Listings : Extract(t, x)
    BY <2>1, ReadingKeeps
  <2>2. ASSUME NEW ends \in BOOLEAN, MoveRows(t, ends) \/ UpsertRows(t, ends) \/ DeleteRows(t, ends)
        PROVE  KnowledgeIsTrue'
    <3>1. RowsTurn(t)
      BY <2>2, MoveRowsTurns, UpsertRowsTurns, DeleteRowsTurns DEF KnowledgeIsTrue
    <3> QED BY <3>1, RowsTurnKeeps
  <2>3. ASSUME NEW ends \in BOOLEAN, Cleanup(t, ends) PROVE KnowledgeIsTrue'
    BY <2>3, CleanupKeeps
  <2>4. ASSUME NEW rows \in SUBSET Candidates, StartInsert(t, rows) PROVE KnowledgeIsTrue'
    BY <2>4, StartInsertKeeps
  <2>5. CASE FinishInsert(t)
    BY <2>5, FinishInsertKeeps
  <2>6. CASE StopWaiting(t)
    BY <2>6, StopWaitingKeeps
  <2> QED BY <1>3, <2>1, <2>2, <2>3, <2>4, <2>5, <2>6 DEF CopyGoesOn, IndexGoesOn
<1>4. CASE UNCHANGED kvars
  <2>1. UnderWay' = UnderWay
    BY <1>4 DEF kvars, UnderWay
  <2>2. CopyIsTrue'
    BY <1>4 DEF kvars, KnowledgeIsTrue, CopyIsTrue, KnTyped, GoodRound, Listed, ReadAsListed,
                DriveIsRemembered, RowIsTrue
  <2>3. CurrentInv' /\ OnceInv'
    BY <1>4, <2>1, CurrentKeeps, OnceKeeps DEF kvars
  <2> QED BY <2>2, <2>3 DEF KnowledgeIsTrue
<1> QED BY <1>1, <1>2, <1>3, <1>4 DEF KnNext

LEMMA KnowledgeFacts == KnowledgeIsTrue => KnTypeOK /\ IndexIsTrue
<1> SUFFICES ASSUME KnowledgeIsTrue PROVE KnTypeOK /\ IndexIsTrue
  OBVIOUS
<1>1. KnTypeOK
  BY DEF KnowledgeIsTrue, CopyIsTrue, KnTyped, GoodRound, KnTypeOK
<1>2. FoundIsCurrent
  BY DEF KnowledgeIsTrue, CurrentInv, FoundIsCurrent, Found
<1>3. TextWasInItsPlace
  BY DEF KnowledgeIsTrue, CopyIsTrue, RowIsTrue, TextWasInItsPlace
<1>4. OneChunkPerText
  BY DEF KnowledgeIsTrue, OnceInv
<1> QED BY <1>1, <1>2, <1>3, <1>4 DEF IndexIsTrue

(* Tables, files, index and the locals of the ticks are well formed. *)
THEOREM KnowledgeTypes == KnSpec => []KnTypeOK
<1>1. KnInit => KnowledgeIsTrue
  BY KnInitIsTrue DEF KnowledgeIsTrue
<1>2. KnowledgeIsTrue /\ [KnNext]_kvars => KnowledgeIsTrue'
  BY KnowledgeStep
<1>3. KnowledgeIsTrue => KnTypeOK
  BY KnowledgeFacts
<1> QED BY <1>1, <1>2, <1>3, PTL DEF KnSpec

(* What is found is current but for what changed since the last cleanup, a row's *)
(* text was where the row says the file is but for files touched while a tick    *)
(* went on, and a text is there once but for insertions that overlapped: with    *)
(* any number of files, messages and ticks at once, of statements that fail, and *)
(* of insertions that go on when nobody waits for them.                          *)
THEOREM IndexHolds == KnSpec => []IndexIsTrue
<1>1. KnInit => KnowledgeIsTrue
  BY KnInitIsTrue DEF KnowledgeIsTrue
<1>2. KnowledgeIsTrue /\ [KnNext]_kvars => KnowledgeIsTrue'
  BY KnowledgeStep
<1>3. KnowledgeIsTrue => IndexIsTrue
  BY KnowledgeFacts
<1> QED BY <1>1, <1>2, <1>3, PTL DEF KnSpec
-----------------------------------------------------------------------------
(* The menus and the roster.                                                   *)

(* A set of numbers that is not empty has a least one: the library's fact that  *)
(* the numbers are well founded, without the operator of its induction theorem. *)
LEMMA LeastNumber ==
    ASSUME NEW T \in SUBSET Nat, T # {}
    PROVE  \E x \in T : \A y \in T : x <= y
<1> DEFINE R == OpToRel(<, Nat)
<1>1. IsWellFoundedOn(R, Nat)
  BY NatLessThanWellFounded
<1>2. \A a, b \in Nat : ~ (<<a, b>> \in R) => b <= a
  BY DEF OpToRel
<1> HIDE DEF R
<1>3. PICK x \in T : \A y \in T : ~ (<<y, x>> \in R)
  BY <1>1, WFMin
<1>4. \A y \in T : x <= y
  BY <1>2, <1>3
<1> QED BY <1>4

(* The numbers of a sequence have a bound: the least length that had none would *)
(* follow one that has.                                                         *)
LEMMA NumbersAreBounded ==
    ASSUME NEW S \in SUBSET Nat, NEW Q \in Seq(S)
    PROVE  \E b \in Nat : \A n \in 1..Len(Q) : Q[n] <= b
<1> DEFINE Bounds(k) == \E b \in Nat : \A n \in 1..k : Q[n] <= b
           T == {k \in 0..Len(Q) : ~Bounds(k)}
<1>1. Len(Q) \in Nat /\ (\A n \in 1..Len(Q) : Q[n] \in Nat) /\ T \in SUBSET Nat
  <2>1. Len(Q) \in Nat /\ \A n \in 1..Len(Q) : Q[n] \in S
    OBVIOUS
  <2>2. T \in SUBSET Nat
    BY <2>1
  <2> QED BY <2>1, <2>2
<1>2. Bounds(0)
  BY <1>1 DEF Bounds
<1>3. ASSUME NEW k \in Nat, k < Len(Q), Bounds(k) PROVE Bounds(k + 1)
  <2>1. PICK b \in Nat : \A n \in 1..k : Q[n] <= b
    BY <1>3
  <2>2. k + 1 \in 1..Len(Q) /\ Q[k + 1] \in Nat
    BY <1>1, <1>3
  <2>3. PICK c \in Nat : c >= b /\ c >= Q[k + 1]
    BY <2>2
  <2>4. ASSUME NEW n \in 1..(k + 1) PROVE Q[n] <= c
    <3>1. CASE n = k + 1
      BY <2>3, <3>1
    <3>2. CASE n \in 1..k
      BY <1>1, <1>3, <2>1, <2>3, <3>2
    <3> QED BY <3>1, <3>2
  <2> QED BY <2>4
<1> HIDE DEF Bounds
<1>4. T = {}
  <2> SUFFICES ASSUME T # {} PROVE FALSE
    OBVIOUS
  <2>1. PICK k \in T : \A j \in T : k <= j
    BY <1>1, LeastNumber
  <2>2. k \in Nat /\ k # 0 /\ k <= Len(Q) /\ ~Bounds(k)
    BY <1>1, <1>2, <2>1
  <2>3. k - 1 \in 0..Len(Q) /\ k - 1 \notin T
    BY <1>1, <2>1, <2>2
  <2>4. Bounds(k - 1)
    BY <2>3
  <2>5. Bounds(k - 1 + 1) /\ k - 1 + 1 = k
    BY <1>1, <1>3, <2>2, <2>4
  <2> QED BY <2>2, <2>5
<1>5. Bounds(Len(Q))
  BY <1>1, <1>4
<1> QED BY <1>5 DEF Bounds

(* A finite set of numbers that is not empty has a greatest one. *)
LEMMA GreatestNumber ==
    ASSUME NEW S \in SUBSET Nat, IsFiniteSet(S), S # {}
    PROVE  \E x \in S : \A y \in S : y <= x
<1>1. PICK Q \in Seq(S) : \A s \in S : \E n \in 1..Len(Q) : Q[n] = s
  BY DEF IsFiniteSet
<1>2. PICK b \in Nat : \A n \in 1..Len(Q) : Q[n] <= b
  BY <1>1, NumbersAreBounded
<1> DEFINE T == {k \in Nat : \A y \in S : y <= k}
<1>4. T \in SUBSET Nat /\ T # {}
  BY <1>1, <1>2
<1>5. PICK m \in T : \A k \in T : m <= k
  BY <1>4, LeastNumber
<1>6. m \in Nat /\ \A y \in S : y <= m
  BY <1>5
<1>7. CASE m \in S
  BY <1>6, <1>7
<1>8. CASE m \notin S
  <2>1. m # 0
    <3>1. PICK y \in S : y \in Nat
      OBVIOUS
    <3> QED BY <1>6, <1>8, <3>1
  <2>2. m - 1 \in Nat /\ m - 1 \notin T
    BY <1>5, <1>6, <2>1
  <2>3. PICK y \in S : ~(y <= m - 1)
    BY <2>2
  <2> QED BY <1>6, <1>8, <2>1, <2>3
<1> QED BY <1>7, <1>8

(* The first seat of a document is its primary one. *)
FirstSeat(d) == d.committee # NoCommittee /\ d.seats # <<>> =>
    Head(d.seats) = [committee |-> d.committee, chair |-> d.chair]

(* Locals of a call: well formed, with all their copies in order. *)
HandIsTyped(w) ==
    /\ w \in HandDocs
    /\ w.menu[1] <= made
    /\ w.pc = "made" => w.seen \in 1..made
    /\ w.pc \in {"edit", "link", "post"} => w.at \in MemberIds
    /\ w.pc = "edit" => w.new = {}
    /\ w.pc = "apply" => w.what = "import"
    /\ w.pc \in {"link", "post"} => w.copies[w.at].line \in Accounts
    /\ w.pc = "post" => w.menu[1] > 0 /\ w.menu[2] # "officer_ops"
    /\ w.pc \in {"walk", "link", "post"} => \A i \in w.todo : w.copies[i].line \in Accounts
    /\ w.pc = "apply" => \A i \in w.linked : w.copies[i].line \in Accounts
    /\ \A i \in MemberIds : FirstSeat(w.copies[i])

(* the documents a call will save *)
Saves(w) == {i \in MemberIds : (w.pc = "edit" /\ i = w.at) \/ (w.pc = "apply" /\ i \in w.todo)}

(* They are still of the members they were read of, or new numbers. *)
NamesFit(w) == \A i \in Saves(w) :
    /\ w.copies[i].known
    /\ i \notin w.new => person[i].known /\ (i \notin shared => w.copies[i].name = person[i].name)
    /\ i \in w.new /\ i \notin w.others => ~person[i].known

(* What an import has saved is still there, but for what others have saved. *)
RosterKept(w) ==
    w.what = "import" /\ w.pc \in {"apply", "walk", "link", "post"} => \A n \in w.names :
        \E i \in MemberIds :
            /\ w.copies[i].name = n /\ w.copies[i].active
            /\ \/ i \in w.others \/ person[i] = w.copies[i]
               \/ w.pc = "apply" /\ i \in w.todo

(* What a sweep has seen is still so, but for the accounts it knows to be stale. *)
SweepSees(w) == w.what = "sweep" =>
    /\ w.pc \in {"walk", "link", "post"} => \A i \in MemberIds :
         w.copies[i].line \in Accounts /\ w.copies[i].line \notin w.stale =>
            person[i] = w.copies[i] /\ w.seen = menus
    /\ w.pc \in {"link", "post"} /\ w.copies[w.at].line \notin w.stale
         /\ kind_for(w.copies[w.at]) = "officer"
       => shown[w.copies[w.at].line] # <<menus, "officer_ops">>

HandIsTrue(w) == HandIsTyped(w) /\ NamesFit(w) /\ RosterKept(w) /\ SweepSees(w)

RmTyped ==
    /\ person \in [MemberIds -> Persons_]
    /\ made \in Nat /\ made <= chores + 1 /\ menus \in 0..made
    /\ shown \in [Accounts -> Menus] /\ \A u \in Accounts : shown[u][1] <= made
    /\ friend \in [Accounts -> BOOLEAN] /\ follows \subseteq Accounts
    /\ hand \in [Hands -> HandDocs] /\ shared \subseteq MemberIds
    /\ chores \in 0..MaxChores

MenusAreTrue ==
    /\ RmTyped
    /\ \A i \in MemberIds : FirstSeat(person[i]) /\ (person[i].known \/ person[i].line = NoAccount)
    /\ \A h \in Hands : HandIsTrue(hand[h])

(* The highest number in use is none of the new ones. *)
LEMMA HighestIsHighest ==
    ASSUME NEW i \in Numbered, person[i].known
    PROVE  Highest \in Nat /\ i <= Highest
<1> DEFINE used == {j \in Numbered : person[j].known}
<1>1. used \in SUBSET Nat /\ IsFiniteSet(used) /\ used # {}
  <2>1. IsFiniteSet(Numbered) /\ used \subseteq Numbered /\ used \in SUBSET Numbered
    BY RichMenusAssumption
  <2>2. IsFiniteSet(used)
    BY <2>1, FS_Subset
  <2> QED BY <2>1, <2>2, RichMenusAssumption
<1>2. \E x \in used : \A y \in used : y <= x
  BY <1>1, GreatestNumber
<1>3. Highest \in used /\ \A y \in used : y <= Highest
  BY <1>1, <1>2 DEF Highest
<1> QED BY <1>1, <1>3

(* What the roster and the forms make of a document is a document, with its *)
(* first seat first.                                                        *)
LEMMA ApplyEntryGivesDocument ==
    ASSUME NEW d \in Persons_, NEW n \in People, NEW x \in RosterEntries
    PROVE  LET e == ApplyEntry(d, n, x) IN
           e \in Persons_ /\ FirstSeat(e) /\ e.known /\ e.active /\ e.name = n /\ e.line = d.line
<1>1. x.seats \in Seq(Seats) /\ x.ops \in BOOLEAN
  BY RichMenusAssumption DEF RosterEntries
<1>2. x.seats # <<>> => Head(x.seats) \in Seats
  BY <1>1
<1>3. PICK c, ch : /\ c = IF x.seats = <<>> THEN NoCommittee ELSE Head(x.seats).committee
                   /\ ch = (x.seats # <<>> /\ Head(x.seats).chair)
  OBVIOUS
<1>4. /\ c \in Committees \cup {NoCommittee} /\ ch \in BOOLEAN
      /\ x.seats # <<>> => Head(x.seats) = [committee |-> c, chair |-> ch]
  BY <1>2, <1>3 DEF Seats
<1>5. PICK e : e = ApplyEntry(d, n, x)
  OBVIOUS
<1>6. e = [d EXCEPT !.known = TRUE, !.active = TRUE, !.name = n, !.ops = x.ops,
                    !.seats = x.seats, !.committee = c, !.chair = ch]
  BY <1>3, <1>5 DEF ApplyEntry
<1>7. /\ e \in Persons_ /\ e.known /\ e.active /\ e.name = n /\ e.line = d.line
      /\ e.seats = x.seats /\ e.committee = c /\ e.chair = ch
  BY <1>1, <1>4, <1>6 DEF Persons_
<1> QED BY <1>4, <1>5, <1>7 DEF FirstSeat

LEMMA SeatsForGivesSeats ==
    ASSUME NEW d \in Persons_, NEW c \in Committees \cup {NoCommittee}, NEW ch \in BOOLEAN
    PROVE  /\ SeatsFor(d, c, ch) \in Seq(Seats)
           /\ c # NoCommittee /\ SeatsFor(d, c, ch) # <<>> =>
                Head(SeatsFor(d, c, ch)) = [committee |-> c, chair |-> ch]
<1>1. d.seats \in Seq(Seats)
  BY DEF Persons_
<1>2. CASE d.seats = <<>>
  BY <1>1, <1>2 DEF SeatsFor
<1>3. CASE d.seats # <<>> /\ c = NoCommittee
  BY <1>1, <1>3 DEF SeatsFor
<1>4. CASE d.seats # <<>> /\ c # NoCommittee
  <2>1. PICK s : s = [committee |-> c, chair |-> ch]
    OBVIOUS
  <2>2. s \in Seats /\ Tail(d.seats) \in Seq(Seats) /\ <<s>> \in Seq(Seats)
    BY <1>1, <1>4, <2>1 DEF Seats
  <2>3. SeatsFor(d, c, ch) = <<s>> \o Tail(d.seats)
    BY <1>4, <2>1 DEF SeatsFor
  <2>4. <<s>> \o Tail(d.seats) \in Seq(Seats) /\ Head(<<s>> \o Tail(d.seats)) = s
    BY <2>2
  <2> QED BY <2>1, <2>3, <2>4
<1> QED BY <1>2, <1>3, <1>4

LEMMA UnknownIsDocument ==
    /\ Unknown \in Persons_ /\ FirstSeat(Unknown) /\ ~Unknown.known /\ Unknown.line = NoAccount
BY DEF Unknown, Persons_, FirstSeat

LEMMA FreeHandIsTrue ==
    ASSUME made \in Nat
    PROVE  HandIsTrue(FreeHand) /\ FreeHand.pc = "idle"
<1>1. NoMenu \in Menus /\ NoMenu[1] = 0 /\ NoMenu[2] = "member"
  BY RichMenusAssumption DEF NoMenu, Menus, Kinds
<1>2. FreeHand \in HandDocs
  BY <1>1, UnknownIsDocument DEF FreeHand, HandDocs
<1>3. HandIsTyped(FreeHand)
  BY <1>1, <1>2, UnknownIsDocument DEF HandIsTyped, FreeHand
<1> QED BY <1>3 DEF HandIsTrue, FreeHand, NamesFit, Saves, RosterKept, SweepSees

LEMMA RmInitIsTrue == RmInit => MenusAreTrue
<1> SUFFICES ASSUME RmInit PROVE MenusAreTrue
  OBVIOUS
<1>1. PICK i \in Numbered, n \in People, x \in RosterEntries, u \in Accounts \cup {NoAccount} :
        /\ \A j \in Numbered : i <= j
        /\ person = [[j \in MemberIds |-> Unknown] EXCEPT ![i] =
                       [ApplyEntry(Unknown, n, x) EXCEPT !.line = u]]
        /\ friend = [v \in Accounts |-> v = u]
  BY Zenon DEF RmInit
<1>2. PICK e : e = ApplyEntry(Unknown, n, x)
  OBVIOUS
<1>3. e \in Persons_ /\ FirstSeat(e) /\ e.known
  BY <1>2, ApplyEntryGivesDocument, UnknownIsDocument
<1>4. PICK d : d = [e EXCEPT !.line = u]
  OBVIOUS
<1>5. d \in Persons_ /\ FirstSeat(d) /\ d.known
  BY <1>3, <1>4 DEF Persons_, FirstSeat
<1>6. i \in MemberIds /\ person = [[j \in MemberIds |-> Unknown] EXCEPT ![i] = d]
  BY <1>1, <1>2, <1>4 DEF MemberIds
<1>7. /\ person \in [MemberIds -> Persons_]
      /\ \A j \in MemberIds : FirstSeat(person[j]) /\ (person[j].known \/ person[j].line = NoAccount)
  BY <1>5, <1>6, UnknownIsDocument
<1>8. /\ made \in 0..1 /\ menus = made /\ chores = 0 /\ follows = {} /\ shared = {}
      /\ shown = [v \in Accounts |-> NoMenu] /\ hand = [h \in Hands |-> FreeHand]
  BY DEF RmInit
<1>9. /\ FreeHand \in HandDocs /\ HandIsTrue(FreeHand)
  BY <1>8, FreeHandIsTrue DEF HandIsTrue, HandIsTyped
<1>10. NoMenu \in Menus /\ NoMenu[1] = 0
  BY RichMenusAssumption DEF NoMenu, Menus, Kinds
<1>11. RmTyped
  BY <1>1, <1>7, <1>8, <1>9, <1>10, RichMenusAssumption DEF RmTyped
<1> QED BY <1>7, <1>8, <1>9, <1>11 DEF MenusAreTrue

LEMMA RmFacts ==
    ASSUME MenusAreTrue, NEW h \in Hands
    PROVE  /\ hand[h] \in HandDocs /\ HandIsTrue(hand[h])
           /\ made \in Nat /\ menus \in Nat /\ menus <= made /\ chores \in Nat
           /\ \A i \in MemberIds : person[i] \in Persons_ /\ hand[h].copies[i] \in Persons_
BY RichMenusAssumption DEF MenusAreTrue, RmTyped, HandDocs

LEMMA HandStaysTyped ==
    ASSUME NEW w, HandIsTyped(w), made \in Nat, made' \in Nat, made <= made'
    PROVE  HandIsTyped(w)'
<1>1. w.menu[1] \in Nat /\ w.seen \in Nat
  BY RichMenusAssumption DEF HandIsTyped, HandDocs, Menus
<1> QED BY <1>1 DEF HandIsTyped

(* What a call knows does not change when it goes on with the same copies. *)
LEMMA HandStaysTrue ==
    ASSUME UNCHANGED <<person, menus, shown, shared>>,
           made \in Nat, made' \in Nat, made <= made', NEW w, HandIsTrue(w)
    PROVE  HandIsTrue(w)'
<1>1. HandIsTyped(w)'
  BY HandStaysTyped DEF HandIsTrue
<1> QED BY <1>1 DEF HandIsTrue, NamesFit, RosterKept, SweepSees, Saves

(* One call goes on by itself: the others and the documents stay. *)
LEMMA HandGoesOnAs ==
    ASSUME MenusAreTrue, NEW h \in Hands, NEW w, HandIsTrue(w)', hand' = [hand EXCEPT ![h] = w],
           UNCHANGED <<person, menus, shown, friend, shared>>,
           follows' \subseteq Accounts, made' \in Nat, made <= made', made' <= chores' + 1,
           chores' \in 0..MaxChores
    PROVE  MenusAreTrue'
<1>1. w \in HandDocs
  BY DEF HandIsTrue, HandIsTyped
<1>2. ASSUME NEW g \in Hands PROVE HandIsTrue(hand[g])'
  <2>1. PICK v : v = hand'[g]
    OBVIOUS
  <2>2. CASE g = h
    <3>1. v = w
      BY <2>1, <2>2 DEF MenusAreTrue, RmTyped
    <3>2. HandIsTrue(v)'
      BY <3>1
    <3> QED BY <2>1, <3>2 DEF HandIsTrue, HandIsTyped, NamesFit, RosterKept, SweepSees, Saves
  <2>3. CASE g # h
    <3>1. HandIsTrue(v) /\ made \in Nat
      BY <2>1, <2>3 DEF MenusAreTrue, RmTyped
    <3>2. HandIsTrue(v)'
      BY <3>1, HandStaysTrue
    <3> QED BY <2>1, <3>2 DEF HandIsTrue, HandIsTyped, NamesFit, RosterKept, SweepSees, Saves
  <2> QED BY <2>2, <2>3
<1>3. hand' \in [Hands -> HandDocs]
  BY <1>1 DEF MenusAreTrue, RmTyped
<1>4. \A u \in Accounts : shown[u][1] \in Nat /\ shown[u][1] <= made
  BY RichMenusAssumption DEF MenusAreTrue, RmTyped, Menus
<1>5. menus' \in 0..made'
  BY DEF MenusAreTrue, RmTyped
<1>6. \A u \in Accounts : shown'[u][1] <= made'
  BY <1>4 DEF MenusAreTrue, RmTyped
<1>7. shown' \in [Accounts -> Menus] /\ friend' \in [Accounts -> BOOLEAN]
  BY DEF MenusAreTrue, RmTyped
<1>8. RmTyped'
  BY <1>3, <1>5, <1>6, <1>7 DEF MenusAreTrue, RmTyped
<1> QED BY <1>2, <1>8 DEF MenusAreTrue

LEMMA HandGoesOn ==
    ASSUME MenusAreTrue, NEW h \in Hands, NEW w, HandIsTrue(w), hand' = [hand EXCEPT ![h] = w],
           UNCHANGED <<person, menus, shown, friend, shared>>,
           follows' \subseteq Accounts, made' \in Nat, made <= made', made' <= chores' + 1,
           chores' \in 0..MaxChores
    PROVE  MenusAreTrue'
<1>1. HandIsTrue(w)'
  BY HandStaysTrue DEF MenusAreTrue, RmTyped
<1> QED BY <1>1, HandGoesOnAs

(* A document is saved: a call under way that is told of it knows no less. *)
LEMMA OthersLearn ==
    ASSUME NEW i \in MemberIds, NEW d \in Persons_, d.known,
           person \in [MemberIds -> Persons_], person' = [person EXCEPT ![i] = d],
           person[i].known => d.name = person[i].name \/ i \in shared',
           shared \subseteq shared', UNCHANGED <<made, menus, shown>>, made \in Nat,
           NEW us \in SUBSET Accounts, {d.line, person[i].line} \ {NoAccount} \subseteq us,
           NEW w, HandIsTrue(w)
    PROVE  HandIsTrue([w EXCEPT !.others = w.others \cup {i}, !.stale = w.stale \cup us])'
<1>1. PICK v : v = [w EXCEPT !.others = w.others \cup {i}, !.stale = w.stale \cup us]
  OBVIOUS
<1>2. w \in HandDocs /\ w.others \in SUBSET MemberIds /\ w.stale \in SUBSET Accounts
  BY DEF HandIsTrue, HandIsTyped, HandDocs
<1>3. v \in HandDocs
  BY <1>1, <1>2 DEF HandDocs
<1>4. /\ v.pc = w.pc /\ v.what = w.what /\ v.copies = w.copies /\ v.todo = w.todo
      /\ v.linked = w.linked /\ v.new = w.new /\ v.at = w.at /\ v.seen = w.seen
      /\ v.menu = w.menu /\ v.names = w.names
      /\ v.others = w.others \cup {i} /\ v.stale = w.stale \cup us
  BY <1>1, <1>2 DEF HandDocs
<1>5. HandIsTyped(v)
  BY <1>3, <1>4 DEF HandIsTrue, HandIsTyped
<1>6. HandIsTyped(v)'
  BY <1>5, HandStaysTyped
<1>7. \A j \in MemberIds : person'[j] = IF j = i THEN d ELSE person[j]
  OBVIOUS
<1>8. NamesFit(v)'
  <2>1. Saves(v) = Saves(w)
    BY <1>4 DEF Saves
  <2> SUFFICES ASSUME NEW j \in Saves(w)
               PROVE  /\ v.copies[j].known
                      /\ j \notin v.new =>
                           person'[j].known /\ (j \notin shared' => v.copies[j].name = person'[j].name)
                      /\ j \in v.new /\ j \notin v.others => ~person'[j].known
    BY <2>1 DEF NamesFit
  <2>2. j \in MemberIds
    BY DEF Saves
  <2>3. /\ w.copies[j].known
        /\ j \notin w.new => person[j].known /\ (j \notin shared => w.copies[j].name = person[j].name)
        /\ j \in w.new /\ j \notin w.others => ~person[j].known
    BY DEF HandIsTrue, NamesFit
  <2>4. CASE j = i
    BY <1>4, <1>7, <2>2, <2>3, <2>4
  <2>5. CASE j # i
    BY <1>4, <1>7, <2>2, <2>3, <2>5
  <2> QED BY <2>4, <2>5
<1>9. RosterKept(v)'
  <2> SUFFICES ASSUME w.what = "import", w.pc \in {"apply", "walk", "link", "post"}, NEW n \in w.names
               PROVE  \E j \in MemberIds :
                        /\ v.copies[j].name = n /\ v.copies[j].active
                        /\ \/ j \in v.others \/ person'[j] = v.copies[j]
                           \/ v.pc = "apply" /\ j \in v.todo
    BY <1>4 DEF RosterKept
  <2>1. PICK j \in MemberIds :
            /\ w.copies[j].name = n /\ w.copies[j].active
            /\ \/ j \in w.others \/ person[j] = w.copies[j]
               \/ w.pc = "apply" /\ j \in w.todo
    BY DEF HandIsTrue, RosterKept
  <2> QED BY <1>4, <1>7, <2>1
<1>10. SweepSees(v)'
  <2> SUFFICES ASSUME w.what = "sweep"
               PROVE  /\ w.pc \in {"walk", "link", "post"} => \A j \in MemberIds :
                           w.copies[j].line \in Accounts /\ w.copies[j].line \notin v.stale =>
                              person'[j] = w.copies[j] /\ w.seen = menus
                      /\ w.pc \in {"link", "post"} /\ w.copies[w.at].line \notin v.stale
                           /\ kind_for(w.copies[w.at]) = "officer"
                         => shown[w.copies[w.at].line] # <<menus, "officer_ops">>
    BY <1>4 DEF SweepSees
  <2>1. /\ w.pc \in {"walk", "link", "post"} => \A j \in MemberIds :
             w.copies[j].line \in Accounts /\ w.copies[j].line \notin w.stale =>
                person[j] = w.copies[j] /\ w.seen = menus
        /\ w.pc \in {"link", "post"} /\ w.copies[w.at].line \notin w.stale
             /\ kind_for(w.copies[w.at]) = "officer"
           => shown[w.copies[w.at].line] # <<menus, "officer_ops">>
    BY DEF HandIsTrue, SweepSees
  <2>2. NoAccount \notin Accounts
    BY RichMenusAssumption
  <2> QED BY <1>4, <1>7, <2>1, <2>2
<1> QED BY <1>1, <1>6, <1>8, <1>9, <1>10 DEF HandIsTrue

LEMMA IdleIsTrue ==
    ASSUME NEW w, HandIsTyped(w), w.pc = "idle"
    PROVE  HandIsTrue(w)
BY DEF HandIsTrue, NamesFit, Saves, RosterKept, SweepSees

(* The others, when member i is saved as d. *)
LEMMA OthersStayTrue ==
    ASSUME MenusAreTrue, NEW i \in MemberIds, NEW d \in Persons_, d.known,
           person' = [person EXCEPT ![i] = d],
           person[i].known => d.name = person[i].name \/ i \in shared',
           shared \subseteq shared', UNCHANGED <<made, menus, shown>>,
           NEW us \in SUBSET Accounts, {d.line, person[i].line} \ {NoAccount} \subseteq us,
           NEW g \in Hands, NEW v, v = Outdated(hand, i, us)[g]
    PROVE  HandIsTrue(v)'
<1>1. PICK w : w = hand[g]
  OBVIOUS
<1>2. HandIsTrue(w) /\ made \in Nat /\ person \in [MemberIds -> Persons_]
  BY <1>1 DEF MenusAreTrue, RmTyped
<1>3. CASE w.pc = "idle"
  <2>1. HandIsTyped(w)'
    BY <1>2, HandStaysTyped DEF HandIsTrue
  <2>2. HandIsTrue(w)'
    BY <1>3, <2>1 DEF HandIsTrue, NamesFit, Saves, RosterKept, SweepSees
  <2>3. v = w
    BY <1>1, <1>3 DEF Outdated
  <2> QED BY <2>2, <2>3
<1>4. CASE w.pc # "idle"
  <2>1. HandIsTrue([w EXCEPT !.others = w.others \cup {i}, !.stale = w.stale \cup us])'
    BY <1>2, OthersLearn
  <2>2. v = [w EXCEPT !.others = w.others \cup {i}, !.stale = w.stale \cup us]
    BY <1>1, <1>4 DEF Outdated
  <2> QED BY <2>1, <2>2
<1> QED BY <1>3, <1>4

(* A document is saved by one call, or with none: the whole invariant. *)
LEMMA SaveIsTrue ==
    ASSUME MenusAreTrue, NEW i \in MemberIds, NEW d \in Persons_, d.known, FirstSeat(d),
           person' = [person EXCEPT ![i] = d],
           person[i].known => d.name = person[i].name \/ i \in shared',
           shared \subseteq shared', shared' \subseteq MemberIds,
           UNCHANGED <<made, menus, shown, friend, follows>>,
           chores' \in 0..MaxChores, made <= chores' + 1,
           \A g \in Hands : HandIsTrue(hand[g])', hand' \in [Hands -> HandDocs]
    PROVE  MenusAreTrue'
<1>1. person' \in [MemberIds -> Persons_]
  BY DEF MenusAreTrue, RmTyped
<1>2. \A j \in MemberIds : FirstSeat(person'[j]) /\ (person'[j].known \/ person'[j].line = NoAccount)
  BY DEF MenusAreTrue, RmTyped
<1>3. \A u \in Accounts : shown'[u][1] <= made'
  BY DEF MenusAreTrue, RmTyped
<1>4. made' \in Nat /\ menus' \in 0..made'
  BY DEF MenusAreTrue, RmTyped
<1>5. RmTyped'
  BY <1>1, <1>3, <1>4 DEF MenusAreTrue, RmTyped
<1> QED BY <1>2, <1>5 DEF MenusAreTrue, FirstSeat

LEMMA FreeHandStaysTrue ==
    ASSUME made \in Nat, made' \in Nat, made <= made'
    PROVE  HandIsTrue(FreeHand)'
<1>1. PICK w : w = FreeHand
  OBVIOUS
<1>2. HandIsTyped(w) /\ w.pc = "idle"
  BY <1>1, FreeHandIsTrue DEF HandIsTrue
<1>3. HandIsTyped(w)'
  BY <1>2, HandStaysTyped
<1>4. HandIsTrue(w)'
  BY <1>2, <1>3 DEF HandIsTrue, NamesFit, Saves, RosterKept, SweepSees
<1> QED BY <1>1, <1>4 DEF FreeHand

(* Nobody's document becomes that of another but by numbers given twice. *)
NamesKept == \A i \in MemberIds :
    person[i].known /\ person'[i].name # person[i].name => i \in shared'

(* One call saves member i as d and goes on with w. *)
LEMMA SaveMemberIsTrue ==
    ASSUME MenusAreTrue, NEW h \in Hands, NEW i \in MemberIds,
           NEW d \in Persons_, d.known, FirstSeat(d),
           NEW w, SaveMember(h, i, d, w), HandIsTrue(w)',
           person[i].known => d.name = person[i].name \/ i \in shared',
           shared \subseteq shared', shared' \subseteq MemberIds,
           UNCHANGED <<made, menus, shown, friend, follows>>,
           chores' \in 0..MaxChores, made <= chores' + 1
    PROVE  MenusAreTrue' /\ NamesKept
<1>1. PICK us \in SUBSET Accounts : us = {d.line, person[i].line} \ {NoAccount}
  BY DEF Persons_, MenusAreTrue, RmTyped
<1>2. /\ person' = [person EXCEPT ![i] = d]
      /\ hand' = [Outdated(hand, i, us) EXCEPT ![h] = w]
  BY <1>1 DEF SaveMember
<1>3. ASSUME NEW g \in Hands PROVE HandIsTrue(hand[g])' /\ hand'[g] \in HandDocs
  <2>1. PICK v : v = hand'[g]
    OBVIOUS
  <2>2. HandIsTrue(v)'
    <3>1. CASE g = h
      <4>1. v = w
        BY <1>2, <2>1, <3>1 DEF Outdated
      <4> QED BY <4>1
    <3>2. CASE g # h
      <4>1. v = Outdated(hand, i, us)[g]
        BY <1>2, <2>1, <3>2 DEF Outdated
      <4> QED BY <1>1, <1>2, <4>1, OthersStayTrue
    <3> QED BY <3>1, <3>2
  <2> QED BY <2>1, <2>2 DEF HandIsTrue, HandIsTyped, NamesFit, RosterKept, SweepSees, Saves
<1>4. hand' \in [Hands -> HandDocs]
  BY <1>2, <1>3 DEF Outdated
<1>5. NamesKept
  BY <1>2 DEF NamesKept, MenusAreTrue, RmTyped
<1> QED BY <1>2, <1>3, <1>4, <1>5, SaveIsTrue

LEMMA CreateMemberIsTrue == MenusAreTrue /\ CreateMember => MenusAreTrue' /\ NamesKept
<1> SUFFICES ASSUME MenusAreTrue, CreateMember PROVE MenusAreTrue' /\ NamesKept
  OBVIOUS
<1>1. PICK i \in Drawn, n \in People, c \in Committees \cup {NoCommittee}, o \in BOOLEAN :
        /\ ~person[i].known /\ Bothers
        /\ person' = [person EXCEPT ![i] = [Unknown EXCEPT
             !.known = TRUE, !.active = TRUE, !.name = n, !.ops = o, !.committee = c]]
        /\ hand' = Outdated(hand, i, {})
        /\ UNCHANGED <<made, menus, shown, friend, follows, shared>>
  BY Zenon DEF CreateMember
<1>2. PICK d : d = [Unknown EXCEPT
             !.known = TRUE, !.active = TRUE, !.name = n, !.ops = o, !.committee = c]
  OBVIOUS
<1>3. d \in Persons_ /\ d.known /\ d.line = NoAccount /\ d.seats = <<>>
  <2>1. Unknown \in Persons_ /\ Unknown.line = NoAccount /\ Unknown.seats = <<>>
    BY UnknownIsDocument DEF Unknown
  <2>2. PICK e \in Persons_ : e = Unknown
    BY <2>1
  <2>3. /\ d = [e EXCEPT !.known = TRUE, !.active = TRUE, !.name = n, !.ops = o, !.committee = c]
        /\ e.line = NoAccount /\ e.seats = <<>>
    BY <1>2, <2>1, <2>2
  <2> QED BY <2>3 DEF Persons_
<1>4. i \in MemberIds /\ FirstSeat(d) /\ person' = [person EXCEPT ![i] = d]
  BY <1>1, <1>2, <1>3 DEF MemberIds, FirstSeat
<1>5. {d.line, person[i].line} \ {NoAccount} \subseteq {}
  BY <1>1, <1>3, <1>4 DEF MenusAreTrue
<1>6. chores' \in 0..MaxChores /\ made <= chores' + 1 /\ shared' \subseteq MemberIds
  BY <1>1, RichMenusAssumption DEF Bothers, MenusAreTrue, RmTyped
<1>7. PICK us \in SUBSET Accounts : us = {}
  OBVIOUS
<1>8. ASSUME NEW g \in Hands PROVE HandIsTrue(hand[g])' /\ hand'[g] \in HandDocs
  <2>1. PICK v : v = hand'[g]
    OBVIOUS
  <2>2. v = Outdated(hand, i, us)[g]
    BY <1>1, <1>7, <2>1
  <2>3. HandIsTrue(v)'
    BY <1>1, <1>3, <1>4, <1>5, <1>7, <2>2, OthersStayTrue
  <2> QED BY <2>1, <2>3 DEF HandIsTrue, HandIsTyped, NamesFit, RosterKept, SweepSees, Saves
<1>9. hand' \in [Hands -> HandDocs]
  BY <1>1, <1>8 DEF Outdated
<1>10. NamesKept
  BY <1>1, <1>4 DEF NamesKept, MenusAreTrue, RmTyped
<1> QED BY <1>1, <1>3, <1>4, <1>6, <1>8, <1>9, <1>10, SaveIsTrue

LEMMA UpdateMemberIsTrue ==
    ASSUME MenusAreTrue, NEW h \in Hands, UpdateMember(h)
    PROVE  MenusAreTrue' /\ NamesKept
<1>1. PICK i, d : i = hand[h].at /\ d = hand[h].copies[i]
  OBVIOUS
<1>2. /\ IsAt(h, "edit")
      /\ \/ \E c \in Committees \cup {NoCommittee}, ch \in BOOLEAN :
              SaveMember(h, i, [d EXCEPT !.committee = c, !.chair = ch,
                                         !.seats = SeatsFor(d, c, ch)], FreeHand)
         \/ \E o, a \in BOOLEAN : SaveMember(h, i, [d EXCEPT !.ops = o, !.active = a], FreeHand)
      /\ UNCHANGED <<made, menus, shown, friend, follows, chores, shared>>
  BY <1>1, Zenon DEF UpdateMember
<1>3. /\ hand[h].pc = "edit" /\ i \in MemberIds /\ i \in Saves(hand[h])
      /\ d \in Persons_ /\ FirstSeat(d)
  BY <1>1, <1>2, RmFacts DEF IsAt, HandIsTrue, HandIsTyped, Saves
<1>4. d.known /\ (person[i].known => d.name = person[i].name \/ i \in shared')
  <2>1. NamesFit(hand[h])
    BY DEF MenusAreTrue, HandIsTrue
  <2>2. hand[h].new = {}
    BY <1>3 DEF MenusAreTrue, HandIsTrue, HandIsTyped
  <2>3. hand[h].copies[i].known
        /\ (i \notin hand[h].new => person[i].known /\
               (i \notin shared => hand[h].copies[i].name = person[i].name))
    BY <1>3, <2>1 DEF NamesFit
  <2> QED BY <1>1, <1>2, <2>2, <2>3
<1>5. HandIsTrue(FreeHand)'
  <2>1. made \in Nat /\ made' = made
    BY <1>2, RmFacts
  <2> QED BY <2>1, FreeHandStaysTrue
<1>6. PICK w : w = FreeHand
  OBVIOUS
<1>7. HandIsTrue(w)'
  BY <1>5, <1>6 DEF FreeHand
<1>8. ASSUME NEW e \in Persons_, e.known, FirstSeat(e), e.name = d.name, SaveMember(h, i, e, w)
      PROVE  MenusAreTrue' /\ NamesKept
  <2>1. chores' \in 0..MaxChores /\ made <= chores' + 1 /\ shared' \subseteq MemberIds
    BY <1>2 DEF MenusAreTrue, RmTyped
  <2>2. person[i].known => e.name = person[i].name \/ i \in shared'
    BY <1>4, <1>8
  <2> QED BY <1>2, <1>3, <1>7, <1>8, <2>1, <2>2, SaveMemberIsTrue
<1>9. ASSUME NEW c \in Committees \cup {NoCommittee}, NEW ch \in BOOLEAN,
             SaveMember(h, i, [d EXCEPT !.committee = c, !.chair = ch,
                                        !.seats = SeatsFor(d, c, ch)], FreeHand)
      PROVE  MenusAreTrue' /\ NamesKept
  <2>1. PICK s : s = SeatsFor(d, c, ch)
    OBVIOUS
  <2>2. s \in Seq(Seats) /\ (c # NoCommittee /\ s # <<>> => Head(s) = [committee |-> c, chair |-> ch])
    BY <1>3, <2>1, SeatsForGivesSeats
  <2>3. PICK e : e = [d EXCEPT !.committee = c, !.chair = ch, !.seats = s]
    OBVIOUS
  <2>4. /\ e \in Persons_ /\ e.known /\ e.name = d.name
        /\ e.committee = c /\ e.chair = ch /\ e.seats = s
    BY <1>3, <1>4, <2>2, <2>3 DEF Persons_
  <2>5. FirstSeat(e)
    BY <2>2, <2>4 DEF FirstSeat
  <2>6. SaveMember(h, i, e, w)
    BY <1>6, <1>9, <2>1, <2>3
  <2> QED BY <1>8, <2>4, <2>5, <2>6
<1>10. ASSUME NEW o \in BOOLEAN, NEW a \in BOOLEAN,
              SaveMember(h, i, [d EXCEPT !.ops = o, !.active = a], FreeHand)
       PROVE  MenusAreTrue' /\ NamesKept
  <2>1. PICK e : e = [d EXCEPT !.ops = o, !.active = a]
    OBVIOUS
  <2>2. /\ e \in Persons_ /\ e.known /\ e.name = d.name
        /\ e.committee = d.committee /\ e.chair = d.chair /\ e.seats = d.seats
    BY <1>3, <1>4, <2>1 DEF Persons_
  <2>3. FirstSeat(e)
    BY <1>3, <2>2 DEF FirstSeat
  <2>4. SaveMember(h, i, e, w)
    BY <1>6, <1>10, <2>1
  <2> QED BY <1>8, <2>2, <2>3, <2>4
<1> QED BY <1>2, <1>9, <1>10

(* The bounds, when nobody bothers and when somebody does. *)
LEMMA RmQuiet ==
    ASSUME MenusAreTrue, UNCHANGED <<made, chores>>
    PROVE  made \in Nat /\ made' = made /\ made <= made' /\ made' <= chores' + 1
           /\ chores' \in 0..MaxChores
BY DEF MenusAreTrue, RmTyped

LEMMA MadeIsBounded ==
    ASSUME MenusAreTrue
    PROVE  made \in 0..(MaxChores + 1) /\ menus \in 0..(MaxChores + 1)
<1>1. made \in Nat /\ made <= chores + 1 /\ chores \in 0..MaxChores /\ menus \in 0..made
  BY DEF MenusAreTrue, RmTyped
<1>2. MaxChores \in Nat
  BY RichMenusAssumption
<1> QED BY <1>1, <1>2

LEMMA RmBother ==
    ASSUME MenusAreTrue, UNCHANGED made, Bothers
    PROVE  made \in Nat /\ made' = made /\ made <= made' /\ made' <= chores' + 1
           /\ chores' \in 0..MaxChores
BY RichMenusAssumption DEF MenusAreTrue, RmTyped, Bothers

(* What is opened, listed or read is as it was read. *)
LEMMA OpenMemberIsTrue ==
    ASSUME MenusAreTrue, NEW h \in Hands, OpenMember(h)
    PROVE  MenusAreTrue'
<1>1. PICK i \in MemberIds :
        /\ IsAt(h, "idle") /\ person[i].known /\ Bothers
        /\ hand' = [hand EXCEPT ![h] = [FreeHand EXCEPT
             !.pc = "edit", !.what = "edit", !.copies[i] = person[i], !.at = i]]
        /\ UNCHANGED <<person, made, menus, shown, friend, follows, shared>>
  BY Zenon DEF OpenMember
<1>2. PICK c : c = [FreeHand.copies EXCEPT ![i] = person[i]]
  OBVIOUS
<1>3. /\ c \in [MemberIds -> Persons_] /\ c[i] = person[i]
      /\ \A j \in MemberIds : FirstSeat(c[j])
  BY <1>2, UnknownIsDocument DEF FreeHand, MenusAreTrue, RmTyped
<1>4. PICK w : w = [FreeHand EXCEPT !.pc = "edit", !.what = "edit", !.copies = c, !.at = i]
  OBVIOUS
<1>5. HandIsTrue(FreeHand)
  BY FreeHandIsTrue, RmFacts
<1>6. w \in HandDocs
  BY <1>3, <1>4, <1>5 DEF HandIsTrue, HandIsTyped, HandDocs
<1>7. /\ w.pc = "edit" /\ w.what = "edit" /\ w.copies = c /\ w.at = i
      /\ w.menu = NoMenu /\ w.new = {}
  BY <1>4 DEF FreeHand
<1>8. NoMenu[1] = 0 /\ made \in Nat
  BY RmFacts DEF NoMenu
<1>9. HandIsTyped(w)
  BY <1>3, <1>6, <1>7, <1>8 DEF HandIsTyped
<1>10. HandIsTrue(w)
  BY <1>1, <1>3, <1>7, <1>9 DEF HandIsTrue, NamesFit, Saves, RosterKept, SweepSees
<1>11. hand' = [hand EXCEPT ![h] = w]
  BY <1>1, <1>2, <1>4 DEF FreeHand
<1>12. follows' \subseteq Accounts /\ chores' \in 0..MaxChores /\ made' <= chores' + 1 /\ made' = made
  BY <1>1, RichMenusAssumption DEF Bothers, MenusAreTrue, RmTyped
<1>13. UNCHANGED <<person, menus, shown, friend, shared>> /\ made <= made'
  BY <1>1, <1>8
<1> QED BY <1>8, <1>10, <1>11, <1>12, <1>13, HandGoesOn

(* A call that has a link to make, of a copy as it is now. *)
LEMMA LinkIsTrue ==
    ASSUME made \in Nat, NEW i \in MemberIds, NEW d \in Persons_, FirstSeat(d), d.line \in Accounts,
           NEW what \in {"link", "follow"}, NEW w,
           w = [FreeHand EXCEPT !.pc = "link", !.what = what, !.copies[i] = d, !.at = i]
    PROVE  HandIsTrue(w)
<1>1. PICK c : c = [FreeHand.copies EXCEPT ![i] = d]
  OBVIOUS
<1>2. c \in [MemberIds -> Persons_] /\ c[i] = d /\ \A j \in MemberIds : FirstSeat(c[j])
  BY <1>1, UnknownIsDocument DEF FreeHand
<1>3. w = [FreeHand EXCEPT !.pc = "link", !.what = what, !.copies = c, !.at = i]
  BY <1>1 DEF FreeHand
<1>4. HandIsTrue(FreeHand)
  BY FreeHandIsTrue
<1>5. w \in HandDocs
  BY <1>2, <1>3, <1>4 DEF HandIsTrue, HandIsTyped, HandDocs
<1>6. /\ w.pc = "link" /\ w.what = what /\ w.copies = c /\ w.at = i
      /\ w.menu = NoMenu /\ w.new = {}
  BY <1>3 DEF FreeHand
<1>65. w.todo = {}
  BY <1>3 DEF FreeHand
<1>7. NoMenu[1] = 0
  BY DEF NoMenu
<1>8. HandIsTyped(w)
  BY <1>2, <1>5, <1>6, <1>65, <1>7 DEF HandIsTyped
<1> QED BY <1>6, <1>8 DEF HandIsTrue, NamesFit, Saves, RosterKept, SweepSees

LEMMA LinkAccountIsTrue ==
    ASSUME MenusAreTrue, NEW h \in Hands, LinkAccount(h)
    PROVE  MenusAreTrue' /\ NamesKept
<1>0. PICK i \in MemberIds, u \in Accounts :
        /\ IsAt(h, "idle") /\ Bothers
        /\ person[i].known /\ person[i].line = NoAccount
        /\ SaveMember(h, i, [person[i] EXCEPT !.line = u],
                      [FreeHand EXCEPT !.pc = "link", !.what = "link",
                           !.copies[i] = [person[i] EXCEPT !.line = u], !.at = i])
        /\ UNCHANGED <<made, menus, shown, friend, follows, shared>>
  BY Zenon DEF LinkAccount
<1>1. PICK d :
        /\ d = [person[i] EXCEPT !.line = u]
        /\ IsAt(h, "idle") /\ Bothers
        /\ person[i].known /\ person[i].line = NoAccount
        /\ SaveMember(h, i, d, [FreeHand EXCEPT !.pc = "link", !.what = "link",
                                            !.copies[i] = d, !.at = i])
        /\ UNCHANGED <<made, menus, shown, friend, follows, shared>>
  BY <1>0
<1>2. /\ d \in Persons_ /\ d.known /\ FirstSeat(d) /\ d.name = person[i].name /\ d.line = u
  <2>1. PICK e \in Persons_ : e = person[i]
    BY RmFacts
  <2>2. FirstSeat(e) /\ e.known /\ d = [e EXCEPT !.line = u]
    BY <1>1, <2>1 DEF MenusAreTrue
  <2> QED BY <2>1, <2>2 DEF Persons_, FirstSeat
<1>3. PICK w : w = [FreeHand EXCEPT !.pc = "link", !.what = "link", !.copies[i] = d, !.at = i]
  OBVIOUS
<1>4. SaveMember(h, i, d, w)
  BY <1>1, <1>3
<1>5. made \in Nat /\ made' = made
  BY <1>1, RmFacts
<1>6. HandIsTrue(w)'
  <2>1. HandIsTrue(w) /\ HandIsTyped(w)
    BY <1>2, <1>3, <1>5, LinkIsTrue DEF HandIsTrue
  <2>2. HandIsTyped(w)'
    BY <1>5, <2>1, HandStaysTyped
  <2>3. w.pc = "link" /\ w.what = "link"
    BY <1>3 DEF FreeHand
  <2> QED BY <2>2, <2>3 DEF HandIsTrue, NamesFit, Saves, RosterKept, SweepSees
<1>7. chores' \in 0..MaxChores /\ made <= chores' + 1 /\ shared' \subseteq MemberIds
  BY <1>1, RichMenusAssumption DEF Bothers, MenusAreTrue, RmTyped
<1> QED BY <1>1, <1>2, <1>4, <1>6, <1>7, SaveMemberIsTrue

LEMMA FollowIsTrue ==
    ASSUME MenusAreTrue, NEW h \in Hands, LinkMenuOnFollow(h)
    PROVE  MenusAreTrue'
<1>1. PICK u \in follows :
        /\ IsAt(h, "idle")
        /\ follows' = follows \ {u}
        /\ IF \E i \in MemberIds : person[i].line = u
           THEN \E i \in MemberIds :
                  /\ person[i].line = u
                  /\ hand' = [hand EXCEPT ![h] = [FreeHand EXCEPT !.pc = "link", !.what = "follow",
                                                  !.copies[i] = person[i], !.at = i]]
           ELSE UNCHANGED hand
        /\ UNCHANGED <<person, made, menus, shown, friend, chores, shared>>
  BY Zenon DEF LinkMenuOnFollow
<1>2. /\ follows' \subseteq Accounts /\ u \in Accounts /\ chores' \in 0..MaxChores
      /\ made \in Nat /\ made' = made /\ made' <= chores' + 1
      /\ made <= made'
  <2>1. follows' \subseteq Accounts /\ u \in Accounts
    BY <1>1 DEF MenusAreTrue, RmTyped
  <2> QED BY <1>1, <2>1, RmQuiet
<1>25. UNCHANGED <<person, menus, shown, friend, shared>>
  BY <1>1
<1>3. CASE UNCHANGED hand
  <2>1. HandIsTrue(hand[h]) /\ hand' = [hand EXCEPT ![h] = hand[h]]
    BY <1>3 DEF MenusAreTrue, RmTyped
  <2> QED BY <1>2, <1>25, <2>1, HandGoesOn
<1>4. ASSUME NEW i \in MemberIds, person[i].line = u,
             hand' = [hand EXCEPT ![h] = [FreeHand EXCEPT !.pc = "link", !.what = "follow",
                                          !.copies[i] = person[i], !.at = i]]
      PROVE  MenusAreTrue'
  <2>1. PICK d : d = person[i]
    OBVIOUS
  <2>2. d \in Persons_ /\ FirstSeat(d) /\ d.line \in Accounts
    BY <1>2, <1>4, <2>1 DEF MenusAreTrue, RmTyped
  <2>3. PICK w : w = [FreeHand EXCEPT !.pc = "link", !.what = "follow", !.copies[i] = d, !.at = i]
    OBVIOUS
  <2>4. HandIsTrue(w)
    BY <1>2, <2>2, <2>3, LinkIsTrue
  <2>5. hand' = [hand EXCEPT ![h] = w]
    BY <1>4, <2>1, <2>3
  <2> QED BY <1>2, <1>25, <2>4, <2>5, HandGoesOn
<1> QED BY <1>1, <1>3, <1>4

LEMMA ListedIsTrue ==
    ASSUME MenusAreTrue, NEW h \in Hands, NEW what \in {"sweep", "all"}, ListedNow(h, what),
           UNCHANGED <<person, made, menus, shown, friend, follows, shared>>,
           chores' \in 0..MaxChores, made' <= chores' + 1
    PROVE  MenusAreTrue'
<1>1. PICK c : c = [i \in MemberIds |-> IF person[i].line # NoAccount THEN person[i] ELSE Unknown]
  OBVIOUS
<1>2. /\ c \in [MemberIds -> Persons_]
      /\ \A j \in MemberIds : FirstSeat(c[j])
      /\ \A j \in MemberIds : c[j].line \in Accounts => person[j] = c[j]
      /\ \A j \in MemberIds : person[j].line # NoAccount => c[j].line \in Accounts
  <2> SUFFICES ASSUME NEW j \in MemberIds
               PROVE  /\ c[j] \in Persons_ /\ FirstSeat(c[j])
                      /\ c[j].line \in Accounts => person[j] = c[j]
                      /\ person[j].line # NoAccount => c[j].line \in Accounts
    BY <1>1
  <2>1. person[j] \in Persons_ /\ FirstSeat(person[j])
    BY DEF MenusAreTrue, RmTyped
  <2>2. person[j].line \in Accounts \cup {NoAccount}
    BY <2>1 DEF Persons_
  <2> QED BY <1>1, <2>1, <2>2, UnknownIsDocument, RichMenusAssumption
<1>3. PICK t : t = {i \in MemberIds : person[i].line # NoAccount}
  OBVIOUS
<1>4. PICK w : w = [FreeHand EXCEPT !.pc = "walk", !.what = what, !.seen = menus,
                                    !.todo = t, !.copies = c]
  OBVIOUS
<1>5. HandIsTrue(FreeHand) /\ made \in Nat /\ menus \in Nat
  BY FreeHandIsTrue, RmFacts
<1>6. w \in HandDocs
  BY <1>2, <1>3, <1>4, <1>5 DEF HandIsTrue, HandIsTyped, HandDocs
<1>7. /\ w.pc = "walk" /\ w.what = what /\ w.copies = c /\ w.todo = t
      /\ w.menu = NoMenu /\ w.seen = menus
  BY <1>4 DEF FreeHand
<1>8. NoMenu[1] = 0
  BY DEF NoMenu
<1>9. \A i \in t : c[i].line \in Accounts
  BY <1>2, <1>3
<1>10. HandIsTyped(w)
  BY <1>2, <1>5, <1>6, <1>7, <1>8, <1>9 DEF HandIsTyped
<1>11. HandIsTrue(w)
  BY <1>2, <1>7, <1>10 DEF HandIsTrue, NamesFit, Saves, RosterKept, SweepSees
<1>12. hand' = [hand EXCEPT ![h] = w]
  BY <1>1, <1>3, <1>4 DEF ListedNow
<1>13. UNCHANGED <<person, menus, shown, friend, shared>> /\ made <= made' /\ made' \in Nat
  BY <1>5
<1>14. follows' \subseteq Accounts
  BY DEF MenusAreTrue, RmTyped
<1> QED BY <1>11, <1>12, <1>13, <1>14, HandGoesOn

LEMMA MakeMenusIsTrue ==
    ASSUME MenusAreTrue, NEW h \in Hands, MakeMenus(h)
    PROVE  MenusAreTrue'
<1>1. PICK w : w = [FreeHand EXCEPT !.pc = "made", !.what = "setup", !.seen = made + 1]
  OBVIOUS
<1>2. /\ hand' = [hand EXCEPT ![h] = w] /\ made' = made + 1 /\ Bothers
      /\ UNCHANGED <<person, menus, shown, friend, shared>> /\ follows' = follows
  BY <1>1 DEF MakeMenus
<1>3. HandIsTrue(FreeHand) /\ made \in Nat /\ made <= chores + 1
  BY FreeHandIsTrue, RmFacts DEF MenusAreTrue, RmTyped
<1>4. /\ chores' \in 0..MaxChores /\ made' <= chores' + 1 /\ made <= made' /\ made' \in Nat
  BY <1>2, <1>3, RichMenusAssumption DEF Bothers, MenusAreTrue, RmTyped
<1>5. w \in HandDocs /\ w.pc = "made" /\ w.what = "setup" /\ w.seen = made + 1
      /\ w.menu = NoMenu /\ w.copies = FreeHand.copies
  <2>1. FreeHand \in HandDocs /\ made + 1 \in Nat
    BY <1>3 DEF HandIsTrue, HandIsTyped
  <2>2. PICK f \in HandDocs : f = FreeHand
    BY <2>1
  <2>3. w = [f EXCEPT !.pc = "made", !.what = "setup", !.seen = made + 1]
    BY <1>1, <2>2
  <2>4. /\ w \in HandDocs /\ w.pc = "made" /\ w.what = "setup" /\ w.seen = made + 1
        /\ w.menu = f.menu /\ w.copies = f.copies
    BY <2>1, <2>3 DEF HandDocs
  <2> QED BY <2>2, <2>4 DEF FreeHand
<1>6. NoMenu[1] = 0 /\ w.seen \in 1..made' /\ \A j \in MemberIds : FirstSeat(w.copies[j])
  BY <1>2, <1>3, <1>4, <1>5 DEF NoMenu, HandIsTrue, HandIsTyped
<1>7. HandIsTyped(w)'
  BY <1>4, <1>5, <1>6 DEF HandIsTyped, FirstSeat
<1>8. HandIsTrue(w)'
  BY <1>5, <1>7 DEF HandIsTrue, NamesFit, Saves, RosterKept, SweepSees
<1>9. follows' \subseteq Accounts
  BY <1>2 DEF MenusAreTrue, RmTyped
<1> QED BY <1>2, <1>4, <1>8, <1>9, HandGoesOnAs

LEMMA HandDiesIsTrue ==
    ASSUME MenusAreTrue, NEW h \in Hands, Ends(h),
           UNCHANGED <<person, made, menus, shown, friend, follows, shared>>,
           chores' \in 0..MaxChores, made' <= chores' + 1
    PROVE  MenusAreTrue'
<1>1. PICK w : w = FreeHand
  OBVIOUS
<1>2. HandIsTrue(w) /\ hand' = [hand EXCEPT ![h] = w] /\ made' \in Nat /\ made <= made'
  BY <1>1, FreeHandIsTrue, RmFacts DEF Ends
<1>3. UNCHANGED <<person, menus, shown, friend, shared>> /\ follows' \subseteq Accounts
  BY DEF MenusAreTrue, RmTyped
<1> QED BY <1>2, <1>3, HandGoesOn

(* An account shows another menu, which is not the officers' second tab. *)
LEMMA ShownStaysTrue ==
    ASSUME NEW u \in Accounts, NEW m \in Menus, m[2] # "officer_ops" \/ m[1] # menus,
           shown \in [Accounts -> Menus], shown' = [shown EXCEPT ![u] = m],
           UNCHANGED <<person, made, menus, shared>>, made \in Nat, NEW w, HandIsTrue(w)
    PROVE  HandIsTrue(w)'
<1>1. HandIsTyped(w)'
  BY HandStaysTyped DEF HandIsTrue
<1>2. SweepSees(w)'
  <2> SUFFICES ASSUME w.what = "sweep", w.pc \in {"link", "post"}, w.copies[w.at].line \notin w.stale,
                      kind_for(w.copies[w.at]) = "officer"
               PROVE  shown'[w.copies[w.at].line] # <<menus, "officer_ops">>
    BY DEF HandIsTrue, SweepSees
  <2>1. w.at \in MemberIds /\ w.copies[w.at].line \in Accounts
    BY DEF HandIsTrue, HandIsTyped
  <2>2. shown[w.copies[w.at].line] # <<menus, "officer_ops">>
    BY DEF HandIsTrue, SweepSees
  <2>3. m # <<menus, "officer_ops">>
    OBVIOUS
  <2> QED BY <2>1, <2>2, <2>3
<1> QED BY <1>1, <1>2 DEF HandIsTrue, NamesFit, RosterKept, Saves

(* The parts that a change of what is shown leaves or has. *)
LEMMA ShownIsTrue ==
    ASSUME MenusAreTrue, shown' \in [Accounts -> Menus], \A u \in Accounts : shown'[u][1] <= made,
           UNCHANGED <<person, made, menus, follows, shared>>, friend' \in [Accounts -> BOOLEAN],
           chores' \in 0..MaxChores, made' <= chores' + 1,
           hand' \in [Hands -> HandDocs], \A g \in Hands : HandIsTrue(hand[g])'
    PROVE  MenusAreTrue'
<1>1. RmTyped'
  <2>1. menus' \in 0..made' /\ made' \in Nat
    BY DEF MenusAreTrue, RmTyped
  <2> QED BY <2>1 DEF MenusAreTrue, RmTyped
<1> QED BY <1>1 DEF MenusAreTrue

LEMMA BlockIsTrue ==
    ASSUME MenusAreTrue, NEW u \in Accounts, BlockAccount(u)
    PROVE  MenusAreTrue'
<1>1. /\ friend' = [friend EXCEPT ![u] = FALSE] /\ shown' = [shown EXCEPT ![u] = NoMenu]
      /\ UNCHANGED <<person, made, menus, follows, hand, shared>> /\ Bothers
  BY DEF BlockAccount
<1>2. NoMenu \in Menus /\ NoMenu[1] = 0 /\ NoMenu[2] = "member"
  BY RichMenusAssumption DEF NoMenu, Menus, Kinds
<1>3. /\ made \in Nat /\ made' = made /\ made' <= chores' + 1 /\ chores' \in 0..MaxChores
  BY <1>1, RmBother
<1>4. shown \in [Accounts -> Menus] /\ (\A v \in Accounts : shown[v][1] <= made)
      /\ friend \in [Accounts -> BOOLEAN] /\ hand \in [Hands -> HandDocs]
  BY DEF MenusAreTrue, RmTyped
<1>5. shown' \in [Accounts -> Menus] /\ \A v \in Accounts : shown'[v][1] <= made
  BY <1>1, <1>2, <1>3, <1>4
<1>6. ASSUME NEW g \in Hands PROVE HandIsTrue(hand[g])'
  <2>1. PICK v : v = hand[g]
    OBVIOUS
  <2>2. HandIsTrue(v)
    BY <2>1 DEF MenusAreTrue
  <2>3. HandIsTrue(v)'
    BY <1>1, <1>2, <1>3, <1>4, <2>2, ShownStaysTrue
  <2> QED BY <1>1, <2>1, <2>3 DEF HandIsTrue, HandIsTyped, NamesFit, RosterKept, SweepSees, Saves
<1>7. friend' \in [Accounts -> BOOLEAN] /\ hand' \in [Hands -> HandDocs]
  BY <1>1, <1>4
<1>8. UNCHANGED <<person, made, menus, follows, shared>>
  BY <1>1
<1> QED BY <1>3, <1>5, <1>6, <1>7, <1>8, ShownIsTrue

LEMMA BefriendIsTrue ==
    ASSUME MenusAreTrue, NEW u \in Accounts, Befriend(u)
    PROVE  MenusAreTrue'
<1>1. /\ friend' = [friend EXCEPT ![u] = TRUE] /\ follows' = follows \cup {u} /\ Bothers
      /\ UNCHANGED <<person, made, menus, shown, hand, shared>>
  BY DEF Befriend
<1>2. /\ made \in Nat /\ made' = made /\ made <= made' /\ made' <= chores' + 1 /\ chores' \in 0..MaxChores
  BY <1>1, RmBother
<1>3. ASSUME NEW g \in Hands PROVE HandIsTrue(hand[g])'
  <2>1. PICK v : v = hand[g]
    OBVIOUS
  <2>2. HandIsTrue(v)'
    BY <1>1, <1>2, <2>1, HandStaysTrue DEF MenusAreTrue
  <2> QED BY <1>1, <2>1, <2>2 DEF HandIsTrue, HandIsTyped, NamesFit, RosterKept, SweepSees, Saves
<1>4. friend' \in [Accounts -> BOOLEAN] /\ follows' \subseteq Accounts
  BY <1>1 DEF MenusAreTrue, RmTyped
<1>5. menus' \in 0..made' /\ made' \in Nat
  BY <1>1 DEF MenusAreTrue, RmTyped
<1>6. RmTyped'
  BY <1>1, <1>2, <1>4, <1>5 DEF MenusAreTrue, RmTyped
<1> QED BY <1>1, <1>3, <1>6 DEF MenusAreTrue, FirstSeat

LEMMA SwitchIsTrue ==
    ASSUME MenusAreTrue, NEW u \in Accounts, SwitchTab(u)
    PROVE  MenusAreTrue'
<1>1. PICK tab \in {"officer", "officer_ops"} :
        /\ shown' = [shown EXCEPT ![u] = <<made, tab>>] /\ Bothers
        /\ hand' = [g \in Hands |->
             IF hand[g].pc \in {"link", "post"} /\ hand[g].copies[hand[g].at].line = u
             THEN [hand[g] EXCEPT !.stale = @ \cup {u}] ELSE hand[g]]
        /\ UNCHANGED <<person, made, menus, friend, follows, shared>>
  BY Zenon DEF SwitchTab
<1>2. /\ made \in Nat /\ made' = made /\ made' <= chores' + 1 /\ chores' \in 0..MaxChores
  BY <1>1, RmBother
<1>3. <<made, tab>> \in Menus
  <2>1. made \in 0..(MaxChores + 1)
    BY MadeIsBounded
  <2>2. tab \in Kinds
    BY DEF Kinds
  <2> QED BY <2>1, <2>2 DEF Menus
<1>4. shown \in [Accounts -> Menus] /\ (\A v \in Accounts : shown[v][1] <= made)
      /\ friend \in [Accounts -> BOOLEAN] /\ hand \in [Hands -> HandDocs]
  BY DEF MenusAreTrue, RmTyped
<1>5. shown' \in [Accounts -> Menus] /\ \A v \in Accounts : shown'[v][1] <= made
  BY <1>1, <1>2, <1>3, <1>4
<1>6. ASSUME NEW g \in Hands PROVE HandIsTrue(hand[g])' /\ hand'[g] \in HandDocs
  <2>1. PICK w : w = hand[g]
    OBVIOUS
  <2>2. HandIsTrue(w) /\ w \in HandDocs /\ w.stale \in SUBSET Accounts
    BY <2>1 DEF MenusAreTrue, HandIsTrue, HandIsTyped, HandDocs
  <2>3. PICK v : v = hand'[g]
    OBVIOUS
  <2>4. v = IF w.pc \in {"link", "post"} /\ w.copies[w.at].line = u
            THEN [w EXCEPT !.stale = w.stale \cup {u}] ELSE w
    BY <1>1, <2>1, <2>3
  <2>5. /\ v \in HandDocs
        /\ v.pc = w.pc /\ v.what = w.what /\ v.copies = w.copies /\ v.todo = w.todo
        /\ v.linked = w.linked /\ v.new = w.new /\ v.at = w.at /\ v.seen = w.seen
        /\ v.menu = w.menu /\ v.names = w.names /\ v.others = w.others
        /\ w.stale \subseteq v.stale
        /\ w.pc \in {"link", "post"} /\ w.copies[w.at].line = u => u \in v.stale
    BY <2>2, <2>4 DEF HandDocs
  <2>6. HandIsTyped(v)
    BY <2>2, <2>5 DEF HandIsTrue, HandIsTyped
  <2>7. HandIsTyped(v)'
    BY <1>2, <2>6, HandStaysTyped
  <2>8. NamesFit(v)' /\ RosterKept(v)'
    BY <1>1, <2>2, <2>5 DEF HandIsTrue, NamesFit, RosterKept, Saves
  <2>9. SweepSees(v)'
    <3> SUFFICES ASSUME w.what = "sweep"
                 PROVE  /\ w.pc \in {"walk", "link", "post"} => \A j \in MemberIds :
                             w.copies[j].line \in Accounts /\ w.copies[j].line \notin v.stale =>
                                person[j] = w.copies[j] /\ w.seen = menus
                        /\ w.pc \in {"link", "post"} /\ w.copies[w.at].line \notin v.stale
                             /\ kind_for(w.copies[w.at]) = "officer"
                           => shown'[w.copies[w.at].line] # <<menus, "officer_ops">>
      BY <1>1, <2>5 DEF SweepSees
    <3>1. /\ w.pc \in {"walk", "link", "post"} => \A j \in MemberIds :
               w.copies[j].line \in Accounts /\ w.copies[j].line \notin w.stale =>
                  person[j] = w.copies[j] /\ w.seen = menus
          /\ w.pc \in {"link", "post"} /\ w.copies[w.at].line \notin w.stale
               /\ kind_for(w.copies[w.at]) = "officer"
             => shown[w.copies[w.at].line] # <<menus, "officer_ops">>
      BY <2>2 DEF HandIsTrue, SweepSees
    <3>2. w.pc \in {"link", "post"} => w.copies[w.at].line \in Accounts
      BY <2>2 DEF HandIsTrue, HandIsTyped
    <3> QED BY <1>1, <1>4, <2>5, <3>1, <3>2
  <2>10. HandIsTrue(v)'
    BY <2>7, <2>8, <2>9 DEF HandIsTrue
  <2> QED BY <2>3, <2>5, <2>10 DEF HandIsTrue, HandIsTyped, NamesFit, RosterKept, SweepSees, Saves
<1>7. friend' \in [Accounts -> BOOLEAN] /\ hand' \in [Hands -> HandDocs]
  BY <1>1, <1>4, <1>6
<1>8. UNCHANGED <<person, made, menus, follows, shared>>
  BY <1>1
<1> QED BY <1>2, <1>5, <1>6, <1>7, <1>8, ShownIsTrue

(* A call that passes over a member, or has posted his menu, knows the rest. *)
LEMMA PassedIsTrue ==
    ASSUME NEW h \in Hands, HandIsTrue(hand[h]), hand[h].pc \in {"walk", "link", "post"},
           NEW i \in MemberIds, NEW w, w = Passed(h, i), made \in Nat
    PROVE  HandIsTrue(w)
<1>1. PICK v : v = hand[h]
  OBVIOUS
<1>2. v \in HandDocs /\ v.copies \in [MemberIds -> Persons_] /\ HandIsTrue(v)
      /\ v.pc \in {"walk", "link", "post"} /\ v.todo \in SUBSET MemberIds
  BY <1>1 DEF HandIsTrue, HandIsTyped, HandDocs
<1>3. PICK c : c = [v.copies EXCEPT ![i] = IF v.what = "import" THEN v.copies[i] ELSE Unknown]
  OBVIOUS
<1>4. /\ c \in [MemberIds -> Persons_] /\ \A j \in MemberIds : FirstSeat(c[j])
      /\ v.what = "import" => c = v.copies
      /\ \A j \in MemberIds : j # i => c[j] = v.copies[j]
      /\ v.what # "import" => c[i].line = NoAccount
  BY <1>2, <1>3, UnknownIsDocument DEF HandIsTrue, HandIsTyped
<1>5. w = [v EXCEPT !.pc = "walk", !.todo = v.todo \ {i}, !.at = 0, !.menu = NoMenu, !.copies = c]
  BY <1>1, <1>2, <1>3 DEF Passed, HandDocs
<1>6. NoMenu \in Menus /\ NoMenu[1] = 0
  BY RichMenusAssumption DEF NoMenu, Menus, Kinds
<1>7. w \in HandDocs
  BY <1>2, <1>4, <1>5, <1>6 DEF HandDocs
<1>8. /\ w.pc = "walk" /\ w.what = v.what /\ w.copies = c /\ w.todo = v.todo \ {i}
      /\ w.linked = v.linked /\ w.new = v.new /\ w.seen = v.seen
      /\ w.menu = NoMenu /\ w.names = v.names /\ w.others = v.others /\ w.stale = v.stale
  BY <1>2, <1>5 DEF HandDocs
<1>9. HandIsTyped(w)
  <2>1. \A j \in w.todo : w.copies[j].line \in Accounts
    BY <1>2, <1>4, <1>8 DEF HandIsTrue, HandIsTyped
  <2> QED BY <1>4, <1>6, <1>7, <1>8, <2>1 DEF HandIsTyped
<1>10. NamesFit(w)
  BY <1>8 DEF NamesFit, Saves
<1>11. RosterKept(w)
  BY <1>2, <1>4, <1>8 DEF HandIsTrue, RosterKept
<1>12. SweepSees(w)
  <2>1. NoAccount \notin Accounts
    BY RichMenusAssumption
  <2> QED BY <1>2, <1>4, <1>8, <2>1 DEF HandIsTrue, SweepSees
<1> QED BY <1>9, <1>10, <1>11, <1>12 DEF HandIsTrue

LEMMA SaveMenusIsTrue ==
    ASSUME MenusAreTrue, NEW h \in Hands, SaveMenus(h)
    PROVE  MenusAreTrue'
<1>1. /\ hand[h].pc = "made" /\ menus' = hand[h].seen
      /\ hand' = [g \in Hands |-> IF g = h THEN FreeHand ELSE IF hand[g].pc = "idle" THEN hand[g]
                                  ELSE [hand[g] EXCEPT !.stale = Accounts]]
      /\ UNCHANGED <<person, made, shown, friend, follows, chores, shared>>
  BY DEF SaveMenus, IsAt
<1>2. hand[h].seen \in 1..made
  BY <1>1 DEF MenusAreTrue, HandIsTrue, HandIsTyped
<1>3. /\ made \in Nat /\ made' = made /\ made <= made' /\ made' <= chores' + 1
      /\ chores' \in 0..MaxChores
  BY <1>1, RmQuiet
<1>4. ASSUME NEW g \in Hands PROVE HandIsTrue(hand[g])' /\ hand'[g] \in HandDocs
  <2>1. PICK w : w = hand[g]
    OBVIOUS
  <2>2. HandIsTrue(w) /\ w \in HandDocs
    BY <2>1 DEF MenusAreTrue, HandIsTrue, HandIsTyped
  <2>3. PICK v : v = hand'[g]
    OBVIOUS
  <2>4. HandIsTrue(v)'
    <3>1. CASE g = h
      <4>1. PICK f : f = FreeHand
        OBVIOUS
      <4>2. HandIsTrue(FreeHand)' /\ v = f
        BY <1>1, <1>3, <2>3, <3>1, <4>1, FreeHandStaysTrue
      <4>3. HandIsTrue(f)'
        BY <4>1, <4>2 DEF FreeHand
      <4> QED BY <4>2, <4>3
    <3>2. CASE g # h /\ w.pc = "idle"
      <4>1. v = w
        BY <1>1, <2>1, <2>3, <3>2
      <4>2. HandIsTyped(v)'
        BY <1>3, <2>2, <4>1, HandStaysTyped DEF HandIsTrue
      <4> QED BY <3>2, <4>1, <4>2 DEF HandIsTrue, NamesFit, Saves, RosterKept, SweepSees
    <3>3. CASE g # h /\ w.pc # "idle"
      <4>1. v = [w EXCEPT !.stale = Accounts]
        BY <1>1, <2>1, <2>3, <3>3
      <4>2. /\ v \in HandDocs
            /\ v.pc = w.pc /\ v.what = w.what /\ v.copies = w.copies /\ v.todo = w.todo
            /\ v.linked = w.linked /\ v.new = w.new /\ v.at = w.at /\ v.seen = w.seen
            /\ v.menu = w.menu /\ v.names = w.names /\ v.others = w.others
            /\ v.stale = Accounts
        BY <2>2, <4>1 DEF HandDocs
      <4>3. HandIsTyped(v)
        BY <2>2, <4>2 DEF HandIsTrue, HandIsTyped
      <4>4. HandIsTyped(v)'
        BY <1>3, <4>3, HandStaysTyped
      <4>5. NamesFit(v)' /\ RosterKept(v)'
        BY <1>1, <2>2, <4>2 DEF HandIsTrue, NamesFit, RosterKept, Saves
      <4>6. SweepSees(v)'
        BY <4>2, <4>3 DEF SweepSees, HandIsTyped
      <4> QED BY <4>4, <4>5, <4>6 DEF HandIsTrue
    <3> QED BY <3>1, <3>2, <3>3
  <2> QED BY <2>3, <2>4 DEF HandIsTrue, HandIsTyped, NamesFit, RosterKept, SweepSees, Saves
<1>5. hand' \in [Hands -> HandDocs]
  BY <1>1, <1>4
<1>6. menus' \in 0..made'
  BY <1>1, <1>2, <1>3
<1>7. RmTyped'
  BY <1>1, <1>3, <1>5, <1>6 DEF MenusAreTrue, RmTyped
<1> QED BY <1>1, <1>4, <1>7 DEF MenusAreTrue, FirstSeat

LEMMA PostMenuIsTrue ==
    ASSUME MenusAreTrue, NEW h \in Hands, NEW works \in BOOLEAN, PostMenu(h, works)
    PROVE  MenusAreTrue'
<1>1. PICK i, u : i = hand[h].at /\ u = hand[h].copies[i].line
  OBVIOUS
<1>2. /\ hand[h].pc = "post"
      /\ shown' = IF works /\ friend[u] THEN [shown EXCEPT ![u] = hand[h].menu] ELSE shown
      /\ hand' = [hand EXCEPT ![h] = Passed(h, i)]
      /\ UNCHANGED <<person, made, menus, friend, follows, chores, shared>>
  BY <1>1 DEF PostMenu, IsAt
<1>3. /\ hand[h] \in HandDocs /\ HandIsTrue(hand[h]) /\ i \in MemberIds /\ u \in Accounts
      /\ hand[h].menu \in Menus /\ hand[h].menu[1] <= made /\ hand[h].menu[2] # "officer_ops"
  BY <1>1, <1>2, RmFacts DEF HandIsTrue, HandIsTyped, HandDocs
<1>4. /\ made \in Nat /\ made' = made /\ made <= made' /\ made' <= chores' + 1
      /\ chores' \in 0..MaxChores
  BY <1>2, RmQuiet
<1>5. shown \in [Accounts -> Menus] /\ (\A v \in Accounts : shown[v][1] <= made)
      /\ friend \in [Accounts -> BOOLEAN] /\ hand \in [Hands -> HandDocs]
  BY DEF MenusAreTrue, RmTyped
<1>6. PICK w : w = Passed(h, i)
  OBVIOUS
<1>7. HandIsTrue(w)
  BY <1>2, <1>3, <1>4, <1>6, PassedIsTrue
<1>8. ASSUME NEW v, HandIsTrue(v) PROVE HandIsTrue(v)'
  <2>1. CASE shown' = shown
    BY <1>2, <1>4, <1>8, <2>1, HandStaysTrue
  <2>2. CASE shown' = [shown EXCEPT ![u] = hand[h].menu]
    <3>1. PICK m \in Menus : m = hand[h].menu
      BY <1>3
    <3> QED BY <1>2, <1>3, <1>4, <1>5, <1>8, <2>2, <3>1, ShownStaysTrue
  <2> QED BY <1>2, <2>1, <2>2
<1>9. shown' \in [Accounts -> Menus] /\ \A v \in Accounts : shown'[v][1] <= made
  BY <1>2, <1>3, <1>5
<1>10. ASSUME NEW g \in Hands PROVE HandIsTrue(hand[g])' /\ hand'[g] \in HandDocs
  <2>1. PICK v : v = hand'[g]
    OBVIOUS
  <2>2. HandIsTrue(v)
    BY <1>2, <1>5, <1>6, <1>7, <2>1 DEF MenusAreTrue
  <2>3. HandIsTrue(v)'
    BY <1>8, <2>2
  <2> QED BY <2>1, <2>3 DEF HandIsTrue, HandIsTyped, NamesFit, RosterKept, SweepSees, Saves
<1>11. hand' \in [Hands -> HandDocs] /\ friend' \in [Accounts -> BOOLEAN]
  BY <1>2, <1>5, <1>10
<1>12. UNCHANGED <<person, made, menus, follows, shared>>
  BY <1>2
<1> QED BY <1>4, <1>9, <1>10, <1>11, <1>12, ShownIsTrue

(* A call goes on while nothing else changes. *)
LEMMA StepIsTrue ==
    ASSUME MenusAreTrue, NEW h \in Hands, NEW w, HandIsTrue(w), hand' = [hand EXCEPT ![h] = w],
           UNCHANGED <<person, made, menus, shown, friend, follows, chores, shared>>
    PROVE  MenusAreTrue'
<1>1. /\ made \in Nat /\ made' = made /\ made <= made' /\ made' <= chores' + 1
      /\ chores' \in 0..MaxChores
  BY RmQuiet
<1>2. follows' \subseteq Accounts /\ UNCHANGED <<person, menus, shown, friend, shared>>
  BY DEF MenusAreTrue, RmTyped
<1> QED BY <1>1, <1>2, HandGoesOn

(* A call turns to a member it still has to link. *)
LEMMA TurnsIsTrue ==
    ASSUME NEW v, HandIsTrue(v), v.pc = "walk", NEW i \in v.todo,
           v.what = "sweep" /\ v.copies[i].line \notin v.stale /\ kind_for(v.copies[i]) = "officer"
             => shown[v.copies[i].line] # <<menus, "officer_ops">>,
           NEW w, w = [v EXCEPT !.pc = "link", !.at = i]
    PROVE  HandIsTrue(w)
<1>1. v \in HandDocs /\ i \in MemberIds
  BY DEF HandIsTrue, HandIsTyped, HandDocs
<1>2. /\ w \in HandDocs
      /\ w.pc = "link" /\ w.what = v.what /\ w.copies = v.copies /\ w.todo = v.todo
      /\ w.linked = v.linked /\ w.new = v.new /\ w.at = i /\ w.seen = v.seen
      /\ w.menu = v.menu /\ w.names = v.names /\ w.others = v.others /\ w.stale = v.stale
  BY <1>1 DEF HandDocs
<1>3. HandIsTyped(w)
  BY <1>1, <1>2 DEF HandIsTrue, HandIsTyped
<1>4. NamesFit(w)
  BY <1>2 DEF NamesFit, Saves
<1>5. RosterKept(w)
  BY <1>2 DEF HandIsTrue, RosterKept
<1>6. SweepSees(w)
  BY <1>2 DEF HandIsTrue, SweepSees
<1> QED BY <1>3, <1>4, <1>5, <1>6 DEF HandIsTrue

LEMMA LookIsTrue ==
    ASSUME MenusAreTrue, NEW h \in Hands, NEW answers \in BOOLEAN, LookAtMenu(h, answers)
    PROVE  MenusAreTrue'
<1>1. PICK i \in hand[h].todo :
        /\ IsAt(h, "walk") /\ hand[h].what = "sweep"
        /\ hand' = [hand EXCEPT ![h] = IF answers => IsRight(h, i) THEN Passed(h, i)
                                       ELSE [@ EXCEPT !.pc = "link", !.at = i]]
        /\ UNCHANGED <<person, made, menus, shown, friend, follows, chores, shared>>
  BY Zenon DEF LookAtMenu
<1>2. /\ hand[h] \in HandDocs /\ HandIsTrue(hand[h]) /\ made \in Nat /\ hand[h].pc = "walk"
      /\ i \in MemberIds
  BY <1>1, RmFacts DEF IsAt, HandDocs
<1>3. CASE answers => IsRight(h, i)
  <2>1. PICK w : w = Passed(h, i)
    OBVIOUS
  <2>2. HandIsTrue(w)
    BY <1>2, <2>1, PassedIsTrue
  <2>3. hand' = [hand EXCEPT ![h] = w]
    BY <1>1, <1>3, <2>1
  <2> QED BY <1>1, <2>2, <2>3, StepIsTrue
<1>4. CASE ~(answers => IsRight(h, i))
  <2>1. PICK v : v = hand[h]
    OBVIOUS
  <2>2. PICK w : w = [v EXCEPT !.pc = "link", !.at = i]
    OBVIOUS
  <2>3. v.copies[i].line \notin v.stale /\ kind_for(v.copies[i]) = "officer"
          => shown[v.copies[i].line] # <<menus, "officer_ops">>
    <3>1. v.copies[i].line \in Accounts
      BY <1>1, <1>2, <2>1 DEF HandIsTrue, HandIsTyped
    <3>2. v.copies[i].line \notin v.stale => v.seen = menus
      BY <1>1, <1>2, <2>1, <3>1 DEF HandIsTrue, SweepSees
    <3>3. shown[v.copies[i].line] \notin Fitting(v.copies[i], v.seen)
      BY <1>4, <2>1 DEF IsRight
    <3>4. kind_for(v.copies[i]) = "officer" => shown[v.copies[i].line] # <<v.seen, "officer_ops">>
      BY <3>3 DEF Fitting
    <3> QED BY <3>2, <3>4
  <2>4. HandIsTrue(w)
    BY <1>1, <1>2, <2>1, <2>2, <2>3, TurnsIsTrue
  <2>5. hand' = [hand EXCEPT ![h] = w]
    BY <1>1, <1>4, <2>1, <2>2
  <2> QED BY <1>1, <2>4, <2>5, StepIsTrue
<1> QED BY <1>3, <1>4

LEMMA TakeNextIsTrue ==
    ASSUME MenusAreTrue, NEW h \in Hands, TakeNext(h)
    PROVE  MenusAreTrue'
<1>1. PICK i \in hand[h].todo :
        /\ IsAt(h, "walk") /\ hand[h].what # "sweep"
        /\ hand' = [hand EXCEPT ![h].pc = "link", ![h].at = i]
        /\ UNCHANGED <<person, made, menus, shown, friend, follows, chores, shared>>
  BY Zenon DEF TakeNext
<1>2. PICK v : v = hand[h]
  OBVIOUS
<1>3. HandIsTrue(v) /\ v.pc = "walk" /\ v.what # "sweep" /\ i \in v.todo
  BY <1>1, <1>2, RmFacts DEF IsAt
<1>4. PICK w : w = [v EXCEPT !.pc = "link", !.at = i]
  OBVIOUS
<1>5. HandIsTrue(w)
  BY <1>3, <1>4, TurnsIsTrue
<1>6. hand' = [hand EXCEPT ![h] = w]
  BY <1>1, <1>2, <1>4 DEF MenusAreTrue, RmTyped
<1> QED BY <1>1, <1>5, <1>6, StepIsTrue

LEMMA ChooseIsTrue ==
    ASSUME MenusAreTrue, NEW h \in Hands, ChooseMenu(h)
    PROVE  MenusAreTrue'
<1>1. /\ hand[h].pc = "link"
      /\ hand' = [hand EXCEPT ![h] =
           IF menus = 0 THEN Passed(h, hand[h].at)
           ELSE [@ EXCEPT !.pc = "post",
                          !.menu = <<menus, kind_for(hand[h].copies[hand[h].at])>>]]
      /\ UNCHANGED <<person, made, menus, shown, friend, follows, chores, shared>>
  BY Zenon DEF ChooseMenu, IsAt
<1>2. PICK v, i : v = hand[h] /\ i = v.at
  OBVIOUS
<1>3. /\ v \in HandDocs /\ HandIsTrue(v) /\ made \in Nat /\ v.pc = "link" /\ i \in MemberIds
      /\ menus \in Nat /\ menus <= made
  BY <1>1, <1>2, RmFacts DEF HandIsTrue, HandIsTyped
<1>4. CASE menus = 0
  <2>1. PICK w : w = Passed(h, i)
    OBVIOUS
  <2>2. HandIsTrue(w)
    BY <1>2, <1>3, <2>1, PassedIsTrue
  <2>3. hand' = [hand EXCEPT ![h] = w]
    BY <1>1, <1>2, <1>4, <2>1
  <2> QED BY <1>1, <2>2, <2>3, StepIsTrue
<1>5. CASE menus # 0
  <2>1. PICK m : m = <<menus, kind_for(v.copies[i])>>
    OBVIOUS
  <2>2. m \in Menus /\ m[1] = menus /\ m[2] # "officer_ops"
    <3>1. menus \in 0..(MaxChores + 1)
      BY MadeIsBounded
    <3>2. kind_for(v.copies[i]) \in {"officer", "board", "member"}
      BY DEF kind_for
    <3> QED BY <2>1, <3>1, <3>2 DEF Menus, Kinds
  <2>3. PICK w : w = [v EXCEPT !.pc = "post", !.menu = m]
    OBVIOUS
  <2>4. /\ w \in HandDocs
        /\ w.pc = "post" /\ w.what = v.what /\ w.copies = v.copies /\ w.todo = v.todo
        /\ w.linked = v.linked /\ w.new = v.new /\ w.at = i /\ w.seen = v.seen
        /\ w.menu = m /\ w.names = v.names /\ w.others = v.others /\ w.stale = v.stale
    BY <1>2, <1>3, <2>2, <2>3 DEF HandDocs
  <2>5. HandIsTyped(w)
    BY <1>2, <1>3, <1>5, <2>2, <2>4 DEF HandIsTrue, HandIsTyped
  <2>6. NamesFit(w) /\ RosterKept(w) /\ SweepSees(w)
    BY <1>2, <1>3, <2>4 DEF HandIsTrue, NamesFit, Saves, RosterKept, SweepSees
  <2>7. HandIsTrue(w)
    BY <2>5, <2>6 DEF HandIsTrue
  <2>8. hand' = [hand EXCEPT ![h] = w]
    BY <1>1, <1>2, <1>5, <2>1, <2>3
  <2> QED BY <1>1, <2>7, <2>8, StepIsTrue
<1> QED BY <1>4, <1>5

LEMMA ApplyEndsIsTrue ==
    ASSUME MenusAreTrue, NEW h \in Hands, ApplyEnds(h)
    PROVE  MenusAreTrue'
<1>1. /\ hand[h].pc = "apply" /\ hand[h].todo = {}
      /\ hand' = [hand EXCEPT ![h].pc = "walk", ![h].todo = hand[h].linked]
      /\ UNCHANGED <<person, made, menus, shown, friend, follows, chores, shared>>
  BY DEF ApplyEnds, IsAt
<1>2. PICK v : v = hand[h]
  OBVIOUS
<1>3. v \in HandDocs /\ HandIsTrue(v) /\ v.pc = "apply" /\ v.todo = {}
  BY <1>1, <1>2, RmFacts
<1>4. PICK w : w = [v EXCEPT !.pc = "walk", !.todo = v.linked]
  OBVIOUS
<1>5. /\ w \in HandDocs
      /\ w.pc = "walk" /\ w.what = v.what /\ w.copies = v.copies /\ w.todo = v.linked
      /\ w.linked = v.linked /\ w.new = v.new /\ w.at = v.at /\ w.seen = v.seen
      /\ w.menu = v.menu /\ w.names = v.names /\ w.others = v.others /\ w.stale = v.stale
  BY <1>3, <1>4 DEF HandDocs
<1>6. HandIsTyped(w)
  BY <1>3, <1>5 DEF HandIsTrue, HandIsTyped
<1>7. v.what = "import"
  BY <1>3 DEF HandIsTrue, HandIsTyped
<1>8. NamesFit(w) /\ RosterKept(w) /\ SweepSees(w)
  BY <1>3, <1>5, <1>7 DEF HandIsTrue, NamesFit, Saves, RosterKept, SweepSees
<1>9. HandIsTrue(w)
  BY <1>6, <1>8 DEF HandIsTrue
<1>10. hand' = [hand EXCEPT ![h] = w]
  BY <1>1, <1>2, <1>4 DEF MenusAreTrue, RmTyped
<1> QED BY <1>1, <1>9, <1>10, StepIsTrue

LEMMA ApplyIsTrue ==
    ASSUME MenusAreTrue, NEW h \in Hands, ApplyChange(h)
    PROVE  MenusAreTrue' /\ NamesKept
<1>1. PICK i \in hand[h].todo :
        /\ IsAt(h, "apply")
        /\ SaveMember(h, i, hand[h].copies[i], [hand[h] EXCEPT !.todo = @ \ {i}])
        /\ shared' = IF i \in hand[h].new \cap hand[h].others THEN shared \cup {i} ELSE shared
        /\ UNCHANGED <<made, menus, shown, friend, follows, chores>>
  BY Zenon DEF ApplyChange
<1>2. PICK v, d : v = hand[h] /\ d = v.copies[i]
  OBVIOUS
<1>3. v \in HandDocs /\ HandIsTrue(v) /\ v.pc = "apply" /\ v.what = "import" /\ i \in MemberIds
  BY <1>1, <1>2, RmFacts DEF IsAt, HandIsTrue, HandIsTyped, HandDocs
<1>4. d \in Persons_ /\ FirstSeat(d) /\ d.known
  <2>1. i \in Saves(v)
    BY <1>1, <1>2, <1>3 DEF Saves
  <2> QED BY <1>2, <1>3, <2>1 DEF HandIsTrue, HandIsTyped, NamesFit, HandDocs
<1>5. shared \subseteq shared' /\ shared' \subseteq MemberIds
  BY <1>1, <1>3 DEF MenusAreTrue, RmTyped
<1>6. person[i].known => d.name = person[i].name \/ i \in shared'
  <2>1. i \in Saves(v)
    BY <1>1, <1>2, <1>3 DEF Saves
  <2>2. /\ i \notin v.new => (i \notin shared => d.name = person[i].name)
        /\ i \in v.new /\ i \notin v.others => ~person[i].known
    BY <1>2, <1>3, <2>1 DEF HandIsTrue, NamesFit
  <2> QED BY <1>1, <1>2, <2>2
<1>7. PICK w : w = [v EXCEPT !.todo = v.todo \ {i}]
  OBVIOUS
<1>8. SaveMember(h, i, d, w)
  BY <1>1, <1>2, <1>7
<1>9. /\ w \in HandDocs
      /\ w.pc = v.pc /\ w.what = v.what /\ w.copies = v.copies /\ w.todo = v.todo \ {i}
      /\ w.linked = v.linked /\ w.new = v.new /\ w.at = v.at /\ w.seen = v.seen
      /\ w.menu = v.menu /\ w.names = v.names /\ w.others = v.others /\ w.stale = v.stale
  BY <1>3, <1>7 DEF HandDocs
<1>10. /\ made \in Nat /\ made' = made /\ made <= made' /\ made' <= chores' + 1
       /\ chores' \in 0..MaxChores
  BY <1>1, RmQuiet
<1>11. person' = [person EXCEPT ![i] = d] /\ person \in [MemberIds -> Persons_]
  BY <1>8 DEF SaveMember, MenusAreTrue, RmTyped
<1>12. HandIsTrue(w)'
  <2>1. HandIsTyped(w)
    BY <1>3, <1>9 DEF HandIsTrue, HandIsTyped
  <2>2. HandIsTyped(w)'
    BY <1>10, <2>1, HandStaysTyped
  <2>3. NamesFit(w)'
    <3> SUFFICES ASSUME NEW j \in Saves(w)
                 PROVE  /\ w.copies[j].known
                        /\ j \notin w.new =>
                             person'[j].known /\ (j \notin shared' => w.copies[j].name = person'[j].name)
                        /\ j \in w.new /\ j \notin w.others => ~person'[j].known
      BY DEF NamesFit, Saves
    <3>1. j \in Saves(v) /\ j # i /\ j \in MemberIds
      BY <1>3, <1>9 DEF Saves
    <3>2. /\ v.copies[j].known
          /\ j \notin v.new =>
               person[j].known /\ (j \notin shared => v.copies[j].name = person[j].name)
          /\ j \in v.new /\ j \notin v.others => ~person[j].known
      BY <1>3, <3>1 DEF HandIsTrue, NamesFit
    <3>3. person'[j] = person[j]
      BY <1>11, <3>1
    <3> QED BY <1>5, <1>9, <3>2, <3>3
  <2>4. RosterKept(w)'
    <3> SUFFICES ASSUME NEW n \in v.names
                 PROVE  \E j \in MemberIds :
                          /\ v.copies[j].name = n /\ v.copies[j].active
                          /\ \/ j \in v.others \/ person'[j] = v.copies[j]
                             \/ j \in v.todo \ {i}
      BY <1>3, <1>9 DEF RosterKept
    <3>1. PICK j \in MemberIds :
            /\ v.copies[j].name = n /\ v.copies[j].active
            /\ j \in v.others \/ person[j] = v.copies[j] \/ j \in v.todo
      BY <1>3 DEF HandIsTrue, RosterKept
    <3>2. j = i => person'[j] = v.copies[j]
      BY <1>2, <1>3, <1>11
    <3>3. j # i => person'[j] = person[j]
      BY <1>11
    <3> QED BY <3>1, <3>2, <3>3
  <2>5. SweepSees(w)'
    BY <1>3, <1>9 DEF SweepSees
  <2> QED BY <2>2, <2>3, <2>4, <2>5 DEF HandIsTrue
<1>13. UNCHANGED <<made, menus, shown, friend, follows>>
  BY <1>1
<1> QED BY <1>3, <1>4, <1>5, <1>6, <1>8, <1>10, <1>12, <1>13, SaveMemberIsTrue

(* Whose the names of a roster are: each of another, who is called so or is new. *)
LEMMA OwnersAreApart ==
    ASSUME MenusAreTrue, NEW names \in SUBSET People, NEW whose \in Owners(names)
    PROVE  /\ whose \in [names -> MemberIds]
           /\ \A n \in names : IF NamedBy(n) = {} THEN ~person[whose[n]].known
                                ELSE person[whose[n]].known /\ person[whose[n]].name = n
           /\ \A n, m \in names : whose[n] = whose[m] => n = m
<1>1. PICK news : news = {n \in names : NamedBy(n) = {}}
  OBVIOUS
<1>2. /\ whose \in [names -> MemberIds] /\ \A n \in names \ news : whose[n] \in NamedBy(n)
      /\ [n \in news |-> whose[n]] \in NewIds(news)
  BY <1>1 DEF Owners
<1>3. /\ \A n \in news : whose[n] \in Numbered /\ whose[n] > Highest
      /\ \A n, m \in news : n # m => whose[n] # whose[m]
  BY <1>2 DEF NewIds
<1>4. \A n \in news : ~person[whose[n]].known
  <2> SUFFICES ASSUME NEW n \in news, person[whose[n]].known PROVE FALSE
    OBVIOUS
  <2>1. PICK i \in Numbered : i = whose[n]
    BY <1>3
  <2>2. Highest \in Nat /\ i <= Highest /\ i > Highest /\ i \in Nat
    BY <1>3, <2>1, HighestIsHighest, RichMenusAssumption
  <2> QED BY <2>2
<1>5. \A n \in names \ news : person[whose[n]].known /\ person[whose[n]].name = n
  BY <1>2 DEF NamedBy
<1> QED BY <1>1, <1>2, <1>3, <1>4, <1>5

(* What the documents become: of those in the roster, and of the others. *)
LEMMA PlannedDocuments ==
    ASSUME MenusAreTrue, NEW roster \in Rosters, NEW deactivate \in BOOLEAN,
           NEW whose \in Owners(DOMAIN roster), NEW p, p = Planned(roster, whose, deactivate)
    PROVE  /\ DOMAIN roster \in SUBSET People
           /\ p \in [MemberIds -> Persons_]
           /\ \A i \in MemberIds : FirstSeat(p[i]) /\ p[i].line = person[i].line
           /\ \A n \in DOMAIN roster : p[whose[n]].known /\ p[whose[n]].active
                                           /\ p[whose[n]].name = n
           /\ \A i \in MemberIds : (\A n \in DOMAIN roster : whose[n] # i) /\ p[i] # person[i] =>
                p[i].known /\ person[i].known /\ p[i].name = person[i].name
<1>1. /\ DOMAIN roster \in SUBSET People
      /\ \A n \in DOMAIN roster : roster[n] \in RosterEntries
  BY DEF Rosters
<1>2. /\ whose \in [DOMAIN roster -> MemberIds]
      /\ \A n, m \in DOMAIN roster : whose[n] = whose[m] => n = m
  BY <1>1, OwnersAreApart
<1>3. /\ person \in [MemberIds -> Persons_] /\ \A i \in MemberIds : FirstSeat(person[i])
  BY DEF MenusAreTrue, RmTyped
<1>4. \A i \in MemberIds : p[i] =
        (LET named == {n \in DOMAIN roster : whose[n] = i}
             out == deactivate /\ person[i].known /\ person[i].active
                               /\ person[i].name \notin DOMAIN roster
         IN  IF named # {} THEN LET n == CHOOSE m \in named : TRUE
                                IN  ApplyEntry(person[i], n, roster[n])
             ELSE IF out THEN [person[i] EXCEPT !.active = FALSE]
             ELSE person[i])
  BY DEF Planned
<1>45. p = [i \in MemberIds |-> p[i]]
  BY DEF Planned
<1>5. ASSUME NEW n \in DOMAIN roster
      PROVE  p[whose[n]] = ApplyEntry(person[whose[n]], n, roster[n])
  <2>1. PICK i \in MemberIds : i = whose[n]
    BY <1>2
  <2>2. {m \in DOMAIN roster : whose[m] = i} = {n}
    BY <1>2, <2>1
  <2>3. (CHOOSE m \in {n} : TRUE) = n
    OBVIOUS
  <2>4. p[i] = ApplyEntry(person[i], n, roster[n])
    BY <1>4, <2>2, <2>3
  <2> QED BY <2>1, <2>4
<1>6. ASSUME NEW n \in DOMAIN roster
      PROVE  /\ p[whose[n]] \in Persons_ /\ FirstSeat(p[whose[n]])
             /\ p[whose[n]].line = person[whose[n]].line
             /\ p[whose[n]].known /\ p[whose[n]].active /\ p[whose[n]].name = n
  <2>1. PICK d \in Persons_ : d = person[whose[n]]
    BY <1>2, <1>3
  <2>2. PICK x \in RosterEntries : x = roster[n]
    BY <1>1
  <2>3. n \in People /\ p[whose[n]] = ApplyEntry(d, n, x)
    BY <1>1, <1>5, <2>1, <2>2
  <2> QED BY <2>1, <2>3, ApplyEntryGivesDocument
<1>7. ASSUME NEW i \in MemberIds, \A n \in DOMAIN roster : whose[n] # i
      PROVE  /\ p[i] \in Persons_ /\ FirstSeat(p[i]) /\ p[i].line = person[i].line
             /\ p[i] # person[i] => p[i].known /\ person[i].known /\ p[i].name = person[i].name
  <2>1. {n \in DOMAIN roster : whose[n] = i} = {}
    BY <1>7
  <2>2. PICK d \in Persons_ : d = person[i]
    BY <1>3
  <2>3. p[i] = d \/ (d.known /\ p[i] = [d EXCEPT !.active = FALSE])
    BY <1>4, <2>1, <2>2
  <2>4. FirstSeat(d)
    BY <1>3, <2>2
  <2>5. CASE p[i] = d
    BY <2>2, <2>4, <2>5
  <2>6. CASE d.known /\ p[i] = [d EXCEPT !.active = FALSE]
    <3>1. /\ p[i] \in Persons_ /\ p[i].line = d.line /\ p[i].known /\ p[i].name = d.name
          /\ p[i].committee = d.committee /\ p[i].chair = d.chair /\ p[i].seats = d.seats
      BY <2>6 DEF Persons_
    <3> QED BY <2>2, <2>4, <2>6, <3>1 DEF FirstSeat
  <2> QED BY <2>3, <2>5, <2>6
<1>8. \A i \in MemberIds : p[i] \in Persons_ /\ FirstSeat(p[i]) /\ p[i].line = person[i].line
  <2> TAKE i \in MemberIds
  <2>1. CASE \E n \in DOMAIN roster : whose[n] = i
    BY <1>6, <2>1
  <2>2. CASE \A n \in DOMAIN roster : whose[n] # i
    BY <1>7, <2>2
  <2> QED BY <2>1, <2>2
<1>9. p \in [MemberIds -> Persons_]
  BY <1>45, <1>8
<1> QED BY <1>1, <1>6, <1>7, <1>8, <1>9

LEMMA ImportIsTrue ==
    ASSUME MenusAreTrue, NEW h \in Hands, ImportRoster(h)
    PROVE  MenusAreTrue'
<1>1. PICK roster \in Rosters, deactivate \in BOOLEAN :
        \E whose \in Owners(DOMAIN roster) :
          LET names == DOMAIN roster
              planned == Planned(roster, whose, deactivate)
              changed == {i \in MemberIds : planned[i] # person[i]}
          IN  /\ IsAt(h, "idle") /\ Bothers
              /\ hand' = [hand EXCEPT ![h] = [FreeHand EXCEPT
                   !.pc = "apply", !.what = "import", !.copies = planned, !.todo = changed,
                   !.new = {whose[n] : n \in {m \in names : NamedBy(m) = {}}},
                   !.linked = {i \in changed : planned[i].line # NoAccount
                                                 /\ \E n \in names : whose[n] = i},
                   !.names = names]]
              /\ UNCHANGED <<person, made, menus, shown, friend, follows, shared>>
  BY Zenon DEF ImportRoster
<1>2. PICK names : names = DOMAIN roster
  OBVIOUS
<1>3. PICK whose \in Owners(names) :
        LET planned == Planned(roster, whose, deactivate)
            changed == {i \in MemberIds : planned[i] # person[i]}
        IN  /\ IsAt(h, "idle") /\ Bothers
            /\ hand' = [hand EXCEPT ![h] = [FreeHand EXCEPT
                 !.pc = "apply", !.what = "import", !.copies = planned, !.todo = changed,
                 !.new = {whose[n] : n \in {m \in names : NamedBy(m) = {}}},
                 !.linked = {i \in changed : planned[i].line # NoAccount
                                               /\ \E n \in names : whose[n] = i},
                 !.names = names]]
            /\ UNCHANGED <<person, made, menus, shown, friend, follows, shared>>
  BY <1>1, <1>2
<1>4. PICK p : p = Planned(roster, whose, deactivate)
  OBVIOUS
<1>5. PICK changed : changed = {i \in MemberIds : p[i] # person[i]}
  OBVIOUS
<1>6. PICK newIds : newIds = {whose[n] : n \in {m \in names : NamedBy(m) = {}}}
  OBVIOUS
<1>7. PICK linked : linked = {i \in changed : p[i].line # NoAccount /\ \E n \in names : whose[n] = i}
  OBVIOUS
<1>8. PICK w : w = [FreeHand EXCEPT
            !.pc = "apply", !.what = "import", !.copies = p, !.todo = changed,
            !.new = newIds, !.linked = linked, !.names = names]
  OBVIOUS
<1>9. /\ Bothers /\ hand' = [hand EXCEPT ![h] = w]
      /\ UNCHANGED <<person, made, menus, shown, friend, follows, shared>>
  BY <1>3, <1>4, <1>5, <1>6, <1>7, <1>8
<1>10. /\ names \in SUBSET People
       /\ p \in [MemberIds -> Persons_]
       /\ \A i \in MemberIds : FirstSeat(p[i]) /\ p[i].line = person[i].line
       /\ \A n \in names : p[whose[n]].known /\ p[whose[n]].active /\ p[whose[n]].name = n
       /\ \A i \in MemberIds : (\A n \in names : whose[n] # i) /\ p[i] # person[i] =>
             p[i].known /\ person[i].known /\ p[i].name = person[i].name
  BY <1>2, <1>4, PlannedDocuments
<1>11. /\ whose \in [names -> MemberIds]
       /\ \A n \in names : IF NamedBy(n) = {} THEN ~person[whose[n]].known
                            ELSE person[whose[n]].known /\ person[whose[n]].name = n
       /\ \A n, m \in names : whose[n] = whose[m] => n = m
  BY <1>10, OwnersAreApart
<1>12. changed \in SUBSET MemberIds /\ newIds \in SUBSET MemberIds /\ linked \in SUBSET MemberIds
  BY <1>5, <1>6, <1>7, <1>11
<1>13. /\ w \in HandDocs
       /\ w.pc = "apply" /\ w.what = "import" /\ w.copies = p /\ w.todo = changed
       /\ w.new = newIds /\ w.linked = linked /\ w.names = names /\ w.menu[1] = 0
  <2>1. PICK f \in HandDocs : f = FreeHand
    BY RmFacts, FreeHandIsTrue DEF HandIsTrue, HandIsTyped
  <2>2. f.menu[1] = 0
    BY <2>1 DEF FreeHand, NoMenu
  <2>3. w = [f EXCEPT !.pc = "apply", !.what = "import", !.copies = p, !.todo = changed,
                      !.new = newIds, !.linked = linked, !.names = names]
    BY <1>8, <2>1
  <2> QED BY <1>10, <1>12, <2>2, <2>3 DEF HandDocs
<1>14. \A i \in linked : p[i].line \in Accounts
  BY <1>7, <1>10, <1>12 DEF Persons_
<1>15. HandIsTyped(w)
  BY <1>10, <1>13, <1>14, RmFacts DEF HandIsTyped
<1>16. NamesFit(w)
  <2> SUFFICES ASSUME NEW i \in changed
               PROVE  /\ p[i].known
                      /\ i \notin newIds => person[i].known /\ p[i].name = person[i].name
                      /\ i \in newIds => ~person[i].known
    BY <1>13 DEF NamesFit, Saves
  <2>1. i \in MemberIds /\ p[i] # person[i]
    BY <1>5
  <2>2. CASE \E n \in names : whose[n] = i
    BY <1>6, <1>10, <1>11, <2>2
  <2>3. CASE \A n \in names : whose[n] # i
    BY <1>6, <1>10, <2>1, <2>3
  <2> QED BY <2>2, <2>3
<1>17. RosterKept(w)
  <2> SUFFICES ASSUME NEW n \in names
               PROVE  \E i \in MemberIds : /\ p[i].name = n /\ p[i].active
                                           /\ (person[i] = p[i] \/ i \in changed)
    BY <1>13 DEF RosterKept
  <2> QED BY <1>5, <1>10, <1>11
<1>18. HandIsTrue(w)
  BY <1>13, <1>15, <1>16, <1>17 DEF HandIsTrue, SweepSees
<1>19. /\ made \in Nat /\ made' = made /\ made <= made' /\ made' <= chores' + 1
       /\ chores' \in 0..MaxChores
  BY <1>9, RmBother
<1>20. follows' \subseteq Accounts /\ UNCHANGED <<person, menus, shown, friend, shared>>
  BY <1>9 DEF MenusAreTrue, RmTyped
<1> QED BY <1>9, <1>18, <1>19, <1>20, HandGoesOn

(* Every step keeps the invariant, and everybody himself. *)
LEMMA MenusStep == MenusAreTrue /\ [RmNext]_menuvars => MenusAreTrue' /\ NamesKept
<1> SUFFICES ASSUME MenusAreTrue, [RmNext]_menuvars PROVE MenusAreTrue' /\ NamesKept
  OBVIOUS
<1>1. ASSUME UNCHANGED person PROVE NamesKept
  BY <1>1 DEF NamesKept
<1>2. CASE UNCHANGED menuvars
  <2>1. UNCHANGED <<person, made, menus, shown, friend, follows, hand, shared, chores>>
    BY <1>2 DEF menuvars
  <2>2. MenusAreTrue'
    BY <2>1 DEF MenusAreTrue, RmTyped, HandIsTrue, HandIsTyped, NamesFit, Saves, RosterKept, SweepSees
  <2> QED BY <1>1, <2>1, <2>2
<1>3. CASE CreateMember
  BY <1>3, CreateMemberIsTrue
<1>4. ASSUME NEW u \in Accounts, Befriend(u) \/ BlockAccount(u) \/ SwitchTab(u)
      PROVE  MenusAreTrue' /\ NamesKept
  <2>1. UNCHANGED person
    BY <1>4 DEF Befriend, BlockAccount, SwitchTab
  <2> QED BY <1>1, <1>4, <2>1, BefriendIsTrue, BlockIsTrue, SwitchIsTrue
<1>5. ASSUME NEW h \in Hands, OpenMember(h) \/ LinkMenuOnFollow(h) \/ MakeMenus(h) \/ ImportRoster(h)
      PROVE  MenusAreTrue' /\ NamesKept
  <2>1. UNCHANGED person
    BY <1>5 DEF OpenMember, LinkMenuOnFollow, MakeMenus, ImportRoster
  <2> QED BY <1>1, <1>5, <2>1, OpenMemberIsTrue, FollowIsTrue, MakeMenusIsTrue, ImportIsTrue
<1>6. ASSUME NEW h \in Hands, Reconcile(h) PROVE MenusAreTrue' /\ NamesKept
  <2>1. /\ ListedNow(h, "sweep")
        /\ UNCHANGED <<person, made, menus, shown, friend, follows, chores, shared>>
    BY <1>6 DEF Reconcile
  <2>2. chores' \in 0..MaxChores /\ made' <= chores' + 1
    BY <2>1, RmQuiet
  <2> QED BY <1>1, <2>1, <2>2, ListedIsTrue
<1>7. ASSUME NEW h \in Hands, LinkAll(h) PROVE MenusAreTrue' /\ NamesKept
  <2>1. /\ ListedNow(h, "all") /\ Bothers
        /\ UNCHANGED <<person, made, menus, shown, friend, follows, shared>>
    BY <1>7 DEF LinkAll
  <2>2. chores' \in 0..MaxChores /\ made' <= chores' + 1
    BY <2>1, RmBother
  <2> QED BY <1>1, <2>1, <2>2, ListedIsTrue
<1>8. ASSUME NEW h \in Hands, HandDies(h) PROVE MenusAreTrue' /\ NamesKept
  <2>1. Ends(h) /\ Bothers /\ UNCHANGED <<person, made, menus, shown, friend, follows, shared>>
    BY <1>8 DEF HandDies
  <2>2. chores' \in 0..MaxChores /\ made' <= chores' + 1
    BY <2>1, RmBother
  <2> QED BY <1>1, <2>1, <2>2, HandDiesIsTrue
<1>9. ASSUME NEW h \in Hands, WalkEnds(h) PROVE MenusAreTrue' /\ NamesKept
  <2>1. Ends(h) /\ UNCHANGED <<person, made, menus, shown, friend, follows, chores, shared>>
    BY <1>9 DEF WalkEnds
  <2>2. chores' \in 0..MaxChores /\ made' <= chores' + 1
    BY <2>1, RmQuiet
  <2> QED BY <1>1, <2>1, <2>2, HandDiesIsTrue
<1>10. ASSUME NEW h \in Hands, LinkAccount(h) \/ UpdateMember(h) \/ ApplyChange(h)
       PROVE  MenusAreTrue' /\ NamesKept
  BY <1>10, LinkAccountIsTrue, UpdateMemberIsTrue, ApplyIsTrue
<1>11. ASSUME NEW h \in Hands, TakeNext(h) \/ ChooseMenu(h) \/ SaveMenus(h) \/ ApplyEnds(h)
       PROVE  MenusAreTrue' /\ NamesKept
  <2>1. UNCHANGED person
    BY <1>11 DEF TakeNext, ChooseMenu, SaveMenus, ApplyEnds
  <2> QED BY <1>1, <1>11, <2>1, TakeNextIsTrue, ChooseIsTrue, SaveMenusIsTrue, ApplyEndsIsTrue
<1>12. ASSUME NEW h \in Hands, NEW works \in BOOLEAN, LookAtMenu(h, works) \/ PostMenu(h, works)
       PROVE  MenusAreTrue' /\ NamesKept
  <2>1. UNCHANGED person
    BY <1>12 DEF LookAtMenu, PostMenu
  <2> QED BY <1>1, <1>12, <2>1, LookIsTrue, PostMenuIsTrue
<1>13. CASE RmNext
  BY <1>3, <1>4, <1>5, <1>6, <1>7, <1>8, <1>9, <1>10, <1>11, <1>12, <1>13 DEF RmNext, GoesOnWith
<1> QED BY <1>2, <1>13

LEMMA MenusHold == RmSpec => []MenusAreTrue
BY RmInitIsTrue, MenusStep, PTL DEF RmSpec

(* Whatever people and calls do, the member documents, the menus and the copies *)
(* the calls have are well formed, for any people, accounts and calls.          *)
THEOREM MenuTypes == RmSpec => []RmTypeOK
<1>1. MenusAreTrue => RmTypeOK
  <2> SUFFICES ASSUME MenusAreTrue PROVE RmTypeOK
    OBVIOUS
  <2>1. RmTyped /\ \A h \in Hands : HandIsTyped(hand[h])
    BY DEF MenusAreTrue, HandIsTrue
  <2> QED BY <2>1 DEF RmTyped, HandIsTyped, RmTypeOK
<1> QED BY <1>1, MenusHold, PTL

(* A call leaves the turn of another to post a menu. *)
LEMMA OnlyPosting ==
    ASSUME MenusAreTrue, NEW h \in Hands, hand[h].pc = "post", hand'[h].pc = "walk", RmNext
    PROVE  \E works \in BOOLEAN : PostMenu(h, works)
<1>0. hand \in [Hands -> HandDocs] /\ hand[h] \in HandDocs
  BY DEF MenusAreTrue, RmTyped
<1>1. ASSUME NEW i, NEW us, hand'[h] = Outdated(hand, i, us)[h] PROVE FALSE
  BY <1>0, <1>1 DEF Outdated, HandDocs
<1>2. ~CreateMember
  BY <1>1 DEF CreateMember
<1>3. ASSUME NEW u \in Accounts, Befriend(u) \/ BlockAccount(u) \/ SwitchTab(u) PROVE FALSE
  BY <1>0, <1>3 DEF Befriend, BlockAccount, SwitchTab, HandDocs
<1>4. ASSUME NEW g \in Hands, NEW w, hand' = [hand EXCEPT ![g] = w] PROVE g = h
  BY <1>0, <1>4
<1>5. ASSUME NEW g \in Hands, NEW i, NEW d, NEW w, SaveMember(g, i, d, w) PROVE g = h
  <2> SUFFICES ASSUME g # h PROVE FALSE
    OBVIOUS
  <2>1. hand'[h] = Outdated(hand, i, {d.line, person[i].line} \ {NoAccount})[h]
    BY <1>5 DEF SaveMember, Outdated
  <2> QED BY <1>1, <2>1
<1>6. ASSUME NEW g \in Hands, OpenMember(g) \/ LinkMenuOnFollow(g) \/ Reconcile(g) \/ LinkAll(g)
                              \/ MakeMenus(g) \/ ImportRoster(g) \/ WalkEnds(g)
      PROVE  FALSE
  <2>1. hand[g].pc # "post"
    BY <1>6 DEF OpenMember, LinkMenuOnFollow, Reconcile, LinkAll, MakeMenus, ImportRoster, WalkEnds, IsAt
  <2>2. \E w : hand' = [hand EXCEPT ![g] = w]
    BY <1>0, <1>6 DEF OpenMember, LinkMenuOnFollow, Reconcile, LinkAll, MakeMenus, ImportRoster,
                      WalkEnds, ListedNow, Ends
  <2> QED BY <1>4, <2>1, <2>2
<1>65. ASSUME NEW g \in Hands, HandDies(g) PROVE FALSE
  <2>1. hand' = [hand EXCEPT ![g] = FreeHand]
    BY <1>65 DEF HandDies, Ends
  <2>2. g = h
    BY <1>4, <2>1
  <2> QED BY <1>0, <2>1, <2>2 DEF FreeHand
<1>7. ASSUME NEW g \in Hands, LinkAccount(g) \/ UpdateMember(g) \/ ApplyChange(g) PROVE FALSE
  <2>1. g = h
    BY <1>5, <1>7 DEF LinkAccount, UpdateMember, ApplyChange
  <2> QED BY <1>7, <2>1 DEF LinkAccount, UpdateMember, ApplyChange, IsAt
<1>8. ASSUME NEW g \in Hands, TakeNext(g) \/ ChooseMenu(g) \/ ApplyEnds(g)
      PROVE  FALSE
  <2>1. CASE g = h
    BY <1>8, <2>1 DEF TakeNext, ChooseMenu, ApplyEnds, IsAt
  <2>2. CASE g # h
    <3>1. hand'[h] = hand[h]
      BY <1>0, <1>8, <2>2 DEF TakeNext, ChooseMenu, ApplyEnds
    <3> QED BY <3>1
  <2> QED BY <2>1, <2>2
<1>9. ASSUME NEW g \in Hands, SaveMenus(g) PROVE FALSE
  <2>1. g # h
    BY <1>9 DEF SaveMenus, IsAt
  <2>2. hand'[h] = [hand[h] EXCEPT !.stale = Accounts]
    BY <1>9, <2>1 DEF SaveMenus
  <2> QED BY <1>0, <2>2 DEF HandDocs
<1>10. ASSUME NEW g \in Hands, NEW works \in BOOLEAN, LookAtMenu(g, works) PROVE FALSE
  <2>1. g = h
    BY <1>4, <1>10 DEF LookAtMenu
  <2> QED BY <1>10, <2>1 DEF LookAtMenu, IsAt
<1>11. ASSUME NEW g \in Hands, NEW works \in BOOLEAN, PostMenu(g, works) PROVE g = h
  BY <1>4, <1>11 DEF PostMenu
<1> QED BY <1>2, <1>3, <1>6, <1>65, <1>7, <1>8, <1>9, <1>10, <1>11 DEF RmNext, GoesOnWith

(* The sweep's turn to post: the officer who has the second tab is another. *)
LEMMA TabStep == MenusAreTrue /\ [RmNext]_menuvars =>
    \A h \in Hands, i \in MemberIds :
        LET u == person[i].line IN
        /\ IsAt(h, "post") /\ hand'[h].pc = "walk" /\ hand[h].what = "sweep"
        /\ u # NoAccount /\ kind_for(person[i]) = "officer"
        /\ \A j \in MemberIds : person[j].line = u => j = i
        /\ shown[u] = <<menus, "officer_ops">> /\ u \notin hand[h].stale
        => shown'[u] = shown[u]
<1> SUFFICES ASSUME MenusAreTrue, [RmNext]_menuvars, NEW h \in Hands, NEW i \in MemberIds,
                    NEW u, u = person[i].line,
                    IsAt(h, "post"), hand'[h].pc = "walk", hand[h].what = "sweep",
                    u # NoAccount, kind_for(person[i]) = "officer",
                    \A j \in MemberIds : person[j].line = u => j = i,
                    shown[u] = <<menus, "officer_ops">>, u \notin hand[h].stale
             PROVE  shown'[u] = shown[u]
  OBVIOUS
<1>1. RmNext
  BY DEF menuvars, IsAt
<1>2. PICK works \in BOOLEAN : PostMenu(h, works)
  BY <1>1, OnlyPosting DEF IsAt
<1>3. PICK v : v = hand[h]
  OBVIOUS
<1>4. PICK t : t = v.copies[v.at].line
  OBVIOUS
<1>5. shown' = (IF works /\ friend[t] THEN [shown EXCEPT ![t] = hand[h].menu] ELSE shown)
  BY <1>2, <1>3, <1>4 DEF PostMenu
<1>6. HandIsTrue(v) /\ v.pc = "post" /\ v.what = "sweep" /\ u \notin v.stale
      /\ v.at \in MemberIds /\ t \in Accounts
  BY <1>3, <1>4, RmFacts DEF IsAt, HandIsTrue, HandIsTyped
<1>7. t # u
  <2> SUFFICES ASSUME t = u PROVE FALSE
    OBVIOUS
  <2>1. person[v.at] = v.copies[v.at]
    BY <1>4, <1>6 DEF HandIsTrue, SweepSees
  <2>2. v.at = i
    BY <1>4, <1>6, <2>1
  <2>3. kind_for(v.copies[v.at]) = "officer"
    BY <2>1, <2>2
  <2>4. shown[t] # <<menus, "officer_ops">>
    BY <1>4, <1>6, <2>3 DEF HandIsTrue, SweepSees
  <2> QED BY <2>4
<1> QED BY <1>5, <1>7

(* Whatever forms, imports and sweeps overlap, and however they end: the seats   *)
(* stay in order, a roster that was saved is there, nobody's document becomes    *)
(* another's but by a number given twice, and the morning's sweep leaves the     *)
(* officers' second tab alone (org_import.py:42-71, rich_menu_link.py:84-115).   *)
THEOREM RosterHolds == RmSpec => RosterAndTabs
<1>1. MenusAreTrue => SeatsNameThePrimary
  BY DEF MenusAreTrue, SeatsNameThePrimary, FirstSeat
<1>2. MenusAreTrue => RosterIsApplied
  <2> SUFFICES ASSUME MenusAreTrue, NEW h \in Hands, hand[h].what = "import", hand[h].pc = "walk",
                      NEW n \in hand[h].names
               PROVE  \/ \E i \in MemberIds : person[i].name = n /\ person[i].active
                      \/ \E i \in hand[h].others : hand[h].copies[i].name = n
    BY DEF RosterIsApplied, IsAt
  <2> QED BY DEF MenusAreTrue, HandIsTrue, RosterKept
<1>3. MenusAreTrue /\ [RmNext]_menuvars =>
        [\A i \in MemberIds :
           person[i].known /\ person'[i].name # person[i].name => i \in shared']_menuvars
  BY MenusStep DEF NamesKept
<1>4. MenusAreTrue /\ [RmNext]_menuvars =>
        [\A h \in Hands, i \in MemberIds :
            LET u == person[i].line IN
            /\ IsAt(h, "post") /\ hand'[h].pc = "walk" /\ hand[h].what = "sweep"
            /\ u # NoAccount /\ kind_for(person[i]) = "officer"
            /\ \A j \in MemberIds : person[j].line = u => j = i
            /\ shown[u] = <<menus, "officer_ops">> /\ u \notin hand[h].stale
            => shown'[u] = shown[u]]_menuvars
  BY TabStep
<1>5. RmSpec => [](SeatsNameThePrimary /\ RosterIsApplied)
  BY <1>1, <1>2, MenusHold, PTL
<1>6. RmSpec => NobodyIsReplaced
  BY <1>3, MenusHold, PTL DEF RmSpec, NobodyIsReplaced
<1>7. RmSpec => OpsTabIsLeftAlone
  BY <1>4, MenusHold, PTL DEF RmSpec, OpsTabIsLeftAlone
<1> QED BY <1>5, <1>6, <1>7 DEF RosterAndTabs
-----------------------------------------------------------------------------
(* The components together: a step is a step of one of them, and the others rest. *)
LEMMA MembersStep ==
    [MembersNext]_membervars =>
        [Next]_vars /\ [RmNext]_menuvars /\ [AtNext]_attvars /\ [KnNext]_kvars
<1> SUFFICES ASSUME [MembersNext]_membervars
             PROVE  [Next]_vars /\ [RmNext]_menuvars /\ [AtNext]_attvars /\ [KnNext]_kvars
  OBVIOUS
<1>1. CASE RestIn("links") /\ Next
  BY <1>1 DEF RestIn
<1>2. CASE RestIn("menus") /\ RmNext
  BY <1>2 DEF RestIn
<1>3. CASE RestIn("answers") /\ AtNext
  BY <1>3 DEF RestIn
<1>4. CASE RestIn("drive") /\ KnNext
  BY <1>4 DEF RestIn
<1>5. CASE UNCHANGED membervars
  BY <1>5 DEF membervars
<1> QED BY <1>1, <1>2, <1>3, <1>4, <1>5 DEF MembersNext

LEMMA MembersAreEach == MembersSpec => Spec /\ RmSpec /\ AtSpec /\ KnSpec
<1>1. MembersInit => Init /\ RmInit /\ AtInit /\ KnInit
  BY DEF MembersInit
<1> QED BY <1>1, MembersStep, PTL DEF MembersSpec, Spec, RmSpec, AtSpec, KnSpec

(* The documents and locals of links, menus, answers and the index are well    *)
(* formed together, for any members, accounts, events, files and calls.        *)
THEOREM MembersTypes == MembersSpec => []MembersTypeOK
<1>1. TypeOK /\ RmTypeOK /\ AtTypeOK /\ KnTypeOK => MembersTypeOK
  BY DEF MembersTypeOK
<1> QED BY <1>1, MembersAreEach, LinkingTypeOK, MenuTypes, AttendanceTypes, KnowledgeTypes, PTL

(* What the four promise holds of them together: of applications and codes, of    *)
(* answers, of the index, and of menus, offices and tabs.                         *)
THEOREM MembersHold ==
    ASSUME OneDecider, OneApplicant
    PROVE  MembersSpec =>
               /\ [](OneMemberPerLine /\ RequestsAreTrue /\ CodeLinksOnceButForCrashes)
               /\ LockedIsNotLinkedByCode
               /\ [](AnswersAreTrue /\ IndexIsTrue) /\ RosterAndTabs
BY MembersAreEach, OneDeciderLinksOnce, RequestsLinkOnce, CodeLinksOnce, LockHolds,
   AnswersHold, IndexHolds, RosterHolds, PTL
=============================================================================
