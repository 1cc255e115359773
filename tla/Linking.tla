------------------------------- MODULE Linking -------------------------------
(* Linking a member document to a LINE account: the application from the LINE  *)
(* app and its approval by the executive director (app/line_link.py), the      *)
(* invitation code typed into the chat (app/invite.py), and the editing of a   *)
(* member document (app/admin_api.py), which saves the link along with it.     *)
(*                                                                             *)
(* Firestore reads and saves one whole document at a time, so a call goes from *)
(* one read or save to the next with the copies it took.                       *)
EXTENDS Integers

CONSTANTS
    Members, NoMember,
    Users, NoUser,     \* LINE accounts
    Codes, NoCode,     \* texts typed as an invitation code, right or wrong
    Applicants,        \* calls that apply for a link
    Deciders,          \* calls that approve, reject, redeem a code or edit
    MaxFailed,         \* invite.MAX_FAILED
    MaxCalls,          \* bound: calls
    MaxCrash           \* bound: calls that die on the way

ASSUME NamesAssumption ==
    NoMember \notin Members /\ NoUser \notin Users /\ NoCode \notin Codes
ASSUME CallsAssumption == Applicants \cap Deciders = {}
ASSUME LimitsAssumption == MaxFailed \in Nat \ {0} /\ MaxCalls \in Nat /\ MaxCrash \in Nat

VARIABLES
    doc,      \* doc[m]: the member document: line_user_id, and whether active
    request,  \* request[u]: the link request document of account u
    code,     \* code[c]: the invitation code document, if c was issued
    state,    \* state[u]: failed attempts of u, and whether u is locked
    call,     \* call[p]: where call p has come, with its copies
    asked,    \* history: accounts named by the button of an approval message
    moved,    \* history: members a code has taken from another account
    redeemed, \* history: redeemed[c]: accounts linked by code c
    calls, crashes

documents == <<doc, request, code, state>>
history == <<asked, moved, redeemed>>
vars == <<documents, call, history, calls, crashes>>

Calls == Applicants \cup Deciders
Docs == [line : Users \cup {NoUser}, active : BOOLEAN]
Requests == [member : Members \cup {NoMember},
             status : {"none", "pending", "approved", "rejected"}]
CodeDocs == [member : Members \cup {NoMember}, used : BOOLEAN, expired : BOOLEAN]
States == [failed : Nat, locked : BOOLEAN]

ApplicantSteps == {"idle", "linkable", "taken", "apply"}
DeciderSteps == {"idle", "request", "member", "other", "link", "approved", "reject", "edit",
                 "state", "existing", "code", "refuse", "owner", "redeem", "use", "reset"}
CallDocs == [pc : ApplicantSteps \cup DeciderSteps, user : Users \cup {NoUser},
             member : Members \cup {NoMember},
             code : Codes \cup {NoCode}, copy : Docs, req : Requests, failed : Nat]

NoRequest == [member |-> NoMember, status |-> "none"]
NotIssued == [member |-> NoMember, used |-> FALSE, expired |-> FALSE]
NoCall == [pc |-> "idle", user |-> NoUser, member |-> NoMember,
           code |-> NoCode, copy |-> [line |-> NoUser, active |-> FALSE],
           req |-> NoRequest, failed |-> 0]

TypeOK ==
    /\ doc \in [Members -> Docs]
    /\ request \in [Users -> Requests]
    /\ code \in [Codes -> CodeDocs]
    /\ state \in [Users -> States]
    /\ call \in [Calls -> CallDocs]
    /\ asked \subseteq Users
    /\ moved \subseteq Members
    /\ redeemed \in [Codes -> Nat]
    /\ calls \in Nat /\ crashes \in Nat

Init ==
    /\ doc = [m \in Members |-> [line |-> NoUser, active |-> TRUE]]
    /\ request = [u \in Users |-> NoRequest]
    /\ code = [c \in Codes |-> NotIssued]
    /\ state = [u \in Users |-> [failed |-> 0, locked |-> FALSE]]
    /\ call = [p \in Calls |-> NoCall]
    /\ asked = {} /\ moved = {} /\ redeemed = [c \in Codes |-> 0]
    /\ calls = 0 /\ crashes = 0
-----------------------------------------------------------------------------
(* get_member_by_line_user_id finds a member *)
IsLinked(u) == \E m \in Members : doc[m].line = u

At(p, pc) == call[p].pc = pc
Goto(p, pc) == call' = [call EXCEPT ![p].pc = pc]
Return(p) == call' = [call EXCEPT ![p] = NoCall]
GotoIf(p, condition, pc) == IF condition THEN Goto(p, pc) ELSE Return(p)

Begin(p, new) ==
    /\ At(p, "idle") /\ calls < MaxCalls
    /\ call' = [call EXCEPT ![p] = new]
    /\ calls' = calls + 1
    /\ UNCHANGED <<documents, history, crashes>>

ReadOnly == UNCHANGED <<documents, history, calls, crashes>>

SaveLink(p) ==
    doc' = [doc EXCEPT ![call[p].member] = [call[p].copy EXCEPT !.line = call[p].user]]
-----------------------------------------------------------------------------
(* request_link *)

Apply(p, u, m) ==
    ~IsLinked(u) /\ Begin(p, [NoCall EXCEPT !.pc = "linkable", !.user = u, !.member = m])

CheckLinkable(p) ==
    /\ At(p, "linkable")
    /\ LET d == doc[call[p].member] IN GotoIf(p, d.active /\ d.line = NoUser, "taken")
    /\ ReadOnly

(* mutant: a request of another account is overlooked *)
CheckNothing(p) == At(p, "taken") /\ Goto(p, "apply") /\ ReadOnly

CheckTaken(p) ==
    /\ At(p, "taken")
    /\ GotoIf(p, \A u \in Users \ {call[p].user} :
                     ~(request[u].member = call[p].member /\ request[u].status = "pending"),
              "apply")
    /\ ReadOnly

(* the request is saved over any earlier one of the account, and the approvers *)
(* get a message with a button, unless that push fails                         *)
SaveRequest(p) ==
    /\ At(p, "apply")
    /\ request' = [request EXCEPT ![call[p].user] =
                     [member |-> call[p].member, status |-> "pending"]]
    /\ asked' \in {asked, asked \cup {call[p].user}}
    /\ Return(p)
    /\ UNCHANGED <<doc, code, state, moved, redeemed, calls, crashes>>
-----------------------------------------------------------------------------
(* approve and reject *)

(* in the management screen: the member is the one on display *)
ApproveOnScreen(p, u, m) ==
    Begin(p, [NoCall EXCEPT !.pc = "request", !.user = u, !.member = m])

(* the button of a message names the account only *)
ApproveByButton(p, u) ==
    u \in asked /\ Begin(p, [NoCall EXCEPT !.pc = "request", !.user = u])

(* the request is read, whatever its status *)
ReadRequest(p) ==
    /\ At(p, "request")
    /\ LET r == request[call[p].user]
           m == IF call[p].member = NoMember THEN r.member ELSE call[p].member
       IN  IF m = NoMember THEN Return(p)
           ELSE call' = [call EXCEPT ![p] = [call[p] EXCEPT !.pc = "member",
                                                            !.member = m, !.req = r]]
    /\ ReadOnly

ReadMember(p) ==
    /\ At(p, "member")
    /\ call' = [call EXCEPT ![p] = [call[p] EXCEPT !.pc = "other", !.copy = doc[call[p].member]]]
    /\ ReadOnly

(* mutant: only the member is looked at, not the account *)
CheckMemberOnly(p) ==
    At(p, "other") /\ GotoIf(p, call[p].copy.line = NoUser, "link") /\ ReadOnly

CheckOther(p) ==
    /\ At(p, "other")
    /\ GotoIf(p, ~IsLinked(call[p].user) /\ call[p].copy.line = NoUser, "link")
    /\ ReadOnly

LinkMember(p) ==
    /\ At(p, "link")
    /\ SaveLink(p)
    /\ GotoIf(p, call[p].req.status # "none", "approved")
    /\ UNCHANGED <<request, code, state, history, calls, crashes>>

SaveApproval(p) ==
    /\ At(p, "approved")
    /\ request' = [request EXCEPT ![call[p].user] =
                     [member |-> call[p].member, status |-> "approved"]]
    /\ Return(p)
    /\ UNCHANGED <<doc, code, state, history, calls, crashes>>

Reject(p, u) ==
    /\ request[u].status = "pending"
    /\ Begin(p, [NoCall EXCEPT !.pc = "reject", !.user = u, !.req = request[u]])

SaveRejection(p) ==
    /\ At(p, "reject")
    /\ request' = [request EXCEPT ![call[p].user] = [call[p].req EXCEPT !.status = "rejected"]]
    /\ Return(p)
    /\ UNCHANGED <<doc, code, state, history, calls, crashes>>
-----------------------------------------------------------------------------
(* verify_and_link *)

(* an account that is not linked types a text *)
Redeem(p, u, c) ==
    ~IsLinked(u) /\ Begin(p, [NoCall EXCEPT !.pc = "state", !.user = u, !.code = c])

(* mutant: a locked account goes on *)
ReadFailed(p) ==
    /\ At(p, "state")
    /\ call' = [call EXCEPT ![p] = [call[p] EXCEPT !.pc = "existing",
                                                   !.failed = state[call[p].user].failed]]
    /\ ReadOnly

ReadState(p) ==
    /\ At(p, "state")
    /\ LET s == state[call[p].user]
       IN  IF s.locked THEN Return(p)
           ELSE call' = [call EXCEPT ![p] = [call[p] EXCEPT !.pc = "existing",
                                                            !.failed = s.failed]]
    /\ ReadOnly

CheckExisting(p) ==
    At(p, "existing") /\ GotoIf(p, ~IsLinked(call[p].user), "code") /\ ReadOnly

(* mutant: used codes are taken *)
ReadAnyCode(p) ==
    /\ At(p, "code")
    /\ LET c == code[call[p].code]
       IN  IF c.member # NoMember /\ ~c.expired
           THEN call' = [call EXCEPT ![p] = [call[p] EXCEPT !.pc = "owner", !.member = c.member]]
           ELSE Goto(p, "refuse")
    /\ ReadOnly

ReadCode(p) ==
    /\ At(p, "code")
    /\ LET c == code[call[p].code]
       IN  IF c.member # NoMember /\ ~c.used /\ ~c.expired
           THEN call' = [call EXCEPT ![p] = [call[p] EXCEPT !.pc = "owner", !.member = c.member]]
           ELSE Goto(p, "refuse")
    /\ ReadOnly

SaveFailure(p) ==
    /\ At(p, "refuse")
    /\ state' = [state EXCEPT ![call[p].user] =
                   [failed |-> call[p].failed + 1, locked |-> call[p].failed + 1 >= MaxFailed]]
    /\ Return(p)
    /\ UNCHANGED <<doc, request, code, history, calls, crashes>>

ReadOwner(p) ==
    /\ At(p, "owner")
    /\ call' = [call EXCEPT ![p] = [call[p] EXCEPT !.pc = "redeem", !.copy = doc[call[p].member]]]
    /\ ReadOnly

(* whether the member is linked already is not looked at *)
LinkByCode(p) ==
    /\ At(p, "redeem")
    /\ SaveLink(p)
    /\ Goto(p, "use")
    /\ redeemed' = [redeemed EXCEPT ![call[p].code] = @ + 1]
    /\ moved' = IF doc[call[p].member].line = NoUser THEN moved
                ELSE moved \cup {call[p].member}
    /\ UNCHANGED <<request, code, state, asked, calls, crashes>>

SaveUsed(p) ==
    /\ At(p, "use")
    /\ code' = [code EXCEPT ![call[p].code] = [@ EXCEPT !.used = TRUE]]
    /\ Goto(p, "reset")
    /\ UNCHANGED <<doc, request, state, history, calls, crashes>>

ResetState(p) ==
    /\ At(p, "reset")
    /\ state' = [state EXCEPT ![call[p].user] = [failed |-> 0, locked |-> FALSE]]
    /\ Return(p)
    /\ UNCHANGED <<doc, request, code, history, calls, crashes>>
-----------------------------------------------------------------------------
(* update_member: the document is read, and saved with the fields edited *)

Edit(p, m) ==
    Begin(p, [NoCall EXCEPT !.pc = "edit", !.member = m, !.copy = doc[m]])

SaveEdit(p) ==
    /\ At(p, "edit")
    /\ \E a \in BOOLEAN :
         doc' = [doc EXCEPT ![call[p].member] = [call[p].copy EXCEPT !.active = a]]
    /\ Return(p)
    /\ UNCHANGED <<request, code, state, history, calls, crashes>>

issue_invite(c, m) ==
    /\ code[c] = NotIssued
    /\ code' = [code EXCEPT ![c] = [member |-> m, used |-> FALSE, expired |-> FALSE]]
    /\ UNCHANGED <<doc, request, state, call, history, calls, crashes>>

Expire(c) ==
    /\ code[c].member # NoMember
    /\ code' = [code EXCEPT ![c] = [@ EXCEPT !.expired = TRUE]]
    /\ UNCHANGED <<doc, request, state, call, history, calls, crashes>>

(* the instance dies, or Firestore raises *)
Crash(p) ==
    /\ call[p].pc # "idle" /\ crashes < MaxCrash
    /\ Return(p)
    /\ crashes' = crashes + 1
    /\ UNCHANGED <<documents, history, calls>>
-----------------------------------------------------------------------------
ApplicantNext(p) ==
    \/ \E u \in Users, m \in Members : Apply(p, u, m)
    \/ CheckLinkable(p) \/ CheckTaken(p) \/ SaveRequest(p)

DeciderNext(p) ==
    \/ \E u \in Users, m \in Members : ApproveOnScreen(p, u, m) \/ ApproveByButton(p, u)
    \/ ReadRequest(p) \/ ReadMember(p) \/ CheckOther(p) \/ LinkMember(p) \/ SaveApproval(p)
    \/ \E u \in Users : Reject(p, u)
    \/ SaveRejection(p)
    \/ \E u \in Users, c \in Codes : Redeem(p, u, c)
    \/ ReadState(p) \/ CheckExisting(p) \/ ReadCode(p) \/ SaveFailure(p) \/ ReadOwner(p)
    \/ LinkByCode(p) \/ SaveUsed(p) \/ ResetState(p)
    \/ \E m \in Members : Edit(p, m)
    \/ SaveEdit(p)

Next ==
    \/ \E p \in Applicants : ApplicantNext(p)
    \/ \E p \in Deciders : DeciderNext(p)
    \/ \E p \in Calls : Crash(p)
    \/ \E c \in Codes, m \in Members : issue_invite(c, m)
    \/ \E c \in Codes : Expire(c)

Spec == Init /\ [][Next]_vars
-----------------------------------------------------------------------------
(* One LINE account is never linked to two members (line-link-design.md:27):   *)
(* approve and verify_and_link look for another member first, and any number   *)
(* of applications does not come between, but a second approval does.          *)
OneMemberPerLine == \A m, n \in Members :
    doc[m].line = doc[n].line /\ doc[m].line # NoUser => m = n

(* While an account waits for the approval of a member no other one can apply  *)
(* for the same member (line-link-design.md:26, the check in request_link).    *)
OnePendingRequest == \A u, v \in Users :
    /\ request[u].status = "pending" /\ request[v].status = "pending"
    /\ request[u].member = request[v].member
    => u = v

(* The request documents do not lie: an account on record as approved is the   *)
(* one its member is linked to, unless a code took the member to another.      *)
ApprovedIsLinked == \A u \in Users :
    request[u].status = "approved" =>
        doc[request[u].member].line = u \/ request[u].member \in moved

(* A member's requests lead to one link: one account waits for him, and the one  *)
(* on record as approved has him.                                                *)
RequestsAreTrue == OnePendingRequest /\ ApprovedIsLinked

(* A locked account gets no link out of a code (invite.py:73). *)
LockedIsNotLinkedByCode == [][\A p \in Deciders :
    LinkByCode(p) => ~state[call[p].user].locked]_vars

(* A code links one account; only a call that dies between the member document *)
(* and the code document leaves the code good for another (invite.py:102-105). *)
CodeLinksOnceButForCrashes == \A c \in Codes : redeemed[c] <= 1 + crashes
=============================================================================
