---------------------------- MODULE Linking_proofs ----------------------------
(* The links and requests are right for any members, accounts, codes and       *)
(* calls, as long as one call at a time decides about links, and one applies.  *)
EXTENDS Linking, TLAPS

(* The names a call works with are there once it needs them. *)
Fits(p, c) ==
    /\ c.pc \in (IF p \in Applicants THEN ApplicantSteps ELSE DeciderSteps)
    /\ c.pc \notin {"idle", "edit"} => c.user \in Users
    /\ c.pc \in {"linkable", "taken", "apply", "member", "other", "link", "approved", "edit",
                 "owner", "redeem", "use", "reset"} => c.member \in Members
    /\ c.pc \in {"state", "existing", "code", "refuse", "owner", "redeem", "use", "reset"}
         => c.code \in Codes
    /\ c.pc = "reject" => c.req.member \in Members

LinkTypes ==
    /\ TypeOK
    /\ \A p \in Calls : Fits(p, call[p])
    /\ \A u \in Users : request[u].status # "none" => request[u].member \in Members

(* A step of one call gives it a new record, and leaves the others alone. *)
LEMMA CallStep ==
    ASSUME LinkTypes, NEW p \in Calls, NEW c \in CallDocs, Fits(p, c),
           call' = [call EXCEPT ![p] = c]
    PROVE  /\ call' \in [Calls -> CallDocs]
           /\ \A q \in Calls : Fits(q, call'[q])
BY DEF LinkTypes, TypeOK

(* The record of a call that has returned *)
LEMMA Returned ==
    ASSUME NEW p \in Calls
    PROVE  NoCall \in CallDocs /\ Fits(p, NoCall)
BY NamesAssumption, CallsAssumption
   DEF NoCall, CallDocs, Docs, Requests, NoRequest, Fits, ApplicantSteps, DeciderSteps

(* Saving a link keeps a member document a member document. *)
LEMMA SaveLinkTypes ==
    ASSUME LinkTypes, NEW p \in Calls, SaveLink(p),
           call[p].member \in Members, call[p].user \in Users
    PROVE  /\ doc' \in [Members -> Docs]
           /\ doc'[call[p].member].line = call[p].user
           /\ \A m \in Members : m # call[p].member => doc'[m] = doc[m]
<1>1. call[p].copy \in Docs
  BY DEF LinkTypes, TypeOK, CallDocs
<1>2. [call[p].copy EXCEPT !.line = call[p].user] \in Docs
  BY <1>1 DEF Docs
<1> QED BY <1>2 DEF SaveLink, LinkTypes, TypeOK, Docs

(* Every call begins with names of its own. *)
LEMMA BeginTypes ==
    ASSUME LinkTypes, NEW p \in Calls, NEW c \in CallDocs, Fits(p, c), Begin(p, c)
    PROVE  LinkTypes'
<1>1. call' = [call EXCEPT ![p] = c] /\ calls' \in Nat /\ UNCHANGED <<documents, history, crashes>>
  BY DEF Begin, LinkTypes, TypeOK
<1> QED BY <1>1, CallStep DEF LinkTypes, TypeOK, documents, history

(* A call that only reads goes on, or returns. *)
LEMMA ReadTypes ==
    ASSUME LinkTypes, NEW p \in Calls, NEW c \in CallDocs, Fits(p, c), ReadOnly,
           call' = [call EXCEPT ![p] = c]
    PROVE  LinkTypes'
<1>1. UNCHANGED <<documents, history, calls, crashes>>
  BY DEF ReadOnly
<1> QED BY <1>1, CallStep DEF LinkTypes, TypeOK, documents, history

LEMMA InitLinkTypes == Init => LinkTypes
<1> SUFFICES ASSUME Init PROVE LinkTypes
  OBVIOUS
<1>1. \A p \in Calls : call[p] = NoCall
  BY DEF Init
<1>2. call \in [Calls -> CallDocs]
  BY Returned DEF Init
<1>3. \A p \in Calls : Fits(p, call[p])
  BY <1>1, Returned
<1> QED BY <1>2, <1>3 DEF Init, LinkTypes, TypeOK, Docs, Requests, NoRequest, CodeDocs,
                          NotIssued, States

LEMMA ApplicantTypes ==
    ASSUME LinkTypes, NEW p \in Applicants, ApplicantNext(p)
    PROVE  LinkTypes'
<1>0. p \in Calls /\ call[p] \in CallDocs /\ Fits(p, call[p])
  BY DEF Calls, LinkTypes, TypeOK
<1>1. ASSUME NEW u \in Users, NEW m \in Members, Apply(p, u, m) PROVE LinkTypes'
  <2> DEFINE c == [NoCall EXCEPT !.pc = "linkable", !.user = u, !.member = m]
  <2>1. c \in CallDocs
    BY <1>0, Returned DEF CallDocs, ApplicantSteps
  <2>2. Fits(p, c)
    BY DEF Fits, ApplicantSteps, NoCall
  <2> QED BY <1>0, <1>1, <2>1, <2>2, BeginTypes DEF Apply
<1>2. ASSUME NEW pc \in {"taken", "apply"}, call[p].pc \in {"linkable", "taken"},
             GotoIf(p, TRUE, pc) \/ GotoIf(p, FALSE, pc), ReadOnly
      PROVE  LinkTypes'
  <2>1. CASE Goto(p, pc)
    <3> DEFINE c == [call[p] EXCEPT !.pc = pc]
    <3>1. c \in CallDocs
      BY <1>0 DEF CallDocs, ApplicantSteps
    <3>2. Fits(p, c)
      BY <1>0, <1>2 DEF Fits, CallDocs, ApplicantSteps
    <3>3. call' = [call EXCEPT ![p] = c]
      BY <2>1 DEF Goto
    <3> QED BY <1>0, <1>2, <3>1, <3>2, <3>3, ReadTypes
  <2>2. CASE Return(p)
    BY <1>0, <1>2, <2>2, Returned, ReadTypes DEF Return
  <2> QED BY <1>2, <2>1, <2>2 DEF GotoIf
<1>3. CASE CheckLinkable(p)
  BY <1>2, <1>3 DEF CheckLinkable, At, GotoIf
<1>4. CASE CheckTaken(p)
  BY <1>2, <1>4 DEF CheckTaken, At, GotoIf
<1>5. CASE SaveRequest(p)
  <2>1. /\ call' = [call EXCEPT ![p] = NoCall]
        /\ request' = [request EXCEPT ![call[p].user] =
                         [member |-> call[p].member, status |-> "pending"]]
        /\ UNCHANGED <<doc, code, state, moved, redeemed, calls, crashes>>
    BY <1>5 DEF SaveRequest, Return
  <2>2. call[p].user \in Users /\ call[p].member \in Members
    BY <1>0, <1>5 DEF SaveRequest, At, Fits
  <2>3. asked' \subseteq Users
    BY <1>5, <2>2 DEF SaveRequest, LinkTypes, TypeOK
  <2>4. /\ request' \in [Users -> Requests]
        /\ \A u \in Users : request'[u].status # "none" => request'[u].member \in Members
    BY <2>1, <2>2 DEF LinkTypes, TypeOK, Requests
  <2> QED BY <1>0, <2>1, <2>3, <2>4, CallStep, Returned DEF LinkTypes, TypeOK
<1> QED BY <1>1, <1>3, <1>4, <1>5 DEF ApplicantNext

(* The record of a decider that goes to another step, with the same names *)
LEMMA Going ==
    ASSUME LinkTypes, NEW p \in Deciders, NEW pc \in DeciderSteps,
           call[p].pc \notin {"idle", "edit"},
           pc \in {"member", "other", "link", "approved", "edit", "owner", "redeem", "use", "reset"}
             => call[p].member \in Members,
           pc \in {"state", "existing", "code", "refuse", "owner", "redeem", "use", "reset"}
             => call[p].code \in Codes,
           pc # "reject", Goto(p, pc)
    PROVE  \E c \in CallDocs : Fits(p, c) /\ call' = [call EXCEPT ![p] = c]
<1> DEFINE c == [call[p] EXCEPT !.pc = pc]
<1>1. p \in Calls /\ p \notin Applicants /\ call[p] \in CallDocs /\ Fits(p, call[p])
  BY CallsAssumption DEF Calls, LinkTypes, TypeOK
<1>2. c \in CallDocs
  BY <1>1 DEF CallDocs
<1>3. Fits(p, c)
  BY <1>1 DEF Fits, CallDocs, DeciderSteps
<1>4. call' = [call EXCEPT ![p] = c]
  BY DEF Goto
<1> QED BY <1>2, <1>3, <1>4

LEMMA ApprovalTypes ==
    ASSUME LinkTypes, NEW p \in Deciders,
           \/ \E u \in Users, m \in Members : ApproveOnScreen(p, u, m) \/ ApproveByButton(p, u)
           \/ ReadRequest(p) \/ ReadMember(p) \/ CheckOther(p) \/ LinkMember(p) \/ SaveApproval(p)
           \/ \E u \in Users : Reject(p, u)
           \/ SaveRejection(p)
    PROVE  LinkTypes'
<1>0. p \in Calls /\ p \notin Applicants /\ call[p] \in CallDocs /\ Fits(p, call[p])
  BY CallsAssumption DEF Calls, LinkTypes, TypeOK
<1>1. ASSUME NEW u \in Users, NEW m \in Members,
             ApproveOnScreen(p, u, m) \/ ApproveByButton(p, u)
      PROVE  LinkTypes'
  <2>1. PICK c \in {[NoCall EXCEPT !.pc = "request", !.user = u, !.member = m],
                    [NoCall EXCEPT !.pc = "request", !.user = u]} : Begin(p, c)
    BY <1>1 DEF ApproveOnScreen, ApproveByButton
  <2>2. c \in CallDocs
    <3>1. NoCall \in CallDocs /\ "request" \in DeciderSteps
      BY <1>0, Returned DEF DeciderSteps
    <3> QED BY <2>1, <3>1 DEF CallDocs
  <2>3. Fits(p, c)
    BY <1>0, <2>1 DEF Fits, DeciderSteps, NoCall
  <2> QED BY <1>0, <2>1, <2>2, <2>3, BeginTypes
<1>2. CASE ReadRequest(p)
  <2>1. call[p].user \in Users /\ request[call[p].user] \in Requests
    BY <1>0, <1>2 DEF ReadRequest, At, Fits, LinkTypes, TypeOK
  <2>2. CASE Return(p)
    BY <1>0, <1>2, <2>2, Returned, ReadTypes DEF Return, ReadRequest
  <2>3. CASE ~Return(p)
    <3>1. PICK m \in Members :
            call' = [call EXCEPT ![p] = [call[p] EXCEPT !.pc = "member", !.member = m,
                                                        !.req = request[call[p].user]]]
      BY <1>0, <1>2, <2>1, <2>3 DEF ReadRequest, CallDocs, Requests
    <3> DEFINE c == [call[p] EXCEPT !.pc = "member", !.member = m, !.req = request[call[p].user]]
    <3>2. c \in CallDocs
      BY <1>0, <2>1 DEF CallDocs, DeciderSteps
    <3>3. Fits(p, c)
      BY <1>0, <2>1 DEF Fits, DeciderSteps, CallDocs
    <3> QED BY <1>0, <1>2, <3>1, <3>2, <3>3, ReadTypes DEF ReadRequest
  <2> QED BY <2>2, <2>3
<1>3. CASE ReadMember(p)
  <2> DEFINE c == [call[p] EXCEPT !.pc = "other", !.copy = doc[call[p].member]]
  <2>1. call[p].user \in Users /\ call[p].member \in Members /\ doc[call[p].member] \in Docs
    BY <1>0, <1>3 DEF ReadMember, At, Fits, LinkTypes, TypeOK
  <2>2. c \in CallDocs
    BY <1>0, <2>1 DEF CallDocs, DeciderSteps
  <2>3. Fits(p, c)
    BY <1>0, <2>1 DEF Fits, DeciderSteps, CallDocs
  <2> QED BY <1>0, <1>3, <2>2, <2>3, ReadTypes DEF ReadMember
<1>4. CASE CheckOther(p)
  <2>1. call[p].member \in Members /\ call[p].pc = "other"
    BY <1>0, <1>4 DEF CheckOther, At, Fits
  <2>2. CASE Goto(p, "link")
    BY <1>0, <1>4, <2>1, <2>2, Going, ReadTypes DEF CheckOther, DeciderSteps
  <2>3. CASE Return(p)
    BY <1>0, <1>4, <2>3, Returned, ReadTypes DEF Return, CheckOther
  <2> QED BY <1>4, <2>2, <2>3 DEF CheckOther, GotoIf
<1>5. CASE LinkMember(p)
  <2>1. call[p].member \in Members /\ call[p].user \in Users /\ call[p].pc = "link"
    BY <1>0, <1>5 DEF LinkMember, At, Fits
  <2>2. doc' \in [Members -> Docs]
    BY <1>0, <1>5, <2>1, SaveLinkTypes DEF LinkMember
  <2>3. \E c \in CallDocs : Fits(p, c) /\ call' = [call EXCEPT ![p] = c]
    <3>1. CASE Goto(p, "approved")
      BY <2>1, <3>1, Going DEF DeciderSteps
    <3>2. CASE Return(p)
      BY <1>0, <3>2, Returned DEF Return
    <3> QED BY <1>5, <3>1, <3>2 DEF LinkMember, GotoIf
  <2>4. UNCHANGED <<request, code, state, history, calls, crashes>>
    BY <1>5 DEF LinkMember
  <2> QED BY <1>0, <2>2, <2>3, <2>4, CallStep DEF LinkTypes, TypeOK, history
<1>6. CASE SaveApproval(p)
  <2>1. call[p].user \in Users /\ call[p].member \in Members
    BY <1>0, <1>6 DEF SaveApproval, At, Fits
  <2>2. /\ call' = [call EXCEPT ![p] = NoCall]
        /\ request' = [request EXCEPT ![call[p].user] =
                         [member |-> call[p].member, status |-> "approved"]]
        /\ UNCHANGED <<doc, code, state, history, calls, crashes>>
    BY <1>6 DEF SaveApproval, Return
  <2>3. /\ request' \in [Users -> Requests]
        /\ \A u \in Users : request'[u].status # "none" => request'[u].member \in Members
    BY <2>1, <2>2 DEF LinkTypes, TypeOK, Requests
  <2> QED BY <1>0, <2>2, <2>3, CallStep, Returned DEF LinkTypes, TypeOK, history
<1>7. ASSUME NEW u \in Users, Reject(p, u) PROVE LinkTypes'
  <2> DEFINE c == [NoCall EXCEPT !.pc = "reject", !.user = u, !.req = request[u]]
  <2>1. request[u] \in Requests /\ request[u].member \in Members
    BY <1>7 DEF Reject, LinkTypes, TypeOK
  <2>2. c \in CallDocs
    BY <1>0, <2>1, Returned DEF CallDocs, DeciderSteps
  <2>3. Fits(p, c)
    BY <1>0, <2>1 DEF Fits, DeciderSteps, NoCall
  <2> QED BY <1>0, <1>7, <2>2, <2>3, BeginTypes DEF Reject
<1>8. CASE SaveRejection(p)
  <2>1. call[p].user \in Users /\ call[p].req \in Requests /\ call[p].req.member \in Members
    BY <1>0, <1>8 DEF SaveRejection, At, Fits, CallDocs
  <2>2. /\ call' = [call EXCEPT ![p] = NoCall]
        /\ request' = [request EXCEPT ![call[p].user] = [call[p].req EXCEPT !.status = "rejected"]]
        /\ UNCHANGED <<doc, code, state, history, calls, crashes>>
    BY <1>8 DEF SaveRejection, Return
  <2>3. /\ request' \in [Users -> Requests]
        /\ \A u \in Users : request'[u].status # "none" => request'[u].member \in Members
    BY <2>1, <2>2 DEF LinkTypes, TypeOK, Requests
  <2> QED BY <1>0, <2>2, <2>3, CallStep, Returned DEF LinkTypes, TypeOK, history
<1> QED BY <1>1, <1>2, <1>3, <1>4, <1>5, <1>6, <1>7, <1>8

LEMMA CodeTypes ==
    ASSUME LinkTypes, NEW p \in Deciders,
           \/ \E u \in Users, c \in Codes : Redeem(p, u, c)
           \/ ReadState(p) \/ CheckExisting(p) \/ ReadCode(p) \/ SaveFailure(p) \/ ReadOwner(p)
           \/ LinkByCode(p) \/ SaveUsed(p) \/ ResetState(p)
    PROVE  LinkTypes'
<1>0. p \in Calls /\ p \notin Applicants /\ call[p] \in CallDocs /\ Fits(p, call[p])
  BY CallsAssumption DEF Calls, LinkTypes, TypeOK
<1>1. ASSUME NEW u \in Users, NEW k \in Codes, Redeem(p, u, k) PROVE LinkTypes'
  <2> DEFINE c == [NoCall EXCEPT !.pc = "state", !.user = u, !.code = k]
  <2>1. c \in CallDocs
    BY <1>0, Returned DEF CallDocs, DeciderSteps
  <2>2. Fits(p, c)
    BY <1>0 DEF Fits, DeciderSteps, NoCall
  <2> QED BY <1>0, <1>1, <2>1, <2>2, BeginTypes DEF Redeem
<1>2. CASE ReadState(p)
  <2>1. call[p].user \in Users /\ call[p].code \in Codes /\ state[call[p].user].failed \in Nat
    BY <1>0, <1>2 DEF ReadState, At, Fits, LinkTypes, TypeOK, States
  <2>2. CASE Return(p)
    BY <1>0, <1>2, <2>2, Returned, ReadTypes DEF Return, ReadState
  <2>3. CASE ~Return(p)
    <3> DEFINE c == [call[p] EXCEPT !.pc = "existing", !.failed = state[call[p].user].failed]
    <3>1. call' = [call EXCEPT ![p] = c]
      BY <1>2, <2>3 DEF ReadState
    <3>2. c \in CallDocs
      BY <1>0, <2>1 DEF CallDocs, DeciderSteps
    <3>3. Fits(p, c)
      BY <1>0, <2>1 DEF Fits, DeciderSteps, CallDocs
    <3> QED BY <1>0, <1>2, <3>1, <3>2, <3>3, ReadTypes DEF ReadState
  <2> QED BY <2>2, <2>3
<1>3. CASE CheckExisting(p)
  <2>1. call[p].code \in Codes /\ call[p].pc = "existing"
    BY <1>0, <1>3 DEF CheckExisting, At, Fits
  <2>2. CASE Goto(p, "code")
    BY <1>0, <1>3, <2>1, <2>2, Going, ReadTypes DEF CheckExisting, DeciderSteps
  <2>3. CASE Return(p)
    BY <1>0, <1>3, <2>3, Returned, ReadTypes DEF Return, CheckExisting
  <2> QED BY <1>3, <2>2, <2>3 DEF CheckExisting, GotoIf
<1>4. CASE ReadCode(p)
  <2>1. call[p].user \in Users /\ call[p].code \in Codes /\ call[p].pc = "code"
    BY <1>0, <1>4 DEF ReadCode, At, Fits
  <2>2. CASE Goto(p, "refuse")
    BY <1>0, <1>4, <2>1, <2>2, Going, ReadTypes DEF ReadCode, DeciderSteps
  <2>3. CASE ~Goto(p, "refuse")
    <3> DEFINE k == code[call[p].code]
    <3> DEFINE c == [call[p] EXCEPT !.pc = "owner", !.member = k.member]
    <3>1. call' = [call EXCEPT ![p] = c] /\ k.member # NoMember
      BY <1>4, <2>3 DEF ReadCode
    <3>2. k.member \in Members
      BY <2>1, <3>1 DEF LinkTypes, TypeOK, CodeDocs
    <3>3. c \in CallDocs
      BY <1>0, <3>2 DEF CallDocs, DeciderSteps
    <3>4. Fits(p, c)
      BY <1>0, <2>1, <3>2 DEF Fits, DeciderSteps, CallDocs
    <3> QED BY <1>0, <1>4, <3>1, <3>3, <3>4, ReadTypes DEF ReadCode
  <2> QED BY <2>2, <2>3
<1>5. CASE SaveFailure(p)
  <2>1. call[p].user \in Users /\ call[p].failed \in Nat
    BY <1>0, <1>5 DEF SaveFailure, At, Fits, CallDocs
  <2>2. /\ call' = [call EXCEPT ![p] = NoCall]
        /\ state' = [state EXCEPT ![call[p].user] =
             [failed |-> call[p].failed + 1, locked |-> call[p].failed + 1 >= MaxFailed]]
        /\ UNCHANGED <<doc, request, code, history, calls, crashes>>
    BY <1>5 DEF SaveFailure, Return
  <2>3. state' \in [Users -> States]
    BY <2>1, <2>2 DEF LinkTypes, TypeOK, States
  <2> QED BY <1>0, <2>2, <2>3, CallStep, Returned DEF LinkTypes, TypeOK, history
<1>6. CASE ReadOwner(p)
  <2> DEFINE c == [call[p] EXCEPT !.pc = "redeem", !.copy = doc[call[p].member]]
  <2>1. /\ call[p].user \in Users /\ call[p].member \in Members /\ call[p].code \in Codes
        /\ doc[call[p].member] \in Docs
    BY <1>0, <1>6 DEF ReadOwner, At, Fits, LinkTypes, TypeOK
  <2>2. c \in CallDocs
    BY <1>0, <2>1 DEF CallDocs, DeciderSteps
  <2>3. Fits(p, c)
    BY <1>0, <2>1 DEF Fits, DeciderSteps, CallDocs
  <2> QED BY <1>0, <1>6, <2>2, <2>3, ReadTypes DEF ReadOwner
<1>7. CASE LinkByCode(p)
  <2>1. /\ call[p].user \in Users /\ call[p].member \in Members /\ call[p].code \in Codes
        /\ call[p].pc = "redeem"
    BY <1>0, <1>7 DEF LinkByCode, At, Fits
  <2>2. doc' \in [Members -> Docs]
    BY <1>0, <1>7, <2>1, SaveLinkTypes DEF LinkByCode
  <2>3. \E c \in CallDocs : Fits(p, c) /\ call' = [call EXCEPT ![p] = c]
    BY <1>7, <2>1, Going DEF LinkByCode, DeciderSteps
  <2>4. redeemed' \in [Codes -> Nat] /\ moved' \subseteq Members
    BY <1>7, <2>1 DEF LinkByCode, LinkTypes, TypeOK
  <2>5. UNCHANGED <<request, code, state, asked, calls, crashes>>
    BY <1>7 DEF LinkByCode
  <2> QED BY <1>0, <2>2, <2>3, <2>4, <2>5, CallStep DEF LinkTypes, TypeOK
<1>8. CASE SaveUsed(p)
  <2>1. call[p].code \in Codes /\ call[p].member \in Members /\ call[p].pc = "use"
    BY <1>0, <1>8 DEF SaveUsed, At, Fits
  <2>2. code' \in [Codes -> CodeDocs]
    <3>1. code' = [code EXCEPT ![call[p].code] = [code[call[p].code] EXCEPT !.used = TRUE]]
      BY <1>8 DEF SaveUsed
    <3> QED BY <2>1, <3>1 DEF LinkTypes, TypeOK, CodeDocs
  <2>3. \E c \in CallDocs : Fits(p, c) /\ call' = [call EXCEPT ![p] = c]
    BY <1>8, <2>1, Going DEF SaveUsed, DeciderSteps
  <2>4. UNCHANGED <<doc, request, state, history, calls, crashes>>
    BY <1>8 DEF SaveUsed
  <2> QED BY <1>0, <2>2, <2>3, <2>4, CallStep DEF LinkTypes, TypeOK, history
<1>9. CASE ResetState(p)
  <2>1. call[p].user \in Users
    BY <1>0, <1>9 DEF ResetState, At, Fits
  <2>2. /\ call' = [call EXCEPT ![p] = NoCall]
        /\ state' = [state EXCEPT ![call[p].user] = [failed |-> 0, locked |-> FALSE]]
        /\ UNCHANGED <<doc, request, code, history, calls, crashes>>
    BY <1>9 DEF ResetState, Return
  <2>3. state' \in [Users -> States]
    BY <2>1, <2>2 DEF LinkTypes, TypeOK, States
  <2> QED BY <1>0, <2>2, <2>3, CallStep, Returned DEF LinkTypes, TypeOK, history
<1> QED BY <1>1, <1>2, <1>3, <1>4, <1>5, <1>6, <1>7, <1>8, <1>9

LEMMA LinkTypesStep == LinkTypes /\ [Next]_vars => LinkTypes'
<1> SUFFICES ASSUME LinkTypes, [Next]_vars PROVE LinkTypes'
  OBVIOUS
<1>1. ASSUME NEW p \in Applicants, ApplicantNext(p) PROVE LinkTypes'
  BY <1>1, ApplicantTypes
<1>2. ASSUME NEW p \in Deciders, DeciderNext(p) PROVE LinkTypes'
  <2>1. CASE \/ \E u \in Users, c \in Codes : Redeem(p, u, c)
             \/ ReadState(p) \/ CheckExisting(p) \/ ReadCode(p) \/ SaveFailure(p) \/ ReadOwner(p)
             \/ LinkByCode(p) \/ SaveUsed(p) \/ ResetState(p)
    BY <2>1, CodeTypes
  <2>2. CASE \/ \E u \in Users, m \in Members :
                  ApproveOnScreen(p, u, m) \/ ApproveByButton(p, u)
             \/ ReadRequest(p) \/ ReadMember(p) \/ CheckOther(p) \/ LinkMember(p)
             \/ SaveApproval(p)
             \/ \E u \in Users : Reject(p, u)
             \/ SaveRejection(p)
    BY <2>2, ApprovalTypes
  <2>0. p \in Calls /\ p \notin Applicants /\ call[p] \in CallDocs /\ Fits(p, call[p])
    BY CallsAssumption DEF Calls, LinkTypes, TypeOK
  <2>3. ASSUME NEW m \in Members, Edit(p, m) PROVE LinkTypes'
    <3> DEFINE c == [NoCall EXCEPT !.pc = "edit", !.member = m, !.copy = doc[m]]
    <3>1. c \in CallDocs
      BY <2>0, Returned DEF CallDocs, DeciderSteps, LinkTypes, TypeOK
    <3>2. Fits(p, c)
      BY <2>0 DEF Fits, DeciderSteps, NoCall
    <3> QED BY <2>0, <2>3, <3>1, <3>2, BeginTypes DEF Edit
  <2>4. CASE SaveEdit(p)
    <3>1. call[p].member \in Members /\ call[p].copy \in Docs
      BY <2>0, <2>4 DEF SaveEdit, At, Fits, CallDocs
    <3>2. PICK a \in BOOLEAN :
            doc' = [doc EXCEPT ![call[p].member] = [call[p].copy EXCEPT !.active = a]]
      BY <2>4 DEF SaveEdit
    <3>3. doc' \in [Members -> Docs]
      BY <3>1, <3>2 DEF LinkTypes, TypeOK, Docs
    <3>4. /\ call' = [call EXCEPT ![p] = NoCall]
          /\ UNCHANGED <<request, code, state, history, calls, crashes>>
      BY <2>4 DEF SaveEdit, Return
    <3> QED BY <2>0, <3>3, <3>4, CallStep, Returned DEF LinkTypes, TypeOK, history
  <2> QED BY <1>2, <2>1, <2>2, <2>3, <2>4 DEF DeciderNext
<1>3. ASSUME NEW p \in Calls, Crash(p) PROVE LinkTypes'
  <2>1. /\ call' = [call EXCEPT ![p] = NoCall] /\ crashes' \in Nat
        /\ UNCHANGED <<documents, history, calls>>
    BY <1>3 DEF Crash, Return, LinkTypes, TypeOK
  <2> QED BY <2>1, CallStep, Returned DEF LinkTypes, TypeOK, documents, history
<1>4. ASSUME NEW c \in Codes, NEW m \in Members, issue_invite(c, m) PROVE LinkTypes'
  <2>1. code' \in [Codes -> CodeDocs] /\ UNCHANGED <<doc, request, state, call, history, calls, crashes>>
    BY <1>4 DEF issue_invite, LinkTypes, TypeOK, CodeDocs
  <2> QED BY <2>1 DEF LinkTypes, TypeOK, history
<1>5. CASE UNCHANGED vars
  BY <1>5 DEF vars, documents, history, LinkTypes, TypeOK
<1>6. ASSUME NEW c \in Codes, Expire(c) PROVE LinkTypes'
  <2>1. /\ code' = [code EXCEPT ![c] = [code[c] EXCEPT !.expired = TRUE]]
        /\ UNCHANGED <<doc, request, state, call, history, calls, crashes>>
    BY <1>6 DEF Expire
  <2> QED BY <2>1 DEF LinkTypes, TypeOK, history, CodeDocs
<1> QED BY <1>1, <1>2, <1>3, <1>4, <1>5, <1>6 DEF Next

(* Types, and a name for whatever a call needs one for *)
THEOREM LinkingTypeOK == Spec => []TypeOK
<1>1. LinkTypes => TypeOK
  BY DEF LinkTypes
<1> QED BY <1>1, InitLinkTypes, LinkTypesStep, PTL DEF Spec
-----------------------------------------------------------------------------
(* One call at a time decides about links; any number may apply meanwhile. *)
OneDecider == \A p, q \in Deciders : p = q

(* What the deciding call has found out still holds when it acts on it. *)
Work(p) ==
    /\ call[p].pc \in {"link", "code", "owner", "redeem"} =>
         \A m \in Members : doc[m].line # call[p].user
    /\ call[p].pc \in {"other", "link", "edit"} => call[p].copy.line = doc[call[p].member].line
    /\ call[p].pc = "link" => call[p].copy.line = NoUser
    /\ call[p].pc = "approved" => doc[call[p].member].line = call[p].user
    /\ call[p].pc \in {"owner", "redeem"} => redeemed[call[p].code] <= crashes

(* A code that linked one account more than calls died is used, or about to be. *)
CodeCount(c) ==
    \/ redeemed[c] <= crashes
    \/ /\ redeemed[c] <= crashes + 1
       /\ code[c].used \/ \E p \in Deciders : call[p].pc = "use" /\ call[p].code = c

DeciderInv ==
    /\ LinkTypes
    /\ OneMemberPerLine
    /\ ApprovedIsLinked
    /\ \A p \in Deciders : Work(p)
    /\ \A c \in Codes : CodeCount(c)

(* Whoever does not decide leaves all of it alone. *)
LEMMA OthersKeep ==
    ASSUME DeciderInv, LinkTypes', UNCHANGED <<doc, moved, redeemed>>, crashes' >= crashes,
           \A u \in Users : request'[u].status = "approved" => request'[u] = request[u],
           \A c \in Codes : code[c].used => code'[c].used,
           \A q \in Deciders : call'[q] = call[q]
    PROVE  DeciderInv'
<1>1. OneMemberPerLine' /\ ApprovedIsLinked'
  BY DEF DeciderInv, OneMemberPerLine, ApprovedIsLinked
<1>2. ASSUME NEW q \in Deciders PROVE Work(q)'
  <2>1. call[q].pc \in {"owner", "redeem"} => redeemed[call[q].code] \in Nat
    BY DEF DeciderInv, LinkTypes, TypeOK, Fits, Calls
  <2>2. crashes \in Nat /\ crashes' \in Nat
    BY DEF DeciderInv, LinkTypes, TypeOK
  <2> QED BY <2>1, <2>2 DEF DeciderInv, Work
<1>3. ASSUME NEW c \in Codes PROVE CodeCount(c)'
  BY <1>3 DEF DeciderInv, CodeCount, LinkTypes, TypeOK
<1> QED BY <1>1, <1>2, <1>3 DEF DeciderInv

(* A step of the deciding call that leaves member documents and codes alone *)
LEMMA DeciderKeeps ==
    ASSUME OneDecider, DeciderInv, LinkTypes', NEW p \in Deciders, call[p].pc # "use",
           UNCHANGED <<doc, code, moved, redeemed, crashes>>,
           \A u \in Users : request'[u].status = "approved" => request'[u] = request[u],
           Work(p)'
    PROVE  DeciderInv'
<1>1. OneMemberPerLine' /\ ApprovedIsLinked'
  BY DEF DeciderInv, OneMemberPerLine, ApprovedIsLinked
<1>2. ASSUME NEW q \in Deciders PROVE Work(q)'
  BY DEF OneDecider
<1>3. ASSUME NEW c \in Codes PROVE CodeCount(c)'
  BY <1>3 DEF OneDecider, DeciderInv, CodeCount, LinkTypes, TypeOK
<1> QED BY <1>1, <1>2, <1>3 DEF DeciderInv

LEMMA ApprovalKeeps ==
    ASSUME OneDecider, DeciderInv, LinkTypes', NEW p \in Deciders,
           \/ \E u \in Users, m \in Members : ApproveOnScreen(p, u, m) \/ ApproveByButton(p, u)
           \/ ReadRequest(p) \/ ReadMember(p) \/ CheckOther(p)
           \/ \E u \in Users : Reject(p, u)
           \/ SaveRejection(p)
    PROVE  DeciderInv'
<1>0. /\ p \in Calls /\ p \notin Applicants /\ call[p] \in CallDocs /\ Fits(p, call[p]) /\ Work(p)
      /\ call \in [Calls -> CallDocs]
  BY CallsAssumption DEF Calls, DeciderInv, LinkTypes, TypeOK
<1>1. ASSUME NEW u \in Users, NEW m \in Members,
             ApproveOnScreen(p, u, m) \/ ApproveByButton(p, u)
      PROVE  DeciderInv'
  <2>1. call[p].pc = "idle" /\ UNCHANGED <<documents, history, crashes>>
    BY <1>1 DEF ApproveOnScreen, ApproveByButton, Begin, At
  <2>2. call'[p].pc = "request"
    BY <1>0, <1>1 DEF ApproveOnScreen, ApproveByButton, Begin, NoCall
  <2>3. Work(p)'
    BY <2>2 DEF Work
  <2> QED BY <2>1, <2>3, DeciderKeeps DEF documents, history
<1>2. CASE ReadRequest(p)
  <2>1. call[p].pc = "request" /\ UNCHANGED <<documents, history, crashes>>
    BY <1>2 DEF ReadRequest, At, ReadOnly
  <2>2. call'[p].pc \in {"idle", "member"}
    <3>1. \/ call' = [call EXCEPT ![p] = NoCall]
          \/ \E m, r : call' = [call EXCEPT ![p] = [call[p] EXCEPT !.pc = "member", !.member = m,
                                                                  !.req = r]]
      BY <1>2 DEF ReadRequest, Return
    <3>2. NoCall.pc = "idle"
      BY DEF NoCall
    <3> QED BY <1>0, <3>1, <3>2 DEF CallDocs
  <2>3. Work(p)'
    BY <2>2 DEF Work
  <2> QED BY <2>1, <2>3, DeciderKeeps DEF documents, history
<1>3. CASE ReadMember(p)
  <2>1. call[p].pc = "member" /\ UNCHANGED <<documents, history, crashes>>
    BY <1>3 DEF ReadMember, At, ReadOnly
  <2>2. call'[p] = [call[p] EXCEPT !.pc = "other", !.copy = doc[call[p].member]]
    BY <1>0, <1>3 DEF ReadMember
  <2>3. Work(p)'
    BY <1>0, <2>1, <2>2 DEF Work, CallDocs, documents
  <2> QED BY <2>1, <2>3, DeciderKeeps DEF documents, history
<1>4. CASE CheckOther(p)
  <2>1. call[p].pc = "other" /\ UNCHANGED <<documents, history, crashes>>
    BY <1>4 DEF CheckOther, At, ReadOnly
  <2>2. \/ call'[p] = NoCall
        \/ /\ ~IsLinked(call[p].user) /\ call[p].copy.line = NoUser
           /\ call'[p] = [call[p] EXCEPT !.pc = "link"]
    BY <1>0, <1>4 DEF CheckOther, GotoIf, Goto, Return
  <2>3. Work(p)'
    BY <1>0, <2>1, <2>2 DEF Work, CallDocs, documents, IsLinked, NoCall
  <2> QED BY <2>1, <2>3, DeciderKeeps DEF documents, history
<1>5. ASSUME NEW u \in Users, Reject(p, u) PROVE DeciderInv'
  <2>1. call[p].pc = "idle" /\ UNCHANGED <<documents, history, crashes>>
    BY <1>5 DEF Reject, Begin, At
  <2>2. call'[p].pc = "reject"
    BY <1>0, <1>5 DEF Reject, Begin, NoCall
  <2>3. Work(p)'
    BY <2>2 DEF Work
  <2> QED BY <2>1, <2>3, DeciderKeeps DEF documents, history
<1>6. CASE SaveRejection(p)
  <2>1. /\ call[p].pc = "reject" /\ call'[p] = NoCall
        /\ request' = [request EXCEPT ![call[p].user] = [call[p].req EXCEPT !.status = "rejected"]]
        /\ UNCHANGED <<doc, code, state, history, crashes>>
    BY <1>0, <1>6 DEF SaveRejection, At, Return
  <2>2. \A u \in Users : request'[u].status = "approved" => request'[u] = request[u]
    BY <1>0, <2>1 DEF DeciderInv, LinkTypes, TypeOK, CallDocs, Requests
  <2>3. Work(p)'
    BY <2>1 DEF Work, NoCall
  <2> QED BY <2>1, <2>2, <2>3, DeciderKeeps DEF history
<1> QED BY <1>1, <1>2, <1>3, <1>4, <1>5, <1>6

LEMMA LinkKeeps ==
    ASSUME OneDecider, DeciderInv, LinkTypes', NEW p \in Deciders,
           LinkMember(p) \/ SaveApproval(p) \/ SaveEdit(p)
           \/ \E m \in Members : Edit(p, m)
    PROVE  DeciderInv'
<1>0. /\ p \in Calls /\ p \notin Applicants /\ call[p] \in CallDocs /\ Fits(p, call[p]) /\ Work(p)
      /\ call \in [Calls -> CallDocs] /\ LinkTypes
  BY CallsAssumption DEF Calls, DeciderInv, LinkTypes, TypeOK
<1>1. CASE LinkMember(p)
  <2>1. /\ call[p].pc = "link" /\ call[p].member \in Members /\ call[p].user \in Users
        /\ UNCHANGED <<request, code, state, history, calls, crashes>>
    BY <1>0, <1>1 DEF LinkMember, At, Fits
  <2>2. /\ doc'[call[p].member].line = call[p].user
        /\ \A m \in Members : m # call[p].member => doc'[m] = doc[m]
    BY <1>0, <1>1, <2>1, SaveLinkTypes DEF LinkMember
  <2>3. doc[call[p].member].line = NoUser /\ \A m \in Members : doc[m].line # call[p].user
    BY <1>0, <2>1 DEF Work
  <2>4. \/ call'[p] = NoCall
        \/ call'[p] = [call[p] EXCEPT !.pc = "approved"]
    BY <1>0, <1>1 DEF LinkMember, GotoIf, Goto, Return
  <2>5. OneMemberPerLine'
    BY <2>2, <2>3 DEF DeciderInv, OneMemberPerLine
  <2>6. ApprovedIsLinked'
    BY <1>0, <2>1, <2>2, <2>3, NamesAssumption
       DEF DeciderInv, ApprovedIsLinked, history, LinkTypes
  <2>7. Work(p)'
    BY <1>0, <2>1, <2>2, <2>4 DEF Work, NoCall, CallDocs
  <2>8. \A q \in Deciders : Work(q)'
    BY <2>7 DEF OneDecider
  <2>9. \A c \in Codes : CodeCount(c)'
    BY <2>1 DEF OneDecider, DeciderInv, CodeCount, history
  <2> QED BY <2>5, <2>6, <2>8, <2>9 DEF DeciderInv
<1>2. CASE SaveApproval(p)
  <2>1. /\ call[p].pc = "approved" /\ call[p].member \in Members /\ call[p].user \in Users
        /\ call'[p] = NoCall
        /\ request' = [request EXCEPT ![call[p].user] =
                         [member |-> call[p].member, status |-> "approved"]]
        /\ UNCHANGED <<doc, code, state, history, crashes>>
    BY <1>0, <1>2 DEF SaveApproval, At, Fits, Return
  <2>2. ApprovedIsLinked'
    BY <1>0, <2>1 DEF DeciderInv, ApprovedIsLinked, Work, history, LinkTypes, TypeOK
  <2>3. \A q \in Deciders : Work(q)'
    BY <2>1 DEF OneDecider, Work, NoCall
  <2>4. \A c \in Codes : CodeCount(c)'
    BY <2>1 DEF OneDecider, DeciderInv, CodeCount, history
  <2> QED BY <2>1, <2>2, <2>3, <2>4 DEF DeciderInv, OneMemberPerLine
<1>3. CASE SaveEdit(p)
  <2>1. /\ call[p].pc = "edit" /\ call[p].member \in Members /\ call'[p] = NoCall
        /\ UNCHANGED <<request, code, state, history, crashes>>
    BY <1>0, <1>3 DEF SaveEdit, At, Fits, Return
  <2>2. \A m \in Members : doc'[m].line = doc[m].line
    <3>1. PICK a \in BOOLEAN :
            doc' = [doc EXCEPT ![call[p].member] = [call[p].copy EXCEPT !.active = a]]
      BY <1>3 DEF SaveEdit
    <3>2. call[p].copy.line = doc[call[p].member].line /\ call[p].copy \in Docs
      BY <1>0, <2>1 DEF Work, CallDocs
    <3> QED BY <1>0, <3>1, <3>2 DEF LinkTypes, TypeOK, Docs
  <2>3. OneMemberPerLine' /\ ApprovedIsLinked'
    BY <1>0, <2>1, <2>2 DEF DeciderInv, OneMemberPerLine, ApprovedIsLinked, history, LinkTypes
  <2>4. \A q \in Deciders : Work(q)'
    BY <2>1 DEF OneDecider, Work, NoCall
  <2>5. \A c \in Codes : CodeCount(c)'
    BY <2>1 DEF OneDecider, DeciderInv, CodeCount, history
  <2> QED BY <2>3, <2>4, <2>5 DEF DeciderInv
<1>4. ASSUME NEW m \in Members, Edit(p, m) PROVE DeciderInv'
  <2>1. /\ call[p].pc = "idle" /\ UNCHANGED <<documents, history, crashes>>
        /\ call'[p] = [NoCall EXCEPT !.pc = "edit", !.member = m, !.copy = doc[m]]
    BY <1>0, <1>4 DEF Edit, Begin, At
  <2>2. call'[p].pc = "edit" /\ call'[p].member = m /\ call'[p].copy = doc[m]
    BY <2>1 DEF NoCall
  <2>3. Work(p)'
    BY <2>1, <2>2 DEF Work, documents
  <2> QED BY <2>1, <2>3, DeciderKeeps DEF documents, history
<1> QED BY <1>1, <1>2, <1>3, <1>4

LEMMA CodeKeeps ==
    ASSUME OneDecider, DeciderInv, LinkTypes', NEW p \in Deciders,
           \/ \E u \in Users, c \in Codes : Redeem(p, u, c)
           \/ ReadState(p) \/ CheckExisting(p) \/ ReadCode(p) \/ SaveFailure(p) \/ ReadOwner(p)
           \/ LinkByCode(p) \/ SaveUsed(p) \/ ResetState(p)
    PROVE  DeciderInv'
<1>0. /\ p \in Calls /\ p \notin Applicants /\ call[p] \in CallDocs /\ Fits(p, call[p]) /\ Work(p)
      /\ call \in [Calls -> CallDocs] /\ LinkTypes
  BY CallsAssumption DEF Calls, DeciderInv, LinkTypes, TypeOK
<1>1. ASSUME NEW u \in Users, NEW c \in Codes, Redeem(p, u, c) PROVE DeciderInv'
  <2>1. call[p].pc = "idle" /\ UNCHANGED <<documents, history, crashes>>
    BY <1>1 DEF Redeem, Begin, At
  <2>2. call'[p].pc = "state"
    BY <1>0, <1>1 DEF Redeem, Begin, NoCall
  <2>3. Work(p)'
    BY <2>2 DEF Work
  <2> QED BY <2>1, <2>3, DeciderKeeps DEF documents, history
<1>2. CASE ReadState(p)
  <2>1. call[p].pc = "state" /\ UNCHANGED <<documents, history, crashes>>
    BY <1>2 DEF ReadState, At, ReadOnly
  <2>2. call'[p].pc \in {"idle", "existing"}
    <3>1. \/ call' = [call EXCEPT ![p] = NoCall]
          \/ \E f : call' = [call EXCEPT ![p] = [call[p] EXCEPT !.pc = "existing", !.failed = f]]
      BY <1>2 DEF ReadState, Return
    <3>2. NoCall.pc = "idle"
      BY DEF NoCall
    <3> QED BY <1>0, <3>1, <3>2 DEF CallDocs
  <2>3. Work(p)'
    BY <2>2 DEF Work
  <2> QED BY <2>1, <2>3, DeciderKeeps DEF documents, history
<1>3. CASE CheckExisting(p)
  <2>1. call[p].pc = "existing" /\ UNCHANGED <<documents, history, crashes>>
    BY <1>3 DEF CheckExisting, At, ReadOnly
  <2>2. \/ call'[p] = NoCall
        \/ ~IsLinked(call[p].user) /\ call'[p] = [call[p] EXCEPT !.pc = "code"]
    BY <1>0, <1>3 DEF CheckExisting, GotoIf, Goto, Return
  <2>3. Work(p)'
    BY <1>0, <2>1, <2>2 DEF Work, CallDocs, documents, IsLinked, NoCall
  <2> QED BY <2>1, <2>3, DeciderKeeps DEF documents, history
<1>4. CASE ReadCode(p)
  <2>1. /\ call[p].pc = "code" /\ call[p].code \in Codes
        /\ UNCHANGED <<documents, history, crashes>>
    BY <1>0, <1>4 DEF ReadCode, At, ReadOnly, Fits
  <2>2. \/ call'[p] = [call[p] EXCEPT !.pc = "refuse"]
        \/ \E m : /\ ~code[call[p].code].used
                  /\ call'[p] = [call[p] EXCEPT !.pc = "owner", !.member = m]
    BY <1>0, <1>4 DEF ReadCode, Goto
  <2>3. ~code[call[p].code].used => redeemed[call[p].code] <= crashes
    BY <2>1 DEF OneDecider, DeciderInv, CodeCount
  <2>4. Work(p)'
    <3>1. CASE call'[p] = [call[p] EXCEPT !.pc = "refuse"]
      BY <1>0, <3>1 DEF Work, CallDocs
    <3>2. CASE \E m : /\ ~code[call[p].code].used
                      /\ call'[p] = [call[p] EXCEPT !.pc = "owner", !.member = m]
      BY <1>0, <2>1, <2>3, <3>2 DEF Work, CallDocs, documents, history
    <3> QED BY <2>2, <3>1, <3>2
  <2> QED BY <2>1, <2>4, DeciderKeeps DEF documents, history
<1>5. CASE SaveFailure(p) \/ ResetState(p)
  <2>1. /\ call[p].pc \in {"refuse", "reset"} /\ call'[p] = NoCall
        /\ UNCHANGED <<doc, request, code, history, calls, crashes>>
    BY <1>0, <1>5 DEF SaveFailure, ResetState, At, Return
  <2>2. Work(p)'
    BY <2>1 DEF Work, NoCall
  <2> QED BY <2>1, <2>2, DeciderKeeps DEF history
<1>6. CASE ReadOwner(p)
  <2>1. call[p].pc = "owner" /\ UNCHANGED <<documents, history, crashes>>
    BY <1>6 DEF ReadOwner, At, ReadOnly
  <2>2. call'[p] = [call[p] EXCEPT !.pc = "redeem", !.copy = doc[call[p].member]]
    BY <1>0, <1>6 DEF ReadOwner
  <2>3. Work(p)'
    BY <1>0, <2>1, <2>2 DEF Work, CallDocs, documents, history
  <2> QED BY <2>1, <2>3, DeciderKeeps DEF documents, history
<1>7. CASE LinkByCode(p)
  <2>1. /\ call[p].pc = "redeem" /\ call[p].member \in Members /\ call[p].user \in Users
        /\ call[p].code \in Codes /\ call'[p] = [call[p] EXCEPT !.pc = "use"]
        /\ UNCHANGED <<request, code, state, asked, calls, crashes>>
        /\ redeemed' = [redeemed EXCEPT ![call[p].code] = redeemed[call[p].code] + 1]
    BY <1>0, <1>7 DEF LinkByCode, At, Fits, Goto
  <2>2. /\ doc'[call[p].member].line = call[p].user
        /\ \A m \in Members : m # call[p].member => doc'[m] = doc[m]
    BY <1>0, <1>7, <2>1, SaveLinkTypes DEF LinkByCode
  <2>3. /\ \A m \in Members : doc[m].line # call[p].user
        /\ redeemed[call[p].code] <= crashes
    BY <1>0, <2>1 DEF Work
  <2>4. OneMemberPerLine'
    BY <2>2, <2>3 DEF DeciderInv, OneMemberPerLine
  <2>5. ApprovedIsLinked'
    <3>1. \A m \in moved : m \in moved'
      BY <1>7 DEF LinkByCode
    <3>2. doc[call[p].member].line = NoUser \/ call[p].member \in moved'
      BY <1>7 DEF LinkByCode
    <3> QED BY <1>0, <2>1, <2>2, <3>1, <3>2, NamesAssumption
            DEF DeciderInv, ApprovedIsLinked, LinkTypes
  <2>6. Work(p)'
    BY <1>0, <2>1 DEF Work, CallDocs
  <2>7. \A q \in Deciders : Work(q)'
    BY <2>6 DEF OneDecider
  <2>8. ASSUME NEW c \in Codes PROVE CodeCount(c)'
    <3>1. CASE c = call[p].code
      <4>1. call'[p].pc = "use" /\ call'[p].code = c
        BY <1>0, <2>1, <3>1 DEF CallDocs
      <4>2. redeemed'[c] <= crashes' + 1
        BY <1>0, <2>1, <2>3, <3>1 DEF LinkTypes, TypeOK
      <4> QED BY <4>1, <4>2 DEF CodeCount
    <3>2. CASE c # call[p].code
      BY <1>0, <2>1, <3>2 DEF OneDecider, DeciderInv, CodeCount, LinkTypes, TypeOK
    <3> QED BY <3>1, <3>2
  <2> QED BY <2>4, <2>5, <2>7, <2>8 DEF DeciderInv
<1>8. CASE SaveUsed(p)
  <2>1. /\ call[p].pc = "use" /\ call[p].code \in Codes
        /\ call'[p] = [call[p] EXCEPT !.pc = "reset"]
        /\ code' = [code EXCEPT ![call[p].code] = [code[call[p].code] EXCEPT !.used = TRUE]]
        /\ UNCHANGED <<doc, request, state, history, calls, crashes>>
    BY <1>0, <1>8 DEF SaveUsed, At, Fits, Goto
  <2>2. /\ code'[call[p].code].used
        /\ \A c \in Codes : code[c].used => code'[c].used
    BY <1>0, <2>1 DEF LinkTypes, TypeOK, CodeDocs
  <2>3. \A c \in Codes : CodeCount(c)'
    BY <2>1, <2>2 DEF OneDecider, DeciderInv, CodeCount, history
  <2>4. Work(p)'
    BY <1>0, <2>1 DEF Work, CallDocs
  <2>5. \A q \in Deciders : Work(q)'
    BY <2>4 DEF OneDecider
  <2> QED BY <2>1, <2>3, <2>5 DEF DeciderInv, OneMemberPerLine, ApprovedIsLinked, history
<1> QED BY <1>1, <1>2, <1>3, <1>4, <1>5, <1>6, <1>7, <1>8

LEMMA InitDeciderInv == Init => DeciderInv
<1> SUFFICES ASSUME Init PROVE DeciderInv
  OBVIOUS
<1>1. LinkTypes
  BY InitLinkTypes
<1>2. OneMemberPerLine /\ ApprovedIsLinked
  BY DEF Init, OneMemberPerLine, ApprovedIsLinked, NoRequest
<1>3. \A p \in Deciders : Work(p)
  BY DEF Init, Work, NoCall, Calls
<1>4. \A c \in Codes : CodeCount(c)
  BY DEF Init, CodeCount
<1> QED BY <1>1, <1>2, <1>3, <1>4 DEF DeciderInv

(* An application is saved as pending, and touches no other document. *)
LEMMA ApplicantKeeps ==
    ASSUME DeciderInv, LinkTypes', NEW p \in Applicants, ApplicantNext(p)
    PROVE  DeciderInv'
<1>1. UNCHANGED <<doc, code, moved, redeemed, crashes>>
  BY DEF ApplicantNext, Apply, Begin, CheckLinkable, CheckTaken, ReadOnly, SaveRequest,
         documents, history
<1>2. \A u \in Users : request'[u].status = "approved" => request'[u] = request[u]
  <2>1. CASE SaveRequest(p)
    <3>1. request' = [request EXCEPT ![call[p].user] =
                        [member |-> call[p].member, status |-> "pending"]]
      BY <2>1 DEF SaveRequest
    <3> QED BY <3>1 DEF DeciderInv, LinkTypes, TypeOK
  <2>2. CASE ~SaveRequest(p)
    BY <2>2 DEF ApplicantNext, Apply, Begin, CheckLinkable, CheckTaken, ReadOnly, documents
  <2> QED BY <2>1, <2>2
<1>3. \A q \in Deciders : call'[q] = call[q]
  <2>1. \E c : call' = [call EXCEPT ![p] = c]
    <3>1. ASSUME NEW u \in Users, NEW m \in Members, Apply(p, u, m)
          PROVE  \E c : call' = [call EXCEPT ![p] = c]
      BY <3>1 DEF Apply, Begin
    <3>2. CASE CheckLinkable(p) \/ CheckTaken(p)
      BY <3>2 DEF CheckLinkable, CheckTaken, GotoIf, Goto, Return
    <3>3. CASE SaveRequest(p)
      BY <3>3 DEF SaveRequest, Return
    <3> QED BY <3>1, <3>2, <3>3 DEF ApplicantNext
  <2>2. \A q \in Deciders : q \in Calls /\ q # p
    BY CallsAssumption DEF Calls
  <2> QED BY <2>1, <2>2 DEF DeciderInv, LinkTypes, TypeOK
<1>4. crashes' >= crashes
  BY <1>1 DEF DeciderInv, LinkTypes, TypeOK
<1> QED BY <1>1, <1>2, <1>3, <1>4, OthersKeep

(* A call that dies leaves one more code that may be good again. *)
LEMMA CrashKeeps ==
    ASSUME OneDecider, DeciderInv, LinkTypes', NEW p \in Calls, Crash(p)
    PROVE  DeciderInv'
<1>1. /\ call' = [call EXCEPT ![p] = NoCall] /\ crashes' = crashes + 1
      /\ UNCHANGED <<documents, history, calls>>
  BY DEF Crash, Return
<1>2. OneMemberPerLine' /\ ApprovedIsLinked'
  BY <1>1 DEF DeciderInv, OneMemberPerLine, ApprovedIsLinked, documents, history
<1>3. ASSUME NEW q \in Deciders PROVE Work(q)'
  <2>1. q \in Calls
    BY DEF Calls
  <2>2. CASE q = p
    BY <1>1, <2>1, <2>2 DEF DeciderInv, LinkTypes, TypeOK, Work, NoCall
  <2>3. CASE q # p
    <3>1. call'[q] = call[q]
      BY <1>1, <2>1, <2>3 DEF DeciderInv, LinkTypes, TypeOK
    <3>2. call[q].pc \in {"owner", "redeem"} => redeemed[call[q].code] \in Nat
      BY <2>1 DEF DeciderInv, LinkTypes, TypeOK, Fits
    <3> QED BY <1>1, <3>1, <3>2 DEF DeciderInv, LinkTypes, TypeOK, Work, documents, history
  <2> QED BY <2>2, <2>3
<1>4. ASSUME NEW c \in Codes PROVE CodeCount(c)'
  <2>1. redeemed'[c] <= crashes'
    BY <1>1 DEF DeciderInv, CodeCount, LinkTypes, TypeOK, history
  <2> QED BY <2>1 DEF CodeCount
<1> QED BY <1>2, <1>3, <1>4 DEF DeciderInv

LEMMA DeciderInvStep == ASSUME OneDecider PROVE DeciderInv /\ [Next]_vars => DeciderInv'
<1> SUFFICES ASSUME DeciderInv, [Next]_vars PROVE DeciderInv'
  OBVIOUS
<1>0. LinkTypes'
  BY LinkTypesStep DEF DeciderInv
<1>1. ASSUME NEW p \in Applicants, ApplicantNext(p) PROVE DeciderInv'
  BY <1>0, <1>1, ApplicantKeeps
<1>2. ASSUME NEW p \in Deciders, DeciderNext(p) PROVE DeciderInv'
  <2>1. CASE \/ \E u \in Users, m \in Members :
                  ApproveOnScreen(p, u, m) \/ ApproveByButton(p, u)
             \/ ReadRequest(p) \/ ReadMember(p) \/ CheckOther(p)
             \/ \E u \in Users : Reject(p, u)
             \/ SaveRejection(p)
    BY <1>0, <2>1, ApprovalKeeps
  <2>2. CASE LinkMember(p) \/ SaveApproval(p) \/ SaveEdit(p) \/ \E m \in Members : Edit(p, m)
    BY <1>0, <2>2, LinkKeeps
  <2>3. CASE \/ \E u \in Users, c \in Codes : Redeem(p, u, c)
             \/ ReadState(p) \/ CheckExisting(p) \/ ReadCode(p) \/ SaveFailure(p) \/ ReadOwner(p)
             \/ LinkByCode(p) \/ SaveUsed(p) \/ ResetState(p)
    BY <1>0, <2>3, CodeKeeps
  <2> QED BY <1>2, <2>1, <2>2, <2>3 DEF DeciderNext
<1>3. ASSUME NEW p \in Calls, Crash(p) PROVE DeciderInv'
  BY <1>0, <1>3, CrashKeeps
<1>4. ASSUME UNCHANGED <<doc, request, call, moved, redeemed, crashes>>,
             \A c \in Codes : code[c].used => code'[c].used
      PROVE  DeciderInv'
  <2>1. crashes' >= crashes
    BY <1>4 DEF DeciderInv, LinkTypes, TypeOK
  <2> QED BY <1>0, <1>4, <2>1, OthersKeep
<1>5. ASSUME NEW c \in Codes, NEW m \in Members, issue_invite(c, m) PROVE DeciderInv'
  <2>1. \A k \in Codes : code[k].used => code'[k].used
    BY <1>5 DEF issue_invite, NotIssued, DeciderInv, LinkTypes, TypeOK
  <2> QED BY <1>4, <1>5, <2>1 DEF issue_invite, history
<1>6. ASSUME NEW c \in Codes, Expire(c) PROVE DeciderInv'
  <2>1. code' = [code EXCEPT ![c] = [code[c] EXCEPT !.expired = TRUE]]
    BY <1>6 DEF Expire
  <2>2. \A k \in Codes : code[k].used => code'[k].used
    BY <2>1 DEF DeciderInv, LinkTypes, TypeOK, CodeDocs
  <2> QED BY <1>4, <1>6, <2>2 DEF Expire, history
<1>7. CASE UNCHANGED vars
  BY <1>4, <1>7 DEF vars, documents, history
<1> QED BY <1>1, <1>2, <1>3, <1>5, <1>6, <1>7 DEF Next

(* With one call at a time to decide, no LINE account gets two members, *)
(* however many applications, edits, codes and dying calls there are.    *)
THEOREM OneDeciderLinksOnce == ASSUME OneDecider PROVE Spec => []OneMemberPerLine
<1>1. DeciderInv => OneMemberPerLine
  BY DEF DeciderInv
<1>2. DeciderInv /\ [Next]_vars => DeciderInv'
  BY DeciderInvStep
<1> QED BY <1>1, <1>2, InitDeciderInv, PTL DEF Spec

(* With one call at a time to decide, the request documents do not lie. *)
THEOREM ApprovalIsTrue == ASSUME OneDecider PROVE Spec => []ApprovedIsLinked
<1>1. DeciderInv => ApprovedIsLinked
  BY DEF DeciderInv
<1>2. DeciderInv /\ [Next]_vars => DeciderInv'
  BY DeciderInvStep
<1> QED BY <1>1, <1>2, InitDeciderInv, PTL DEF Spec

(* With one call at a time to redeem, a code links one account, and one more *)
(* for every call that died at it.                                           *)
THEOREM CodeLinksOnce == ASSUME OneDecider PROVE Spec => []CodeLinksOnceButForCrashes
<1>1. DeciderInv => CodeLinksOnceButForCrashes
  <2> SUFFICES ASSUME DeciderInv, NEW c \in Codes PROVE redeemed[c] <= 1 + crashes
    BY DEF CodeLinksOnceButForCrashes
  <2>1. redeemed[c] \in Nat /\ crashes \in Nat /\ CodeCount(c)
    BY DEF DeciderInv, LinkTypes, TypeOK
  <2> QED BY <2>1 DEF CodeCount
<1>2. DeciderInv /\ [Next]_vars => DeciderInv'
  BY DeciderInvStep
<1> QED BY <1>1, <1>2, InitDeciderInv, PTL DEF Spec
-----------------------------------------------------------------------------
(* What a call that redeems a code read of its account still holds. *)
Unlocked(p) == call[p].pc \in {"existing", "code", "owner", "redeem"}
                 => ~state[call[p].user].locked

UnlockedInv == LinkTypes /\ \A p \in Deciders : Unlocked(p)

(* The one call that decides learns that its account is not locked before it *)
(* goes on, and saves the account's failures on its last step only.          *)
LEMMA UnlockedKeeps ==
    ASSUME UnlockedInv, NEW p \in Deciders, DeciderNext(p)
    PROVE  Unlocked(p)'
<1>0. /\ p \in Calls /\ call[p] \in CallDocs /\ call \in [Calls -> CallDocs] /\ Unlocked(p)
  BY DEF Calls, UnlockedInv, LinkTypes, TypeOK
<1>1. ASSUME NEW c, Begin(p, c), c.pc \in {"request", "reject", "state", "edit"}
      PROVE  Unlocked(p)'
  BY <1>0, <1>1 DEF Begin, Unlocked
<1>2. CASE \/ \E u \in Users, m \in Members : ApproveOnScreen(p, u, m) \/ ApproveByButton(p, u)
           \/ \E u \in Users : Reject(p, u)
           \/ \E u \in Users, c \in Codes : Redeem(p, u, c)
           \/ \E m \in Members : Edit(p, m)
  <2>1. ASSUME NEW u \in Users, NEW m \in Members, ApproveOnScreen(p, u, m)
        PROVE  Unlocked(p)'
    BY <1>1, <2>1 DEF ApproveOnScreen, NoCall
  <2>2. ASSUME NEW u \in Users, ApproveByButton(p, u) PROVE Unlocked(p)'
    BY <1>1, <2>2 DEF ApproveByButton, NoCall
  <2>3. ASSUME NEW u \in Users, Reject(p, u) PROVE Unlocked(p)'
    BY <1>1, <2>3 DEF Reject, NoCall
  <2>4. ASSUME NEW u \in Users, NEW c \in Codes, Redeem(p, u, c) PROVE Unlocked(p)'
    BY <1>1, <2>4 DEF Redeem, NoCall
  <2>5. ASSUME NEW m \in Members, Edit(p, m) PROVE Unlocked(p)'
    BY <1>1, <2>5 DEF Edit, NoCall
  <2> QED BY <1>2, <2>1, <2>2, <2>3, <2>4, <2>5
<1>3. CASE call' = [call EXCEPT ![p] = NoCall]
  BY <1>0, <1>3 DEF Unlocked, NoCall
<1>4. ASSUME NEW pc, call' = [call EXCEPT ![p].pc = pc], UNCHANGED state,
             pc \in {"owner", "code"} => call[p].pc \in {"existing", "code"},
             pc \notin {"existing", "redeem"}
      PROVE  Unlocked(p)'
  BY <1>0, <1>4 DEF Unlocked, CallDocs
<1>5. CASE ReadRequest(p) \/ ReadMember(p)
  <2>1. \/ call' = [call EXCEPT ![p] = NoCall]
        \/ call'[p].pc \in {"member", "other"}
    BY <1>0, <1>5 DEF ReadRequest, ReadMember, Return, CallDocs
  <2> QED BY <1>3, <2>1 DEF Unlocked
<1>6. CASE CheckOther(p) \/ LinkMember(p) \/ CheckExisting(p)
  <2>1. UNCHANGED state
    BY <1>6 DEF CheckOther, LinkMember, CheckExisting, ReadOnly, documents
  <2>2. \/ call' = [call EXCEPT ![p] = NoCall]
        \/ call' = [call EXCEPT ![p].pc = "link"]
        \/ call' = [call EXCEPT ![p].pc = "approved"]
        \/ call' = [call EXCEPT ![p].pc = "code"] /\ call[p].pc = "existing"
    BY <1>6 DEF CheckOther, LinkMember, CheckExisting, GotoIf, Goto, Return, At
  <2> QED BY <1>3, <1>4, <2>1, <2>2
<1>7. CASE SaveApproval(p) \/ SaveRejection(p) \/ SaveFailure(p) \/ ResetState(p) \/ SaveEdit(p)
  BY <1>3, <1>7 DEF SaveApproval, SaveRejection, SaveFailure, ResetState, SaveEdit, Return
<1>8. CASE ReadState(p)
  <2>1. CASE state[call[p].user].locked
    BY <1>3, <1>8, <2>1 DEF ReadState, Return
  <2>2. CASE ~state[call[p].user].locked
    <3>1. call' = [call EXCEPT ![p] = [call[p] EXCEPT !.pc = "existing",
                                                      !.failed = state[call[p].user].failed]]
      BY <1>8, <2>2 DEF ReadState
    <3>2. call'[p].user = call[p].user /\ UNCHANGED state
      BY <1>0, <1>8, <3>1 DEF CallDocs, ReadState, ReadOnly, documents
    <3> QED BY <2>2, <3>2 DEF Unlocked
  <2> QED BY <2>1, <2>2
<1>9. CASE ReadCode(p) \/ ReadOwner(p)
  <2>1. /\ call[p].pc \in {"code", "owner"} /\ UNCHANGED state
        /\ call'[p].user = call[p].user
    BY <1>0, <1>9 DEF ReadCode, ReadOwner, Goto, At, ReadOnly, documents, CallDocs
  <2> QED BY <1>0, <2>1 DEF Unlocked
<1>10. CASE LinkByCode(p) \/ SaveUsed(p)
  BY <1>4, <1>10 DEF LinkByCode, SaveUsed, Goto
<1> QED BY <1>2, <1>5, <1>6, <1>7, <1>8, <1>9, <1>10 DEF DeciderNext

LEMMA UnlockedInvStep == ASSUME OneDecider PROVE UnlockedInv /\ [Next]_vars => UnlockedInv'
<1> SUFFICES ASSUME UnlockedInv, [Next]_vars, NEW q \in Deciders
             PROVE  Unlocked(q)'
  BY LinkTypesStep DEF UnlockedInv
<1>0. /\ q \in Calls /\ q \notin Applicants /\ Unlocked(q) /\ call \in [Calls -> CallDocs]
      /\ \A p \in Applicants : p \in Calls
  BY CallsAssumption DEF Calls, UnlockedInv, LinkTypes, TypeOK
<1>1. ASSUME NEW p \in Applicants, ApplicantNext(p) PROVE Unlocked(q)'
  <2>1. UNCHANGED state /\ \E c : call' = [call EXCEPT ![p] = c]
    <3>1. ASSUME NEW u \in Users, NEW m \in Members, Apply(p, u, m)
          PROVE  UNCHANGED state /\ \E c : call' = [call EXCEPT ![p] = c]
      BY <3>1 DEF Apply, Begin, documents
    <3>2. CASE CheckLinkable(p) \/ CheckTaken(p)
      <4>1. UNCHANGED state
        BY <3>2 DEF CheckLinkable, CheckTaken, ReadOnly, documents
      <4>2. \E c : call' = [call EXCEPT ![p] = c]
        BY <3>2 DEF CheckLinkable, CheckTaken, GotoIf, Goto, Return
      <4> QED BY <4>1, <4>2
    <3>3. CASE SaveRequest(p)
      BY <3>3 DEF SaveRequest, Return
    <3> QED BY <1>1, <3>1, <3>2, <3>3 DEF ApplicantNext
  <2> QED BY <1>0, <2>1 DEF Unlocked
<1>2. ASSUME NEW p \in Deciders, DeciderNext(p) PROVE Unlocked(q)'
  <2>1. p = q
    BY DEF OneDecider
  <2> QED BY <1>2, <2>1, UnlockedKeeps
<1>3. ASSUME NEW p \in Calls, Crash(p) PROVE Unlocked(q)'
  <2>1. call' = [call EXCEPT ![p] = NoCall] /\ UNCHANGED state
    BY <1>3 DEF Crash, Return, documents
  <2> QED BY <1>0, <2>1 DEF Unlocked, NoCall
<1>4. CASE UNCHANGED <<call, state>>
  BY <1>0, <1>4 DEF Unlocked
<1>5. ASSUME NEW c \in Codes, Expire(c) \/ \E m \in Members : issue_invite(c, m)
      PROVE  Unlocked(q)'
  BY <1>4, <1>5 DEF issue_invite, Expire
<1>6. CASE UNCHANGED vars
  BY <1>4, <1>6 DEF vars, documents
<1> QED BY <1>1, <1>2, <1>3, <1>5, <1>6 DEF Next

(* With one call at a time to redeem, a locked account gets no link out of a  *)
(* code, right or wrong: the failures that lock it are saved by a call's last  *)
(* step, and no call goes past the lock.                                       *)
THEOREM LockHolds == ASSUME OneDecider PROVE Spec => LockedIsNotLinkedByCode
<1>1. Init => UnlockedInv
  BY InitLinkTypes DEF UnlockedInv, Unlocked, Init, NoCall, Calls
<1>2. UnlockedInv /\ [Next]_vars => UnlockedInv'
  BY UnlockedInvStep
<1>3. UnlockedInv /\ [Next]_vars
        => [\A p \in Deciders : LinkByCode(p) => ~state[call[p].user].locked]_vars
  BY DEF UnlockedInv, Unlocked, LinkByCode, At
<1> QED BY <1>1, <1>2, <1>3, PTL DEF Spec, LockedIsNotLinkedByCode
-----------------------------------------------------------------------------
(* One call at a time applies; any number may decide meanwhile. *)
OneApplicant == \A p, q \in Applicants : p = q

(* What the applying call has found out still holds when it saves its request. *)
ApplyInv ==
    /\ LinkTypes
    /\ OnePendingRequest
    /\ \A p \in Applicants : call[p].pc = "apply" =>
         \A u \in Users \ {call[p].user} :
             ~(request[u].member = call[p].member /\ request[u].status = "pending")

(* A step that adds no pending request and takes no application to its end *)
LEMMA NoNewRequest ==
    ASSUME ApplyInv, LinkTypes',
           \A u \in Users : request'[u].status = "pending" => request'[u] = request[u],
           \A p \in Applicants : call'[p].pc = "apply" => call'[p] = call[p]
    PROVE  ApplyInv'
<1>1. OnePendingRequest'
  BY DEF ApplyInv, OnePendingRequest
<1> QED BY <1>1 DEF ApplyInv

(* Whatever decides settles requests, and never makes one. *)
LEMMA DeciderAppliesNothing ==
    ASSUME ApplyInv, LinkTypes', NEW p \in Deciders, DeciderNext(p)
    PROVE  ApplyInv'
<1>1. p \in Calls /\ call[p] \in CallDocs /\ \A q \in Applicants : q \in Calls /\ q # p
  BY CallsAssumption DEF Calls, ApplyInv, LinkTypes, TypeOK
<1>2. \E c : call' = [call EXCEPT ![p] = c]
  <2>1. ASSUME NEW u \in Users, NEW m \in Members,
               ApproveOnScreen(p, u, m) \/ ApproveByButton(p, u)
        PROVE  \E c : call' = [call EXCEPT ![p] = c]
    BY <2>1 DEF ApproveOnScreen, ApproveByButton, Begin
  <2>2. ASSUME NEW u \in Users, Reject(p, u) PROVE \E c : call' = [call EXCEPT ![p] = c]
    BY <2>2 DEF Reject, Begin
  <2>3. ASSUME NEW u \in Users, NEW c \in Codes, Redeem(p, u, c)
        PROVE  \E d : call' = [call EXCEPT ![p] = d]
    BY <2>3 DEF Redeem, Begin
  <2>4. ASSUME NEW m \in Members, Edit(p, m) PROVE \E c : call' = [call EXCEPT ![p] = c]
    BY <2>4 DEF Edit, Begin
  <2>5. CASE ReadRequest(p) \/ ReadMember(p) \/ CheckOther(p) \/ LinkMember(p)
    BY <2>5 DEF ReadRequest, ReadMember, CheckOther, LinkMember, GotoIf, Goto, Return
  <2>6. CASE SaveApproval(p) \/ SaveRejection(p) \/ SaveFailure(p) \/ ResetState(p) \/ SaveEdit(p)
    BY <2>6 DEF SaveApproval, SaveRejection, SaveFailure, ResetState, SaveEdit, Return
  <2>7. CASE ReadState(p) \/ CheckExisting(p) \/ ReadCode(p) \/ ReadOwner(p)
    BY <2>7 DEF ReadState, CheckExisting, ReadCode, ReadOwner, GotoIf, Goto, Return
  <2>8. CASE LinkByCode(p) \/ SaveUsed(p)
    BY <2>8 DEF LinkByCode, SaveUsed, Goto
  <2> QED BY <2>1, <2>2, <2>3, <2>4, <2>5, <2>6, <2>7, <2>8 DEF DeciderNext
<1>3. \A q \in Applicants : call'[q] = call[q]
  BY <1>1, <1>2 DEF ApplyInv, LinkTypes, TypeOK
<1>4. \A u \in Users : request'[u].status = "pending" => request'[u] = request[u]
  <2>1. CASE SaveApproval(p)
    <3>1. request' = [request EXCEPT ![call[p].user] =
                        [member |-> call[p].member, status |-> "approved"]]
      BY <2>1 DEF SaveApproval
    <3> QED BY <3>1 DEF ApplyInv, LinkTypes, TypeOK
  <2>2. CASE SaveRejection(p)
    <3>1. request' = [request EXCEPT ![call[p].user] =
                        [call[p].req EXCEPT !.status = "rejected"]]
      BY <2>2 DEF SaveRejection
    <3>2. call[p].req \in Requests
      BY <1>1 DEF CallDocs
    <3> QED BY <3>1, <3>2 DEF ApplyInv, LinkTypes, TypeOK, Requests
  <2>3. ASSUME ~SaveApproval(p), ~SaveRejection(p) PROVE request' = request
    <3>1. ASSUME NEW u \in Users, NEW m \in Members,
                 ApproveOnScreen(p, u, m) \/ ApproveByButton(p, u)
          PROVE  request' = request
      BY <3>1 DEF ApproveOnScreen, ApproveByButton, Begin, documents
    <3>2. ASSUME NEW u \in Users, Reject(p, u) PROVE request' = request
      BY <3>2 DEF Reject, Begin, documents
    <3>3. ASSUME NEW u \in Users, NEW c \in Codes, Redeem(p, u, c) PROVE request' = request
      BY <3>3 DEF Redeem, Begin, documents
    <3>4. ASSUME NEW m \in Members, Edit(p, m) PROVE request' = request
      BY <3>4 DEF Edit, Begin, documents
    <3>5. CASE ReadRequest(p) \/ ReadMember(p) \/ CheckOther(p) \/ LinkMember(p)
      BY <3>5 DEF ReadRequest, ReadMember, CheckOther, LinkMember, ReadOnly, documents
    <3>6. CASE SaveFailure(p) \/ ResetState(p) \/ SaveEdit(p) \/ LinkByCode(p) \/ SaveUsed(p)
      BY <3>6 DEF SaveFailure, ResetState, SaveEdit, LinkByCode, SaveUsed
    <3>7. CASE ReadState(p) \/ CheckExisting(p) \/ ReadCode(p) \/ ReadOwner(p)
      BY <3>7 DEF ReadState, CheckExisting, ReadCode, ReadOwner, ReadOnly, documents
    <3> QED BY <2>3, <3>1, <3>2, <3>3, <3>4, <3>5, <3>6, <3>7 DEF DeciderNext
  <2> QED BY <2>1, <2>2, <2>3
<1> QED BY <1>3, <1>4, NoNewRequest

LEMMA ApplicantApplies ==
    ASSUME OneApplicant, ApplyInv, LinkTypes', NEW p \in Applicants, ApplicantNext(p)
    PROVE  ApplyInv'
<1>0. /\ p \in Calls /\ call[p] \in CallDocs /\ Fits(p, call[p]) /\ call \in [Calls -> CallDocs]
      /\ request \in [Users -> Requests]
  BY DEF Calls, ApplyInv, LinkTypes, TypeOK
<1>1. ASSUME NEW u \in Users, NEW m \in Members, Apply(p, u, m) PROVE ApplyInv'
  <2>1. call'[p].pc = "linkable" /\ request' = request
    BY <1>0, <1>1 DEF Apply, Begin, NoCall, documents
  <2> QED BY <2>1, NoNewRequest DEF OneApplicant
<1>2. CASE CheckLinkable(p)
  <2>1. request' = request /\ call'[p].pc \in {"taken", "idle"}
    BY <1>0, <1>2 DEF CheckLinkable, GotoIf, Goto, Return, NoCall, ReadOnly, documents, CallDocs
  <2> QED BY <2>1, NoNewRequest DEF OneApplicant
<1>3. CASE CheckTaken(p)
  <2>1. request' = request
    BY <1>3 DEF CheckTaken, ReadOnly, documents
  <2>2. \/ call'[p] = NoCall
        \/ /\ call'[p] = [call[p] EXCEPT !.pc = "apply"]
           /\ \A u \in Users \ {call[p].user} :
                 ~(request[u].member = call[p].member /\ request[u].status = "pending")
    BY <1>0, <1>3 DEF CheckTaken, GotoIf, Goto, Return
  <2>3. call'[p].pc = "apply" =>
           /\ call'[p].user = call[p].user /\ call'[p].member = call[p].member
           /\ \A u \in Users \ {call[p].user} :
                 ~(request[u].member = call[p].member /\ request[u].status = "pending")
    BY <1>0, <2>2 DEF NoCall, CallDocs
  <2>4. OnePendingRequest'
    BY <2>1 DEF ApplyInv, OnePendingRequest
  <2> QED BY <2>1, <2>3, <2>4 DEF ApplyInv, OneApplicant
<1>4. CASE SaveRequest(p)
  <2>1. /\ request' = [request EXCEPT ![call[p].user] =
                         [member |-> call[p].member, status |-> "pending"]]
        /\ call'[p] = NoCall /\ call[p].pc = "apply" /\ call[p].user \in Users
    BY <1>0, <1>4 DEF SaveRequest, Return, At, Fits
  <2>2. \A u \in Users \ {call[p].user} :
           ~(request[u].member = call[p].member /\ request[u].status = "pending")
    BY <2>1 DEF ApplyInv
  <2>3. \A u \in Users \ {call[p].user} : request'[u] = request[u]
    BY <1>0, <2>1
  <2>4. request'[call[p].user].member = call[p].member
    BY <1>0, <2>1
  <2>5. OnePendingRequest'
    BY <2>2, <2>3, <2>4 DEF ApplyInv, OnePendingRequest
  <2> QED BY <2>1, <2>5 DEF ApplyInv, OneApplicant, NoCall
<1> QED BY <1>1, <1>2, <1>3, <1>4 DEF ApplicantNext

LEMMA ApplyInvStep == ASSUME OneApplicant PROVE ApplyInv /\ [Next]_vars => ApplyInv'
<1> SUFFICES ASSUME ApplyInv, [Next]_vars PROVE ApplyInv'
  OBVIOUS
<1>0. LinkTypes'
  BY LinkTypesStep DEF ApplyInv
<1>1. ASSUME NEW p \in Applicants, ApplicantNext(p) PROVE ApplyInv'
  BY <1>0, <1>1, ApplicantApplies
<1>2. ASSUME NEW p \in Deciders, DeciderNext(p) PROVE ApplyInv'
  BY <1>0, <1>2, DeciderAppliesNothing
<1>3. ASSUME NEW p \in Calls, Crash(p) PROVE ApplyInv'
  <2>1. call' = [call EXCEPT ![p] = NoCall] /\ request' = request
    BY <1>3 DEF Crash, Return, documents
  <2>2. \A q \in Applicants : call'[q] = call[q] \/ call'[q].pc = "idle"
    BY <2>1 DEF ApplyInv, LinkTypes, TypeOK, Calls, NoCall
  <2> QED BY <1>0, <2>1, <2>2, NoNewRequest
<1>4. ASSUME UNCHANGED <<request, call>> PROVE ApplyInv'
  BY <1>0, <1>4, NoNewRequest
<1>5. ASSUME NEW c \in Codes, NEW m \in Members, issue_invite(c, m) PROVE ApplyInv'
  BY <1>4, <1>5 DEF issue_invite
<1>6. ASSUME NEW c \in Codes, Expire(c) PROVE ApplyInv'
  BY <1>4, <1>6 DEF Expire
<1>7. CASE UNCHANGED vars
  BY <1>4, <1>7 DEF vars, documents
<1> QED BY <1>1, <1>2, <1>3, <1>5, <1>6, <1>7 DEF Next

(* With one call at a time to apply, two accounts never wait for one member. *)
THEOREM OneApplicantAppliesOnce == ASSUME OneApplicant PROVE Spec => []OnePendingRequest
<1>1. Init => ApplyInv
  BY InitLinkTypes DEF Init, ApplyInv, OnePendingRequest, NoRequest, NoCall, Calls
<1>2. ApplyInv => OnePendingRequest
  BY DEF ApplyInv
<1>3. ApplyInv /\ [Next]_vars => ApplyInv'
  BY ApplyInvStep
<1> QED BY <1>1, <1>2, <1>3, PTL DEF Spec

(* With one call that decides and one that applies at a time, a member's requests *)
(* lead to one link, and say so.                                                  *)
THEOREM RequestsLinkOnce == ASSUME OneDecider, OneApplicant PROVE Spec => []RequestsAreTrue
<1>1. OnePendingRequest /\ ApprovedIsLinked => RequestsAreTrue
  BY DEF RequestsAreTrue
<1> QED BY <1>1, ApprovalIsTrue, OneApplicantAppliesOnce, PTL
=============================================================================
