------------------------------- MODULE MCOffice -------------------------------
(* Nine components that share no state, for TLC, one after the other in one run: *)
(* the focus is chosen at the start, and only its component moves.               *)
EXTENDS Stores, DocSession, Proposals, PlanFiles, Notices, FeedbackBox, Surveys,
        LineContent, Deferral, TLC

VARIABLE focus

officevars == <<focus, storevars, sessionvars, ledgervars, filevars, noticevars, fbvars,
                surveyvars, contentvars, deferralVars>>

OfficeInit ==
    /\ focus \in {"stores", "sessions", "ledger", "files", "notices", "feedback", "surveys",
                  "content", "deferral"}
    /\ StInit /\ DsInit /\ PrInit /\ LgInit /\ NtInit /\ FbInit /\ SvInit /\ CwInit
    /\ DeferralInit
    \* the components that do not move begin in one way
    /\ focus # "deferral" => quiet = [start |-> 0, end |-> 0] /\ held = <<0, 0>>
    /\ focus # "ledger" => prop.due = Never

(* the components other than part p stay as they are *)
Rest(p) ==
    /\ focus = p /\ UNCHANGED focus
    /\ p # "stores" => UNCHANGED storevars
    /\ p # "sessions" => UNCHANGED sessionvars
    /\ p # "ledger" => UNCHANGED ledgervars
    /\ p # "files" => UNCHANGED filevars
    /\ p # "notices" => UNCHANGED noticevars
    /\ p # "feedback" => UNCHANGED fbvars
    /\ p # "surveys" => UNCHANGED surveyvars
    /\ p # "content" => UNCHANGED contentvars
    /\ p # "deferral" => UNCHANGED deferralVars

OfficeNext ==
    \/ Rest("stores") /\ StNext
    \/ Rest("sessions") /\ DsNext
    \/ Rest("ledger") /\ PrNext
    \/ Rest("files") /\ LgNext
    \/ Rest("notices") /\ NtNext
    \/ Rest("feedback") /\ FbNext
    \/ Rest("surveys") /\ SvNext
    \/ Rest("content") /\ CwNext
    \/ Rest("deferral") /\ Tick

OfficeSpec == OfficeInit /\ [][OfficeNext]_officevars

(* The documents of the office and the locals of its calls are well formed. *)
OfficeTypeOK ==
    /\ StTypeOK /\ DsTypeOK /\ PrTypeOK /\ LgTypeOK /\ NtTypeOK /\ FbTypeOK /\ SvTypeOK /\ CwTypeOK
    /\ DeferralTypeOK

(* The ledger of proposals is right: a plan has one row, a submission waits for  *)
(* an answer of its own, and nobody is told twice, but for what each part names  *)
(* (proposal_sync, proposal_submit).                                             *)
LedgerHolds == [](OneRowPerFile /\ ReturnedWaitsAgain) /\ NoticesAreTakenUpOnce

(* two callers, members, wishes or mails of a component change places together *)
OfficeSymmetry == Permutations(ChatCalls)
=============================================================================
