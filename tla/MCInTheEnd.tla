------------------------------ MODULE MCInTheEnd ------------------------------
(* What must happen in the end, for TLC, as in MCOffice: the focus chosen at the *)
(* start moves. The fairness is that of the ticks (Cloud Scheduler calls the     *)
(* tick every hour, a call that runs goes on).                                   *)
EXTENDS CalendarSync, PlanFiles, Proposals, FeedbackBox, RichMenus, Knowledge

VARIABLE focus

endvars == <<focus, calvars, filevars, ledgervars, fbvars, menuvars, kvars>>

EndInit ==
    /\ focus \in {"calendar", "files", "ledger", "feedback", "menus", "drive"}
    /\ CalInit /\ LgInit /\ PrInit /\ FbInit /\ RmInit /\ KnInit
    /\ focus # "ledger" => prop.due = Never
    /\ focus # "menus" => /\ made = 0 /\ friend = [u \in Accounts |-> FALSE]
                          /\ \A i \in MemberIds : ~person[i].ops

(* a second seat may be the chair's *)
OneSeating == {<<[committee |-> "k1", chair |-> FALSE], [committee |-> "k1", chair |-> TRUE]>>}

(* a step of part p; the others stay as they are *)
On(p, A) ==
    /\ focus = p /\ A /\ UNCHANGED focus
    /\ p # "calendar" => UNCHANGED calvars
    /\ p # "files" => UNCHANGED filevars
    /\ p # "ledger" => UNCHANGED ledgervars
    /\ p # "feedback" => UNCHANGED fbvars
    /\ p # "menus" => UNCHANGED menuvars
    /\ p # "drive" => UNCHANGED kvars

EndNext ==
    \/ On("calendar", CalNext) \/ On("files", LgNext) \/ On("ledger", PrNext)
    \/ On("feedback", FbNext) \/ On("menus", RmNext) \/ On("drive", KnNext)

(* The fairness of each component, for one call of each kind; conditions of      *)
(* different components share a line, as only one of them moves. Those of the    *)
(* calendar, the feedback box, the menus and the Drive are CalFairness,          *)
(* FbFairness, RmFairness and KnFairness; in the ledger and the folder a tick    *)
(* goes on, and begins by day again and again.                                   *)
EndFairness ==
    /\ WF_endvars(\/ \E p \in Ticks : On("calendar", Pull(p))
                  \/ \E t \in Syncs : On("files", SyncGoesOn(t))
                  \/ \E t \in TickRuns : On("ledger", GoesOn(t))
                  \/ On("feedback", OnTick)
                  \/ \E h \in Hands : On("menus", GoesOnWith(h))
                  \/ On("drive", InsertInTheEnd))
    /\ WF_endvars(\/ \E p \in Screens : On("calendar", CalProceed(p))
                  \/ On("feedback", ListForTriage(FALSE))
                  \/ \E h \in Hands : On("menus", Reconcile(h))
                  \/ \E t \in Rounds : On("drive", BeginRound(t) \/ CopyGoesOn(t) \/ IndexGoesOn(t)))
    /\ WF_endvars(\/ \E p \in Ticks : On("calendar", CalProceed(p))
                  \/ \E p \in Pens : On("feedback", SetStatus(p)))
    /\ SF_endvars(\/ \E t \in TickRuns : On("ledger", TickBegins(t, FALSE))
                  \/ On("feedback", Notified(TRUE))
                  \/ \E h \in Hands : On("menus", LookAtMenu(h, TRUE))
                  \/ \E t \in Rounds : On("drive", StartInsert(t, Candidates)))
    /\ \A i \in Items : SF_endvars(\/ On("feedback", Triage(i, TRUE))
                                   \/ \E h \in Hands : On("menus", PostMenu(h, TRUE)))

(* In the end the copies the ticks keep are those of what they copy: events in   *)
(* the calendar, files in the ledger, texts in the index.                        *)
CopiesCatchUp == PushedInTheEnd /\ LedgerFollowsFolder /\ KnowledgeFollows

(* In the end the office has caught up: notices are told, feedback is classified *)
(* and told of, and every member has the menu of his standing.                   *)
OfficeCatchesUp == EverythingIsToldInTheEnd /\ EveryItemIsSeen /\ MenuFitsInTheEnd

EndSpec == EndInit /\ [][EndNext]_endvars /\ EndFairness
=============================================================================
