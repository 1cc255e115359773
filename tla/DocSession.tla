------------------------------ MODULE DocSession ------------------------------
(* The chat of one board member with the program: free text only asks, until a *)
(* button starts the work on a committee's document (doc_session) or the entry *)
(* of an appointment (member_menu). During a session every text is an          *)
(* instruction; the model drafts a rewriting, a button writes it, another takes*)
(* it back. People edit the same document in Google Docs meanwhile, and the    *)
(* calls that LINE's events start overlap: each reads, waits for the model or  *)
(* for Google, and saves what it read.                                         *)
(*                                                                             *)
(* One document holds one text here. A text is 0 as it was, o if proposal o    *)
(* wrote it, -r if a person wrote it at revision r. The turns of a session are *)
(* only shown to the model and are left out.                                   *)
EXTENDS Integers, FiniteSets

CONSTANTS
    Papers,       \* documents the member may edit
    SessionIds, OpIds,  \* naturals from 1, taken in turn
    ChatCalls,
    TTL,          \* SESSION_TTL, CALENDAR_TTL and OP_TTL, in hours of the model
    MaxHour, MaxPeople, MaxTaps   \* bounds: time, edits by people, what the member sends

ASSUME DocSessionAssumption ==
    /\ SessionIds \subseteq Nat \ {0} /\ IsFiniteSet(OpIds) /\ OpIds \subseteq 1 .. Cardinality(OpIds)
    /\ TTL \in Nat \ {0} /\ MaxHour \in Nat /\ MaxPeople \in Nat /\ MaxTaps \in Nat

VARIABLES
    chat,      \* the member's ChatState
    sessions,  \* DocSession documents
    edits,     \* DocEdit documents
    paper,     \* the documents in Google Docs
    onBoard,   \* may the member edit the committee's documents?
    call,      \* locals of the calls
    hour,
    people,    \* edits by people
    taps,      \* texts and taps by the member
    written,   \* history: how often each proposal was written
    botched,   \* history: proposals met by a death, a lost answer or two taps at once
    refused,   \* history: proposals declined, withdrawn or expired while nobody wrote them
    current,   \* history: the session the member opened last and has not left, or 0
    until,     \* history: when it ends if nothing is done
    strayed    \* history: another session was touched since then

chatHistories == <<written, botched, refused, current, until, strayed>>
sessionvars == <<chat, sessions, edits, paper, onBoard, call, hour, people, taps, chatHistories>>

Nowhere == "nowhere"
Texts == {t \in Int : t <= 0 \/ t \in OpIds}
NoText == Cardinality(OpIds) + 1

Question == [mode |-> "question", session |-> 0, expires |-> 0]
NoSession == [paper |-> Nowhere, status |-> "none"]
NoEdit == [session |-> 0, kind |-> "edit", of |-> 0, rev |-> 0, base |-> 0, after |-> 0,
           before |-> NoText, status |-> "none", expires |-> 0]
AtEase == [pc |-> "idle", s |-> 0, copy |-> NoSession, op |-> 0, edit |-> NoEdit,
           listed |-> {}, rev |-> 0, text |-> 0, now |-> 0]

Steps == {"idle", "touch", "read", "draft", "withdraw", "claim", "look", "write", "save", "restore"}

SessionDocs == [paper : Papers \cup {Nowhere}, status : {"none", "active", "closed"}]
EditDocs == [session : SessionIds \cup {0}, kind : {"edit", "revert"}, of : OpIds \cup {0}, rev : Nat,
             base : Texts, after : Texts, before : Texts \cup {NoText},
             status : {"none", "proposed", "applied", "declined", "expired", "conflict", "reverted"},
             expires : 0 .. MaxHour + TTL]
ChatLocals == [pc : Steps, s : SessionIds \cup {0}, copy : SessionDocs, op : OpIds \cup {0},
               edit : EditDocs, listed : SUBSET OpIds, rev : Nat, text : Texts, now : 0 .. MaxHour]

(* Type invariant: documents, proposals and locals have their types; a proposal *)
(* is made in a session, a session is about a paper.                            *)
DsTypeOK ==
    /\ chat \in [mode : {"question", "doc", "calendar"}, session : SessionIds \cup {0},
                 expires : 0 .. MaxHour + TTL]
    /\ sessions \in [SessionIds -> SessionDocs] /\ edits \in [OpIds -> EditDocs]
    /\ \A s \in SessionIds : sessions[s].status # "none" => sessions[s].paper \in Papers
    /\ \A o \in OpIds : edits[o].status # "none" => edits[o].session \in SessionIds
    /\ paper \in [Papers -> [rev : Nat, text : Texts]] /\ call \in [ChatCalls -> ChatLocals]
    /\ written \in [OpIds -> Nat] /\ botched \cup refused \subseteq OpIds
    /\ current \in SessionIds \cup {0} /\ until \in 0 .. MaxHour + TTL
    /\ {onBoard, strayed} \subseteq BOOLEAN /\ hour \in 0 .. MaxHour

DsInit ==
    /\ chat = Question
    /\ sessions = [s \in SessionIds |-> NoSession] /\ edits = [o \in OpIds |-> NoEdit]
    /\ paper = [d \in Papers |-> [rev |-> 1, text |-> 0]]
    /\ onBoard = TRUE
    /\ call = [c \in ChatCalls |-> AtEase]
    /\ hour = 0 /\ people = 0 /\ taps = 0
    /\ written = [o \in OpIds |-> 0] /\ botched = {} /\ refused = {}
    /\ current = 0 /\ until = 0 /\ strayed = FALSE
-----------------------------------------------------------------------------
At(c, pc) == call[c].pc = pc
Proceeds(c, pc) == call' = [call EXCEPT ![c].pc = pc]
Returns(c) == call' = [call EXCEPT ![c] = AtEase]
IsNextSession(s) == sessions[s].status = "none" /\ \A t \in SessionIds : t < s => sessions[t].status # "none"
IsNextOp(o) == edits[o].status = "none" /\ \A p \in OpIds : p < o => edits[p].status # "none"

(* _active_session: what the chat points to, whether its time has passed or not *)
ActiveSession == IF chat.mode = "doc" /\ sessions[chat.session].status = "active" THEN {chat.session} ELSE {}
Closed == [s \in SessionIds |-> IF s \in ActiveSession THEN [sessions[s] EXCEPT !.status = "closed"]
                                ELSE sessions[s]]

(* _active_state *)
IsInMode(mode) == chat.mode = mode /\ chat.expires > hour

(* who is about to write a proposal *)
AtWork(o) == \E c \in ChatCalls : call[c].op = o /\ call[c].pc \in {"claim", "look", "write", "save"}

UnchangedPaper == UNCHANGED <<edits, paper, written, botched, refused>>
UnchangedWorld == UNCHANGED <<onBoard, hour, people>>
UnchangedChat == UNCHANGED <<chat, sessions, current, until, strayed>>
-----------------------------------------------------------------------------
(* the buttons that begin and end a session *)

Open(c, d) == \E s \in SessionIds :
    /\ At(c, "idle") /\ onBoard /\ IsNextSession(s)
    /\ sessions' = [Closed EXCEPT ![s] = [paper |-> d, status |-> "active"]]
    /\ chat' = [mode |-> "doc", session |-> s, expires |-> hour + TTL]
    /\ current' = s /\ until' = hour + TTL /\ strayed' = FALSE
    /\ UNCHANGED call /\ UnchangedPaper /\ UnchangedWorld

Leave(c) ==
    /\ sessions' = Closed /\ chat' = Question
    /\ current' = 0 /\ until' = 0 /\ strayed' = FALSE
    /\ UNCHANGED call /\ UnchangedPaper /\ UnchangedWorld

End(c) == At(c, "idle") /\ Leave(c)

(* the chat leaves a session that stays active *)
StartCalendar(c) ==
    /\ At(c, "idle")
    /\ chat' = [mode |-> "calendar", session |-> 0, expires |-> hour + TTL]
    /\ current' = 0 /\ until' = 0 /\ strayed' = FALSE /\ UNCHANGED <<sessions, call>>
    /\ UnchangedPaper /\ UnchangedWorld

(* one text is read as an appointment, whatever comes of it *)
CalendarTurn(c) ==
    /\ At(c, "idle") /\ IsInMode("calendar")
    /\ chat' = Question
    /\ UNCHANGED <<sessions, current, until, strayed, call>> /\ UnchangedPaper /\ UnchangedWorld
-----------------------------------------------------------------------------
(* handle_turn; a text that finds no session is a question and changes nothing *)

Instruct(c) ==
    LET s == chat.session
    IN  /\ At(c, "idle") /\ IsInMode("doc") /\ sessions[s].status = "active" /\ onBoard
        /\ call' = [call EXCEPT ![c] = [@ EXCEPT !.pc = "touch", !.s = s, !.copy = sessions[s], !.now = hour]]
        /\ UnchangedChat /\ UnchangedPaper /\ UnchangedWorld

RefuseText(c) ==
    /\ At(c, "idle") /\ IsInMode("doc") /\ sessions[chat.session].status = "active" /\ ~onBoard
    /\ Leave(c)

(* _touch: the copy of the session is saved and the chat is set to it *)
Touched(c) ==
    LET s == call[c].s
    IN  /\ sessions' = [sessions EXCEPT ![s] = call[c].copy]
        /\ chat' = [mode |-> "doc", session |-> s, expires |-> call[c].now + TTL]
        /\ until' = IF s = current THEN call[c].now + TTL ELSE until
        /\ strayed' = (current # 0 /\ (strayed \/ s # current))
        /\ UNCHANGED current

Touch(c) ==
    /\ At(c, "touch") /\ Touched(c)
    /\ Proceeds(c, "read")
    /\ UnchangedPaper /\ UnchangedWorld

ReadPaper(c) ==
    LET d == paper[call[c].copy.paper]
    IN  /\ At(c, "read")
        /\ call' = [call EXCEPT ![c] = [@ EXCEPT !.pc = "draft", !.rev = d.rev, !.text = d.text]]
        /\ UnchangedChat /\ UnchangedPaper /\ UnchangedWorld

(* the document cannot be read; the model fails, asks back or only answers *)
NoDraft(c) ==
    /\ At(c, "read") \/ At(c, "draft")
    /\ Returns(c)
    /\ UnchangedChat /\ UnchangedPaper /\ UnchangedWorld

ProposedIn(s) == {o \in OpIds : edits[o].status = "proposed" /\ edits[o].session = s}

Draft(c) ==
    /\ At(c, "draft")
    /\ call' = [call EXCEPT ![c] = [@ EXCEPT !.pc = "withdraw", !.listed = ProposedIn(call[c].s)]]
    /\ UnchangedChat /\ UnchangedPaper /\ UnchangedWorld

(* older proposals are withdrawn, as the copies that were listed *)
Propose(c) == \E o \in OpIds :
    LET w == call[c]
        clash == {l \in w.listed : edits[l].status # "proposed" \/ AtWork(l)}
    IN  /\ At(c, "withdraw") /\ IsNextOp(o)
        /\ edits' = [p \in OpIds |->
             IF p = o THEN [NoEdit EXCEPT !.session = w.s, !.rev = w.rev, !.base = w.text, !.after = o,
                              !.status = "proposed", !.expires = w.now + TTL]
             ELSE IF p \in w.listed THEN [edits[p] EXCEPT !.status = "declined", !.before = NoText]
             ELSE edits[p]]
        /\ refused' = refused \cup (w.listed \ clash) /\ botched' = botched \cup clash
        /\ Returns(c)
        /\ UNCHANGED <<paper, written>> /\ UnchangedChat /\ UnchangedWorld
-----------------------------------------------------------------------------
(* _decide *)

(* mutant: the button's word is the status *)
DeclineAsSaid(c, o) ==
    /\ At(c, "idle") /\ edits[o].status = "proposed"
    /\ edits' = [edits EXCEPT ![o].status = "no"]
    /\ UNCHANGED <<call, paper, written, refused, botched>> /\ UnchangedChat /\ UnchangedWorld

Decline(c, o) ==
    LET late == hour > edits[o].expires
    IN  /\ At(c, "idle") /\ edits[o].status = "proposed"
        /\ edits' = [edits EXCEPT ![o].status = IF late THEN "expired" ELSE "declined"]
        /\ refused' = IF AtWork(o) THEN refused ELSE refused \cup {o}
        /\ botched' = IF AtWork(o) THEN botched \cup {o} ELSE botched
        /\ UNCHANGED <<call, paper, written>> /\ UnchangedChat /\ UnchangedWorld

(* the proposal and its session are read, and it goes on with these copies *)
Taken(c, o, pc) == call' = [call EXCEPT ![c] = [@ EXCEPT !.pc = pc, !.s = edits[o].session,
    !.copy = sessions[edits[o].session], !.op = o, !.edit = edits[o], !.now = hour]]

Confirm(c, o) ==
    /\ At(c, "idle") /\ edits[o].status = "proposed" /\ hour <= edits[o].expires /\ onBoard
    /\ Taken(c, o, "claim")
    /\ UnchangedChat /\ UnchangedPaper /\ UnchangedWorld

(* _apply; what ends without a write *)
Settle(c, status) ==
    /\ edits' = [edits EXCEPT ![call[c].op] = [call[c].edit EXCEPT !.status = status]]
    /\ Returns(c)
    /\ UNCHANGED <<paper, written, refused>> /\ UnchangedChat /\ UnchangedWorld

(* processed first, so that a second tap finds it so *)
Claimed(c) ==
    LET o == call[c].op
    IN  /\ At(c, "claim")
        /\ edits' = [edits EXCEPT ![o] = [call[c].edit EXCEPT !.status = "applied"]]
        /\ botched' = IF edits[o].status # "proposed" THEN botched \cup {o} ELSE botched
        /\ Proceeds(c, "look")
        /\ UNCHANGED <<paper, written, refused>> /\ UnchangedChat /\ UnchangedWorld

PaperOf(c) == paper[call[c].copy.paper]

Look(c) ==
    /\ At(c, "look")
    /\ IF PaperOf(c).rev = call[c].edit.rev
       THEN /\ call' = [call EXCEPT ![c] = [@ EXCEPT !.pc = "write", !.text = PaperOf(c).text]]
            /\ UnchangedChat /\ UnchangedPaper /\ UnchangedWorld
       ELSE Settle(c, "conflict") /\ UNCHANGED botched

(* the document's text and revision after call c has written *)
Rewritten(c) == [paper EXCEPT ![call[c].copy.paper] = [rev |-> @.rev + 1, text |-> call[c].edit.after]]

(* mutant: the write does not name the revision it is for *)
WriteAny(c) ==
    /\ At(c, "write")
    /\ paper' = Rewritten(c)
    /\ written' = [written EXCEPT ![call[c].op] = @ + 1]
    /\ Proceeds(c, "save")
    /\ UNCHANGED <<edits, botched, refused>> /\ UnchangedChat /\ UnchangedWorld

(* batchUpdate with requiredRevisionId: Google answers 400 if it is not that one *)
WritePaper(c) ==
    /\ At(c, "write")
    /\ IF PaperOf(c).rev = call[c].edit.rev
       THEN /\ paper' = Rewritten(c)
            /\ written' = [written EXCEPT ![call[c].op] = @ + 1]
            /\ Proceeds(c, "save")
            /\ UNCHANGED <<edits, botched, refused>> /\ UnchangedChat /\ UnchangedWorld
       ELSE Settle(c, "conflict") /\ UNCHANGED botched

(* a read or a write fails, or the answer to the write is lost *)
WriteFails(c) ==
    LET o == call[c].op
    IN  /\ At(c, "look") \/ At(c, "write")
        /\ edits' = [edits EXCEPT ![o] = [call[c].edit EXCEPT !.status = "declined"]]
        /\ \/ UNCHANGED <<paper, written, botched>>
           \/ /\ At(c, "write") /\ PaperOf(c).rev = call[c].edit.rev
              /\ paper' = Rewritten(c)
              /\ written' = [written EXCEPT ![o] = @ + 1]
              /\ botched' = botched \cup {o}
        /\ Returns(c)
        /\ UNCHANGED refused /\ UnchangedChat /\ UnchangedWorld

(* the session, as it was read at first, is touched too *)
SaveApplied(c) ==
    LET w == call[c]
    IN  /\ At(c, "save")
        /\ edits' = [o \in OpIds |->
             IF o = w.op THEN [w.edit EXCEPT !.status = "applied", !.before = w.text]
             ELSE IF w.edit.kind = "revert" /\ o = w.edit.of THEN [edits[o] EXCEPT !.status = "reverted"]
             ELSE edits[o]]
        /\ Touched(c)
        /\ Returns(c)
        /\ UNCHANGED <<paper, written, botched, refused>> /\ UnchangedWorld
-----------------------------------------------------------------------------
(* _propose_revert: the texts before the write, for the revision there is now *)

Undo(c, o) ==
    /\ At(c, "idle") /\ edits[o].status = "applied" /\ edits[o].before # NoText
    /\ Taken(c, o, "restore")
    /\ UnchangedChat /\ UnchangedPaper /\ UnchangedWorld

ProposeRevert(c) == \E o \in OpIds :
    LET w == call[c]
    IN  /\ At(c, "restore") /\ IsNextOp(o)
        /\ edits' = [edits EXCEPT ![o] = [NoEdit EXCEPT
             !.session = w.s, !.kind = "revert", !.of = w.op, !.rev = PaperOf(c).rev,
             !.base = PaperOf(c).text, !.after = w.edit.before,
             !.status = "proposed", !.expires = w.now + TTL]]
        /\ Returns(c)
        /\ UNCHANGED <<paper, written, botched, refused>> /\ UnchangedChat /\ UnchangedWorld

RevertFails(c) ==
    /\ At(c, "restore")
    /\ Returns(c)
    /\ UnchangedChat /\ UnchangedPaper /\ UnchangedWorld
-----------------------------------------------------------------------------
CallDies(c) ==
    /\ ~At(c, "idle")
    /\ botched' = IF call[c].pc \in {"look", "write", "save"} THEN botched \cup {call[c].op} ELSE botched
    /\ Returns(c)
    /\ UNCHANGED <<edits, paper, written, refused>> /\ UnchangedChat /\ UnchangedWorld

PersonEdits(d) ==
    /\ people < MaxPeople /\ people' = people + 1
    /\ paper' = [paper EXCEPT ![d] = [rev |-> @.rev + 1, text |-> -@.rev]]
    /\ UNCHANGED <<edits, written, botched, refused, call, onBoard, hour>> /\ UnchangedChat

LosesSeat ==
    /\ onBoard /\ onBoard' = FALSE
    /\ UNCHANGED <<hour, people, call>> /\ UnchangedPaper /\ UnchangedChat

HourPasses ==
    /\ hour < MaxHour /\ hour' = hour + 1
    /\ UNCHANGED <<onBoard, people, call>> /\ UnchangedPaper /\ UnchangedChat
-----------------------------------------------------------------------------
DsBegin(c) ==
    \/ \E d \in Papers : Open(c, d)
    \/ End(c) \/ StartCalendar(c) \/ CalendarTurn(c) \/ Instruct(c) \/ RefuseText(c)
    \/ \E o \in OpIds : Decline(c, o) \/ Confirm(c, o) \/ Undo(c, o)

DsProceed(c) ==
    \/ Touch(c) \/ ReadPaper(c) \/ NoDraft(c) \/ Draft(c) \/ Propose(c)
    \/ Claimed(c) \/ Look(c) \/ WritePaper(c) \/ WriteFails(c) \/ SaveApplied(c)
    \/ ProposeRevert(c) \/ RevertFails(c)

DsNext ==
    \/ \E c \in ChatCalls : DsBegin(c) /\ taps < MaxTaps /\ taps' = taps + 1
    \/ /\ UNCHANGED taps
       /\ \/ \E c \in ChatCalls : DsProceed(c) \/ CallDies(c)
          \/ \E d \in Papers : PersonEdits(d)
          \/ LosesSeat \/ HourPasses

DsSpec == DsInit /\ [][DsNext]_sessionvars
-----------------------------------------------------------------------------
(* A proposal is written once at most, however often and however fast its      *)
(* button is tapped: the second write finds another revision (_apply).         *)
WrittenOnce == \A o \in OpIds : written[o] <= 1

(* Nobody's work is overwritten unseen: a proposal replaces the text it was    *)
(* drafted from, though people edit the document between the draft, the        *)
(* confirmation and the write (handle_turn, _apply, committee_docs.apply).     *)
NoLostUpdate == [][\A o \in OpIds : written'[o] > written[o] =>
    paper[sessions[edits[o].session].paper].text = edits[o].base]_sessionvars

(* What was declined, withdrawn or has expired while nobody was writing it is  *)
(* never written (_decide).                                                    *)
RefusedStaysUnwritten == \A o \in refused : written[o] = 0

(* What the record of proposals says is so: applied or reverted if and only if *)
(* it was written, with the text it replaced, so that it can be taken back.    *)
(* Exempt: a death between write and save, a lost answer, two taps at once     *)
(* (_apply saves whole copies).                                                *)
RecordIsTrue == \A o \in OpIds \ botched : ~AtWork(o) =>
    /\ edits[o].status \in {"applied", "reverted"} <=> written[o] = 1
    /\ written[o] = 1 => edits[o].before = edits[o].base

PointsTo(s) == chat = [mode |-> "doc", session |-> s, expires |-> until] /\ sessions[s].status = "active"

(* While a member works on a document his texts are instructions for that       *)
(* document: the chat points to the session he opened last until he leaves it or*)
(* its time is up, unless a text or a confirmation of another session, late or  *)
(* old, has set the chat to that one (_touch; open_session, close_session).     *)
TextsReachTheWork == current # 0 /\ hour < until => PointsTo(current) \/ strayed

(* Said by the design (docs/doc-session-design.md section 7): a text sent       *)
(* during the work is not taken for a question.                                 *)
WorkIsNotAQuestion == current # 0 /\ hour < until => PointsTo(current)

(* An edit agreed to in the chat is written once and over the text it was made  *)
(* from, one refused is not written, the record says which, and what a member   *)
(* writes reaches his document.                                                 *)
PaperWork ==
    /\ [](WrittenOnce /\ RefusedStaysUnwritten /\ RecordIsTrue /\ TextsReachTheWork)
    /\ NoLostUpdate
=============================================================================
