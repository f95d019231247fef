---------------------------- MODULE AgentThread ----------------------------
(***************************************************************************)
(* Which thread of codex is the default agent's: the owner's record        *)
(* (agent_chat_owner.py), the service that attaches a chat to it           *)
(* (agent_chat_service.py) and the handoff of a TUI that was running       *)
(* before (agent_handoff.py).                                              *)
(*                                                                         *)
(* The service's lock lets one of ensure, new conversation and empty       *)
(* recovery run at a time: op.  The handoff has a lock of its own, so it   *)
(* runs beside op, and only the owner's lock keeps the two apart.  The     *)
(* record is written before thread/start is asked and again after, and     *)
(* the daemon may end anywhere between; codex's app-server is a unit of    *)
(* its own and outlives it.                                                *)
(***************************************************************************)
EXTENDS Naturals

CONSTANTS
  MaxThreads, MaxAsks, MaxCuts, MaxEnds \* threads; a person's requests; connections lost; daemons ended

VARIABLES
  record,   \* owner.json: NoRecord or [thread, pending, prev, reason, back]
  unit,     \* omodachi-agent.service runs
  loaded,   \* threads in the running app-server
  written,  \* threads with a rollout: somebody said something there
  made,     \* threads there are; codex numbers them
  busy,     \* the thread with a turn running, 0 if none
  rpc,      \* the owner's connection: none, open or dead (closed, and still held)
  chat,     \* the attached chat's thread, 0 for none; alive says its connection is up
  alive,
  delivery, \* delivery.json: threads with a message in it
  op, hand, \* the service's operation; the handoff
  tui,      \* the pane: shell, legacy (its own codex, on thread 1) or remote
  plan,     \* the handoff's file
  begun,    \* ghost: threads made for the first creation, and for each request
  emptied,  \* ghost: threads replaced as empty
  asks, cuts, ends

codex  == <<unit, loaded, written, made, busy>>
chatv  == <<chat, alive>>
bounds == <<asks, cuts, ends>>
threadVars == <<record, codex, rpc, chatv, delivery, op, hand, tui, plan, begun, emptied, bounds>>

Threads  == 1..MaxThreads
Plain(t) == [thread |-> t, pending |-> FALSE, prev |-> 0, reason |-> "none", back |-> FALSE]
NoRecord == Plain(0)
Begin(do, at, old) == [do |-> do, at |-> at, old |-> old, new |-> 0, seen |-> FALSE]
Rest     == Begin("none", "none", 0)
\* _new_conversation_pending
Unfinished == record.pending /\ record.thread = 0 /\ record.reason = "new" /\ record.prev # 0
Current    == IF record.thread # 0 THEN record.thread ELSE record.prev

At(do, at) == op.do = do /\ op.at = at
Goto(at)   == op' = [op EXCEPT !.at = at]
OwnerFree  == op.at \in {"none", "probe", "own", "clear", "attach"} /\ hand \notin {"connect", "resume"}
\* An AgentChatError: only ensure answers it by closing the owner's connection.
Refuse == op' = Rest /\ rpc' = IF op.do = "ensure" THEN "none" ELSE rpc
\* Anything else that is raised leaves the connection as it is.
Raise  == op' = Rest /\ UNCHANGED rpc

-----------------------------------------------------------------------------
(* The service's operations, as they begin *)

\* ensure(): a chat whose connection was lost is let go with that connection.
Ensure ==
  /\ op = Rest /\ (chat # 0 => ~alive)
  /\ op' = Begin("ensure", "probe", 0)
  /\ chat' = 0 /\ alive' = FALSE /\ rpc' = IF chat # 0 THEN "none" ELSE rpc
  /\ UNCHANGED <<record, codex, delivery, hand, tui, plan, begun, emptied, bounds>>
\* The probe answers while the handoff may be stopping the TUI.
Probe ==
  /\ At("ensure", "probe") /\ op' = [op EXCEPT !.at = "own", !.seen = (tui # "shell")]
  /\ UNCHANGED <<record, codex, rpc, chatv, delivery, hand, tui, plan, begun, emptied, bounds>>

\* new_conversation(): what the chat knows to be running refuses it.
NewConversation ==
  /\ op = Rest /\ asks < MaxAsks /\ Current # 0 /\ ~(chat # 0 /\ alive /\ busy = chat)
  /\ asks' = asks + 1 /\ op' = Begin("new", "own", Current)
  /\ IF chat # 0 /\ ~alive THEN chat' = 0 /\ rpc' = "none" ELSE UNCHANGED <<chat, rpc>>
  /\ UNCHANGED <<record, codex, alive, delivery, hand, tui, plan, begun, emptied, cuts, ends>>

RecoverEmpty ==
  /\ op = Rest /\ asks < MaxAsks /\ record.thread # 0 /\ delivery = {} /\ ~(chat # 0 /\ alive)
  /\ asks' = asks + 1 /\ op' = Begin("lost", "own", record.thread)
  /\ UNCHANGED <<record, codex, rpc, chatv, delivery, hand, tui, plan, begun, emptied, cuts, ends>>

-----------------------------------------------------------------------------
(* Under the owner's lock *)

Fits ==
  CASE op.do = "ensure" -> ~record.back /\ (record = NoRecord => ~op.seen)
                           /\ (record # NoRecord /\ record.thread = 0 => Unfinished)
    [] op.do = "new"    -> record # NoRecord /\ ~record.back
    [] op.do = "lost"   -> record.thread = op.old /\ ~record.back
Own ==
  /\ op.at = "own" /\ OwnerFree
  /\ IF Fits THEN Goto("connect") /\ UNCHANGED rpc ELSE Refuse
  /\ UNCHANGED <<record, codex, chatv, delivery, hand, tui, plan, begun, emptied, bounds>>

\* _connect(): a connection that is held is used, dead or not; a unit that is not running is
\* started, one that does not answer is left alone.
Connected ==
  \/ rpc # "none" /\ UNCHANGED <<rpc, codex>>
  \/ rpc = "none" /\ unit /\ rpc' = "open" /\ UNCHANGED codex
  \/ rpc = "none" /\ ~unit /\ unit' = TRUE /\ rpc' = "open" /\ loaded' = {} /\ UNCHANGED <<written, made, busy>>
Connect ==
  /\ op.at = "connect"
  /\ \/ Connected /\ Goto("ask")
     \/ rpc = "none" /\ Refuse /\ UNCHANGED codex
  /\ UNCHANGED <<record, chatv, delivery, hand, tui, plan, begun, emptied, bounds>>

\* What the app-server says of the thread the record names.
Resumable(t) == t \in written \cup loaded
Pending(prev, reason) == [thread |-> 0, pending |-> TRUE, prev |-> prev, reason |-> reason, back |-> FALSE]
Intend(r) == record' = r /\ Goto("start") /\ UNCHANGED <<rpc, loaded>>
Refused == Refuse /\ UNCHANGED <<record, loaded>>
Ask ==
  /\ op.at = "ask"
  /\ \/ rpc = "dead" /\ Raise /\ UNCHANGED <<record, loaded>>
     \/ /\ rpc = "open" /\ op.do = "ensure"
        /\ \/ record = NoRecord /\ Intend(Pending(0, "none"))
           \/ Unfinished /\ Intend(record)
           \/ /\ record.thread # 0 /\ Resumable(record.thread)
              /\ loaded' = loaded \cup {record.thread} /\ UNCHANGED <<record, rpc>>
              /\ op' = [op EXCEPT !.at = "attach", !.new = record.thread]
           \/ record.thread # 0 /\ ~Resumable(record.thread) /\ Refused
     \/ /\ rpc = "open" /\ op.do = "new"
        /\ \/ Unfinished /\ record.prev = op.old /\ Intend(record)
           \/ record.thread = op.old /\ (busy # op.old \/ op.old \notin loaded) /\ Intend(Pending(op.old, "new"))
           \/ (IF Unfinished THEN record.prev # op.old
               ELSE record.thread # op.old \/ (busy = op.old /\ op.old \in loaded)) /\ Refused
     \/ /\ rpc = "open" /\ op.do = "lost"
        /\ \/ Resumable(op.old) /\ Refuse /\ loaded' = loaded \cup {op.old} /\ UNCHANGED record
           \/ ~Resumable(op.old) /\ Intend(Pending(op.old, "empty"))
  /\ UNCHANGED <<unit, written, made, busy, chatv, delivery, hand, tui, plan, begun, emptied, bounds>>

\* thread/start: codex makes a thread whether or not its reply comes back.
Start ==
  /\ op.at = "start"
  /\ \/ rpc = "dead" /\ Raise /\ UNCHANGED <<codex, chatv, begun, cuts>>
     \/ /\ rpc = "open" /\ made < MaxThreads /\ made' = made + 1 /\ loaded' = loaded \cup {made'}
        /\ begun' = [begun EXCEPT ![IF op.do = "ensure" THEN record.prev ELSE op.old] = @ + 1] /\ UNCHANGED <<unit, written, busy>>
        /\ \/ op' = [op EXCEPT !.at = "save", !.new = made'] /\ UNCHANGED <<rpc, chatv, cuts>>
           \/ /\ cuts < MaxCuts /\ cuts' = cuts + 1
              /\ \/ Raise /\ UNCHANGED chatv
                 \/ op' = Rest /\ rpc' = (IF op.do = "ensure" THEN "none" ELSE "dead")
                    /\ alive' = FALSE /\ UNCHANGED chat
  /\ UNCHANGED <<record, delivery, hand, tui, plan, emptied, asks, ends>>

\* Slip: the record of a new conversation is the first record again.
SaveBare ==
  /\ op.at = "save" /\ record' = Plain(op.new)
  /\ emptied' = IF op.do = "lost" THEN emptied \cup {op.old} ELSE emptied
  /\ IF op.do = "lost" THEN op' = Rest /\ chat' = 0
     ELSE Goto(IF op.do = "new" THEN "clear" ELSE "attach") /\ UNCHANGED chat
  /\ UNCHANGED <<codex, rpc, alive, delivery, hand, tui, plan, begun, bounds>>

\* The identity; a new conversation's record keeps what it was made from.
Save ==
  /\ op.at = "save" /\ record' = [record EXCEPT !.thread = op.new, !.pending = FALSE]
  /\ emptied' = IF op.do = "lost" THEN emptied \cup {op.old} ELSE emptied
  /\ IF op.do = "lost" THEN op' = Rest /\ chat' = 0
     ELSE Goto(IF op.do = "new" THEN "clear" ELSE "attach") /\ UNCHANGED chat
  /\ UNCHANGED <<codex, rpc, alive, delivery, hand, tui, plan, begun, bounds>>

\* new_conversation() goes on: the old chat is let go and the journal emptied.
Clear ==
  /\ op.at = "clear" /\ Goto("attach") /\ chat' = 0 /\ alive' = FALSE /\ delivery' = {}
  /\ UNCHANGED <<record, codex, rpc, hand, tui, plan, begun, emptied, bounds>>

\* connect_existing() closes the owner's connection when it cannot attach.
Attach ==
  /\ op.at = "attach"
  /\ \/ /\ rpc = "open" /\ op.new \in loaded /\ op' = Rest /\ chat' = op.new /\ alive' = TRUE
        /\ UNCHANGED <<rpc, cuts>>
     \/ /\ op' = Rest /\ UNCHANGED chatv
        /\ \/ rpc = "open" /\ op.new \in loaded /\ cuts < MaxCuts /\ cuts' = cuts + 1
           \/ ~(rpc = "open" /\ op.new \in loaded) /\ UNCHANGED cuts
        /\ rpc' = IF op.do = "ensure" \/ rpc = "none" THEN "none" ELSE "dead"
  /\ UNCHANGED <<record, codex, delivery, hand, tui, plan, begun, emptied, asks, ends>>

-----------------------------------------------------------------------------
(* The handoff *)

Hand(from, to) == hand = from /\ hand' = to

\* prepare() and confirm() look at the same idle TUI; it is told to stop.
Prepare ==
  /\ tui = "legacy" /\ hand = "no" /\ asks < MaxAsks /\ asks' = asks + 1 /\ plan' = "prepared"
  /\ UNCHANGED <<record, codex, rpc, chatv, delivery, op, hand, tui, begun, emptied, cuts, ends>>
Confirm ==
  /\ plan = "prepared" /\ tui = "legacy" /\ Hand("no", "stop") /\ plan' = "stopping"
  /\ UNCHANGED <<record, codex, rpc, chatv, delivery, op, tui, begun, emptied, bounds>>
Stop ==
  /\ \/ Hand("stop", "own") /\ tui' = "shell" /\ plan' = "stopped"
     \/ Hand("stop", "no") /\ plan' = "unconfirmed" /\ tui' \in {"legacy", "shell"}
  /\ UNCHANGED <<record, codex, rpc, chatv, delivery, op, begun, emptied, bounds>>

\* resume_existing(): a record of another thread refuses.
HandOwn ==
  /\ hand = "own" /\ OwnerFree /\ hand' = IF record.thread \in {0, 1} THEN "connect" ELSE "failed"
  /\ UNCHANGED <<record, codex, rpc, chatv, delivery, op, tui, plan, begun, emptied, bounds>>
HandConnect ==
  /\ \/ Connected /\ Hand("connect", "resume")
     \/ rpc = "none" /\ Hand("connect", "failed") /\ UNCHANGED <<rpc, codex>>
  /\ UNCHANGED <<record, chatv, delivery, op, tui, plan, begun, emptied, bounds>>
HandResume ==
  /\ \/ rpc = "open" /\ Hand("resume", "tui") /\ loaded' = loaded \cup {1} /\ record' = Plain(1)
     \/ rpc # "open" /\ Hand("resume", "failed") /\ UNCHANGED <<loaded, record>>
  /\ UNCHANGED <<unit, written, made, busy, rpc, chatv, delivery, op, tui, plan, begun, emptied, bounds>>
HandTui ==
  /\ \/ unit /\ Hand("tui", "no") /\ tui' = "remote" /\ plan' = "completed"
     \/ Hand("tui", "failed") /\ tui' \in {"shell"} \cup (IF unit THEN {"remote"} ELSE {}) /\ UNCHANGED plan
  /\ UNCHANGED <<record, codex, rpc, chatv, delivery, op, begun, emptied, bounds>>

\* stop_owned(): under no lock, it ends the app-server and whoever works with it.
HandFailed ==
  /\ hand = "failed"
  /\ IF tui = "shell"
     THEN /\ hand' = "back" /\ UNCHANGED plan
          /\ unit' = FALSE /\ loaded' = {} /\ busy' = 0 /\ rpc' = "none" /\ alive' = FALSE
     ELSE hand' = "no" /\ plan' = "review" /\ UNCHANGED <<unit, loaded, busy, rpc, alive>>
  /\ UNCHANGED <<record, written, made, chat, delivery, op, tui, begun, emptied, bounds>>
HandBack ==
  /\ \/ Hand("back", "mark") /\ tui' = "legacy"
     \/ Hand("back", "no") /\ UNCHANGED tui
  /\ UNCHANGED <<record, codex, rpc, chatv, delivery, op, plan, begun, emptied, bounds>>
HandMark ==
  /\ Hand("mark", "no") /\ plan' = "rolled_back"
  /\ record' = IF record = NoRecord THEN record ELSE [record EXCEPT !.back = TRUE]
  /\ UNCHANGED <<codex, rpc, chatv, delivery, op, tui, begun, emptied, bounds>>

-----------------------------------------------------------------------------
(* Around them *)

\* A message through the attached chat; a new conversation holds its lock.
Say ==
  /\ chat # 0 /\ alive /\ busy = 0 /\ op.do # "new" /\ chat \in loaded
  /\ busy' = chat /\ written' = written \cup {chat} /\ delivery' = delivery \cup {chat}
  /\ UNCHANGED <<record, unit, loaded, made, rpc, chatv, op, hand, tui, plan, begun, emptied, bounds>>
TurnEnds ==
  /\ busy # 0 /\ busy' = 0
  /\ UNCHANGED <<record, unit, loaded, written, made, rpc, chatv, delivery, op, hand, tui, plan, begun, emptied, bounds>>

Cut ==
  /\ rpc = "open" /\ cuts < MaxCuts /\ cuts' = cuts + 1 /\ rpc' = "dead" /\ alive' = FALSE
  /\ UNCHANGED <<record, codex, chat, delivery, op, hand, tui, plan, begun, emptied, asks, ends>>

\* The daemon ends and starts again, with the app-server or with the whole host.
End ==
  /\ ends < MaxEnds /\ ends' = ends + 1
  /\ op' = Rest /\ hand' = "no" /\ rpc' = "none" /\ chat' = 0 /\ alive' = FALSE
  /\ \/ UNCHANGED <<unit, loaded, busy, tui>>
     \/ unit' = FALSE /\ loaded' = {} /\ busy' = 0 /\ tui' = "shell"
  /\ UNCHANGED <<record, written, made, delivery, plan, begun, emptied, asks, cuts>>

-----------------------------------------------------------------------------
Init ==
  /\ record = NoRecord /\ unit = FALSE /\ loaded = {} /\ busy = 0 /\ rpc = "none"
  /\ tui \in {"shell", "legacy"}
  /\ made = (IF tui = "legacy" THEN 1 ELSE 0) /\ written = (IF tui = "legacy" THEN {1} ELSE {})
  /\ chat = 0 /\ alive = FALSE /\ delivery = {} /\ op = Rest /\ hand = "no" /\ plan = "none"
  /\ begun = [t \in 0..MaxThreads |-> 0] /\ emptied = {} /\ asks = 0 /\ cuts = 0 /\ ends = 0

Next ==
  \/ Ensure \/ Probe \/ NewConversation \/ RecoverEmpty
  \/ Own \/ Connect \/ Ask \/ Start \/ Save \/ Clear \/ Attach
  \/ Prepare \/ Confirm \/ Stop \/ HandOwn \/ HandConnect \/ HandResume \/ HandTui
  \/ HandFailed \/ HandBack \/ HandMark
  \/ Say \/ TurnEnds \/ Cut \/ End

Spec == Init /\ [][Next]_threadVars

-----------------------------------------------------------------------------
(* Properties *)

TypeOK ==
  /\ record \in [thread : 0..MaxThreads, pending : BOOLEAN, prev : 0..MaxThreads,
                 reason : {"none", "new", "empty"}, back : BOOLEAN]
  /\ unit \in BOOLEAN /\ loaded \subseteq Threads /\ written \subseteq Threads
  /\ made \in 0..MaxThreads /\ busy \in 0..MaxThreads
  /\ rpc \in {"none", "open", "dead"} /\ chat \in 0..MaxThreads /\ alive \in BOOLEAN
  /\ delivery \subseteq Threads
  /\ op.do \in {"none", "ensure", "new", "lost"}
  /\ op.at \in {"none", "probe", "own", "connect", "ask", "start", "save", "clear", "attach"}
  /\ hand \in {"no", "stop", "own", "connect", "resume", "tui", "failed", "back", "mark"}
  /\ tui \in {"shell", "legacy", "remote"}
  /\ plan \in {"none", "prepared", "stopping", "unconfirmed", "stopped", "completed", "review", "rolled_back"}
  /\ begun \in [0..MaxThreads -> 0..MaxThreads] /\ emptied \subseteq Threads
  /\ asks \in 0..MaxAsks /\ cuts \in 0..MaxCuts /\ ends \in 0..MaxEnds

\* The first creation is asked of codex once, whatever was lost or ended on the way.
FirstOnce == begun[0] <= 1

\* The chat the phones write to is the current conversation of the record, and the one it is
\* about to leave only while the operation that put the new one on record has yet to close it,
\* never a thread the record has forgotten - as long as no handoff was confirmed, whose
\* rollback works beside all this.
ChatOfRecord ==
  chat # 0 /\ alive /\ plan \in {"none", "prepared"} =>
    chat = Current \/ (op.at = "clear" /\ chat = record.prev)

\* Only a thread nobody ever wrote in is replaced as empty.
EmptyReplaced == emptied \cap written = {}

\* "The next ensure attaches it": at rest without a chat no dead connection is held.
NextEnsureConnects == op = Rest /\ chat = 0 /\ hand = "no" => rpc # "dead"

\* "Refused while that conversation has a turn running": the record does not move on to a
\* new conversation from a thread with a turn.
BusyNotLeft == [][record.thread = 0 /\ record'.thread # 0 /\ record'.prev # 0 => busy # record'.prev]_threadVars

\* The journal holds messages of the current conversation only.
JournalOfThread == op = Rest /\ record.thread # 0 => delivery \subseteq {record.thread}

\* One codex writes in a thread at a time.
OneWriter == ~(tui = "legacy" /\ chat = 1 /\ alive)

-----------------------------------------------------------------------------
\* What keeps them: the owner's lock keeps operation and handoff apart; a first creation is
\* noted before it is asked; a chat that is up is the current conversation unless a handoff
\* has taken the record from it; what was replaced as empty is nowhere any more.
Records == [thread : 0..MaxThreads, pending : BOOLEAN, prev : 0..MaxThreads,
            reason : {"none", "new", "empty"}, back : BOOLEAN]
Steps   == {"none", "probe", "own", "connect", "ask", "start", "save", "clear", "attach"}
Ops     == [do : {"none", "ensure", "new", "lost"}, at : Steps, old : 0..MaxThreads, new : 0..MaxThreads,
            seen : BOOLEAN]
StateOK ==
  /\ record \in Records /\ op \in Ops /\ begun \in [0..MaxThreads -> Nat]
  /\ made \in 0..MaxThreads /\ chat \in 0..made /\ record.thread \in 0..made /\ record.prev \in 0..made
  /\ op.old \in 0..made /\ op.new \in 0..made
  /\ loaded \subseteq 1..made /\ written \subseteq 1..made /\ emptied \subseteq 1..made
OpOK ==
  /\ op.at = "none" <=> op = Rest
  /\ op.at \in {"connect", "ask", "start", "save"} => hand \notin {"connect", "resume"}
  /\ op.do = "none" => op.at = "none"
  /\ op.at = "probe" => op.do = "ensure"
  /\ op.do \in {"new", "lost"} => op.old # 0
  /\ op.do \in {"ensure", "lost"} => ~alive \/ chat = 0
  /\ op.at = "clear" => op.do = "new"
  /\ op.at \in {"clear", "attach"} => op.new = record.thread /\ op.new # 0 /\ op.do \in {"ensure", "new"}
  /\ op.at = "save" => op.new # 0
  /\ op.do = "new" /\ op.at \in {"start", "save"} => record.thread = 0 /\ record.prev = op.old
HandOK ==
  /\ tui \in {"shell", "legacy", "remote"} /\ (hand \in {"stop", "mark"} => tui = "legacy")
  /\ tui = "legacy" \/ hand # "no" => 1 \in written
  /\ hand \in {"own", "connect", "resume", "tui", "back"} => tui = "shell"
  /\ hand \in {"connect", "resume"} => record.thread \in {0, 1}
  /\ hand # "no" => plan \notin {"none", "prepared"}
  /\ hand = "failed" => tui # "legacy"
FirstOK ==
  /\ begun[0] <= 1 /\ (begun[0] > 0 => record # NoRecord)
  /\ op.do = "ensure" /\ op.at = "start" => record # NoRecord /\ (record.prev = 0 => begun[0] = 0)
Away == plan \notin {"none", "prepared"} /\ (tui = "remote" \/ (tui = "shell" /\ hand \in {"tui", "failed"}))
ChatOK == chat # 0 /\ alive =>
  Away \/ chat = Current \/ (op.at = "clear" /\ chat = record.prev)
EmptyOK ==
  /\ emptied \cap (written \cup loaded) = {}
  /\ op.do = "lost" /\ op.at \in {"start", "save"} => op.old \notin written \cup loaded
ThreadInv == StateOK /\ OpOK /\ HandOK /\ FirstOK /\ ChatOK /\ EmptyOK

\* What keeps the types with it: of the threads codex made, each was made for one creation.
NamesOK ==
  /\ unit \in BOOLEAN /\ alive \in BOOLEAN /\ rpc \in {"none", "open", "dead"}
  /\ hand \in {"no", "stop", "own", "connect", "resume", "tui", "failed", "back", "mark"}
  /\ plan \in {"none", "prepared", "stopping", "unconfirmed", "stopped", "completed", "review", "rolled_back"}
CountsOK == asks \in 0..MaxAsks /\ cuts \in 0..MaxCuts /\ ends \in 0..MaxEnds
BusyOK   == busy \in 0..MaxThreads /\ delivery \subseteq Threads
MadeOK   == \A t \in 0..MaxThreads : begun[t] <= made
=============================================================================
