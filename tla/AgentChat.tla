----------------------------- MODULE AgentChat -----------------------------
(***************************************************************************)
(* The conversation with the default agent: the adapter of                 *)
(* agent_chat_provider.py between the phones and one thread of codex.      *)
(*                                                                         *)
(* A phone's call is a coroutine that asks codex and waits.  One reader    *)
(* takes everything codex sends in the order it was sent; a reply only     *)
(* resolves the future, and the coroutine goes on in a later turn of the   *)
(* loop.  What lay behind the reply may be applied first: that is why      *)
(* "replied" and "done" are two states of a request here.                  *)
(*                                                                         *)
(* codex is external, modelled by the frames of its fixtures.  The order   *)
(* of its queue, what an answer says and what is on screen are left out.   *)
(***************************************************************************)
EXTENDS Naturals, Sequences, FiniteSets

CONSTANTS
  Phones,     \* calls under way at the same time
  Words,      \* messages, by request id: an id says one thing
  Asks,       \* approvals codex asks for
  MaxTurns, MaxCalls, \* turns of codex, calls the phones make
  MaxFaults, MaxRestarts \* lost connections and timeouts; restarts of core

VARIABLES
  running, turns, stopped, \* codex: its turn or 0, how many there were, whether the last was stopped
  queue, steered,          \* codex: its queue, words steered into the turn and not yet taken
  taken, starts,           \* codex: words the model got; how often turn/start brought each
  asking, sent,            \* codex: approvals it waits on; answers on their way to it
  down,                    \* what codex sent and the reader has not read
  link,                    \* the adapter: off, loading or on
  active, memo, pending,   \* active_turn; _steered: <<words, turn>>; pending_approvals
  answered,                \* _answered, kept over re-attaches
  journal,                 \* delivery.json
  call,                    \* each coroutine
  queued, gone,            \* ghosts: words ever in the queue; those a phone took off it
  calls, faults, restarts

codexVars == <<running, turns, stopped, queue, steered, taken, starts, asking, sent>>
adapter == <<link, active, memo, pending>>
counts  == <<gone, faults, restarts>>
vars == <<codexVars, down, adapter, answered, journal, call, queued, calls, counts>>

\* Every word can have a coroutine of its own that puts it back; sync is ensure().
Calls == Phones \cup Words \cup {"sync"}
Idle  == [at |-> "idle", word |-> "none", turn |-> 0, rpc |-> "no", val |-> 0]
Free(c) == call[c].at = "idle"
Calling(c) == Free(c) /\ link = "on" /\ calls < MaxCalls /\ calls' = calls + 1
\* turn/start, and again with the paths of the pictures in its words.
StartSteps == {"start", "words"}
Unlocked == \A c \in Phones : call[c].at \notin StartSteps \cup {"now.start", "now.delete", "now.steer", "now.add"}
Waiting == {a \in Asks : asking[a] = "waiting"}
Over == [a \in Asks |-> IF a \in Waiting THEN "over" ELSE asking[a]]

\* A request, and what it comes to: a result, an AgentChatError, or the timeout nobody catches.
Asked(at, w, t) == [at |-> at, word |-> w, turn |-> t, rpc |-> IF link = "off" THEN "cut" ELSE "asked", val |-> 0]
Request(c, at, w, t) == call' = [call EXCEPT ![c] = Asked(at, w, t)]
Got(c, at)     == call[c].at = at /\ call[c].rpc = "done" /\ call[c].val # 0
Refused(c, at) == call[c].at = at /\ (call[c].rpc = "cut" \/ (call[c].rpc = "done" /\ call[c].val = 0))
Late(c, at)    == call[c].at = at /\ call[c].rpc = "timeout"
Return(c) == call' = [call EXCEPT ![c] = Idle]

-----------------------------------------------------------------------------
(* codex *)

Note(kind, v) == [kind |-> kind, v |-> v]
Withdrawn == IF Waiting = {} THEN <<>> ELSE <<Note("resolved", Waiting)>>

StartTurn(w) ==
  /\ running = 0 /\ turns < MaxTurns /\ turns' = turns + 1 /\ running' = turns' /\ stopped' = FALSE
  /\ taken' = taken \cup {w}

\* What was steered into a turn and not taken goes with it; what it asked is withdrawn.
EndTurn(stop) == running' = 0 /\ stopped' = stop /\ steered' = {} /\ asking' = Over

Reply(c, v) == call' = [call EXCEPT ![c].rpc = "replied", ![c].val = v]
Starting(c) == Reply(c, turns + 1) /\ down' = down \o <<Note("reply", c), Note("started", turns + 1)>>
Plain(c, v) == Reply(c, v) /\ down' = Append(down, Note("reply", c))

\* What codex does with a request; it refuses one that no longer fits, or a picture.
Serve(c) ==
  LET at == call[c].at  w == call[c].word  t == call[c].turn IN
  /\ call[c].rpc = "asked" /\ UNCHANGED <<sent, adapter, answered, journal, calls, counts>>
  /\ queued' = IF at \in {"enqueue", "now.add", "back"} THEN queued \cup {w} ELSE queued
  /\ \/ /\ at \in StartSteps /\ StartTurn(w) /\ starts' = [starts EXCEPT ![w] = @ + 1] /\ Starting(c)
        /\ UNCHANGED <<queue, steered, asking>>
     \/ /\ at = "now.start" /\ w \in queue /\ StartTurn(w) /\ queue' = queue \ {w} /\ Starting(c)
        /\ UNCHANGED <<starts, steered, asking>>
     \/ /\ at \in {"enqueue", "now.add", "back"} /\ queue' = queue \cup {w} /\ Plain(c, 1)
        /\ UNCHANGED <<running, turns, stopped, steered, taken, starts, asking>>
     \/ /\ at \in {"now.delete", "delete"} /\ queue' = queue \ {w} /\ Plain(c, IF w \in queue THEN 1 ELSE 0)
        /\ UNCHANGED <<running, turns, stopped, steered, taken, starts, asking>>
     \/ /\ at \in {"now.steer", "steer"} /\ running = t /\ steered' = steered \cup {w} /\ Plain(c, 1)
        /\ UNCHANGED <<running, turns, stopped, queue, taken, starts, asking>>
     \/ /\ at = "cancel" /\ running = t /\ EndTurn(TRUE) /\ Reply(c, 1)
        /\ down' = down \o <<Note("reply", c), Note("completed", t)>> \o Withdrawn
        /\ UNCHANGED <<turns, queue, taken, starts>>
     \* thread/resume answers with the turn that runs, and asks again what still waits.
     \/ /\ at = "attach" /\ Reply(c, running)
        /\ down' = Append(down, Note("reply", c)) \o IF Waiting = {} THEN <<>> ELSE <<Note("ask", Waiting)>>
        /\ UNCHANGED <<running, turns, stopped, queue, steered, taken, starts, asking>>
     \/ /\ \/ at = "start" \/ (at = "words" /\ (running # 0 \/ turns = MaxTurns))
           \/ at = "now.start" /\ (running # 0 \/ turns = MaxTurns \/ w \notin queue)
           \/ at \in {"now.steer", "steer", "cancel"} /\ running # t
        /\ Plain(c, 0)
        /\ UNCHANGED <<running, turns, stopped, queue, steered, taken, starts, asking>>

Tell(notes) == down' = IF link = "off" THEN <<>> ELSE down \o notes
Own == <<adapter, answered, journal, call, queued, calls, counts>>

\* The queue goes on by itself, unless the last turn was stopped.
Drain ==
  /\ ~stopped /\ \E w \in queue : StartTurn(w) /\ queue' = queue \ {w} /\ Tell(<<Note("started", turns + 1)>>)
  /\ UNCHANGED <<steered, starts, asking, sent, Own>>
Take ==
  /\ \E w \in steered : steered' = steered \ {w} /\ taken' = taken \cup {w} /\ Tell(<<Note("took", w)>>)
  /\ UNCHANGED <<running, turns, stopped, queue, starts, asking, sent, Own>>
Ask ==
  /\ running # 0 /\ \E a \in Asks :
       asking[a] = "no" /\ asking' = [asking EXCEPT ![a] = "waiting"] /\ Tell(<<Note("ask", {a})>>)
  /\ UNCHANGED <<running, turns, stopped, queue, steered, taken, starts, sent, Own>>
Finish ==
  /\ running # 0 /\ Waiting = {} /\ EndTurn(FALSE) /\ Tell(<<Note("completed", running)>>)
  /\ UNCHANGED <<turns, queue, taken, starts, sent, Own>>
\* The answer arrives, or another client of the thread gives one.
Settle(a) ==
  /\ a \in Waiting /\ asking' = [asking EXCEPT ![a] = "over"] /\ sent' = sent \ {a} /\ Tell(<<Note("resolved", {a})>>)
  /\ UNCHANGED <<running, turns, stopped, queue, steered, taken, starts, Own>>

-----------------------------------------------------------------------------
(* The reader: _dispatch(), _receive(), _server_request() and _apply() *)

\* Steered words their turn ended without go back on the queue, each by a coroutine.
Untaken(t) == {w \in Words : <<w, t>> \in memo}
Apply(n) ==
  \/ n.kind = "started" /\ active' = n.v /\ UNCHANGED <<memo, pending, call>>
  \/ n.kind = "took" /\ memo' = {m \in memo : m[1] # n.v} /\ UNCHANGED <<active, pending, call>>
  \/ n.kind = "completed" /\ n.v # active /\ UNCHANGED <<active, memo, pending, call>>
  \/ /\ n.kind = "completed" /\ n.v = active /\ active' = 0 /\ memo' = {m \in memo : m[2] # n.v}
     /\ call' = [c \in Calls |-> IF c \in Untaken(n.v) THEN Asked("back", c, 0) ELSE call[c]]
     /\ UNCHANGED pending
  \/ n.kind = "resolved" /\ pending' = pending \ n.v /\ UNCHANGED <<active, memo, call>>

\* While the snapshot is read notifications wait; those that came before it are then in it
\* and dropped.  To wait in the buffer or unread is the same.
Snapshot == link = "loading" /\ call["sync"].rpc = "done"
Read ==
  /\ down # <<>> /\ ~Snapshot /\ down' = Tail(down)
  /\ LET n == Head(down) IN
     \/ /\ n.kind = "reply" /\ UNCHANGED <<active, memo, pending, sent>>
        /\ call' = IF call[n.v].rpc = "replied" THEN [call EXCEPT ![n.v].rpc = "done"] ELSE call
     \* a request answered here before gets the same answer again
     \/ /\ n.kind = "ask" /\ pending' = pending \cup (n.v \ answered) /\ sent' = sent \cup (n.v \cap answered)
        /\ UNCHANGED <<active, memo, call>>
     \/ /\ n.kind \notin {"reply", "ask"} /\ UNCHANGED sent
        /\ IF link = "on" THEN Apply(n) ELSE UNCHANGED <<active, memo, pending, call>>
  /\ UNCHANGED <<running, turns, stopped, queue, steered, taken, starts, asking, link, answered, journal,
                 queued, calls, counts>>

-----------------------------------------------------------------------------
(* The phones' calls *)

Quiet == UNCHANGED <<codexVars, down, link, queued, counts>>

\* Slip: what was not accepted is sent again.
SendAgain(c, w) ==
  /\ Calling(c) /\ Unlocked /\ journal[w] # "accepted" /\ active = 0
  /\ journal' = [journal EXCEPT ![w] = "sent"] /\ Request(c, "start", w, 0)
  /\ UNCHANGED <<active, memo, pending, answered>> /\ Quiet

\* send(): an id that was sent before is never sent again, whatever became of it; but a
\* message whose pictures codex refused goes once more, without them.
Send(c, w) ==
  /\ Calling(c) /\ Unlocked /\ journal[w] = "no" /\ active = 0
  /\ journal' = [journal EXCEPT ![w] = "sent"] /\ Request(c, "start", w, 0)
  /\ UNCHANGED <<active, memo, pending, answered>> /\ Quiet
Rejected(c, at) == Refused(c, at) /\ call[c].rpc = "done"
Sent(c) ==
  /\ \/ /\ \E at \in StartSteps : Got(c, at)
        /\ journal' = [journal EXCEPT ![call[c].word] = "accepted"]
        /\ active' = (IF active = 0 THEN call[c].val ELSE active) /\ Return(c)
     \/ Rejected(c, "start") /\ Request(c, "words", call[c].word, 0) /\ UNCHANGED <<journal, active>>
     \/ /\ \E at \in StartSteps : Refused(c, at) \/ Late(c, at)
        /\ Return(c) /\ UNCHANGED <<journal, active>>
  /\ UNCHANGED <<memo, pending, answered>> /\ Quiet

\* Requests whose answer changes nothing here: enqueue, delete, steer, cancel.
Simple(c, at, w, t) ==
  /\ Calling(c) /\ (t # 0 => t = active) /\ Request(c, at, w, t)
  /\ UNCHANGED <<codexVars, down, adapter, answered, journal, queued, faults, restarts>>
  /\ gone' = IF at = "delete" THEN gone \cup {w} ELSE gone
Enqueue(c, w)   == Simple(c, "enqueue", w, 0)
Delete(c, w)    == w \in queue /\ Simple(c, "delete", w, 0)
SteerNow(c, w)  == active # 0 /\ Simple(c, "steer", w, active)
Cancel(c)       == active # 0 /\ Simple(c, "cancel", "none", active)
Returned(c) ==
  /\ \E at \in {"enqueue", "delete", "steer", "cancel", "now.add", "back"} : Got(c, at) \/ Refused(c, at) \/ Late(c, at)
  /\ Return(c) /\ UNCHANGED <<active, memo, pending, answered, journal>> /\ Quiet

\* send_queued_now(): between turns codex starts it; during one it is taken off the queue,
\* steered, and put back when the turn would not take it.
SendNow(c, w) ==
  /\ Calling(c) /\ Unlocked /\ w \in queue
  /\ IF active = 0 THEN Request(c, "now.start", w, 0) ELSE Request(c, "now.delete", w, active)
  /\ UNCHANGED <<active, memo, pending, answered, journal>> /\ Quiet
NowStarted(c) ==
  /\ \/ Got(c, "now.start") /\ active' = IF active = 0 THEN call[c].val ELSE active
     \/ (Refused(c, "now.start") \/ Late(c, "now.start")) /\ UNCHANGED active
  /\ Return(c) /\ UNCHANGED <<memo, pending, answered, journal>> /\ Quiet
NowTaken(c) ==
  /\ \/ Got(c, "now.delete") /\ Request(c, "now.steer", call[c].word, call[c].turn)
     \/ (Refused(c, "now.delete") \/ Late(c, "now.delete")) /\ Return(c)
  /\ UNCHANGED <<active, memo, pending, answered, journal>> /\ Quiet
\* Slip: the words are remembered for the turn of now.
NowSteeredAnew(c) ==
  /\ \/ Got(c, "now.steer") /\ memo' = memo \cup {<<call[c].word, active>>} /\ Return(c)
     \/ Refused(c, "now.steer") /\ Request(c, "now.add", call[c].word, 0) /\ UNCHANGED memo
     \/ Late(c, "now.steer") /\ Return(c) /\ UNCHANGED memo
  /\ UNCHANGED <<active, pending, answered, journal>> /\ Quiet
NowSteered(c) ==
  /\ \/ Got(c, "now.steer") /\ memo' = memo \cup {<<call[c].word, call[c].turn>>} /\ Return(c)
     \/ Refused(c, "now.steer") /\ Request(c, "now.add", call[c].word, 0) /\ UNCHANGED memo
     \/ Late(c, "now.steer") /\ Return(c) /\ UNCHANGED memo
  /\ UNCHANGED <<active, pending, answered, journal>> /\ Quiet

\* resolve_approval(): the answer is written, then remembered.
Resolve(c, a) ==
  /\ Calling(c) /\ a \in pending /\ sent' = sent \cup {a}
  /\ answered' = answered \cup {a} /\ pending' = pending \ {a}
  /\ UNCHANGED <<running, turns, stopped, queue, steered, taken, starts, asking, down, link, active, memo,
                 journal, call, queued, counts>>

-----------------------------------------------------------------------------
(* Losing the connection and attaching again *)

\* Whoever waits is told, except one whose time is up first.
Cut(c) == call[c].rpc \in {"asked", "replied"}
Drop ==
  /\ link # "off" /\ faults < MaxFaults /\ faults' = faults + 1
  /\ link' = "off" /\ down' = <<>> /\ sent' = {}
  /\ call' = [c \in Calls |-> IF Cut(c) THEN [call[c] EXCEPT !.rpc = "cut"] ELSE call[c]]
  /\ UNCHANGED <<running, turns, stopped, queue, steered, taken, starts, asking, active, memo, pending,
                 answered, journal, queued, gone, calls, restarts>>
Timeout(c) ==
  /\ Cut(c) /\ faults < MaxFaults /\ faults' = faults + 1 /\ call' = [call EXCEPT ![c].rpc = "timeout"]
  /\ UNCHANGED <<codexVars, down, adapter, answered, journal, queued, gone, calls, restarts>>

\* ensure(): a new adapter; what it keeps of the old one is the journal and the answers.
Attach ==
  /\ link = "off" /\ \A c \in Calls : Free(c)
  /\ link' = "loading" /\ active' = 0 /\ memo' = {} /\ pending' = {}
  /\ call' = [call EXCEPT !["sync"] = [Asked("attach", "none", 0) EXCEPT !.rpc = "asked"]]
  /\ UNCHANGED <<codexVars, down, answered, journal, queued, calls, counts>>
\* Slip: what came while the snapshot was read is forgotten.
AttachedAfresh ==
  /\ call["sync"].at = "attach" /\ call["sync"].rpc \in {"done", "cut", "timeout"} /\ Return("sync")
  /\ link' = (IF Snapshot THEN "on" ELSE "off") /\ active' = (IF Snapshot THEN call["sync"].val ELSE active)
  /\ down' = <<>>
  /\ UNCHANGED <<codexVars, memo, pending, answered, journal, queued, calls, counts>>

\* _restore(): words the record shows as a user's are accepted.  A connection lost meanwhile
\* fails the listing of the queue that follows.
Attached ==
  /\ call["sync"].at = "attach" /\ Return("sync")
  /\ \/ /\ Snapshot /\ link' = "on" /\ active' = call["sync"].val /\ UNCHANGED down
        /\ journal' = [w \in Words |-> IF journal[w] = "sent" /\ w \in taken THEN "accepted" ELSE journal[w]]
     \/ /\ call["sync"].rpc \in {"cut", "timeout"} \/ link = "off"
        /\ link' = "off" /\ down' = <<>> /\ UNCHANGED <<active, journal>>
  /\ UNCHANGED <<codexVars, memo, pending, answered, queued, calls, counts>>

\* core goes and comes back: codex runs on, and what was only in memory is gone.
Restart ==
  /\ restarts < MaxRestarts /\ restarts' = restarts + 1
  /\ link' = "off" /\ active' = 0 /\ memo' = {} /\ pending' = {} /\ answered' = {} /\ sent' = {}
  /\ down' = <<>> /\ call' = [c \in Calls |-> Idle]
  /\ UNCHANGED <<running, turns, stopped, queue, steered, taken, starts, asking, journal, queued, gone, calls, faults>>

-----------------------------------------------------------------------------
Init ==
  /\ running = 0 /\ turns = 0 /\ stopped = FALSE /\ queue = {} /\ steered = {} /\ taken = {}
  /\ starts = [w \in Words |-> 0] /\ asking = [a \in Asks |-> "no"] /\ sent = {} /\ down = <<>>
  /\ link = "off" /\ active = 0 /\ memo = {} /\ pending = {} /\ answered = {}
  /\ journal = [w \in Words |-> "no"] /\ call = [c \in Calls |-> Idle]
  /\ queued = {} /\ gone = {} /\ calls = 0 /\ faults = 0 /\ restarts = 0

Resumes(c) ==
  /\ Sent(c) \/ NowStarted(c) \/ NowTaken(c) \/ NowSteered(c) \/ Returned(c)
  /\ UNCHANGED calls
Next ==
  \/ \E c \in Phones : \/ Cancel(c) \/ \E a \in Asks : Resolve(c, a)
                       \/ \E w \in Words : Send(c, w) \/ Enqueue(c, w) \/ Delete(c, w) \/ SteerNow(c, w) \/ SendNow(c, w)
  \/ \E c \in Calls : Serve(c) \/ Resumes(c) \/ Timeout(c)
  \/ Drain \/ Take \/ Ask \/ Finish \/ \E a \in Asks : Settle(a)
  \/ Read \/ Drop \/ Attach \/ Attached \/ Restart

Spec == Init /\ [][Next]_vars

-----------------------------------------------------------------------------
(* Properties *)

TypeOK ==
  /\ running \in 0..MaxTurns /\ turns \in 0..MaxTurns /\ active \in 0..MaxTurns
  /\ queue \subseteq Words /\ steered \subseteq Words /\ taken \subseteq Words /\ queued \subseteq Words
  /\ starts \in [Words -> Nat] /\ memo \subseteq Words \X (1..MaxTurns)
  /\ asking \in [Asks -> {"no", "waiting", "over"}]
  /\ sent \subseteq Asks /\ pending \subseteq Asks /\ answered \subseteq Asks
  /\ link \in {"off", "loading", "on"} /\ journal \in [Words -> {"no", "sent", "accepted"}]
  /\ \A c \in Calls : call[c].rpc \in {"no", "asked", "replied", "done", "cut", "timeout"}

\* Whatever is lost on the way and however often it is tried, a message is the start of one
\* turn at most: the journal is written before codex is asked.
StartedOnce == \A w \in Words : starts[w] <= 1

\* Once everything sent was read and every call has returned, core knows of the turn that
\* runs: none of its turns goes on unseen, over lost connections and late replies.
AtRest == link = "on" /\ down = <<>> /\ \A c \in Calls : Free(c)
RunningIsActive == AtRest /\ running # 0 => active = running

\* The other way round: the turn core takes for running does run, or nobody could send.
ActiveIsRunning == AtRest => active = running

\* What codex waits for is before the person, and what the person answered never is again.
AskedOnce == (AtRest /\ sent = {} => Waiting \subseteq pending) /\ pending \cap answered = {}

\* A queued message nobody took off the queue is in it, with the model, or on its way to one
\* of them.
Carried(w) == \/ \E c \in Calls : call[c].word = w /\ call[c].at \in {"now.delete", "now.steer", "now.add", "back"}
              \/ active # 0 /\ <<w, active>> \in memo
WordsKept == \A w \in queued \ gone : w \in queue \cup taken \/ Carried(w)
-----------------------------------------------------------------------------
\* What keeps StartedOnce: a message is asked for only once it is in the journal, and the
\* request that asks for it is the only one.
Steps == {"idle", "start", "words", "enqueue", "delete", "steer", "cancel", "now.start", "now.delete", "now.steer",
          "now.add", "back", "attach"}
Coroutines == [at : Steps, word : Words \cup {"none"}, turn : 0..MaxTurns, val : 0..MaxTurns,
               rpc : {"no", "asked", "replied", "done", "cut", "timeout"}]
CallOK == /\ call \in [Calls -> Coroutines] /\ call["sync"].at \in {"idle", "attach"}
          /\ \A c \in Calls : /\ call[c].at = "idle" => call[c].rpc = "no"
                              /\ call[c].at = "attach" => c = "sync"
                              /\ call[c].at \notin {"idle", "attach", "cancel"} => call[c].word \in Words
                              /\ call[c].at \in {"now.delete", "now.steer", "cancel"} => call[c].turn # 0
Starts(c, w) == call[c].at \in StartSteps /\ call[c].word = w
OneStart == \A w \in Words :
  /\ \A c, e \in Calls : Starts(c, w) /\ Starts(e, w) => c = e
  /\ \A c \in Calls : Starts(c, w) => journal[w] # "no" /\ (call[c].rpc = "asked" \/ call[c].val = 0 => starts[w] = 0)
  /\ journal[w] = "no" => starts[w] = 0

\* What keeps RunningIsActive and AskedOnce: what codex sent since it answered the attach
\* brings core to the turn that runs, and names what codex waits for.
Sentences == [kind : {"reply"}, v : Calls] \cup [kind : {"started", "completed"}, v : 1..MaxTurns]
               \cup [kind : {"took"}, v : Words] \cup [kind : {"ask", "resolved"}, v : SUBSET Asks]
Unread  == 1..Len(down)
Synced(i) == down[i].kind = "reply" /\ down[i].v = "sync"
LinkOK ==
  /\ down \in Seq(Sentences) /\ (link = "off" => down = <<>>) /\ (link = "on" => call["sync"].at = "idle")
  /\ link = "loading" => \A c \in Calls \ {"sync"} : Free(c)
  /\ \A c \in Calls : call[c].rpc = "asked" => link # "off"
  /\ \A i \in Unread : Synced(i) => link = "loading" /\ call["sync"].rpc \in {"replied", "timeout"}
  /\ call["sync"].rpc = "replied" => \E i \in Unread : Synced(i)
  /\ \A i, j \in Unread : Synced(i) /\ Synced(j) => i = j
Tracking == link = "on" \/ (link = "loading" /\ call["sync"].rpc \in {"replied", "done"})
Known    == IF link = "on" THEN active ELSE call["sync"].val
Since(i) == \A j \in i..Len(down) : ~Synced(j)
Began(i) == down[i].kind = "started" /\ down[i].v = running
TurnIsTold == Tracking /\ running # 0 =>
  /\ Known = running \/ \E i \in Unread : Since(i) /\ Began(i)
  /\ \A i \in Unread : Since(i) /\ down[i].kind = "started" /\ ~Began(i) => \E j \in i + 1 .. Len(down) : Began(j)
EndedOK == running <= turns /\ \A i \in Unread :
  down[i].kind = "completed" => down[i].v <= turns /\ down[i].v # running
AsksAreTold ==
  /\ pending \cap answered = {}
  /\ Tracking => \A a \in Waiting : a \in pending \cup sent \/ \E i \in Unread : down[i].kind = "ask" /\ a \in down[i].v
  /\ \A i \in Unread : down[i].kind = "resolved" => \A a \in down[i].v : asking[a] = "over"
ChatInv == /\ TypeOK /\ CallOK /\ StartedOnce /\ OneStart
           /\ LinkOK /\ TurnIsTold /\ EndedOK /\ AsksAreTold
=============================================================================
