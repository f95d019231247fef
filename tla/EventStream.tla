---------------------------- MODULE EventStream ----------------------------
(***************************************************************************)
(* The event stream of the daemon: Hub of hub.py with its bounded history  *)
(* and its bounded queue per subscriber, the /v1/events handler of         *)
(* network.py, and at the other end the reconnecting EventStream of        *)
(* odomo/src/lib/events.js with the state App.jsx shows.                   *)
(*                                                                         *)
(* The daemon runs on one asyncio thread: an action is what happens from   *)
(* one await to the next.  Events are their numbers; the state is, for     *)
(* each part an event can patch (a topic), the number of the last patch.   *)
(***************************************************************************)
EXTENDS Naturals, Sequences, FiniteSets

CONSTANTS
  Clients,         \* paired devices, each with one page
  Topics, NoTopic, \* the parts of the state; an event that patches none of them
  All, Others,     \* targets: every device, and devices without a page here
  Events,          \* what this host publishes: [topic, target]
  Conns, NoConn,   \* sockets
  HistoryLimit,    \* history_limit
  QueueLimit,      \* subscriber_queue_limit
  WireLimit,       \* messages under way before send_json() has to wait
  MaxSeq,          \* events of one run of the daemon
  MaxTroubles      \* lost paths, unread registries, reloaded pages and restarts, together

ASSUME NamesAssumption ==
  /\ NoTopic \notin Topics /\ NoConn \notin Conns
  /\ Clients \cap {All, Others} = {} /\ All # Others
\* Only broadcasts patch the state: update_state() is nowhere given a device.
ASSUME EventsAssumption ==
  /\ Events \subseteq [topic : Topics \cup {NoTopic}, target : Clients \cup {All, Others}]
  /\ \A e \in Events : e.topic # NoTopic => e.target = All
ASSUME LimitsAssumption ==
  /\ HistoryLimit \in Nat \ {0} /\ QueueLimit \in Nat \ {0} /\ WireLimit \in Nat \ {0}
  /\ MaxSeq \in Nat /\ MaxTroubles \in Nat

VARIABLES
  inst,            \* instance_id
  log,             \* all events of this instance; the hub retains the last HistoryLimit
  host,            \* _state: the last patch of each topic
  conn,            \* each socket, the handler behind it and its subscriber
  client,          \* each EventStream object: its socket and where it resumes
  view,            \* the state each page shows
  revoked, until,  \* credentials taken back, and the cursor of the hub then
  troubles         \* how much has gone wrong

hubVars   == <<inst, log, host>>
authVars  == <<revoked, until>>
vars == <<hubVars, conn, client, view, authVars, troubles>>

EventCursor == Len(log)                                    \* event_cursor
NoPatch == [t \in Topics |-> 0]
Resume == [inst : Nat, cursor : Nat]                 \* inst 0: from a snapshot
Message == [kind : {"snapshot", "ready", "event", "resync", "refused"},
            seq : Nat, after : Nat, top : [Topics -> Nat]]
Phases == {"free", "accepted", "greeted", "replay", "live", "waiting", "ended"}
Socket == [phase : Phases, who : Clients, up : BOOLEAN, from : Resume, since : Nat,
           replay : SUBSET Nat, gap : BOOLEAN, queue : SUBSET Nat, overflowed : BOOLEAN,
           wire : Seq(Message)]
Listener == [sock : Conns \cup {NoConn}, from : Resume, stopped : BOOLEAN]
Blank  == [inst |-> 0, top |-> NoPatch]
Afresh == [inst |-> 0, cursor |-> 0]

Idle(d, isUp, from) ==
  [phase |-> "free", who |-> d, up |-> isUp, from |-> from, since |-> 0,
   replay |-> {}, gap |-> FALSE, queue |-> {}, overflowed |-> FALSE, wire |-> <<>>]

Visible(s, d) == log[s].target \in {All, d}
Registered(c) == conn[c].phase \in {"replay", "live", "waiting"}
First(s, S) == \A q \in S : s <= q

-----------------------------------------------------------------------------
(* publish(): the history, then every subscriber that can see the event *)

\* Slip: a full queue loses its oldest event.
OfferedDropping(k, s) ==
  IF Cardinality(k.queue) < QueueLimit THEN [k EXCEPT !.queue = @ \cup {s}]
  ELSE [k EXCEPT !.queue = {q \in @ : ~First(q, @)} \cup {s}]

\* Slip: one event too many is put into the queue.
OfferedOverfull(k, s) ==
  IF Cardinality(k.queue) <= QueueLimit THEN [k EXCEPT !.queue = @ \cup {s}]
  ELSE [k EXCEPT !.queue = {}, !.overflowed = TRUE]

\* A full queue is emptied and holds one resync event instead.
Offered(k, s) ==
  IF Cardinality(k.queue) < QueueLimit THEN [k EXCEPT !.queue = @ \cup {s}]
  ELSE [k EXCEPT !.queue = {}, !.overflowed = TRUE]

Publish(e) ==
  /\ EventCursor < MaxSeq /\ log' = Append(log, e)
  /\ host' = IF e.topic \in Topics THEN [host EXCEPT ![e.topic] = EventCursor + 1] ELSE host
  /\ conn' = [c \in Conns |->
       IF Registered(c) /\ ~conn[c].overflowed /\ e.target \in {All, conn[c].who}
         THEN Offered(conn[c], EventCursor + 1) ELSE conn[c]]
  /\ UNCHANGED <<inst, client, view, authVars, troubles>>

\* A credential is revoked, by another process as well as by this one.
Revoke(d) ==
  /\ d \notin revoked /\ revoked' = revoked \cup {d} /\ until' = [until EXCEPT ![d] = EventCursor]
  /\ UNCHANGED <<hubVars, conn, client, view, troubles>>

-----------------------------------------------------------------------------
(* The handler of one socket *)

Msg(kind, s, after, top) == [kind |-> kind, seq |-> s, after |-> after, top |-> top]
Sent(k, m) == [k EXCEPT !.wire = Append(@, m)]
Room(c) == Len(conn[c].wire) < WireLimit

Handled(c, k) ==
  /\ conn' = [conn EXCEPT ![c] = k]
  /\ UNCHANGED <<hubVars, client, view, authVars, troubles>>

\* The subscriber is discarded; what was sent before is still on its way.
Over(k) == [k EXCEPT !.phase = "ended", !.replay = {}, !.queue = {},
                     !.overflowed = FALSE, !.gap = FALSE]
Refused(c) == Over(Sent(conn[c], Msg("refused", 0, 0, NoPatch)))
Known(c)   == conn[c].who \notin revoked

\* The state and its cursor are read together, after the handshake's await; a
\* client that named this instance is only told where it resumes.
Greet(c) ==
  /\ conn[c].phase = "accepted"
  /\ LET at == IF conn[c].from.inst = inst THEN conn[c].from.cursor ELSE EventCursor
         m  == IF conn[c].from.inst = inst THEN Msg("ready", at, 0, NoPatch)
                                           ELSE Msg("snapshot", at, 0, host)
     IN Handled(c, [Sent(conn[c], m) EXCEPT !.phase = "greeted", !.since = at])

\* events_since(): all that is retained and visible, unless some of it is gone.
Oldest == IF EventCursor > HistoryLimit THEN EventCursor - HistoryLimit + 1 ELSE 1

\* Slip: one event short of the gap.
LostOffByOne(s) == s + 2 < Oldest
Lost(s) == s + 1 < Oldest

Replay(c) == {s \in conn[c].since + 1 .. EventCursor : s >= Oldest /\ Visible(s, conn[c].who)}

\* The greeting was awaited, so events may have come in between: register, then
\* look back, without an await.
Subscribe(c) ==
  /\ conn[c].phase = "greeted" /\ Room(c)
  /\ Handled(c, IF Known(c)
       THEN [conn[c] EXCEPT !.phase = "replay", !.gap = Lost(conn[c].since),
                            !.replay = IF Lost(conn[c].since) THEN {} ELSE Replay(c)]
       ELSE Refused(c))

\* Slip: the chain is cut at what the hub has published by now.
EmittedAtCursor(c, s) ==
  [Sent(conn[c], Msg("event", s, conn[c].since, NoPatch)) EXCEPT !.since = EventCursor]

\* An event goes out with the cursor it comes after.
Emitted(c, s) ==
  [Sent(conn[c], Msg("event", s, conn[c].since, NoPatch)) EXCEPT !.since = s]
Resync(c) == Over(Sent(conn[c], Msg("resync", EventCursor, 0, NoPatch)))

ReplayLeft(c) == conn[c].replay # {} \/ conn[c].gap

ReplayNext(c) ==
  /\ conn[c].phase = "replay" /\ Room(c)
  /\ \/ ~ReplayLeft(c) /\ Handled(c, [conn[c] EXCEPT !.phase = "live"])
     \/ ReplayLeft(c) /\ ~Known(c) /\ Handled(c, Refused(c))
     \/ /\ ReplayLeft(c) /\ Known(c) /\ conn[c].overflowed
        /\ Handled(c, [conn[c] EXCEPT !.phase = "live", !.replay = {}, !.gap = FALSE])
     \/ conn[c].gap /\ Known(c) /\ ~conn[c].overflowed /\ Handled(c, Resync(c))
     \/ /\ ~conn[c].gap /\ Known(c) /\ ~conn[c].overflowed
        /\ \E s \in conn[c].replay :
             First(s, conn[c].replay) /\ Handled(c, [Emitted(c, s) EXCEPT !.replay = @ \ {s}])

\* The credential is checked before the wait for an event and after it.
Wait(c) ==
  /\ conn[c].phase = "live" /\ Room(c)
  /\ Handled(c, IF Known(c) THEN [conn[c] EXCEPT !.phase = "waiting"] ELSE Refused(c))

WaitOver(c) ==
  /\ conn[c].phase = "waiting" /\ conn[c].queue = {} /\ ~conn[c].overflowed
  /\ Handled(c, [conn[c] EXCEPT !.phase = "live"])

Delivered(c) ==
  \/ conn[c].overflowed /\ Handled(c, Resync(c))
  \/ /\ ~conn[c].overflowed
     /\ \E s \in conn[c].queue :
          /\ First(s, conn[c].queue)
          /\ Handled(c, [Emitted(c, s) EXCEPT !.phase = "live", !.queue = @ \ {s}])

\* Slip: the check before the wait is thought enough.
DeliverUnchecked(c) == conn[c].phase = "waiting" /\ Delivered(c)

Deliver(c) ==
  /\ conn[c].phase = "waiting" /\ (conn[c].queue # {} \/ conn[c].overflowed)
  /\ \/ ~Known(c) /\ Handled(c, Refused(c))
     \/ Known(c) /\ Delivered(c)

\* check_auth() of the handler, which does not wait for the wire.
CheckAuth(c) ==
  /\ conn[c].phase = "greeted" \/ Registered(c)
  /\ ~Known(c) /\ Handled(c, Refused(c))

\* The client is gone, or answers no ping.
HangUp(c) ==
  /\ conn[c].phase # "free" /\ (client[conn[c].who].sock # c \/ ~conn[c].up)
  /\ Handled(c, Idle(conn[c].who, FALSE, Afresh))

-----------------------------------------------------------------------------
(* EventStream, the page's side *)

Unused(c) == conn[c].phase = "free" /\ \A d \in Clients : client[d].sock # c

\* A ticket is asked for with the credential; the socket then names where to resume.
Connect(d, c) ==
  /\ ~client[d].stopped /\ client[d].sock = NoConn /\ Unused(c) /\ d \notin revoked
  /\ client' = [client EXCEPT ![d].sock = c]
  /\ conn' = [conn EXCEPT ![c] = [Idle(d, TRUE, client[d].from) EXCEPT !.phase = "accepted"]]
  /\ UNCHANGED <<hubVars, view, authVars, troubles>>

\* Slip: a refused ticket is one more failure, to be tried again.
UnpairedRetries(d) ==
  /\ ~client[d].stopped /\ client[d].sock = NoConn /\ d \in revoked /\ UNCHANGED vars

Unpaired(d) ==
  /\ ~client[d].stopped /\ client[d].sock = NoConn /\ d \in revoked
  /\ client' = [client EXCEPT ![d].stopped = TRUE]
  /\ UNCHANGED <<hubVars, conn, view, authVars, troubles>>

\* The next message of the socket the object still holds.
Reads(d, m) ==
  LET c == client[d].sock IN
  /\ c \in Conns /\ conn[c].up /\ conn[c].wire # <<>> /\ m = Head(conn[c].wire)
  /\ conn' = [conn EXCEPT ![c].wire = Tail(@)]
  /\ UNCHANGED <<hubVars, authVars, troubles>>

\* Snapshot and cursor are installed together.
OnSnapshot(d, m) ==
  /\ Reads(d, m) /\ m.kind = "snapshot"
  /\ client' = [client EXCEPT ![d].from = [inst |-> inst, cursor |-> m.seq]]
  /\ view' = [view EXCEPT ![d] = [inst |-> inst, top |-> m.top]]

OnReady(d, m) ==
  /\ Reads(d, m) /\ m.kind = "ready"
  /\ client' = [client EXCEPT ![d].from = [inst |-> inst, cursor |-> m.seq]]
  /\ UNCHANGED view

\* The cursor advances and the patch is merged into what the page shows.
OnEvent(d, m) ==
  /\ Reads(d, m) /\ m.kind = "event"
  /\ client' = [client EXCEPT ![d].from.cursor = m.seq]
  /\ view' = IF log[m.seq].topic \in Topics
               THEN [view EXCEPT ![d].top[log[m.seq].topic] = m.seq] ELSE view

\* Slip: the connection is dropped and the cursor kept.
OnResyncKeeps(d, m) ==
  /\ Reads(d, m) /\ m.kind = "resync"
  /\ client' = [client EXCEPT ![d].sock = NoConn] /\ UNCHANGED view

\* Start again from a snapshot; until it comes the page shows what it had.
OnResync(d, m) ==
  /\ Reads(d, m) /\ m.kind = "resync"
  /\ client' = [client EXCEPT ![d].sock = NoConn, ![d].from = Afresh] /\ UNCHANGED view

OnRefused(d, m) ==
  /\ Reads(d, m) /\ m.kind = "refused"
  /\ client' = [client EXCEPT ![d].sock = NoConn, ![d].stopped = TRUE] /\ UNCHANGED view

Receive(d) ==
  \E m \in {Head(conn[c].wire) : c \in {c \in Conns : conn[c].wire # <<>>}} :
    OnSnapshot(d, m) \/ OnReady(d, m) \/ OnEvent(d, m) \/ OnResync(d, m) \/ OnRefused(d, m)

\* onclose, or nothing heard for HEARTBEAT_SILENCE: the path is gone.
Drop(d) ==
  /\ client[d].sock \in Conns /\ ~conn[client[d].sock].up
  /\ client' = [client EXCEPT ![d].sock = NoConn]
  /\ UNCHANGED <<hubVars, conn, view, authVars, troubles>>

-----------------------------------------------------------------------------
(* What else happens *)

Trouble == troubles < MaxTroubles /\ troubles' = troubles + 1

\* A path dies under its socket; neither end is told.
Break(c) ==
  /\ Trouble
  /\ conn[c].phase # "free" /\ conn[c].up /\ conn' = [conn EXCEPT ![c].up = FALSE]
  /\ UNCHANGED <<hubVars, client, view, authVars>>

\* The registry cannot be read just now, and a check of any of the handler's tasks
\* ends like the check of a revoked credential.
RegistryUnread(c) ==
  /\ Trouble
  /\ conn[c].phase = "greeted" \/ Registered(c)
  /\ conn' = [conn EXCEPT ![c] = Refused(c)]
  /\ UNCHANGED <<hubVars, client, view, authVars>>

\* The page is loaded again: the object and the state begin anew.
Reload(d) ==
  /\ Trouble /\ ~client[d].stopped
  /\ client' = [client EXCEPT ![d].sock = NoConn, ![d].from = Afresh]
  /\ view' = [view EXCEPT ![d] = Blank]
  /\ UNCHANGED <<hubVars, conn, authVars>>

Restart ==
  /\ Trouble
  /\ inst' = inst + 1 /\ log' = <<>> /\ host' = NoPatch
  /\ conn' = [c \in Conns |-> Idle(conn[c].who, FALSE, Afresh)]
  /\ until' = [d \in Clients |-> 0]
  /\ UNCHANGED <<client, view, revoked>>

-----------------------------------------------------------------------------

Init ==
  /\ inst = 1 /\ log = <<>> /\ host = NoPatch
  /\ conn \in [Conns -> {Idle(d, FALSE, Afresh) : d \in Clients}]
  /\ client = [d \in Clients |-> [sock |-> NoConn, from |-> Afresh, stopped |-> FALSE]]
  /\ view = [d \in Clients |-> Blank]
  /\ revoked = {} /\ until = [d \in Clients |-> 0]
  /\ troubles = 0

Handler(c) == \/ Greet(c) \/ Subscribe(c) \/ ReplayNext(c) \/ Wait(c) \/ WaitOver(c)
              \/ Deliver(c) \/ CheckAuth(c) \/ HangUp(c)

Page(d) == (\E c \in Conns : Connect(d, c)) \/ Unpaired(d) \/ Receive(d) \/ Drop(d)

World == \/ \E e \in Events : Publish(e)
         \/ \E d \in Clients : Revoke(d) \/ Reload(d)
         \/ \E c \in Conns : Break(c) \/ RegistryUnread(c)
         \/ Restart

Next == (\E c \in Conns : Handler(c)) \/ (\E d \in Clients : Page(d)) \/ World

Spec == Init /\ [][Next]_vars

-----------------------------------------------------------------------------
(* What is said of it *)

\* Every variable keeps the shape the hub, its handlers and the pages give it, and no
\* queue gets longer than its maxsize (put_nowait() would raise inside publish()).
TypeOK ==
  /\ inst \in Nat /\ log \in Seq(Events) /\ host \in [Topics -> Nat]
  /\ conn \in [Conns -> Socket]
  /\ \A c \in Conns : Cardinality(conn[c].queue) <= QueueLimit
  /\ client \in [Clients -> Listener]
  /\ view \in [Clients -> [inst : Nat, top : [Topics -> Nat]]]
  /\ revoked \in SUBSET Clients /\ until \in [Clients -> Nat]
  /\ troubles \in Nat

\* s is the last of the first n events that patched t.
LastPatch(n, t, s) ==
  /\ s \in 0..n /\ (s # 0 => log[s].topic = t)
  /\ \A q \in s+1..n : log[q].topic # t

\* Through reconnects, overflows, replays and lost paths, what a page shows is the
\* state of the host as it was at the page's cursor: nothing in between is missing
\* (events.js: "nothing raised in between is lost").
ShownAtCursor ==
  \A d \in Clients : client[d].from.inst = inst =>
    /\ view[d].inst = inst
    /\ \A t \in Topics : LastPatch(client[d].from.cursor, t, view[d].top[t])

\* Every event comes after the one the page has seen last, as after_cursor says:
\* docs/hub.md:79, the snapshot and its cursor before later events.
AfterCursorChain ==
  \A d \in Clients : client[d].sock \in Conns =>
    LET w == conn[client[d].sock].wire IN
    \A i \in 1..Len(w) : w[i].kind = "event" =>
      /\ w[i].after = IF i = 1 THEN client[d].from.cursor ELSE w[i - 1].seq
      /\ w[i].after < w[i].seq

\* docs/hub.md:60: credentials are rechecked before events, so no event published
\* after the revocation is ever sent to the device.
RevokedHearsNothing ==
  \A c \in Conns : conn[c].who \in revoked =>
    \A i \in 1..Len(conn[c].wire) :
      conn[c].wire[i].kind = "event" => conn[c].wire[i].seq <= until[conn[c].who]

\* A page shows states the host was in, and goes forward only.
Mirrored == INSTANCE MirroredState WITH log <- [s \in 1..Len(log) |-> log[s].topic]
Mirrors == Mirrored!Spec

\* The event loop runs every task, a page's timers fire, and a page asks again for a
\* socket until it has one.
Fairness == /\ \A c \in Conns : WF_vars(Handler(c)) /\ WF_vars(CheckAuth(c))
            /\ \A d \in Clients : WF_vars(Page(d))
FairSpec == Spec /\ Fairness

\* Once the host is quiet, every page that is not unpaired comes to show its state and
\* stays with it, whatever was dropped, lost or restarted before.
Converges ==
  \A d \in Clients :
    <>[](client[d].stopped \/ (view[d].inst = inst /\ view[d].top = host))

\* A page whose credential is revoked is told so, whatever its socket is doing.
RevokedIsTold == \A d \in Clients : (d \in revoked) ~> client[d].stopped

\* auth.py:67 says an unreadable registry is no verdict on the credential, which an app
\* must not throw away for it: a page is unpaired only if its credential was revoked.
UnpairedOnlyIfRevoked == \A d \in Clients : client[d].stopped => d \in revoked

-----------------------------------------------------------------------------
(***************************************************************************)
(* The inductive invariant behind ShownAtCursor, AfterCursorChain and      *)
(* RevokedHearsNothing.  What a page shows can be relied on only if what   *)
(* is under way to it is: every message on the wire follows the one before *)
(* with nothing visible left out, the pump's cursor is the end of that     *)
(* chain, and what is visible after it waits in the replay or the queue.   *)
(*                                                                         *)
(* All of it but Pages is said of one socket c in state k, so that a step  *)
(* of a handler has to answer for its own socket only.                     *)
(***************************************************************************)

\* The page still listens to the socket c in state k.
Heard(c, k) == client[k.who].sock = c
Subscribed  == {"replay", "live", "waiting"}
Running     == {"greeted", "replay", "live", "waiting"}
Carries     == {"snapshot", "ready", "event"}     \* messages that leave the page at a cursor

StateAt(n, top) == \A t \in Topics : LastPatch(n, t, top[t])

\* Between two cursors there was nothing for d to see.
NothingBetween(a, b, d) == \A q \in a + 1 .. b - 1 : ~Visible(q, d)

Owners == \A d \in Clients : client[d].sock \in Conns => conn[client[d].sock].who = d

\* Nothing is known of a run of the daemon still to come.
Runs == /\ inst > 0
        /\ \A d \in Clients : client[d].from.inst <= inst /\ view[d].inst <= inst

HostNow == StateAt(EventCursor, host)

\* The state a page shows, as far as it is of this instance.
PageOK(d) ==
  /\ client[d].from.inst = inst =>
       /\ client[d].from.cursor <= EventCursor /\ view[d].inst = inst
       /\ StateAt(client[d].from.cursor, view[d].top)
  /\ view[d].inst = inst =>
       \A t \in Topics : /\ view[d].top[t] <= EventCursor
                         /\ view[d].top[t] # 0 => log[view[d].top[t]].topic = t

Pages == \A d \in Clients : PageOK(d)

\* A socket that has sent nothing yet resumes where its page does.
FreshOK(c, k) ==
  /\ k.phase \in {"free", "accepted"} => k.wire = <<>>
  /\ k.phase = "accepted" /\ Heard(c, k) => k.from = client[k.who].from

\* One message under way to the page d.
SnapshotOK(d, m) ==
  /\ m.seq <= EventCursor /\ StateAt(m.seq, m.top)
  /\ view[d].inst = inst => \A t \in Topics : view[d].top[t] <= m.seq

EventOK(d, m, before) ==
  /\ m.after = before /\ m.after < m.seq /\ m.seq <= EventCursor
  /\ NothingBetween(m.after, m.seq, d)

WireOK(d, w) ==
  \A i \in 1..Len(w) :
    /\ w[i].kind \in {"snapshot", "ready"} => i = 1
    /\ w[i].kind = "snapshot" => SnapshotOK(d, w[i])
    /\ w[i].kind = "ready" => client[d].from = [inst |-> inst, cursor |-> w[i].seq]
    /\ w[i].kind = "event" /\ i = 1 =>
         client[d].from.inst = inst /\ EventOK(d, w[i], client[d].from.cursor)
    /\ w[i].kind = "event" /\ i # 1 =>
         w[i - 1].kind \in Carries /\ EventOK(d, w[i], w[i - 1].seq)

\* Where the pump is: at the end of what it sent.
PumpOK(d, k) ==
  /\ k.wire = <<>> => client[d].from = [inst |-> inst, cursor |-> k.since]
  /\ k.wire # <<>> => /\ k.wire[Len(k.wire)].kind \in Carries
                      /\ k.wire[Len(k.wire)].seq = k.since

ChainOK(c, k) ==
  Heard(c, k) => /\ WireOK(k.who, k.wire)
                 /\ k.phase \in Running => PumpOK(k.who, k)

\* What the pump has still to send is all there is to see after its cursor.
NothingLost(k) ==
  /\ k.replay \cup k.queue = {q \in k.since + 1 .. EventCursor : Visible(q, k.who)}
  /\ \A r \in k.replay, q \in k.queue : r < q

QueueOK(k) ==
  /\ k.phase # "replay" => k.replay = {} /\ ~k.gap
  /\ k.phase \notin Subscribed => k.queue = {} /\ ~k.overflowed
  /\ k.phase \in Subscribed /\ ~k.overflowed /\ ~k.gap => NothingLost(k)

\* No number is ahead of the hub, nor is what a revoked device is sent.
BoundsOK(k) ==
  /\ IsFiniteSet(k.queue) /\ Cardinality(k.queue) <= QueueLimit
  /\ k.replay \cup k.queue \subseteq 1..EventCursor
  /\ k.from.inst = inst => k.from.cursor <= EventCursor
  /\ k.phase \in Running => k.since <= EventCursor
  /\ \A i \in 1..Len(k.wire) : k.wire[i].kind = "event" => k.wire[i].seq <= EventCursor
  /\ k.who \in revoked =>
       \A i \in 1..Len(k.wire) : k.wire[i].kind = "event" => k.wire[i].seq <= until[k.who]

SocketOK(c, k) == k \in Socket /\ FreshOK(c, k) /\ ChainOK(c, k) /\ QueueOK(k) /\ BoundsOK(k)
Sockets == \A c \in Conns : SocketOK(c, conn[c])

StreamInv == TypeOK /\ Owners /\ Runs /\ HostNow /\ Pages /\ Sockets
=============================================================================
