------------------------- MODULE EventStreamProofs -------------------------
(***************************************************************************)
(* Proofs about EventStream for any number of devices, sockets, topics and *)
(* events, and any limits.  A step of a handler changes one socket, so the *)
(* lemma HandlerStep reduces it to SocketOK of that socket.                *)
(***************************************************************************)
EXTENDS EventStream, FiniteSetTheorems, TLAPS

USE NamesAssumption, LimitsAssumption
USE DEF hubVars, authVars, EventCursor

-----------------------------------------------------------------------------
(* Sequences, records and patches *)

LEMMA Appended ==
  ASSUME NEW S, NEW w \in Seq(S), NEW m \in S
  PROVE  /\ Append(w, m) \in Seq(S) /\ Append(w, m) # <<>> /\ Len(Append(w, m)) = Len(w) + 1
         /\ Append(w, m)[Len(w) + 1] = m
         /\ \A i \in 1..Len(w) : Append(w, m)[i] = w[i]
  OBVIOUS

LEMMA Shifted ==
  ASSUME NEW S, NEW w \in Seq(S), w # <<>>
  PROVE  /\ Head(w) \in S /\ Head(w) = w[1] /\ 1 \in 1..Len(w)
         /\ Tail(w) \in Seq(S) /\ Len(Tail(w)) = Len(w) - 1
         /\ \A i \in 1..Len(w) - 1 : Tail(w)[i] = w[i + 1] /\ i + 1 \in 1..Len(w)
  OBVIOUS

LEMMA LogTypes ==
  ASSUME TypeOK
  PROVE  /\ EventCursor \in Nat
         /\ \A s \in 1..EventCursor : log[s] \in Events
                                      /\ log[s].topic \in Topics \cup {NoTopic}
                                      /\ log[s].target \in Clients \cup {All, Others}
  BY EventsAssumption DEF TypeOK

LEMMA NoPatchType == NoPatch \in [Topics -> Nat] /\ \A t \in Topics : NoPatch[t] = 0
  BY DEF NoPatch

LEMMA MsgType ==
  ASSUME NEW kind \in {"snapshot", "ready", "event", "resync", "refused"},
         NEW s \in Nat, NEW after \in Nat, NEW top \in [Topics -> Nat]
  PROVE  /\ Msg(kind, s, after, top) \in Message
         /\ Msg(kind, s, after, top).kind = kind /\ Msg(kind, s, after, top).seq = s
         /\ Msg(kind, s, after, top).after = after /\ Msg(kind, s, after, top).top = top
  BY DEF Msg, Message

LEMMA IdleType ==
  ASSUME NEW d \in Clients, NEW isUp \in BOOLEAN, NEW from \in Resume
  PROVE  Idle(d, isUp, from) \in Socket
  BY DEF Idle, Socket, Phases, Message

LEMMA AfreshType == Afresh \in Resume /\ Afresh.inst = 0
  BY DEF Afresh, Resume

Free(k) ==
  /\ k \in Socket /\ k.phase = "free" /\ k.phase \notin Running /\ k.phase \notin Subscribed
  /\ k.replay = {} /\ k.queue = {} /\ k.gap = FALSE /\ k.overflowed = FALSE /\ k.wire = <<>>
  /\ k.from.inst = 0 /\ IsFiniteSet(k.queue) /\ Cardinality(k.queue) <= QueueLimit

LEMMA FreeIdle ==
  ASSUME NEW d \in Clients
  PROVE  Free(Idle(d, FALSE, Afresh)) /\ Idle(d, FALSE, Afresh).who = d
<1> DEFINE k == Idle(d, FALSE, Afresh)
<1>1. k \in Socket
  BY IdleType, AfreshType
<1>2. /\ k.phase = "free" /\ k.replay = {} /\ k.queue = {} /\ k.gap = FALSE
      /\ k.overflowed = FALSE /\ k.wire = <<>> /\ k.from = Afresh /\ k.who = d
  BY DEF Idle
<1> HIDE DEF k
<1>3. "free" \notin Running /\ "free" \notin Subscribed
  BY DEF Running, Subscribed
<1>4. IsFiniteSet(k.queue) /\ Cardinality(k.queue) <= QueueLimit
  BY <1>2, FS_EmptySet
<1>5. k.from.inst = 0
  BY <1>2, AfreshType
<1>6. Free(k) /\ k.who = d
  BY <1>1, <1>2, <1>3, <1>4, <1>5 DEF Free
<1> QED BY <1>6 DEF k

\* What the hub has published stays as it is when it publishes more.
LEMMA StateAtKept ==
  ASSUME TypeOK, NEW e \in Events, log' = Append(log, e), NEW n \in Nat, n <= EventCursor, NEW top
  PROVE  StateAt(n, top)' <=> StateAt(n, top)
<1>1. \A s \in 1..EventCursor : log'[s] = log[s]
  BY DEF TypeOK
<1> QED BY <1>1 DEF StateAt, LastPatch

LEMMA VisibleKept ==
  ASSUME TypeOK, NEW e \in Events, log' = Append(log, e)
  PROVE  /\ EventCursor' = EventCursor + 1 /\ log' \in Seq(Events) /\ log'[EventCursor + 1] = e
         /\ \A s \in 1..EventCursor : log'[s] = log[s]
         /\ \A s \in 1..EventCursor, d \in Clients : Visible(s, d)' <=> Visible(s, d)
  BY DEF TypeOK, Visible

-----------------------------------------------------------------------------
(* One socket *)

LEMMA Appending ==
  ASSUME StreamInv, NEW d \in Clients, NEW w \in Seq(Message), NEW m \in Message, WireOK(d, w),
         m.kind \in {"snapshot", "ready"} => w = <<>>,
         m.kind = "snapshot" => SnapshotOK(d, m),
         m.kind = "ready" => client[d].from = [inst |-> inst, cursor |-> m.seq],
         m.kind = "event" /\ w = <<>> =>
           client[d].from.inst = inst /\ EventOK(d, m, client[d].from.cursor),
         m.kind = "event" /\ w # <<>> =>
           w[Len(w)].kind \in Carries /\ EventOK(d, m, w[Len(w)].seq)
  PROVE  WireOK(d, Append(w, m))
<1> DEFINE v == Append(w, m)
<1> SUFFICES ASSUME NEW i \in 1..Len(v)
             PROVE  /\ v[i].kind \in {"snapshot", "ready"} => i = 1
                    /\ v[i].kind = "snapshot" => SnapshotOK(d, v[i])
                    /\ v[i].kind = "ready" => client[d].from = [inst |-> inst, cursor |-> v[i].seq]
                    /\ v[i].kind = "event" /\ i = 1 =>
                         client[d].from.inst = inst /\ EventOK(d, v[i], client[d].from.cursor)
                    /\ v[i].kind = "event" /\ i # 1 =>
                         v[i - 1].kind \in Carries /\ EventOK(d, v[i], v[i - 1].seq)
  BY DEF WireOK
<1>1. v \in Seq(Message) /\ Len(v) = Len(w) + 1 /\ v[Len(w) + 1] = m /\ Len(w) \in Nat
  BY Appended
<1>2. \A j \in 1..Len(w) : v[j] = w[j]
  BY Appended
<1> HIDE DEF v
<1>3. CASE i \in 1..Len(w)
  <2>1. i # 1 => i - 1 \in 1..Len(w)
    BY <1>3
  <2> QED BY <1>2, <1>3, <2>1 DEF WireOK
<1>4. CASE i = Len(w) + 1
  <2>1. i = 1 <=> w = <<>>
    BY <1>4
  <2>2. i # 1 => i - 1 = Len(w) /\ v[i - 1] = w[Len(w)]
    BY <1>1, <1>2, <1>4
  <2> QED BY <1>1, <1>4, <2>1, <2>2
<1> QED BY <1>1, <1>3, <1>4

LEMMA SameSocket ==
  ASSUME UNCHANGED <<hubVars, client, view, authVars>>, NEW c, NEW k, SocketOK(c, k)
  PROVE  SocketOK(c, k)'
<1>1. FreshOK(c, k)' /\ BoundsOK(k)'
  BY DEF SocketOK, FreshOK, Heard, BoundsOK
<1>2. QueueOK(k)'
  BY DEF SocketOK, QueueOK, NothingLost, Visible
<1>3. ChainOK(c, k)'
  <2>1. ASSUME NEW d, NEW m PROVE SnapshotOK(d, m)' <=> SnapshotOK(d, m)
    BY DEF SnapshotOK, StateAt, LastPatch
  <2>2. ASSUME NEW d, NEW m, NEW b PROVE EventOK(d, m, b)' <=> EventOK(d, m, b)
    BY DEF EventOK, NothingBetween, Visible
  <2>3. ASSUME NEW d, NEW w PROVE WireOK(d, w)' <=> WireOK(d, w)
    BY <2>1, <2>2 DEF WireOK
  <2> QED BY <2>3 DEF SocketOK, ChainOK, Heard, PumpOK
<1> QED BY <1>1, <1>2, <1>3 DEF SocketOK

\* A step that changes one socket only, and keeps its client, has to keep that socket.
LEMMA HandlerStep ==
  ASSUME StreamInv, NEW c \in Conns, NEW k, SocketOK(c, k), k.who = conn[c].who,
         conn' = [conn EXCEPT ![c] = k], troubles' \in Nat,
         UNCHANGED <<hubVars, client, view, authVars>>
  PROVE  StreamInv'
<1>1. Cardinality(k.queue) <= QueueLimit /\ k \in Socket
  BY DEF SocketOK, BoundsOK
<1>2. TypeOK'
  BY <1>1 DEF StreamInv, TypeOK
<1>3. Owners' /\ Runs' /\ HostNow' /\ Pages'
  BY DEF StreamInv, TypeOK, Owners, Runs, HostNow, Pages, PageOK, StateAt, LastPatch
<1>4. ASSUME NEW b \in Conns PROVE SocketOK(b, conn[b])' 
  <2>1. conn'[b] = IF b = c THEN k ELSE conn[b]
    BY DEF StreamInv, TypeOK
  <2>2. SocketOK(b, conn'[b])
    BY <2>1 DEF StreamInv, Sockets
  <2> QED BY <2>2, SameSocket
<1> QED BY <1>2, <1>3, <1>4 DEF StreamInv, Sockets

\* What the invariant says of one socket, taken apart.
LEMMA SocketFacts ==
  ASSUME StreamInv, NEW c \in Conns
  PROVE  /\ SocketOK(c, conn[c]) /\ conn[c] \in Socket /\ conn[c].who \in Clients
         /\ conn[c].wire \in Seq(Message) /\ conn[c].since \in Nat /\ EventCursor \in Nat
         /\ conn[c].replay \in SUBSET Nat /\ conn[c].queue \in SUBSET Nat
         /\ troubles \in Nat /\ inst \in Nat
<1>1. SocketOK(c, conn[c]) /\ conn[c] \in Socket
  BY DEF StreamInv, Sockets, SocketOK
<1> QED BY <1>1, LogTypes DEF Socket, StreamInv, TypeOK

\* A last message, after which the handler is over.
LEMMA Closing ==
  ASSUME StreamInv, NEW c \in Conns, conn[c].phase \in Running,
         NEW m \in Message, m.kind \in {"resync", "refused"}
  PROVE  SocketOK(c, Over(Sent(conn[c], m))) /\ Over(Sent(conn[c], m)).who = conn[c].who
<1> DEFINE w == Append(conn[c].wire, m)  k == Over(Sent(conn[c], m))
<1>1. conn[c] \in Socket /\ conn[c].who \in Clients /\ SocketOK(c, conn[c])
      /\ conn[c].wire \in Seq(Message)
  BY SocketFacts
<1>2. /\ w \in Seq(Message) /\ w # <<>> /\ Len(w) = Len(conn[c].wire) + 1
      /\ w[Len(conn[c].wire) + 1] = m
      /\ \A i \in 1..Len(conn[c].wire) : w[i] = conn[c].wire[i]
  BY <1>1, Appended
<1>3. Heard(c, conn[c]) => WireOK(conn[c].who, w)
  BY <1>1, Appending DEF SocketOK, ChainOK
<1>4. \A i \in 1..Len(w) :
        w[i].kind = "event" => i \in 1..Len(conn[c].wire) /\ w[i] = conn[c].wire[i]
  BY <1>1, <1>2
<1> HIDE DEF w
<1>5. k = [conn[c] EXCEPT !.phase = "ended", !.replay = {}, !.queue = {},
                          !.overflowed = FALSE, !.gap = FALSE, !.wire = w]
  BY <1>1 DEF Over, Sent, w, Socket
<1>6. /\ k \in Socket /\ k.who = conn[c].who /\ k.phase = "ended" /\ k.replay = {}
      /\ k.queue = {} /\ k.overflowed = FALSE /\ k.gap = FALSE /\ k.wire = w
      /\ k.from = conn[c].from
  BY <1>1, <1>2, <1>5 DEF Socket, Phases
<1> HIDE DEF k
<1>7. FreshOK(c, k) /\ ChainOK(c, k) /\ QueueOK(k)
  BY <1>3, <1>6 DEF FreshOK, ChainOK, QueueOK, Heard, Subscribed, Running
<1>8. BoundsOK(k)
  BY <1>1, <1>4, <1>6, FS_EmptySet DEF BoundsOK, SocketOK, Running
<1> QED BY <1>6, <1>7, <1>8 DEF SocketOK, k

LEMMA RefusedInv ==
  ASSUME StreamInv, NEW c \in Conns, conn[c].phase \in Running, troubles' \in Nat,
         conn' = [conn EXCEPT ![c] = Refused(c)], UNCHANGED <<hubVars, client, view, authVars>>
  PROVE  StreamInv'
<1>1. Msg("refused", 0, 0, NoPatch) \in Message /\ Msg("refused", 0, 0, NoPatch).kind = "refused"
  BY MsgType, NoPatchType
<1> QED BY <1>1, Closing, HandlerStep DEF Refused

LEMMA ResyncInv ==
  ASSUME StreamInv, NEW c \in Conns, conn[c].phase \in Running, Handled(c, Resync(c))
  PROVE  StreamInv'
<1>1. EventCursor \in Nat /\ troubles \in Nat
  BY SocketFacts
<1>2. /\ Msg("resync", EventCursor, 0, NoPatch) \in Message
      /\ Msg("resync", EventCursor, 0, NoPatch).kind = "resync"
  BY <1>1, MsgType, NoPatchType
<1> QED BY <1>1, <1>2, Closing, HandlerStep DEF Resync, Handled

\* A handler moves on without sending anything.
LEMMA MovingOn ==
  ASSUME StreamInv, NEW c \in Conns, NEW p \in Running, NEW r \in SUBSET Nat, NEW g \in BOOLEAN,
         conn[c].phase \in Running,
         Handled(c, [conn[c] EXCEPT !.phase = p, !.replay = r, !.gap = g]),
         r \subseteq 1..EventCursor,
         p # "replay" => r = {} /\ ~g,
         p \notin Subscribed => conn[c].queue = {} /\ ~conn[c].overflowed,
         p \in Subscribed /\ ~conn[c].overflowed /\ ~g =>
           NothingLost([conn[c] EXCEPT !.phase = p, !.replay = r, !.gap = g])
  PROVE  StreamInv'
<1> DEFINE k == [conn[c] EXCEPT !.phase = p, !.replay = r, !.gap = g]
<1>1. conn[c] \in Socket /\ SocketOK(c, conn[c]) /\ troubles \in Nat
  BY SocketFacts
<1>2. p \in Phases /\ p \notin {"free", "accepted"}
  BY DEF Running, Phases
<1>3. /\ k \in Socket /\ k.who = conn[c].who /\ k.phase = p /\ k.replay = r /\ k.gap = g
      /\ k.queue = conn[c].queue /\ k.overflowed = conn[c].overflowed /\ k.wire = conn[c].wire
      /\ k.since = conn[c].since /\ k.from = conn[c].from
  BY <1>1, <1>2 DEF Socket
<1>4. Handled(c, k) /\ (p \in Subscribed /\ ~conn[c].overflowed /\ ~g => NothingLost(k))
  OBVIOUS
<1> HIDE DEF k
<1>5. FreshOK(c, k) /\ ChainOK(c, k)
  BY <1>1, <1>2, <1>3 DEF SocketOK, FreshOK, ChainOK, Heard, PumpOK
<1>6. QueueOK(k)
  BY <1>3, <1>4 DEF QueueOK
<1>7. BoundsOK(k)
  BY <1>1, <1>3 DEF SocketOK, BoundsOK
<1> QED BY <1>1, <1>3, <1>4, <1>5, <1>6, <1>7, HandlerStep DEF SocketOK, Handled

\* An event goes out: the first of those that wait.
Emits(c, s, p, r, q) == [Emitted(c, s) EXCEPT !.phase = p, !.replay = r, !.queue = q]

LEMMA Emitting ==
  ASSUME StreamInv, NEW c \in Conns, NEW s \in Nat, NEW p \in {"replay", "live"},
         NEW r \in SUBSET Nat, NEW q \in SUBSET Nat,
         conn[c].phase \in Subscribed, conn[c].overflowed = FALSE, conn[c].gap = FALSE,
         conn[c].who \notin revoked,
         s \in conn[c].replay \cup conn[c].queue,
         First(s, conn[c].replay \cup conn[c].queue),
         r \subseteq conn[c].replay, q \subseteq conn[c].queue,
         r \cup q = (conn[c].replay \cup conn[c].queue) \ {s},
         p # "replay" => r = {},
         Handled(c, Emits(c, s, p, r, q))
  PROVE  StreamInv'
<1> DEFINE m == Msg("event", s, conn[c].since, NoPatch)
           w == Append(conn[c].wire, m)
           k == Emits(c, s, p, r, q)
           d == conn[c].who
<1>1. /\ conn[c] \in Socket /\ SocketOK(c, conn[c]) /\ troubles \in Nat /\ conn[c].since \in Nat
      /\ conn[c].wire \in Seq(Message) /\ d \in Clients /\ EventCursor \in Nat
  BY SocketFacts
<1>2. m \in Message /\ m.kind = "event" /\ m.seq = s /\ m.after = conn[c].since
  BY <1>1, MsgType, NoPatchType
<1> HIDE DEF m
<1>3. NothingLost(conn[c])
  BY <1>1 DEF SocketOK, QueueOK
<1>4. s \in conn[c].since + 1 .. EventCursor /\ Visible(s, d)
  BY <1>1, <1>3 DEF NothingLost
<1>5. NothingBetween(conn[c].since, s, d)
  BY <1>1, <1>3, <1>4 DEF NothingLost, NothingBetween, First
<1>6. EventOK(d, m, conn[c].since)
  BY <1>1, <1>2, <1>4, <1>5 DEF EventOK
<1>7. ASSUME Heard(c, conn[c]) PROVE WireOK(d, w)
  <2>1. WireOK(d, conn[c].wire) /\ PumpOK(d, conn[c])
    BY <1>1, <1>7 DEF SocketOK, ChainOK, Running, Subscribed
  <2>2. conn[c].wire = <<>> => client[d].from.inst = inst /\ client[d].from.cursor = conn[c].since
    BY <2>1 DEF PumpOK
  <2>3. conn[c].wire # <<>> => /\ conn[c].wire[Len(conn[c].wire)].kind \in Carries
                               /\ conn[c].wire[Len(conn[c].wire)].seq = conn[c].since
    BY <2>1 DEF PumpOK
  <2> QED BY <1>1, <1>2, <1>6, <2>1, <2>2, <2>3, Appending
<1>8. /\ w \in Seq(Message) /\ w # <<>> /\ Len(w) = Len(conn[c].wire) + 1
      /\ w[Len(conn[c].wire) + 1] = m /\ Len(conn[c].wire) \in Nat
      /\ \A i \in 1..Len(conn[c].wire) : w[i] = conn[c].wire[i]
  BY <1>1, <1>2, Appended
<1> HIDE DEF w
<1>9. k = [conn[c] EXCEPT !.phase = p, !.replay = r, !.queue = q, !.wire = w, !.since = s]
  BY <1>1 DEF Emits, Emitted, Sent, w, m, Socket
<1>10. /\ k \in Socket /\ k.who = d /\ k.phase = p /\ k.replay = r /\ k.queue = q
       /\ k.gap = conn[c].gap /\ k.overflowed = conn[c].overflowed /\ k.wire = w /\ k.since = s
       /\ k.from = conn[c].from
  BY <1>1, <1>8, <1>9 DEF Socket, Phases
<1>11. Handled(c, k)
  OBVIOUS
<1> HIDE DEF k
<1>12. FreshOK(c, k)
  BY <1>10 DEF FreshOK
<1>13. ChainOK(c, k)
  <2>1. Heard(c, k) => WireOK(d, w)
    BY <1>7, <1>10 DEF Heard
  <2>2. PumpOK(d, k)
    BY <1>2, <1>4, <1>8, <1>10 DEF PumpOK, Carries
  <2> QED BY <1>10, <2>1, <2>2 DEF ChainOK
<1>14. QueueOK(k)
  <2>1. r \cup q = {x \in s + 1 .. EventCursor : Visible(x, d)}
    BY <1>1, <1>3, <1>4 DEF NothingLost, First
  <2>2. \A x \in r, y \in q : x < y
    BY <1>3 DEF NothingLost
  <2> QED BY <1>10, <2>1, <2>2 DEF QueueOK, NothingLost, Subscribed
<1>15. BoundsOK(k)
  <2>1. IsFiniteSet(q) /\ Cardinality(q) <= QueueLimit
    <3>1. IsFiniteSet(conn[c].queue) /\ Cardinality(conn[c].queue) <= QueueLimit
      BY <1>1 DEF SocketOK, BoundsOK
    <3>2. IsFiniteSet(q) /\ Cardinality(q) <= Cardinality(conn[c].queue)
      BY <3>1, FS_Subset
    <3>3. Cardinality(q) \in Nat /\ Cardinality(conn[c].queue) \in Nat
      BY <3>1, <3>2, FS_CardinalityType
    <3> QED BY <3>1, <3>2, <3>3
  <2>2. r \cup q \subseteq 1..EventCursor
    BY <1>1 DEF SocketOK, BoundsOK
  <2>3. \A i \in 1..Len(w) : w[i].kind = "event" => w[i].seq <= EventCursor
    <3>1. \A i \in 1..Len(conn[c].wire) :
            conn[c].wire[i].kind = "event" => conn[c].wire[i].seq <= EventCursor
      BY <1>1 DEF SocketOK, BoundsOK
    <3>2. m.seq <= EventCursor
      BY <1>2, <1>4
    <3>3. ASSUME NEW i \in 1..Len(w) PROVE i \in 1..Len(conn[c].wire) \/ w[i] = m
      BY <1>8
    <3> QED BY <1>8, <3>1, <3>2, <3>3
  <2>4. conn[c].from.inst = inst => conn[c].from.cursor <= EventCursor
    BY <1>1 DEF SocketOK, BoundsOK
  <2> QED BY <1>1, <1>4, <1>10, <2>1, <2>2, <2>3, <2>4 DEF BoundsOK
<1> QED BY <1>1, <1>10, <1>11, <1>12, <1>13, <1>14, <1>15, HandlerStep DEF SocketOK, Handled

-----------------------------------------------------------------------------
(* The steps of a handler *)

LEMMA GreetInv == ASSUME StreamInv, NEW c \in Conns, Greet(c) PROVE StreamInv'
<1> DEFINE d  == conn[c].who
           at == IF conn[c].from.inst = inst THEN conn[c].from.cursor ELSE EventCursor
           m  == IF conn[c].from.inst = inst THEN Msg("ready", at, 0, NoPatch)
                                             ELSE Msg("snapshot", at, 0, host)
           w  == Append(conn[c].wire, m)
           k  == [Sent(conn[c], m) EXCEPT !.phase = "greeted", !.since = at]
<1>1. /\ conn[c] \in Socket /\ SocketOK(c, conn[c]) /\ troubles \in Nat /\ d \in Clients
      /\ conn[c].wire \in Seq(Message) /\ EventCursor \in Nat /\ conn[c].phase = "accepted"
      /\ conn[c].from \in Resume
  BY SocketFacts DEF Greet, Socket
<1>2. Handled(c, k) /\ conn[c].wire = <<>>
  BY <1>1 DEF Greet, SocketOK, FreshOK
<1>3. at \in Nat
  BY <1>1 DEF Resume
<1>13. at <= EventCursor /\ (conn[c].from.inst = inst => conn[c].from.cursor <= EventCursor)
  BY <1>1 DEF SocketOK, BoundsOK
<1>4. ASSUME Heard(c, conn[c])
      PROVE  /\ conn[c].from = client[d].from
             /\ conn[c].from.inst = inst => client[d].from = [inst |-> inst, cursor |-> at]
             /\ view[d].inst = inst => \A t \in Topics : view[d].top[t] <= EventCursor
  <2>1. conn[c].from = client[d].from
    BY <1>1, <1>4 DEF SocketOK, FreshOK
  <2>2. PageOK(d)
    BY <1>1 DEF StreamInv, Pages
  <2> QED BY <1>1, <2>1, <2>2 DEF PageOK, Resume
<1>5. /\ m \in Message /\ m.seq = at /\ m.kind \in {"ready", "snapshot"}
      /\ m.kind = "ready" <=> conn[c].from.inst = inst
      /\ m.kind = "snapshot" => m.top = host /\ at = EventCursor
  <2>1. host \in [Topics -> Nat]
    BY DEF StreamInv, TypeOK
  <2> QED BY <1>3, <2>1, MsgType, NoPatchType
<1> HIDE DEF m, at
<1>6. Heard(c, conn[c]) => WireOK(d, w)
  <2>1. WireOK(d, conn[c].wire)
    BY <1>2 DEF WireOK
  <2>2. m.kind = "snapshot" /\ Heard(c, conn[c]) => SnapshotOK(d, m)
    BY <1>1, <1>4, <1>5 DEF SnapshotOK, StreamInv, HostNow
  <2> QED BY <1>1, <1>2, <1>4, <1>5, <2>1, <2>2, Appending
<1>7. w \in Seq(Message) /\ w # <<>> /\ Len(w) = 1 /\ w[1] = m
  BY <1>1, <1>2, <1>5, Appended
<1> HIDE DEF w
<1>8. k = [conn[c] EXCEPT !.phase = "greeted", !.since = at, !.wire = w]
  BY <1>1 DEF Sent, w, Socket
<1> HIDE DEF k
<1>9. /\ k \in Socket /\ k.who = d /\ k.phase = "greeted" /\ k.replay = conn[c].replay
      /\ k.queue = conn[c].queue /\ k.gap = conn[c].gap /\ k.overflowed = conn[c].overflowed
      /\ k.wire = w /\ k.since = at /\ k.from = conn[c].from
  BY <1>1, <1>3, <1>7, <1>8 DEF Socket, Phases
<1>10. FreshOK(c, k) /\ QueueOK(k)
  BY <1>1, <1>9 DEF FreshOK, QueueOK, SocketOK, Subscribed
<1>11. ChainOK(c, k)
  BY <1>4, <1>5, <1>6, <1>7, <1>9 DEF ChainOK, Heard, PumpOK, Carries
<1>12. BoundsOK(k)
  <2>1. \A i \in 1..Len(w) : w[i].kind # "event"
    BY <1>5, <1>7
  <2> QED BY <1>1, <1>9, <1>13, <2>1 DEF BoundsOK, SocketOK
<1> QED BY <1>1, <1>2, <1>9, <1>10, <1>11, <1>12, HandlerStep DEF SocketOK, Handled

LEMMA RefusedStep ==
  ASSUME StreamInv, NEW c \in Conns, conn[c].phase \in Running, Handled(c, Refused(c))
  PROVE  StreamInv'
  BY RefusedInv, SocketFacts DEF Handled

LEMMA SubscribeInv == ASSUME StreamInv, NEW c \in Conns, Subscribe(c) PROVE StreamInv'
<1> DEFINE g == Lost(conn[c].since)
           r == IF Lost(conn[c].since) THEN {} ELSE Replay(c)
           k == [conn[c] EXCEPT !.phase = "replay", !.gap = g, !.replay = r]
<1>1. /\ conn[c] \in Socket /\ SocketOK(c, conn[c]) /\ conn[c].since \in Nat
      /\ EventCursor \in Nat /\ conn[c].phase = "greeted" /\ conn[c].phase \in Running
  BY SocketFacts DEF Subscribe, Running
<1>2. g \in BOOLEAN /\ r \subseteq 1..EventCursor /\ r \in SUBSET Nat
  BY <1>1 DEF Lost, Replay
<1>3. conn[c].queue = {} /\ ~conn[c].overflowed
  BY <1>1 DEF SocketOK, QueueOK, Subscribed
<1>4. k = [conn[c] EXCEPT !.phase = "replay", !.replay = r, !.gap = g]
  BY <1>1 DEF Socket
<1>5. ASSUME ~g PROVE NothingLost(k)
  <2>1. r = {q \in conn[c].since + 1 .. EventCursor : Visible(q, conn[c].who)}
    BY <1>1, <1>5 DEF Lost, Replay, Oldest
  <2>2. k.replay = r /\ k.queue = {} /\ k.since = conn[c].since /\ k.who = conn[c].who
    BY <1>1, <1>3 DEF Socket
  <2> QED BY <2>1, <2>2 DEF NothingLost
<1>6. CASE Known(c)
  <2>1. Handled(c, k)
    BY <1>6 DEF Subscribe
  <2>2. Handled(c, [conn[c] EXCEPT !.phase = "replay", !.replay = r, !.gap = g])
    BY <1>4, <2>1
  <2>3. ~g => NothingLost([conn[c] EXCEPT !.phase = "replay", !.replay = r, !.gap = g])
    BY <1>4, <1>5
  <2>4. "replay" \in Running
    BY DEF Running
  <2> HIDE DEF g, r, k
  <2> QED BY <1>1, <1>2, <1>3, <2>2, <2>3, <2>4, MovingOn
<1>7. CASE ~Known(c)
  BY <1>1, <1>7, RefusedStep DEF Subscribe
<1> QED BY <1>6, <1>7

\* The phases in which nothing more is kept than the queue.
LEMMA PhaseStep ==
  ASSUME StreamInv, NEW c \in Conns, NEW p \in {"live", "waiting"},
         conn[c].phase \in Subscribed,
         conn[c].overflowed = FALSE => conn[c].replay = {} /\ conn[c].gap = FALSE,
         Handled(c, [conn[c] EXCEPT !.phase = p, !.replay = {}, !.gap = FALSE])
  PROVE  StreamInv'
<1> DEFINE k == [conn[c] EXCEPT !.phase = p, !.replay = {}, !.gap = FALSE]
<1>1. conn[c] \in Socket /\ SocketOK(c, conn[c]) /\ p \in Running /\ conn[c].phase \in Running
  BY SocketFacts DEF Running, Subscribed
<1>2. ASSUME ~conn[c].overflowed PROVE NothingLost(k)
  <2>1. NothingLost(conn[c]) /\ conn[c].replay = {}
    BY <1>1, <1>2 DEF SocketOK, QueueOK
  <2>2. k.replay = {} /\ k.queue = conn[c].queue /\ k.since = conn[c].since /\ k.who = conn[c].who
    BY <1>1 DEF Socket
  <2> QED BY <2>1, <2>2 DEF NothingLost
<1> QED BY <1>1, <1>2, MovingOn DEF Subscribed

LEMMA ReplayNextInv == ASSUME StreamInv, NEW c \in Conns, ReplayNext(c) PROVE StreamInv'
<1>1. /\ conn[c] \in Socket /\ SocketOK(c, conn[c]) /\ conn[c].phase = "replay"
      /\ conn[c].phase \in Running /\ conn[c].phase \in Subscribed
  BY SocketFacts DEF ReplayNext, Running, Subscribed
<1>2. CASE ~ReplayLeft(c) /\ Handled(c, [conn[c] EXCEPT !.phase = "live"])
  <2>1. conn[c].replay = {} /\ conn[c].gap = FALSE
    BY <1>1, <1>2 DEF ReplayLeft, Socket
  <2>2. [conn[c] EXCEPT !.phase = "live"]
          = [conn[c] EXCEPT !.phase = "live", !.replay = {}, !.gap = FALSE]
    BY <1>1, <2>1 DEF Socket
  <2> QED BY <1>1, <1>2, <2>1, <2>2, PhaseStep
<1>3. CASE Handled(c, Refused(c))
  BY <1>1, <1>3, RefusedStep
<1>4. ASSUME conn[c].overflowed = TRUE,
             Handled(c, [conn[c] EXCEPT !.phase = "live", !.replay = {}, !.gap = FALSE])
      PROVE  StreamInv'
  BY <1>1, <1>4, PhaseStep
<1>5. CASE Handled(c, Resync(c))
  BY <1>1, <1>5, ResyncInv
<1>6. ASSUME ~conn[c].gap, Known(c), ~conn[c].overflowed, NEW s \in conn[c].replay,
             First(s, conn[c].replay), Handled(c, [Emitted(c, s) EXCEPT !.replay = @ \ {s}])
      PROVE  StreamInv'
  <2> DEFINE r == conn[c].replay \ {s}
             k == [Emitted(c, s) EXCEPT !.replay = @ \ {s}]
  <2>1. NothingLost(conn[c]) /\ conn[c].replay \in SUBSET Nat /\ conn[c].queue \in SUBSET Nat /\ s \in Nat
    BY <1>1, <1>6, SocketFacts DEF SocketOK, QueueOK
  <2>2. First(s, conn[c].replay \cup conn[c].queue) /\ s \notin conn[c].queue
    BY <1>6, <2>1 DEF First, NothingLost
  <2>3. r \cup conn[c].queue = (conn[c].replay \cup conn[c].queue) \ {s} /\ s \in conn[c].replay \cup conn[c].queue
        /\ r \subseteq conn[c].replay /\ r \in SUBSET Nat
    BY <1>6, <2>1, <2>2
  <2>4. k = Emits(c, s, "replay", r, conn[c].queue)
    BY <1>1 DEF Emits, Emitted, Sent, Socket
  <2>5. Handled(c, k)
    BY <1>6
  <2>6. "replay" \in {"replay", "live"} /\ conn[c].who \notin revoked
    BY <1>6 DEF Known
  <2>7. conn[c].overflowed = FALSE /\ conn[c].gap = FALSE
    BY <1>1, <1>6 DEF Socket
  <2> HIDE DEF r, k
  <2> QED BY <1>1, <2>1, <2>2, <2>3, <2>4, <2>5, <2>6, <2>7, Emitting
<1> QED BY <1>2, <1>3, <1>4, <1>5, <1>6 DEF ReplayNext

LEMMA WaitInv == ASSUME StreamInv, NEW c \in Conns, Wait(c) PROVE StreamInv'
<1>1. /\ conn[c] \in Socket /\ SocketOK(c, conn[c]) /\ conn[c].phase = "live"
      /\ conn[c].phase \in Running /\ conn[c].phase \in Subscribed
  BY SocketFacts DEF Wait, Running, Subscribed
<1>2. CASE Known(c)
  <2>1. conn[c].replay = {} /\ conn[c].gap = FALSE
    BY <1>1 DEF SocketOK, QueueOK, Socket
  <2>2. [conn[c] EXCEPT !.phase = "waiting"]
          = [conn[c] EXCEPT !.phase = "waiting", !.replay = {}, !.gap = FALSE]
    BY <1>1, <2>1 DEF Socket
  <2>3. Handled(c, [conn[c] EXCEPT !.phase = "waiting"])
    BY <1>2 DEF Wait
  <2> QED BY <1>1, <2>1, <2>2, <2>3, PhaseStep
<1>3. CASE ~Known(c)
  BY <1>1, <1>3, RefusedStep DEF Wait
<1> QED BY <1>2, <1>3

LEMMA WaitOverInv == ASSUME StreamInv, NEW c \in Conns, WaitOver(c) PROVE StreamInv'
<1>1. /\ conn[c] \in Socket /\ SocketOK(c, conn[c]) /\ conn[c].phase = "waiting"
      /\ conn[c].phase \in Subscribed
  BY SocketFacts DEF WaitOver, Subscribed
<1>2. conn[c].replay = {} /\ conn[c].gap = FALSE
  BY <1>1 DEF SocketOK, QueueOK, Socket
<1>3. [conn[c] EXCEPT !.phase = "live"]
        = [conn[c] EXCEPT !.phase = "live", !.replay = {}, !.gap = FALSE]
  BY <1>1, <1>2 DEF Socket
<1>4. Handled(c, [conn[c] EXCEPT !.phase = "live"])
  BY DEF WaitOver
<1> QED BY <1>1, <1>2, <1>3, <1>4, PhaseStep

LEMMA DeliverInv == ASSUME StreamInv, NEW c \in Conns, Deliver(c) PROVE StreamInv'
<1>1. /\ conn[c] \in Socket /\ SocketOK(c, conn[c]) /\ conn[c].phase = "waiting"
      /\ conn[c].phase \in Running /\ conn[c].phase \in Subscribed
  BY SocketFacts DEF Deliver, Running, Subscribed
<1>2. conn[c].replay = {} /\ ~conn[c].gap
  BY <1>1 DEF SocketOK, QueueOK
<1>3. CASE Handled(c, Refused(c))
  BY <1>1, <1>3, RefusedStep
<1>4. CASE Handled(c, Resync(c))
  BY <1>1, <1>4, ResyncInv
<1>5. ASSUME Known(c), ~conn[c].overflowed, NEW s \in conn[c].queue, First(s, conn[c].queue),
             Handled(c, [Emitted(c, s) EXCEPT !.phase = "live", !.queue = @ \ {s}])
      PROVE  StreamInv'
  <2> DEFINE r == {}  q == conn[c].queue \ {s}
             k == [Emitted(c, s) EXCEPT !.phase = "live", !.queue = @ \ {s}]
  <2>1. conn[c].queue \in SUBSET Nat /\ q \in SUBSET Nat /\ s \in Nat
    BY <1>5, SocketFacts
  <2>2. r \cup q = (conn[c].replay \cup conn[c].queue) \ {s}
        /\ s \in conn[c].replay \cup conn[c].queue /\ First(s, conn[c].replay \cup conn[c].queue)
    BY <1>2, <1>5
  <2>3. k = Emits(c, s, "live", r, q)
    BY <1>1, <1>2 DEF Emits, Emitted, Sent, Socket
  <2>4. Handled(c, k)
    BY <1>5
  <2>5. r \subseteq conn[c].replay /\ q \subseteq conn[c].queue /\ r \in SUBSET Nat
    OBVIOUS
  <2>6. /\ conn[c].overflowed = FALSE /\ conn[c].gap = FALSE /\ conn[c].who \notin revoked
        /\ "live" \in {"replay", "live"}
    BY <1>1, <1>2, <1>5 DEF Socket, Known
  <2> HIDE DEF q, k
  <2> QED BY <1>1, <2>1, <2>2, <2>3, <2>4, <2>5, <2>6, Emitting
<1> QED BY <1>3, <1>4, <1>5 DEF Deliver, Delivered

LEMMA CheckAuthInv == ASSUME StreamInv, NEW c \in Conns, CheckAuth(c) PROVE StreamInv'
  BY RefusedStep DEF CheckAuth, Registered, Running

LEMMA HangUpInv == ASSUME StreamInv, NEW c \in Conns, HangUp(c) PROVE StreamInv'
<1> DEFINE k == Idle(conn[c].who, FALSE, Afresh)
<1>1. conn[c].who \in Clients /\ troubles \in Nat /\ Handled(c, k)
  BY SocketFacts DEF HangUp
<1>2. k \in Socket /\ k.who = conn[c].who /\ k.phase = "free" /\ k.replay = {} /\ k.queue = {}
      /\ k.gap = FALSE /\ k.overflowed = FALSE /\ k.wire = <<>> /\ k.from = Afresh
  BY <1>1, IdleType, AfreshType DEF Idle
<1> HIDE DEF k
<1>3. FreshOK(c, k) /\ ChainOK(c, k) /\ QueueOK(k)
  BY <1>2 DEF FreshOK, ChainOK, QueueOK, WireOK, Running, Subscribed
<1>4. BoundsOK(k)
  <2>1. Afresh.inst # inst
    BY AfreshType DEF StreamInv, Runs
  <2> QED BY <1>2, <2>1, FS_EmptySet DEF BoundsOK, Running
<1> QED BY <1>1, <1>2, <1>3, <1>4, HandlerStep DEF SocketOK, Handled

LEMMA HandlerInv == ASSUME StreamInv, NEW c \in Conns, Handler(c) PROVE StreamInv'
  BY GreetInv, SubscribeInv, ReplayNextInv, WaitInv, WaitOverInv, DeliverInv, CheckAuthInv,
     HangUpInv DEF Handler

-----------------------------------------------------------------------------
(* The steps of a page *)

\* A socket that does not change, and whose page keeps listening as it did or stops.
LEMMA KeptSocket ==
  ASSUME StreamInv, NEW c \in Conns, conn'[c] = conn[c], UNCHANGED <<hubVars, authVars>>,
         \/ client'[conn[c].who].sock # c
         \/ /\ client'[conn[c].who].sock = client[conn[c].who].sock
            /\ client'[conn[c].who].from = client[conn[c].who].from
            /\ view'[conn[c].who] = view[conn[c].who]
  PROVE  SocketOK(c, conn[c])'
<1> DEFINE d == conn[c].who
<1>1. SocketOK(c, conn[c]) /\ conn'[c] = conn[c]
  BY SocketFacts
<1>2. FreshOK(c, conn[c])' /\ BoundsOK(conn[c])' /\ QueueOK(conn[c])'
  BY <1>1 DEF SocketOK, FreshOK, Heard, BoundsOK, QueueOK, NothingLost, Visible
<1>3. ChainOK(c, conn[c])'
  <2>1. CASE client'[d].sock # c
    BY <1>1, <2>1 DEF ChainOK, Heard
  <2>2. ASSUME client'[d].sock = client[d].sock, client'[d].from = client[d].from,
               view'[d] = view[d]
        PROVE  ChainOK(c, conn[c])'
    <3>1. ASSUME NEW m PROVE SnapshotOK(d, m) => SnapshotOK(d, m)'
      BY <1>1, <2>2 DEF SnapshotOK, StateAt, LastPatch
    <3>2. ASSUME NEW m, NEW b PROVE EventOK(d, m, b) => EventOK(d, m, b)'
      BY <1>1 DEF EventOK, NothingBetween, Visible
    <3>3. WireOK(d, conn[c].wire) => WireOK(d, conn[c].wire)'
      BY <1>1, <2>2, <3>1, <3>2 DEF WireOK
    <3>4. PumpOK(d, conn[c]) => PumpOK(d, conn[c])'
      BY <1>1, <2>2 DEF PumpOK
    <3> QED BY <1>1, <2>2, <3>3, <3>4 DEF SocketOK, ChainOK, Heard
  <2> QED BY <2>1, <2>2
<1> QED BY <1>1, <1>2, <1>3 DEF SocketOK

LEMMA TakenWire ==
  ASSUME UNCHANGED <<inst, log>>, NEW d, NEW w \in Seq(Message), NEW v, w # <<>>, v = Tail(w),
         WireOK(d, w), w[1].kind \in Carries,
         client'[d].from = [inst |-> inst, cursor |-> w[1].seq]
  PROVE  WireOK(d, v)'
<1>1. /\ v \in Seq(Message) /\ Len(v) = Len(w) - 1 /\ Len(w) \in Nat /\ Len(v) \in Nat
      /\ \A i \in 1..Len(w) - 1 : v[i] = w[i + 1] /\ i + 1 \in 1..Len(w)
  BY Shifted
<1>2. ASSUME NEW x, NEW b PROVE EventOK(d, x, b) => EventOK(d, x, b)'
  BY DEF EventOK, NothingBetween, Visible
<1>3. ASSUME NEW i \in 1..Len(v)
      PROVE  /\ v[i].kind \notin {"snapshot", "ready"}
             /\ v[i].kind = "event" => w[i].kind \in Carries /\ EventOK(d, v[i], w[i].seq)'
             /\ i # 1 => v[i - 1] = w[i]
  <2>1. i + 1 \in 1..Len(w) /\ i + 1 # 1 /\ v[i] = w[i + 1] /\ (i + 1) - 1 = i
    BY <1>1
  <2>2. v[i].kind \notin {"snapshot", "ready"}
        /\ (v[i].kind = "event" => w[i].kind \in Carries /\ EventOK(d, v[i], w[i].seq))
    BY <2>1 DEF WireOK
  <2>3. i # 1 => i - 1 \in 1..Len(w) - 1 /\ (i - 1) + 1 = i
    BY <1>1
  <2> QED BY <1>1, <1>2, <2>2, <2>3
<1>4. client'[d].from.inst = inst' /\ client'[d].from.cursor = w[1].seq
  OBVIOUS
<1> QED BY <1>3, <1>4 DEF WireOK

\* The page takes the next message off the wire: it stops listening, or it has moved
\* to the message's cursor.
Taken(k) == [k EXCEPT !.wire = Tail(@)]

LEMMA TakenSocket ==
  ASSUME StreamInv, NEW c \in Conns, NEW m, conn[c].wire # <<>>, m = Head(conn[c].wire),
         conn'[c] = Taken(conn[c]), UNCHANGED <<hubVars, authVars>>,
         \/ client'[conn[c].who].sock # c
         \/ /\ Heard(c, conn[c]) /\ m.kind \in Carries
            /\ client'[conn[c].who].from = [inst |-> inst, cursor |-> m.seq]
  PROVE  SocketOK(c, conn[c])'
<1> DEFINE d == conn[c].who  w == conn[c].wire  v == Tail(conn[c].wire)
<1>1. /\ conn[c] \in Socket /\ SocketOK(c, conn[c]) /\ w \in Seq(Message) /\ d \in Clients
      /\ inst \in Nat
  BY SocketFacts
<1>2. /\ v \in Seq(Message) /\ Len(v) = Len(w) - 1 /\ m = w[1] /\ 1 \in 1..Len(w)
      /\ Len(w) \in Nat /\ Len(v) \in Nat /\ w # <<>>
      /\ \A i \in 1..Len(w) - 1 : v[i] = w[i + 1] /\ i + 1 \in 1..Len(w)
  BY <1>1, Shifted
<1> HIDE DEF v
<1>3. /\ conn'[c] \in Socket /\ conn'[c].who = d /\ conn'[c].phase = conn[c].phase
      /\ conn'[c].replay = conn[c].replay /\ conn'[c].gap = conn[c].gap
      /\ conn'[c].queue = conn[c].queue /\ conn'[c].overflowed = conn[c].overflowed
      /\ conn'[c].since = conn[c].since /\ conn'[c].wire = v /\ conn'[c].from = conn[c].from
  BY <1>1, <1>2 DEF Socket, Taken, v
<1>4. FreshOK(c, conn[c])'
  BY <1>1, <1>3 DEF SocketOK, FreshOK
<1>5. QueueOK(conn[c])'
  BY <1>1, <1>3 DEF SocketOK, QueueOK, NothingLost, Visible
<1>6. BoundsOK(conn[c])'
  <2>1. \A i \in 1..Len(w) : w[i].kind = "event" =>
          w[i].seq <= EventCursor /\ (d \in revoked => w[i].seq <= until[d])
    BY <1>1 DEF SocketOK, BoundsOK
  <2>2. \A i \in 1..Len(v) : v[i].kind = "event" =>
          v[i].seq <= EventCursor /\ (d \in revoked => v[i].seq <= until[d])
    BY <1>2, <2>1
  <2> QED BY <1>1, <1>3, <2>2 DEF SocketOK, BoundsOK
<1>7. ChainOK(c, conn[c])'
  <2>1. CASE client'[d].sock # c
    BY <1>3, <2>1 DEF ChainOK, Heard
  <2>2. ASSUME Heard(c, conn[c]), m.kind \in Carries,
               client'[d].from = [inst |-> inst, cursor |-> m.seq]
        PROVE  ChainOK(c, conn[c])'
    <3>1. WireOK(d, w) /\ (conn[c].phase \in Running => PumpOK(d, conn[c]))
      BY <1>1, <2>2 DEF SocketOK, ChainOK
    <3>2. WireOK(conn[c].who, conn[c].wire)'
      BY <1>1, <1>2, <1>3, <2>2, <3>1, TakenWire DEF v
    <3>3. conn[c].phase \in Running => PumpOK(conn[c].who, conn[c])'
      <4>1. v = <<>> => w[Len(w)] = m
        BY <1>1, <1>2
      <4>2. v # <<>> => v[Len(v)] = w[Len(w)]
        <5>1. ASSUME v # <<>> PROVE Len(v) \in 1..Len(w) - 1 /\ Len(v) + 1 = Len(w)
          BY <1>2, <5>1
        <5> QED BY <1>2, <5>1
      <4> QED BY <1>1, <1>2, <1>3, <2>2, <3>1, <4>1, <4>2 DEF PumpOK
    <3> QED BY <1>3, <3>2, <3>3 DEF ChainOK
  <2> QED BY <2>1, <2>2
<1> QED BY <1>3, <1>4, <1>5, <1>6, <1>7 DEF SocketOK

LEMMA BlankType == Blank \in [inst : Nat, top : [Topics -> Nat]] /\ Blank.inst = 0
  BY NoPatchType DEF Blank

LEMMA PageFacts ==
  ASSUME StreamInv, NEW d \in Clients
  PROVE  /\ client[d] \in Listener
         /\ view[d] \in [inst : Nat, top : [Topics -> Nat]]
         /\ client[d].from \in Resume /\ client[d].from.inst <= inst /\ view[d].inst <= inst
         /\ PageOK(d) /\ inst \in Nat /\ inst > 0 /\ troubles \in Nat
         /\ client[d].sock \in Conns => conn[client[d].sock].who = d
  BY DEF StreamInv, TypeOK, Runs, Pages, Owners, Listener

LEMMA ListenerStep ==
  ASSUME StreamInv, NEW d \in Clients, NEW r \in Listener, client' = [client EXCEPT ![d] = r]
  PROVE  /\ client' \in [Clients -> Listener] /\ client'[d] = r
         /\ \A e \in Clients \ {d} : client'[e] = client[e]
  BY DEF StreamInv, TypeOK

\* A step of the page d leaves the hub alone; its sockets, its own state and the owner
\* of its socket are what it has to answer for.
LEMMA PageStep ==
  ASSUME StreamInv, NEW d \in Clients, UNCHANGED <<hubVars, authVars>>, troubles' \in Nat,
         client' \in [Clients -> Listener],
         view' \in [Clients -> [inst : Nat, top : [Topics -> Nat]]],
         \A e \in Clients \ {d} : client'[e] = client[e] /\ view'[e] = view[e],
         DOMAIN conn' = Conns, conn' = [c \in Conns |-> conn'[c]],
         \A c \in Conns : SocketOK(c, conn[c])',
         \A c \in Conns : conn'[c].who # conn[c].who => \A e \in Clients : client[e].sock # c,
         client'[d].sock \in Conns => conn'[client'[d].sock].who = d,
         client'[d].from.inst <= inst /\ view'[d].inst <= inst, PageOK(d)'
  PROVE  StreamInv'
<1>1. Sockets'
  BY DEF Sockets
<1>2. TypeOK'
  <2>1. \A c \in Conns : conn'[c] \in Socket /\ Cardinality(conn'[c].queue) <= QueueLimit
    BY <1>1 DEF Sockets, SocketOK, BoundsOK
  <2> QED BY <2>1 DEF StreamInv, TypeOK
<1>3. Owners'
  <2>1. ASSUME NEW e \in Clients \ {d}, client'[e].sock \in Conns
        PROVE  conn'[client'[e].sock].who = e
    BY <2>1 DEF StreamInv, Owners
  <2> QED BY <2>1 DEF Owners
<1>4. Runs' /\ HostNow'
  BY DEF StreamInv, Runs, HostNow, StateAt, LastPatch
<1>5. Pages'
  <2>1. ASSUME NEW e \in Clients \ {d} PROVE PageOK(e)'
    <3>1. PageOK(e) /\ client'[e] = client[e] /\ view'[e] = view[e] /\ inst' = inst /\ log' = log
      BY <2>1 DEF StreamInv, Pages
    <3> QED BY <3>1 DEF PageOK, StateAt, LastPatch
  <2> QED BY <2>1 DEF Pages
<1> QED BY <1>1, <1>2, <1>3, <1>4, <1>5 DEF StreamInv

\* The page keeps its state and at most gives up its socket.
LEMMA LetGo ==
  ASSUME StreamInv, NEW d \in Clients, UNCHANGED <<hubVars, authVars, conn>>, troubles' \in Nat,
         client' \in [Clients -> Listener],
         view' \in [Clients -> [inst : Nat, top : [Topics -> Nat]]],
         \A e \in Clients \ {d} : client'[e] = client[e] /\ view'[e] = view[e],
         \/ client'[d].sock = NoConn
         \/ client'[d].sock = client[d].sock /\ client'[d].from = client[d].from /\ view'[d] = view[d],
         \/ client'[d].from = client[d].from /\ view'[d] = view[d]
         \/ client'[d].from = Afresh /\ view'[d] = Blank
  PROVE  StreamInv'
<1>1. ASSUME NEW c \in Conns PROVE SocketOK(c, conn[c])'
  <2>1. conn[c].who \in Clients /\ conn'[c] = conn[c] /\ c # NoConn
    BY SocketFacts
  <2> QED BY <2>1, KeptSocket
<1>2. client'[d].sock \in Conns => conn'[client'[d].sock].who = d
  BY PageFacts
<1>3. client'[d].from.inst <= inst /\ view'[d].inst <= inst
  BY PageFacts, BlankType, AfreshType
<1>4. PageOK(d)'
  <2>1. CASE client'[d].from = client[d].from /\ view'[d] = view[d]
    BY <2>1, PageFacts DEF PageOK, StateAt, LastPatch
  <2>2. CASE client'[d].from = Afresh /\ view'[d] = Blank
    BY <2>2, PageFacts, BlankType, AfreshType DEF PageOK
  <2> QED BY <2>1, <2>2
<1>5. DOMAIN conn' = Conns /\ conn' = [c \in Conns |-> conn'[c]]
  BY DEF StreamInv, TypeOK
<1> QED BY <1>1, <1>2, <1>3, <1>4, <1>5, PageStep

LEMMA UnpairedInv == ASSUME StreamInv, NEW d \in Clients, Unpaired(d) PROVE StreamInv'
<1> DEFINE r == [client[d] EXCEPT !.stopped = TRUE]
<1>1. client' = [client EXCEPT ![d] = r] /\ UNCHANGED <<hubVars, conn, view, authVars, troubles>>
  BY DEF Unpaired
<1>2. r \in Listener /\ r.sock = client[d].sock /\ r.from = client[d].from
  BY PageFacts DEF Listener
<1> HIDE DEF r
<1>3. /\ client' \in [Clients -> Listener] /\ client'[d] = r
      /\ \A e \in Clients \ {d} : client'[e] = client[e]
  BY <1>1, <1>2, ListenerStep
<1>4. view' \in [Clients -> [inst : Nat, top : [Topics -> Nat]]] /\ troubles' \in Nat
  BY <1>1 DEF StreamInv, TypeOK
<1> QED BY <1>1, <1>2, <1>3, <1>4, LetGo

LEMMA DropInv == ASSUME StreamInv, NEW d \in Clients, Drop(d) PROVE StreamInv'
<1>1. client' = [client EXCEPT ![d].sock = NoConn]
      /\ UNCHANGED <<hubVars, conn, view, authVars, troubles>>
  BY DEF Drop
<1> DEFINE r == [client[d] EXCEPT !.sock = NoConn]
<1>2. r \in Listener /\ r.sock = NoConn /\ r.from = client[d].from
  BY PageFacts DEF Listener
<1>3. client' = [client EXCEPT ![d] = r]
  BY <1>1
<1> HIDE DEF r
<1>4. /\ client' \in [Clients -> Listener] /\ client'[d] = r
      /\ \A e \in Clients \ {d} : client'[e] = client[e]
  BY <1>2, <1>3, ListenerStep
<1>5. view' \in [Clients -> [inst : Nat, top : [Topics -> Nat]]] /\ troubles' \in Nat
  BY <1>1 DEF StreamInv, TypeOK
<1> QED BY <1>1, <1>2, <1>4, <1>5, LetGo

LEMMA ReloadInv == ASSUME StreamInv, NEW d \in Clients, Reload(d) PROVE StreamInv'
<1>1. /\ client' = [client EXCEPT ![d].sock = NoConn, ![d].from = Afresh]
      /\ view' = [view EXCEPT ![d] = Blank]
      /\ troubles' = troubles + 1 /\ UNCHANGED <<hubVars, conn, authVars>>
  BY DEF Reload, Trouble
<1>2. /\ client' \in [Clients -> Listener]
      /\ client'[d].sock = NoConn /\ client'[d].from = Afresh
      /\ \A e \in Clients \ {d} : client'[e] = client[e]
  <2> DEFINE r == [client[d] EXCEPT !.sock = NoConn, !.from = Afresh]
  <2>1. r \in Listener /\ r.sock = NoConn /\ r.from = Afresh
    BY PageFacts, AfreshType DEF Listener
  <2>2. client' = [client EXCEPT ![d] = r]
    BY <1>1
  <2> HIDE DEF r
  <2> QED BY <2>1, <2>2, ListenerStep
<1>3. /\ view' \in [Clients -> [inst : Nat, top : [Topics -> Nat]]] /\ view'[d] = Blank
      /\ \A e \in Clients \ {d} : view'[e] = view[e]
  BY <1>1, BlankType DEF StreamInv, TypeOK
<1>4. troubles' \in Nat
  BY <1>1, PageFacts
<1> QED BY <1>1, <1>2, <1>3, <1>4, LetGo

LEMMA ConnectInv == ASSUME StreamInv, NEW d \in Clients, NEW c \in Conns, Connect(d, c)
                    PROVE  StreamInv'
<1> DEFINE k == [Idle(d, TRUE, client[d].from) EXCEPT !.phase = "accepted"]
<1>1. /\ client[d].from \in Resume /\ client[d].sock = NoConn
      /\ conn' = [conn EXCEPT ![c] = k] /\ client' = [client EXCEPT ![d].sock = c]
      /\ UNCHANGED <<hubVars, view, authVars, troubles>>
      /\ \A e \in Clients : client[e].sock # c
  BY PageFacts DEF Connect, Unused
<1>2. /\ k \in Socket /\ k.who = d /\ k.phase = "accepted" /\ k.replay = {} /\ k.queue = {}
      /\ k.gap = FALSE /\ k.overflowed = FALSE /\ k.wire = <<>> /\ k.from = client[d].from
  BY <1>1, IdleType DEF Idle, Socket, Phases
<1> HIDE DEF k
<1>3. /\ conn'[c] = k /\ \A b \in Conns \ {c} : conn'[b] = conn[b]
      /\ client'[d].sock = c /\ client'[d].from = client[d].from
      /\ \A e \in Clients \ {d} : client'[e] = client[e]
      /\ DOMAIN conn' = Conns /\ conn' = [b \in Conns |-> conn'[b]]
  <2>1. conn'[c] = k /\ (\A b \in Conns \ {c} : conn'[b] = conn[b])
        /\ DOMAIN conn' = Conns /\ conn' = [b \in Conns |-> conn'[b]]
    BY <1>1 DEF StreamInv, TypeOK
  <2>2. client'[d].sock = c /\ client'[d].from = client[d].from
        /\ \A e \in Clients \ {d} : client'[e] = client[e]
    BY <1>1 DEF StreamInv, TypeOK
  <2> QED BY <2>1, <2>2
<1>4. SocketOK(c, conn[c])'
  <2>1. FreshOK(c, conn[c])' /\ ChainOK(c, conn[c])' /\ QueueOK(conn[c])'
    BY <1>2, <1>3 DEF FreshOK, ChainOK, QueueOK, WireOK, Running, Subscribed
  <2>2. BoundsOK(conn[c])'
    <3>1. IsFiniteSet(conn'[c].queue) /\ Cardinality(conn'[c].queue) <= QueueLimit
      <4>1. IsFiniteSet(k.queue) /\ Cardinality(k.queue) <= QueueLimit
        BY <1>2, FS_EmptySet
      <4> QED BY <1>3, <4>1
    <3>2. conn'[c].replay = {} /\ conn'[c].queue = {} /\ conn'[c].wire = <<>>
      BY <1>2, <1>3
    <3>3. conn'[c].from.inst = inst' => conn'[c].from.cursor <= EventCursor'
      BY <1>1, <1>2, <1>3, PageFacts DEF PageOK
    <3>4. conn'[c].phase \notin Running
      BY <1>2, <1>3 DEF Running
    <3> QED BY <3>1, <3>2, <3>3, <3>4 DEF BoundsOK
  <2> QED BY <1>2, <1>3, <2>1, <2>2 DEF SocketOK
<1>5. ASSUME NEW b \in Conns \ {c} PROVE SocketOK(b, conn[b])'
  <2>1. conn[b].who \in Clients
    BY SocketFacts
  <2> QED BY <1>1, <1>3, <2>1, KeptSocket
<1>6. PageOK(d)'
  BY <1>1, <1>3, PageFacts DEF PageOK, StateAt, LastPatch
<1>7. /\ troubles' \in Nat /\ view' \in [Clients -> [inst : Nat, top : [Topics -> Nat]]]
      /\ \A e \in Clients : view'[e] = view[e]
  BY <1>1 DEF StreamInv, TypeOK
<1>8. client' \in [Clients -> Listener]
  <2> DEFINE r == [client[d] EXCEPT !.sock = c]
  <2>1. r \in Listener
    BY PageFacts DEF Listener
  <2>2. client' = [client EXCEPT ![d] = r]
    BY <1>1
  <2> HIDE DEF r
  <2> QED BY <2>1, <2>2, ListenerStep
<1>9. client'[d].from.inst <= inst /\ view'[d].inst <= inst
  BY <1>3, <1>7, PageFacts
<1>10. \A b \in Conns : SocketOK(b, conn[b])'
  BY <1>4, <1>5
<1>11. conn'[client'[d].sock].who = d
  BY <1>2, <1>3
<1>12. \A b \in Conns : conn'[b].who # conn[b].who => \A e \in Clients : client[e].sock # b
  BY <1>1, <1>3
<1> HIDE DEF k
<1> QED BY <1>1, <1>3, <1>6, <1>7, <1>8, <1>9, <1>10, <1>11, <1>12, PageStep

\* What Reads says of the page that reads.
LEMMA Reading ==
  ASSUME StreamInv, NEW d \in Clients, NEW m, Reads(d, m)
  PROVE  /\ client[d].sock \in Conns /\ conn[client[d].sock].who = d
         /\ Heard(client[d].sock, conn[client[d].sock])
         /\ conn[client[d].sock].wire # <<>> /\ m = Head(conn[client[d].sock].wire)
         /\ m = conn[client[d].sock].wire[1] /\ m \in Message
         /\ 1 \in 1..Len(conn[client[d].sock].wire)
         /\ m.kind = "snapshot" => SnapshotOK(d, m)
         /\ m.kind = "ready" => client[d].from = [inst |-> inst, cursor |-> m.seq]
         /\ m.kind = "event" =>
              client[d].from.inst = inst /\ EventOK(d, m, client[d].from.cursor)
         /\ conn' = [conn EXCEPT ![client[d].sock].wire = Tail(@)]
         /\ UNCHANGED <<hubVars, authVars, troubles>>
<1> DEFINE c == client[d].sock
<1>1. /\ c \in Conns /\ conn[c].wire # <<>> /\ m = Head(conn[c].wire)
      /\ conn' = [conn EXCEPT ![c].wire = Tail(@)] /\ UNCHANGED <<hubVars, authVars, troubles>>
  BY DEF Reads
<1>2. conn[c].who = d
  BY <1>1, PageFacts
<1>3. SocketOK(c, conn[c]) /\ conn[c].wire \in Seq(Message)
  BY <1>1, SocketFacts
<1>4. Heard(c, conn[c]) /\ WireOK(d, conn[c].wire)
  BY <1>2, <1>3 DEF Heard, SocketOK, ChainOK
<1>5. 1 \in 1..Len(conn[c].wire) /\ conn[c].wire[1] = m /\ m \in Message
  BY <1>1, <1>3, Shifted
<1>6. /\ m.kind = "snapshot" => SnapshotOK(d, m)
      /\ m.kind = "ready" => client[d].from = [inst |-> inst, cursor |-> m.seq]
      /\ m.kind = "event" =>
           client[d].from.inst = inst /\ EventOK(d, m, client[d].from.cursor)
  BY <1>4, <1>5 DEF WireOK
<1> QED BY <1>1, <1>2, <1>4, <1>5, <1>6

\* After reading, the page has to be at the message's cursor, or to have let go.
LEMMA ReadStep ==
  ASSUME StreamInv, NEW d \in Clients, NEW m, Reads(d, m),
         client' \in [Clients -> Listener],
         view' \in [Clients -> [inst : Nat, top : [Topics -> Nat]]],
         \A e \in Clients \ {d} : client'[e] = client[e] /\ view'[e] = view[e],
         \/ client'[d].sock = NoConn
         \/ /\ client'[d].sock = client[d].sock /\ m.kind \in Carries
            /\ client'[d].from = [inst |-> inst, cursor |-> m.seq],
         client'[d].from.inst <= inst /\ view'[d].inst <= inst, PageOK(d)'
  PROVE  StreamInv'
<1> PICK c \in Conns : c = client[d].sock
  BY Reading
<1>1. /\ c = client[d].sock /\ conn[c].who = d /\ Heard(c, conn[c]) /\ conn[c].wire # <<>>
      /\ m = Head(conn[c].wire) /\ conn' = [conn EXCEPT ![c].wire = Tail(@)]
      /\ UNCHANGED <<hubVars, authVars, troubles>>
  BY Reading
<1>2. /\ conn'[c] = Taken(conn[c])
      /\ \A b \in Conns \ {c} : conn'[b] = conn[b]
      /\ DOMAIN conn' = Conns /\ conn' = [b \in Conns |-> conn'[b]]
  BY <1>1 DEF StreamInv, TypeOK, Taken
<1>3. SocketOK(c, conn[c])'
  <2>1. \/ client'[conn[c].who].sock # c
        \/ /\ Heard(c, conn[c]) /\ m.kind \in Carries
           /\ client'[conn[c].who].from = [inst |-> inst, cursor |-> m.seq]
    BY <1>1
  <2> QED BY <1>1, <1>2, <2>1, TakenSocket
<1>4. ASSUME NEW b \in Conns \ {c} PROVE SocketOK(b, conn[b])'
  <2>1. conn[b].who \in Clients /\ b # NoConn
    BY SocketFacts
  <2>2. conn[b].who = d => client'[d].sock # b
    BY <1>1, <2>1
  <2> QED BY <1>1, <1>2, <2>1, <2>2, KeptSocket
<1>5. \A b \in Conns : conn'[b].who = conn[b].who
  <2>1. Taken(conn[c]).who = conn[c].who
    BY SocketFacts DEF Socket, Taken
  <2> QED BY <1>2, <2>1
<1>6. client'[d].sock \in Conns => conn'[client'[d].sock].who = d
  BY <1>1, <1>5
<1>7. troubles' \in Nat
  BY <1>1, PageFacts
<1>8. \A b \in Conns : SocketOK(b, conn[b])'
  BY <1>1, <1>3, <1>4
<1> QED BY <1>1, <1>2, <1>5, <1>6, <1>7, <1>8, PageStep

LEMMA OnSnapshotInv == ASSUME StreamInv, NEW d \in Clients, NEW m, OnSnapshot(d, m) PROVE StreamInv'
<1> DEFINE r == [client[d] EXCEPT !.from = [inst |-> inst, cursor |-> m.seq]]
           u == [inst |-> inst, top |-> m.top]
<1>1. /\ Reads(d, m) /\ m.kind = "snapshot" /\ m.kind \in Carries
      /\ client' = [client EXCEPT ![d] = r] /\ view' = [view EXCEPT ![d] = u]
  BY DEF OnSnapshot, Carries
<1>2. m \in Message /\ UNCHANGED hubVars /\ SnapshotOK(d, m)
  BY <1>1, Reading
<1>3. /\ m.seq \in Nat /\ m.top \in [Topics -> Nat] /\ m.seq <= EventCursor
      /\ StateAt(m.seq, m.top) /\ inst \in Nat /\ EventCursor \in Nat
  BY <1>2, PageFacts, LogTypes DEF SnapshotOK, Message, StreamInv
<1>4. r \in Listener /\ r.sock = client[d].sock /\ r.from = [inst |-> inst, cursor |-> m.seq]
  BY <1>3, PageFacts DEF Listener, Resume
<1>5. u \in [inst : Nat, top : [Topics -> Nat]] /\ u.inst = inst /\ u.top = m.top
  BY <1>3
<1> HIDE DEF r, u
<1>6. /\ client' \in [Clients -> Listener] /\ client'[d] = r
      /\ \A e \in Clients \ {d} : client'[e] = client[e]
  BY <1>1, <1>4, ListenerStep
<1>7. /\ view' \in [Clients -> [inst : Nat, top : [Topics -> Nat]]] /\ view'[d] = u
      /\ \A e \in Clients \ {d} : view'[e] = view[e]
  BY <1>1, <1>5 DEF StreamInv, TypeOK
<1>8. PageOK(d)'
  <2>1. \A t \in Topics : m.top[t] <= EventCursor
    BY <1>3 DEF StateAt, LastPatch
  <2> QED BY <1>2, <1>3, <1>4, <1>5, <1>6, <1>7, <2>1 DEF PageOK, StateAt, LastPatch
<1> QED BY <1>1, <1>3, <1>4, <1>5, <1>6, <1>7, <1>8, ReadStep

LEMMA OnReadyInv == ASSUME StreamInv, NEW d \in Clients, NEW m, OnReady(d, m) PROVE StreamInv'
<1> DEFINE r == [client[d] EXCEPT !.from = [inst |-> inst, cursor |-> m.seq]]
<1>1. /\ Reads(d, m) /\ m.kind = "ready" /\ m.kind \in Carries
      /\ client' = [client EXCEPT ![d] = r] /\ view' = view
  BY DEF OnReady, Carries
<1>2. /\ UNCHANGED hubVars
      /\ client[d].from = [inst |-> inst, cursor |-> m.seq]
  BY <1>1, Reading
<1>3. r \in Listener /\ r.sock = client[d].sock /\ r.from = client[d].from
  BY <1>2, PageFacts DEF Listener
<1> HIDE DEF r
<1>4. /\ client' \in [Clients -> Listener] /\ client'[d] = r
      /\ \A e \in Clients \ {d} : client'[e] = client[e]
  BY <1>1, <1>3, ListenerStep
<1>5. view' \in [Clients -> [inst : Nat, top : [Topics -> Nat]]] /\ view'[d] = view[d]
  BY <1>1 DEF StreamInv, TypeOK
<1>6. PageOK(d)'
  BY <1>2, <1>3, <1>4, <1>5, PageFacts DEF PageOK, StateAt, LastPatch
<1> QED BY <1>1, <1>2, <1>3, <1>4, <1>5, <1>6, PageFacts, ReadStep

\* Merging the patch of the next visible event leads from one state of the host to another.
LEMMA Merged ==
  ASSUME TypeOK, NEW d \in Clients, NEW a \in Nat, NEW n \in Nat, NEW top \in [Topics -> Nat],
         StateAt(a, top), a < n, n <= EventCursor, NothingBetween(a, n, d), NEW new,
         new = IF log[n].topic \in Topics THEN [top EXCEPT ![log[n].topic] = n] ELSE top
  PROVE  new \in [Topics -> Nat] /\ StateAt(n, new) /\ \A t \in Topics : top[t] <= new[t]
<1>1. new \in [Topics -> Nat]
  OBVIOUS
<1>2. ASSUME NEW t \in Topics PROVE LastPatch(n, t, new[t]) /\ top[t] <= new[t]
  <2>1. LastPatch(a, t, top[t]) /\ top[t] \in 0..a
    BY DEF StateAt, LastPatch
  <2>2. CASE log[n].topic = t
    <3>1. new[t] = n
      BY <2>2
    <3> QED BY <2>1, <2>2, <3>1 DEF LastPatch
  <2>3. CASE log[n].topic # t
    <3>1. new[t] = top[t]
      BY <2>3
    <3>2. ASSUME NEW q \in a + 1 .. n - 1 PROVE log[q].topic # t
      <4>1. q \in 1..EventCursor /\ ~Visible(q, d) /\ EventCursor \in Nat
        BY LogTypes DEF NothingBetween
      <4>2. log[q] \in Events /\ log[q].target # All
        BY <4>1, LogTypes DEF Visible
      <4> QED BY <4>2, EventsAssumption
    <3>3. \A q \in top[t] + 1 .. n : q \in top[t] + 1 .. a \/ q \in a + 1 .. n - 1 \/ q = n
      BY <2>1
    <3> QED BY <2>1, <2>3, <3>1, <3>2, <3>3 DEF LastPatch
  <2> QED BY <2>2, <2>3
<1> QED BY <1>1, <1>2 DEF StateAt

MovedTo(d, top) == view' = [view EXCEPT ![d] = [inst |-> inst, top |-> top]]

\* What an event does to the page that reads it.
LEMMA EventRead ==
  ASSUME StreamInv, NEW d \in Clients, NEW m, OnEvent(d, m)
  PROVE  /\ Reads(d, m) /\ m.seq \in Nat /\ m.seq <= EventCursor /\ m.kind \in Carries
         /\ client[d].from.inst = inst /\ view[d].inst = inst
         /\ client'[d].from = [inst |-> inst, cursor |-> m.seq]
         /\ client'[d].sock = client[d].sock /\ client' \in [Clients -> Listener]
         /\ \A e \in Clients \ {d} : client'[e] = client[e]
         /\ view' \in [Clients -> [inst : Nat, top : [Topics -> Nat]]] /\ view'[d].inst = inst
         /\ MovedTo(d, view'[d].top) /\ \A e \in Clients \ {d} : view'[e] = view[e]
         /\ StateAt(m.seq, view'[d].top)
         /\ \A t \in Topics : view[d].top[t] <= view'[d].top[t]
<1> DEFINE from == [client[d].from EXCEPT !.cursor = m.seq]
           r == [client[d] EXCEPT !.from = from]
           n == m.seq
           new == IF log[n].topic \in Topics THEN [view[d].top EXCEPT ![log[n].topic] = n]
                                             ELSE view[d].top
<1>1. Reads(d, m) /\ m.kind = "event" /\ m.kind \in Carries /\ m \in Message
  BY Reading DEF OnEvent, Carries
<1>2. client[d].from.inst = inst /\ EventOK(d, m, client[d].from.cursor)
  BY <1>1, Reading
<1>3. /\ PageOK(d) /\ client[d].from \in Resume /\ client[d] \in Listener
      /\ view[d] \in [inst : Nat, top : [Topics -> Nat]] /\ TypeOK
  BY PageFacts DEF StreamInv
<1>4. /\ view[d].inst = inst /\ StateAt(client[d].from.cursor, view[d].top)
      /\ client[d].from.cursor \in Nat /\ view[d].top \in [Topics -> Nat]
  BY <1>2, <1>3 DEF PageOK, Resume
<1>5. /\ n \in Nat /\ n <= EventCursor /\ client[d].from.cursor < n
      /\ NothingBetween(client[d].from.cursor, n, d)
  BY <1>1, <1>2 DEF EventOK, Message
<1> HIDE DEF n
<1>6. /\ new \in [Topics -> Nat] /\ StateAt(n, new)
      /\ \A t \in Topics : view[d].top[t] <= new[t]
  BY <1>3, <1>4, <1>5, Merged
<1>7. client' = [client EXCEPT ![d] = r]
  BY DEF OnEvent, n
<1>8. from = [inst |-> inst, cursor |-> n] /\ from \in Resume
  BY <1>2, <1>3, <1>5 DEF Resume, n
<1>9. view' = [view EXCEPT ![d] = [inst |-> inst, top |-> new]]
  <2>1. CASE log[n].topic \in Topics
    <3>1. view' = [view EXCEPT ![d] = [view[d] EXCEPT !.top = new]]
      BY <2>1 DEF OnEvent, n
    <3>2. [view[d] EXCEPT !.top = new] = [inst |-> inst, top |-> new]
      BY <1>3, <1>4, <1>6
    <3> QED BY <3>1, <3>2
  <2>2. CASE log[n].topic \notin Topics
    <3>1. view' = view /\ new = view[d].top
      BY <2>2 DEF OnEvent, n
    <3>2. view[d] = [inst |-> inst, top |-> new]
      BY <1>3, <1>4, <3>1
    <3> QED BY <1>3, <3>1, <3>2 DEF TypeOK
  <2> QED BY <2>1, <2>2
<1> HIDE DEF new, from
<1>10. r \in Listener /\ r.sock = client[d].sock /\ r.from = from
  BY <1>3, <1>8 DEF Listener
<1> HIDE DEF r
<1>11. /\ client' \in [Clients -> Listener] /\ client'[d] = r
       /\ \A e \in Clients \ {d} : client'[e] = client[e]
  BY <1>7, <1>10, ListenerStep
<1>12. view'[d] = [inst |-> inst, top |-> new]
       /\ view' \in [Clients -> [inst : Nat, top : [Topics -> Nat]]]
  BY <1>3, <1>4, <1>6, <1>9 DEF TypeOK
<1>13. view'[d].top = new /\ view'[d].inst = inst
  BY <1>12
<1>14. MovedTo(d, view'[d].top) /\ \A e \in Clients \ {d} : view'[e] = view[e]
  BY <1>3, <1>9, <1>13 DEF MovedTo, TypeOK
<1> QED BY <1>1, <1>2, <1>4, <1>5, <1>6, <1>8, <1>9, <1>10, <1>11, <1>12, <1>13, <1>14 DEF n

LEMMA OnEventInv == ASSUME StreamInv, NEW d \in Clients, NEW m, OnEvent(d, m) PROVE StreamInv'
<1>1. /\ Reads(d, m) /\ m.seq \in Nat /\ m.seq <= EventCursor /\ m.kind \in Carries
      /\ client'[d].from = [inst |-> inst, cursor |-> m.seq]
      /\ client'[d].sock = client[d].sock /\ client' \in [Clients -> Listener]
      /\ \A e \in Clients \ {d} : client'[e] = client[e]
  BY EventRead
<1>2. /\ view' \in [Clients -> [inst : Nat, top : [Topics -> Nat]]] /\ view'[d].inst = inst
      /\ StateAt(m.seq, view'[d].top) /\ \A e \in Clients \ {d} : view'[e] = view[e]
  BY EventRead
<1>3. UNCHANGED hubVars /\ EventCursor \in Nat /\ inst \in Nat
  BY <1>1, Reading, PageFacts, LogTypes DEF StreamInv
<1>4. PageOK(d)'
  <2>1. \A t \in Topics : view'[d].top[t] \in 0..m.seq
    BY <1>2 DEF StateAt, LastPatch
  <2>2. \A t \in Topics : view'[d].top[t] <= EventCursor
    BY <1>1, <1>3, <2>1
  <2> QED BY <1>1, <1>2, <1>3, <2>2 DEF PageOK, StateAt, LastPatch
<1>5. client'[d].from.inst <= inst /\ view'[d].inst <= inst
  BY <1>1, <1>2, <1>3
<1> QED BY <1>1, <1>2, <1>4, <1>5, ReadStep

LEMMA OnResyncInv == ASSUME StreamInv, NEW d \in Clients, NEW m, OnResync(d, m) PROVE StreamInv'
<1> DEFINE r == [client[d] EXCEPT !.sock = NoConn, !.from = Afresh]
<1>1. Reads(d, m) /\ client' = [client EXCEPT ![d] = r] /\ view' = view
  BY DEF OnResync
<1>2. r \in Listener /\ r.sock = NoConn /\ r.from = Afresh
  BY PageFacts, AfreshType DEF Listener
<1> HIDE DEF r
<1>3. /\ client' \in [Clients -> Listener] /\ client'[d] = r
      /\ \A e \in Clients \ {d} : client'[e] = client[e]
  BY <1>1, <1>2, ListenerStep
<1>4. UNCHANGED hubVars /\ view' \in [Clients -> [inst : Nat, top : [Topics -> Nat]]]
  BY <1>1, Reading DEF StreamInv, TypeOK
<1>5. PageOK(d)'
  BY <1>1, <1>2, <1>3, <1>4, PageFacts, AfreshType DEF PageOK
<1>6. client'[d].from.inst <= inst /\ view'[d].inst <= inst /\ client'[d].sock = NoConn
  BY <1>1, <1>2, <1>3, PageFacts, AfreshType
<1> QED BY <1>1, <1>3, <1>4, <1>5, <1>6, ReadStep

LEMMA OnRefusedInv == ASSUME StreamInv, NEW d \in Clients, NEW m, OnRefused(d, m) PROVE StreamInv'
<1> DEFINE r == [client[d] EXCEPT !.sock = NoConn, !.stopped = TRUE]
<1>1. Reads(d, m) /\ client' = [client EXCEPT ![d] = r] /\ view' = view
  BY DEF OnRefused
<1>2. r \in Listener /\ r.sock = NoConn /\ r.from = client[d].from
  BY PageFacts DEF Listener
<1> HIDE DEF r
<1>3. /\ client' \in [Clients -> Listener] /\ client'[d] = r
      /\ \A e \in Clients \ {d} : client'[e] = client[e]
  BY <1>1, <1>2, ListenerStep
<1>4. UNCHANGED hubVars /\ view' \in [Clients -> [inst : Nat, top : [Topics -> Nat]]]
  BY <1>1, Reading DEF StreamInv, TypeOK
<1>5. PageOK(d)'
  BY <1>1, <1>2, <1>3, <1>4, PageFacts DEF PageOK, StateAt, LastPatch
<1> QED BY <1>1, <1>2, <1>3, <1>4, <1>5, PageFacts, ReadStep

LEMMA PageInv == ASSUME StreamInv, NEW d \in Clients, Page(d) PROVE StreamInv'
  BY ConnectInv, UnpairedInv, DropInv, OnSnapshotInv, OnReadyInv, OnEventInv, OnResyncInv,
     OnRefusedInv DEF Page, Receive

-----------------------------------------------------------------------------
(* The hub, the registry and what goes wrong *)

SameButQueue(j, k) ==
  /\ j.phase = k.phase /\ j.who = k.who /\ j.from = k.from /\ j.since = k.since
  /\ j.replay = k.replay /\ j.gap = k.gap /\ j.wire = k.wire

LEMMA OfferedQueue ==
  ASSUME NEW k \in Socket, NEW s \in Nat,
         IsFiniteSet(k.queue), Cardinality(k.queue) <= QueueLimit
  PROVE  /\ Offered(k, s) \in Socket /\ IsFiniteSet(Offered(k, s).queue)
         /\ Cardinality(Offered(k, s).queue) <= QueueLimit
         /\ Offered(k, s).queue \subseteq k.queue \cup {s}
         /\ Offered(k, s).overflowed = FALSE => Offered(k, s).queue = k.queue \cup {s}
         /\ SameButQueue(Offered(k, s), k)
<1>1. k.queue \in SUBSET Nat /\ k.overflowed \in BOOLEAN
  BY DEF Socket
<1>2. CASE Cardinality(k.queue) < QueueLimit
  <2>1. Offered(k, s) = [k EXCEPT !.queue = k.queue \cup {s}]
    BY <1>2 DEF Offered
  <2>2. IsFiniteSet(k.queue \cup {s}) /\ Cardinality(k.queue \cup {s}) <= QueueLimit
    <3>1. Cardinality(k.queue) \in Nat /\ QueueLimit \in Nat
      BY FS_CardinalityType
    <3>2. /\ IsFiniteSet(k.queue \cup {s})
          /\ \/ Cardinality(k.queue \cup {s}) = Cardinality(k.queue)
             \/ Cardinality(k.queue \cup {s}) = Cardinality(k.queue) + 1
      BY FS_AddElement
    <3>3. Cardinality(k.queue) + 1 <= QueueLimit
      BY <1>2, <3>1
    <3> QED BY <3>1, <3>2, <3>3
  <2>3. /\ Offered(k, s) \in Socket /\ Offered(k, s).queue = k.queue \cup {s}
        /\ SameButQueue(Offered(k, s), k)
    BY <1>1, <2>1 DEF Socket, SameButQueue
  <2> QED BY <2>2, <2>3
<1>3. CASE ~(Cardinality(k.queue) < QueueLimit)
  <2>1. Offered(k, s) = [k EXCEPT !.queue = {}, !.overflowed = TRUE]
    BY <1>3 DEF Offered
  <2>2. IsFiniteSet({}) /\ Cardinality({}) <= QueueLimit
    BY FS_EmptySet
  <2>3. /\ Offered(k, s) \in Socket /\ Offered(k, s).queue = {} /\ Offered(k, s).overflowed = TRUE
        /\ SameButQueue(Offered(k, s), k)
    BY <1>1, <2>1 DEF Socket, SameButQueue
  <2> QED BY <2>2, <2>3
<1> QED BY <1>2, <1>3

LEMMA WirePublished ==
  ASSUME StreamInv, NEW e \in Events, log' = Append(log, e), UNCHANGED <<inst, client, view>>,
         NEW d \in Clients, NEW w \in Seq(Message), WireOK(d, w)
  PROVE  WireOK(d, w)'
<1>1. TypeOK /\ EventCursor \in Nat
  BY LogTypes DEF StreamInv
<1>2. EventCursor' = EventCursor + 1
  BY <1>1, VisibleKept
<1>3. ASSUME NEW m \in Message, SnapshotOK(d, m) PROVE SnapshotOK(d, m)'
  BY <1>1, <1>2, <1>3, StateAtKept DEF SnapshotOK, Message
<1>4. ASSUME NEW m \in Message, NEW b, EventOK(d, m, b) PROVE EventOK(d, m, b)'
  <2>1. m.after \in Nat /\ m.seq \in Nat /\ m.seq <= EventCursor
    BY <1>4 DEF EventOK, Message
  <2>2. ASSUME NEW q \in m.after + 1 .. m.seq - 1 PROVE ~Visible(q, d)'
    <3>1. q \in 1..EventCursor /\ ~Visible(q, d)
      BY <1>1, <1>4, <2>1 DEF EventOK, NothingBetween
    <3> QED BY <1>1, <3>1, VisibleKept
  <2> QED BY <1>1, <1>2, <1>4, <2>1, <2>2 DEF EventOK, NothingBetween
<1>5. \A i \in 1..Len(w) : w[i] \in Message
  OBVIOUS
<1> QED BY <1>3, <1>4, <1>5 DEF WireOK

LEMMA LostPublished ==
  ASSUME TypeOK, NEW e \in Events, log' = Append(log, e),
         NEW k \in Socket, NEW j \in Socket, SameButQueue(j, k),
         j.queue = IF e.target \in {All, k.who} THEN k.queue \cup {EventCursor + 1} ELSE k.queue,
         NothingLost(k), k.since <= EventCursor, k.replay \cup k.queue \subseteq 1..EventCursor
  PROVE  NothingLost(j)'
<1>1. /\ EventCursor \in Nat /\ k.since \in Nat /\ k.who \in Clients
      /\ j.who = k.who /\ j.since = k.since /\ j.replay = k.replay
  BY LogTypes DEF Socket, SameButQueue
<1>2. /\ EventCursor' = EventCursor + 1 /\ log'[EventCursor + 1] = e
      /\ \A s \in 1..EventCursor, d \in Clients : Visible(s, d)' <=> Visible(s, d)
  BY VisibleKept
<1>3. ASSUME NEW q \in k.since + 1 .. EventCursor + 1
      PROVE  q \in j.replay \cup j.queue <=> Visible(q, k.who)'
  <2>1. CASE q = EventCursor + 1
    <3>1. q \notin k.replay \cup k.queue
      BY <1>1, <2>1
    <3>2. Visible(q, k.who)' <=> e.target \in {All, k.who}
      BY <1>2, <2>1 DEF Visible
    <3> QED BY <1>1, <2>1, <3>1, <3>2
  <2>2. CASE q # EventCursor + 1
    <3>1. q \in 1..EventCursor /\ q \in k.since + 1 .. EventCursor
      BY <1>1, <2>2
    <3>2. q \in k.replay \cup k.queue <=> Visible(q, k.who)
      BY <3>1 DEF NothingLost
    <3>3. q \in j.replay \cup j.queue <=> q \in k.replay \cup k.queue
      BY <1>1, <2>2
    <3> QED BY <1>1, <1>2, <3>1, <3>2, <3>3
  <2> QED BY <2>1, <2>2
<1>4. j.replay \cup j.queue \subseteq k.since + 1 .. EventCursor + 1
  BY <1>1 DEF NothingLost
<1>5. \A r \in j.replay, q \in j.queue : r < q
  BY <1>1 DEF NothingLost
<1> QED BY <1>1, <1>2, <1>3, <1>4, <1>5 DEF NothingLost

LEMMA PublishSocket ==
  ASSUME StreamInv, NEW e \in Events, Publish(e), NEW c \in Conns
  PROVE  SocketOK(c, conn[c])'
<1> DEFINE k == conn[c]
           seen == Registered(c) /\ ~conn[c].overflowed /\ e.target \in {All, conn[c].who}
<1>1. /\ log' = Append(log, e) /\ UNCHANGED <<inst, client, view, authVars>>
      /\ conn'[c] = IF seen THEN Offered(conn[c], EventCursor + 1) ELSE conn[c]
  BY DEF Publish
<1>2. /\ TypeOK /\ k \in Socket /\ SocketOK(c, k) /\ k.who \in Clients /\ k.wire \in Seq(Message)
      /\ EventCursor \in Nat /\ EventCursor + 1 \in Nat /\ k.since \in Nat
      /\ k.overflowed \in BOOLEAN
  BY SocketFacts DEF StreamInv, Socket
<1>3. EventCursor' = EventCursor + 1
  BY <1>1, <1>2, VisibleKept
<1>4. /\ IsFiniteSet(k.queue) /\ Cardinality(k.queue) <= QueueLimit
      /\ k.replay \cup k.queue \subseteq 1..EventCursor
      /\ k.from.inst = inst => k.from.cursor <= EventCursor
      /\ k.phase \in Running => k.since <= EventCursor
  BY <1>2 DEF SocketOK, BoundsOK
<1>5. /\ conn'[c] \in Socket /\ IsFiniteSet(conn'[c].queue)
      /\ Cardinality(conn'[c].queue) <= QueueLimit
      /\ conn'[c].queue \subseteq k.queue \cup {EventCursor + 1} /\ SameButQueue(conn'[c], k)
  <2>1. CASE seen
    <3>1. conn'[c] = Offered(k, EventCursor + 1)
      BY <1>1, <2>1
    <3>2. /\ Offered(k, EventCursor + 1) \in Socket
          /\ IsFiniteSet(Offered(k, EventCursor + 1).queue)
          /\ Cardinality(Offered(k, EventCursor + 1).queue) <= QueueLimit
          /\ Offered(k, EventCursor + 1).queue \subseteq k.queue \cup {EventCursor + 1}
          /\ SameButQueue(Offered(k, EventCursor + 1), k)
      BY <1>2, <1>4, OfferedQueue
    <3> QED BY <3>1, <3>2
  <2>2. CASE ~seen
    BY <1>1, <1>2, <1>4, <2>2 DEF SameButQueue
  <2> QED BY <2>1, <2>2
<1>6. /\ conn'[c].who = k.who /\ conn'[c].phase = k.phase /\ conn'[c].replay = k.replay
      /\ conn'[c].gap = k.gap /\ conn'[c].since = k.since /\ conn'[c].wire = k.wire
      /\ conn'[c].from = k.from
  BY <1>5 DEF SameButQueue
<1>7. FreshOK(c, conn[c])'
  BY <1>1, <1>2, <1>6 DEF SocketOK, FreshOK, Heard
<1>8. BoundsOK(conn[c])'
  <2>1. conn'[c].replay \cup conn'[c].queue \subseteq 1..EventCursor + 1
    BY <1>2, <1>4, <1>5, <1>6
  <2>2. ASSUME NEW i \in 1..Len(k.wire), k.wire[i].kind = "event"
        PROVE  k.wire[i].seq <= EventCursor + 1
    <3>1. k.wire[i] \in Message /\ k.wire[i].seq <= EventCursor
      BY <1>2, <2>2 DEF SocketOK, BoundsOK
    <3>2. k.wire[i].seq \in Nat
      BY <3>1 DEF Message
    <3> QED BY <1>2, <3>1, <3>2
  <2>3. k.who \in revoked =>
          \A i \in 1..Len(k.wire) : k.wire[i].kind = "event" => k.wire[i].seq <= until[k.who]
    BY <1>2 DEF SocketOK, BoundsOK
  <2>4. k.from.inst = inst => k.from.cursor <= EventCursor + 1
    BY <1>2, <1>4 DEF Socket, Resume
  <2>5. k.phase \in Running => k.since <= EventCursor + 1
    BY <1>2, <1>4
  <2> QED BY <1>1, <1>3, <1>5, <1>6, <2>1, <2>2, <2>3, <2>4, <2>5 DEF BoundsOK
<1>9. ChainOK(c, conn[c])'
  <2>1. WireOK(k.who, k.wire) => WireOK(conn[c].who, conn[c].wire)'
    BY <1>1, <1>2, <1>6, WirePublished
  <2>2. PumpOK(k.who, k) => PumpOK(conn[c].who, conn[c])'
    BY <1>1, <1>6 DEF PumpOK
  <2> QED BY <1>1, <1>2, <1>6, <2>1, <2>2 DEF SocketOK, ChainOK, Heard
<1>10. QueueOK(conn[c])'
  <2>1. Registered(c) <=> k.phase \in Subscribed
    BY DEF Registered, Subscribed
  <2>2. CASE k.phase \notin Subscribed
    <3>1. conn'[c] = k
      BY <1>1, <2>1, <2>2
    <3> QED BY <1>2, <2>2, <3>1 DEF SocketOK, QueueOK
  <2>3. ASSUME k.phase \in Subscribed PROVE QueueOK(conn[c])'
    <3>1. k.phase # "replay" => k.replay = {} /\ ~k.gap
      BY <1>2 DEF SocketOK, QueueOK
    <3>2. ASSUME conn'[c].overflowed = FALSE, ~k.gap PROVE NothingLost(conn[c])'
      <4>1. k.overflowed = FALSE
            /\ conn'[c].queue = IF e.target \in {All, k.who} THEN k.queue \cup {EventCursor + 1}
                                                             ELSE k.queue
        <5>1. CASE seen
          <6>1. k.overflowed = FALSE /\ e.target \in {All, k.who}
            BY <1>2, <5>1
          <6>2. conn'[c] = Offered(k, EventCursor + 1)
            BY <1>1, <5>1
          <6>3. Offered(k, EventCursor + 1).overflowed = FALSE =>
                  Offered(k, EventCursor + 1).queue = k.queue \cup {EventCursor + 1}
            BY <1>2, <1>4, OfferedQueue
          <6> QED BY <3>2, <6>1, <6>2, <6>3
        <5>2. CASE ~seen
          BY <1>1, <1>2, <2>1, <2>3, <3>2, <5>2
        <5> QED BY <5>1, <5>2
      <4>2. NothingLost(k)
        BY <1>2, <2>3, <3>2, <4>1 DEF SocketOK, QueueOK
      <4>3. k.since <= EventCursor
        BY <1>4, <2>3 DEF Subscribed, Running
      <4> QED BY <1>1, <1>2, <1>4, <1>5, <4>1, <4>2, <4>3, LostPublished
    <3> QED BY <1>5, <1>6, <2>3, <3>1, <3>2 DEF QueueOK, Socket
  <2> QED BY <2>2, <2>3
<1> QED BY <1>5, <1>7, <1>8, <1>9, <1>10 DEF SocketOK

LEMMA PublishInv == ASSUME StreamInv, NEW e \in Events, Publish(e) PROVE StreamInv'
<1>1. Sockets'
  BY PublishSocket DEF Sockets
<1>2. /\ log' = Append(log, e) /\ UNCHANGED <<inst, client, view, authVars, troubles>> /\ TypeOK
      /\ host' = IF e.topic \in Topics THEN [host EXCEPT ![e.topic] = EventCursor + 1] ELSE host
      /\ conn' = [c \in Conns |-> conn'[c]]
  BY DEF Publish, StreamInv
<1>3. /\ EventCursor \in Nat /\ EventCursor' = EventCursor + 1 /\ log' \in Seq(Events)
      /\ log'[EventCursor + 1] = e /\ \A s \in 1..EventCursor : log'[s] = log[s]
  BY <1>2, VisibleKept, LogTypes
<1>4. host' \in [Topics -> Nat]
  BY <1>2, <1>3 DEF TypeOK
<1>5. TypeOK'
  <2>1. \A c \in Conns : conn'[c] \in Socket /\ Cardinality(conn'[c].queue) <= QueueLimit
    BY <1>1 DEF Sockets, SocketOK, BoundsOK
  <2>2. conn' \in [Conns -> Socket]
    BY <1>2, <2>1
  <2> QED BY <1>2, <1>3, <1>4, <2>1, <2>2 DEF TypeOK
<1>6. Owners'
  <2>1. \A c \in Conns : conn'[c].who = conn[c].who
    <3>1. ASSUME NEW c \in Conns PROVE Offered(conn[c], EventCursor + 1).who = conn[c].who
      BY SocketFacts DEF Offered, Socket
    <3> QED BY <3>1 DEF Publish
  <2> QED BY <1>2, <2>1 DEF StreamInv, Owners
<1>7. Runs'
  BY <1>2 DEF StreamInv, Runs
<1>8. HostNow'
  <2>1. ASSUME NEW t \in Topics PROVE LastPatch(EventCursor, t, host[t]) /\ host[t] \in Nat
    BY <1>2 DEF StreamInv, HostNow, StateAt, TypeOK
  <2>2. ASSUME NEW t \in Topics
        PROVE  host'[t] = IF e.topic = t THEN EventCursor + 1 ELSE host[t]
    BY <1>2 DEF TypeOK
  <2>3. ASSUME NEW t \in Topics PROVE LastPatch(EventCursor, t, host[t])'
    <3>1. CASE e.topic = t
      BY <1>3, <2>2, <3>1 DEF LastPatch
    <3>2. CASE e.topic # t
      <4>1. host'[t] = host[t] /\ host[t] \in 0..EventCursor
        BY <2>1, <2>2, <3>2 DEF LastPatch
      <4>2. host[t] # 0 => log'[host[t]].topic = t
        BY <1>3, <2>1, <4>1 DEF LastPatch
      <4>3. ASSUME NEW q \in host[t] + 1 .. EventCursor + 1 PROVE log'[q].topic # t
        <5>1. CASE q = EventCursor + 1
          BY <1>3, <3>2, <5>1
        <5>2. CASE q # EventCursor + 1
          <6>1. q \in host[t] + 1 .. EventCursor /\ q \in 1..EventCursor
            BY <1>3, <4>1, <5>2
          <6> QED BY <1>3, <2>1, <6>1 DEF LastPatch
        <5> QED BY <5>1, <5>2
      <4> QED BY <1>3, <4>1, <4>2, <4>3 DEF LastPatch
    <3> QED BY <3>1, <3>2
  <2> QED BY <2>3 DEF HostNow, StateAt
<1>9. ASSUME NEW d \in Clients PROVE PageOK(d)'
  <2>1. PageOK(d) /\ client[d].from \in Resume /\ view[d] \in [inst : Nat, top : [Topics -> Nat]]
    BY PageFacts
  <2>2. client[d].from.cursor \in Nat
    BY <2>1 DEF Resume
  <2>3. client[d].from.inst = inst => StateAt(client[d].from.cursor, view[d].top)'
    BY <1>2, <2>1, <2>2, StateAtKept DEF PageOK
  <2> QED BY <1>2, <1>3, <2>1, <2>2, <2>3 DEF PageOK
<1> QED BY <1>1, <1>5, <1>6, <1>7, <1>8, <1>9 DEF StreamInv, Pages

LEMMA RevokeInv == ASSUME StreamInv, NEW d \in Clients, Revoke(d) PROVE StreamInv'
<1>1. /\ revoked' = revoked \cup {d} /\ until' = [until EXCEPT ![d] = EventCursor]
      /\ d \notin revoked /\ UNCHANGED <<hubVars, conn, client, view, troubles>> /\ TypeOK
  BY DEF Revoke, StreamInv
<1>2. TypeOK' /\ Owners' /\ Runs'
  BY <1>1, LogTypes DEF StreamInv, TypeOK, Owners, Runs
<1>3. HostNow' /\ Pages'
  BY <1>1 DEF StreamInv, HostNow, Pages, PageOK, StateAt, LastPatch
<1>4. ASSUME NEW c \in Conns PROVE SocketOK(c, conn[c])'
  <2>1. SocketOK(c, conn[c]) /\ conn'[c] = conn[c] /\ conn[c].who \in Clients
    BY <1>1, SocketFacts
  <2>2. FreshOK(c, conn[c])'
    BY <1>1, <2>1 DEF SocketOK, FreshOK, Heard
  <2>3. QueueOK(conn[c])'
    BY <1>1, <2>1 DEF SocketOK, QueueOK, NothingLost, Visible
  <2>4. ChainOK(c, conn[c])'
    <3>1. ASSUME NEW e, NEW m, NEW b PROVE EventOK(e, m, b) => EventOK(e, m, b)'
      BY <1>1 DEF EventOK, NothingBetween, Visible
    <3>2. ASSUME NEW e, NEW m PROVE SnapshotOK(e, m) => SnapshotOK(e, m)'
      BY <1>1 DEF SnapshotOK, StateAt, LastPatch
    <3>3. ASSUME NEW e, NEW w PROVE WireOK(e, w) => WireOK(e, w)'
      BY <1>1, <3>1, <3>2 DEF WireOK
    <3> QED BY <1>1, <2>1, <3>3 DEF SocketOK, ChainOK, Heard, PumpOK
  <2>5. BoundsOK(conn[c])'
    <3>1. BoundsOK(conn[c])
      BY <2>1 DEF SocketOK
    <3>2. conn[c].who \in revoked' => conn[c].who \in revoked \/ until'[conn[c].who] = EventCursor
      BY <1>1 DEF TypeOK
    <3>3. conn[c].who \in revoked => until'[conn[c].who] = until[conn[c].who]
      BY <1>1 DEF TypeOK
    <3>4. conn[c].who \in revoked' => \A i \in 1..Len(conn[c].wire) :
            conn[c].wire[i].kind = "event" => conn[c].wire[i].seq <= until'[conn[c].who]
      BY <3>1, <3>2, <3>3 DEF BoundsOK
    <3> QED BY <1>1, <3>1, <3>4 DEF BoundsOK
  <2> QED BY <2>1, <2>2, <2>3, <2>4, <2>5 DEF SocketOK
<1> QED BY <1>2, <1>3, <1>4 DEF StreamInv, Sockets

LEMMA BreakInv == ASSUME StreamInv, NEW c \in Conns, Break(c) PROVE StreamInv'
<1> DEFINE k == [conn[c] EXCEPT !.up = FALSE]
<1>1. conn' = [conn EXCEPT ![c] = k] /\ UNCHANGED <<hubVars, client, view, authVars>>
      /\ troubles' = troubles + 1
  BY DEF Break, Trouble
<1>2. conn[c] \in Socket /\ SocketOK(c, conn[c]) /\ troubles' \in Nat
  BY <1>1, SocketFacts
<1>3. /\ k \in Socket /\ k.who = conn[c].who /\ k.phase = conn[c].phase
      /\ k.replay = conn[c].replay /\ k.gap = conn[c].gap /\ k.queue = conn[c].queue
      /\ k.overflowed = conn[c].overflowed /\ k.wire = conn[c].wire
      /\ k.since = conn[c].since /\ k.from = conn[c].from
  BY <1>2 DEF Socket
<1> HIDE DEF k
<1>4. SocketOK(c, k)
  BY <1>2, <1>3 DEF SocketOK, FreshOK, ChainOK, Heard, PumpOK, QueueOK, NothingLost, BoundsOK
<1> QED BY <1>1, <1>2, <1>3, <1>4, HandlerStep

LEMMA RegistryUnreadInv == ASSUME StreamInv, NEW c \in Conns, RegistryUnread(c) PROVE StreamInv'
<1>1. conn[c].phase \in Running /\ troubles' \in Nat
  BY SocketFacts DEF RegistryUnread, Trouble, Registered, Running
<1> QED BY <1>1, RefusedInv DEF RegistryUnread

LEMMA RestartInv == ASSUME StreamInv, Restart PROVE StreamInv'
<1>1. /\ inst' = inst + 1 /\ log' = <<>> /\ host' = NoPatch
      /\ conn' = [c \in Conns |-> Idle(conn[c].who, FALSE, Afresh)]
      /\ until' = [d \in Clients |-> 0] /\ troubles' = troubles + 1
      /\ UNCHANGED <<client, view, revoked>> /\ TypeOK /\ inst \in Nat /\ inst > 0
  BY DEF Restart, Trouble, StreamInv, TypeOK, Runs
<1>2. EventCursor' = 0
  BY <1>1
<1>3. ASSUME NEW c \in Conns PROVE Free(conn'[c]) /\ conn'[c].who = conn[c].who
  <2>1. conn'[c] = Idle(conn[c].who, FALSE, Afresh)
    BY <1>1
  <2> QED BY <2>1, SocketFacts, FreeIdle
<1>4. ASSUME NEW c \in Conns PROVE SocketOK(c, conn[c])'
  <2>1. Free(conn'[c])
    BY <1>3
  <2>2. FreshOK(c, conn[c])' /\ ChainOK(c, conn[c])' /\ QueueOK(conn[c])'
    BY <2>1 DEF Free, FreshOK, ChainOK, QueueOK, WireOK
  <2>3. BoundsOK(conn[c])'
    <3>1. inst' # 0 /\ conn'[c].from.inst = 0 /\ conn'[c].phase \notin Running
      <4>1. inst' # 0
        BY <1>1
      <4>2. conn'[c].from.inst = 0 /\ conn'[c].phase \notin Running
        BY <2>1 DEF Free
      <4> QED BY <4>1, <4>2
    <3>2. /\ conn'[c].replay = {} /\ conn'[c].queue = {} /\ conn'[c].wire = <<>>
          /\ IsFiniteSet(conn'[c].queue) /\ Cardinality(conn'[c].queue) <= QueueLimit
      BY <2>1 DEF Free
    <3> QED BY <3>1, <3>2 DEF BoundsOK
  <2> QED BY <2>1, <2>2, <2>3 DEF Free, SocketOK
<1>5. TypeOK'
  <2>1. conn' \in [Conns -> Socket] /\ \A c \in Conns : Cardinality(conn'[c].queue) <= QueueLimit
    <3>1. DOMAIN conn' = Conns /\ conn' = [c \in Conns |-> conn'[c]]
      BY <1>1
    <3>2. \A c \in Conns : conn'[c] \in Socket /\ Cardinality(conn'[c].queue) <= QueueLimit
      BY <1>3 DEF Free
    <3> QED BY <3>1, <3>2
  <2>2. client' \in [Clients -> Listener] /\ revoked' \in SUBSET Clients
        /\ view' \in [Clients -> [inst : Nat, top : [Topics -> Nat]]]
    BY <1>1 DEF TypeOK
  <2>3. inst' \in Nat /\ log' \in Seq(Events) /\ host' \in [Topics -> Nat]
        /\ until' \in [Clients -> Nat] /\ troubles' \in Nat
    BY <1>1, NoPatchType DEF TypeOK
  <2> QED BY <2>1, <2>2, <2>3 DEF TypeOK
<1>6. Owners'
  BY <1>1, <1>3 DEF StreamInv, Owners
<1>7. ASSUME NEW d \in Clients
      PROVE  client'[d].from.inst < inst' /\ view'[d].inst < inst'
  BY <1>1, PageFacts DEF Resume
<1>8. Runs' /\ Pages'
  BY <1>1, <1>7, PageFacts DEF Runs, Pages, PageOK, Resume
<1>9. HostNow'
  BY <1>1, <1>2, NoPatchType DEF HostNow, StateAt, LastPatch
<1> QED BY <1>4, <1>5, <1>6, <1>8, <1>9 DEF StreamInv, Sockets

LEMMA InitInv == Init => StreamInv
<1> SUFFICES ASSUME Init PROVE StreamInv
  OBVIOUS
<1>1. /\ inst = 1 /\ log = <<>> /\ host = NoPatch /\ revoked = {} /\ troubles = 0
      /\ until = [d \in Clients |-> 0] /\ view = [d \in Clients |-> Blank]
      /\ client = [d \in Clients |-> [sock |-> NoConn, from |-> Afresh, stopped |-> FALSE]]
      /\ EventCursor = 0
  BY DEF Init
<1>2. ASSUME NEW c \in Conns PROVE Free(conn[c])
  <2>1. PICK d \in Clients : conn[c] = Idle(d, FALSE, Afresh)
    BY DEF Init
  <2> QED BY <2>1, FreeIdle
<1>3. ASSUME NEW c \in Conns PROVE SocketOK(c, conn[c])
  <2>1. Free(conn[c])
    BY <1>2
  <2>2. FreshOK(c, conn[c]) /\ ChainOK(c, conn[c]) /\ QueueOK(conn[c])
    BY <2>1 DEF Free, FreshOK, ChainOK, QueueOK, WireOK
  <2>3. BoundsOK(conn[c])
    BY <1>1, <2>1 DEF Free, BoundsOK
  <2> QED BY <2>1, <2>2, <2>3 DEF Free, SocketOK
<1>4. ASSUME NEW d \in Clients
      PROVE  /\ client[d] \in Listener /\ view[d] \in [inst : Nat, top : [Topics -> Nat]]
             /\ client[d].from.inst = 0 /\ view[d].inst = 0 /\ client[d].sock = NoConn
  BY <1>1, AfreshType, BlankType DEF Listener
<1>5. TypeOK
  <2>1. conn \in [Conns -> Socket] /\ \A c \in Conns : Cardinality(conn[c].queue) <= QueueLimit
    <3>1. conn \in [Conns -> {Idle(d, FALSE, Afresh) : d \in Clients}]
      BY DEF Init
    <3>2. \A c \in Conns : conn[c] \in Socket /\ Cardinality(conn[c].queue) <= QueueLimit
      BY <1>2 DEF Free
    <3> QED BY <3>1, <3>2
  <2>2. client \in [Clients -> Listener] /\ view \in [Clients -> [inst : Nat, top : [Topics -> Nat]]]
    BY <1>1, <1>4
  <2>3. inst \in Nat /\ log \in Seq(Events) /\ host \in [Topics -> Nat]
        /\ until \in [Clients -> Nat] /\ troubles \in Nat /\ revoked \in SUBSET Clients
    BY <1>1, NoPatchType
  <2> QED BY <2>1, <2>2, <2>3 DEF TypeOK
<1>6. Owners /\ Runs /\ Pages
  BY <1>1, <1>4 DEF Owners, Runs, Pages, PageOK
<1>7. HostNow
  BY <1>1, NoPatchType DEF HostNow, StateAt, LastPatch
<1> QED BY <1>3, <1>5, <1>6, <1>7 DEF StreamInv, Sockets

LEMMA StutterInv == ASSUME StreamInv, UNCHANGED vars PROVE StreamInv'
<1>1. UNCHANGED <<hubVars, conn, client, view, authVars, troubles>>
  BY DEF vars
<1>2. TypeOK' /\ Owners' /\ Runs' /\ HostNow' /\ Pages'
  BY <1>1 DEF StreamInv, TypeOK, Owners, Runs, HostNow, Pages, PageOK, StateAt, LastPatch
<1>3. \A c \in Conns : SocketOK(c, conn[c])'
  BY <1>1, SocketFacts, SameSocket
<1> QED BY <1>2, <1>3 DEF StreamInv, Sockets

LEMMA StepInv == StreamInv /\ [Next]_vars => StreamInv'
<1> SUFFICES ASSUME StreamInv, [Next]_vars PROVE StreamInv'
  OBVIOUS
<1>1. ASSUME NEW c \in Conns, Handler(c) PROVE StreamInv'
  BY <1>1, HandlerInv
<1>2. ASSUME NEW d \in Clients, Page(d) PROVE StreamInv'
  BY <1>2, PageInv
<1>3. CASE World
  BY <1>3, PublishInv, RevokeInv, ReloadInv, BreakInv, RegistryUnreadInv, RestartInv DEF World
<1> QED BY <1>1, <1>2, <1>3, StutterInv DEF Next

-----------------------------------------------------------------------------

\* Every step keeps the invariant, whatever the number of devices, sockets and events.
THEOREM Invariant == Spec => []StreamInv
  BY InitInv, StepInv, PTL DEF Spec

\* The variables keep their types and the queues their limit.
THEOREM TypesKept == Spec => []TypeOK
<1>1. StreamInv => TypeOK
  BY DEF StreamInv
<1> QED BY <1>1, Invariant, PTL

\* What a page shows is the state of the host at the page's cursor.
THEOREM ShownIsState == Spec => []ShownAtCursor
<1>1. StreamInv => ShownAtCursor
  BY DEF StreamInv, Pages, PageOK, ShownAtCursor, StateAt
<1> QED BY <1>1, Invariant, PTL

\* Every event under way to a page comes after the one the page will have seen before it.
THEOREM EventsInChain == Spec => []AfterCursorChain
<1>1. StreamInv => AfterCursorChain
  <2> SUFFICES ASSUME StreamInv, NEW d \in Clients, client[d].sock \in Conns,
                      NEW i \in 1..Len(conn[client[d].sock].wire),
                      conn[client[d].sock].wire[i].kind = "event"
               PROVE  LET w == conn[client[d].sock].wire IN
                      /\ w[i].after = IF i = 1 THEN client[d].from.cursor ELSE w[i - 1].seq
                      /\ w[i].after < w[i].seq
    BY DEF AfterCursorChain
  <2>1. WireOK(d, conn[client[d].sock].wire)
    BY PageFacts, SocketFacts DEF SocketOK, ChainOK, Heard
  <2> QED BY <2>1 DEF WireOK, EventOK
<1> QED BY <1>1, Invariant, PTL

\* Nothing published after a credential was revoked is on its way to the device.
THEOREM RevokedIsCutOff == Spec => []RevokedHearsNothing
<1>1. StreamInv => RevokedHearsNothing
  BY DEF StreamInv, Sockets, SocketOK, BoundsOK, RevokedHearsNothing
<1> QED BY <1>1, Invariant, PTL

-----------------------------------------------------------------------------
(* EventStream implements MirroredState: the log of topics is that of the events. *)

TopicsOf(events) == [s \in 1..Len(events) |-> events[s].topic]

LEMMA TopicsOfType ==
  ASSUME NEW events \in Seq(Events)
  PROVE  /\ TopicsOf(events) \in Seq(Topics \cup {NoTopic}) /\ Len(TopicsOf(events)) = Len(events)
         /\ \A s \in 1..Len(events) : TopicsOf(events)[s] = events[s].topic
<1>1. \A s \in 1..Len(events) : events[s].topic \in Topics \cup {NoTopic}
  BY EventsAssumption
<1> QED BY <1>1 DEF TopicsOf

LEMMA TopicsOfNone == TopicsOf(<<>>) = <<>>
<1>1. <<>> \in Seq(Events) /\ Len(<<>>) = 0
  OBVIOUS
<1>2. TopicsOf(<<>>) \in Seq(Topics \cup {NoTopic}) /\ Len(TopicsOf(<<>>)) = 0
  BY <1>1, TopicsOfType
<1>3. \A w \in Seq(Topics \cup {NoTopic}) : Len(w) = 0 => w = <<>>
  OBVIOUS
<1> QED BY <1>2, <1>3

LEMMA TopicsOfAppend ==
  ASSUME NEW events \in Seq(Events), NEW e \in Events
  PROVE  TopicsOf(Append(events, e)) = Append(TopicsOf(events), e.topic)
<1>1. e.topic \in Topics \cup {NoTopic}
  BY EventsAssumption
<1>2. /\ Append(events, e) \in Seq(Events) /\ Len(Append(events, e)) = Len(events) + 1
      /\ Append(events, e)[Len(events) + 1] = e
      /\ \A s \in 1..Len(events) : Append(events, e)[s] = events[s]
  BY Appended
<1>3. /\ TopicsOf(Append(events, e)) \in Seq(Topics \cup {NoTopic})
      /\ Len(TopicsOf(Append(events, e))) = Len(events) + 1
      /\ \A s \in 1..Len(events) + 1 :
           TopicsOf(Append(events, e))[s] = Append(events, e)[s].topic
  BY <1>2, TopicsOfType
<1>4. /\ Append(TopicsOf(events), e.topic) \in Seq(Topics \cup {NoTopic})
      /\ Len(Append(TopicsOf(events), e.topic)) = Len(events) + 1
      /\ Append(TopicsOf(events), e.topic)[Len(events) + 1] = e.topic
      /\ \A s \in 1..Len(events) : Append(TopicsOf(events), e.topic)[s] = events[s].topic
  BY <1>1, TopicsOfType, Appended
<1>5. \A s \in 1..Len(events) + 1 :
        TopicsOf(Append(events, e))[s] = Append(TopicsOf(events), e.topic)[s]
  BY <1>2, <1>3, <1>4
<1> QED BY <1>3, <1>4, <1>5

LEMMA PatchesMap ==
  ASSUME TypeOK, NEW n \in 0..EventCursor, NEW t \in Topics, NEW s \in Nat, LastPatch(n, t, s)
  PROVE  Mirrored!LastPatch(n, t, s)
<1>1. EventCursor \in Nat /\ Len(TopicsOf(log)) = Len(log)
      /\ \A q \in 1..EventCursor : TopicsOf(log)[q] = log[q].topic
  BY LogTypes, TopicsOfType DEF TypeOK
<1>2. s \in 0..n /\ (s # 0 => s \in 1..EventCursor)
      /\ \A q \in s + 1 .. n : q \in 1..EventCursor
  BY <1>1 DEF LastPatch
<1> QED BY <1>1, <1>2 DEF LastPatch, Mirrored!LastPatch, TopicsOf

\* A page that moves to a state of this host, no older than the one it shows.
LEMMA ShowsMap ==
  ASSUME StreamInv, NEW d \in Clients, NEW n \in Nat, NEW top \in [Topics -> Nat],
         n <= EventCursor, StateAt(n, top), MovedTo(d, top), UNCHANGED hubVars,
         view[d].inst = inst => \A t \in Topics : view[d].top[t] <= top[t]
  PROVE  Mirrored!Show(d)
<1>1. TypeOK /\ EventCursor \in Nat /\ n \in 0..EventCursor
  BY LogTypes DEF StreamInv
<1>2. top \in [Topics -> 0..n]
  BY DEF StateAt, LastPatch
<1>3. \A t \in Topics : Mirrored!LastPatch(n, t, top[t])
  BY <1>1, PatchesMap DEF StateAt
<1>4. Len(TopicsOf(log)) = EventCursor
  BY <1>1, TopicsOfType DEF TypeOK
<1> QED BY <1>1, <1>2, <1>3, <1>4 DEF Mirrored!Show, MovedTo, TopicsOf

LEMMA ReadsMap ==
  ASSUME StreamInv, NEW d \in Clients, NEW m,
         OnSnapshot(d, m) \/ OnReady(d, m) \/ OnEvent(d, m) \/ OnResync(d, m) \/ OnRefused(d, m)
  PROVE  Mirrored!Show(d) \/ UNCHANGED <<inst, log, view>>
<1>1. CASE OnSnapshot(d, m)
  <2>1. Reads(d, m) /\ m.kind = "snapshot" /\ MovedTo(d, m.top)
    BY <1>1 DEF OnSnapshot, MovedTo
  <2>2. m \in Message /\ SnapshotOK(d, m) /\ UNCHANGED hubVars
    BY <2>1, Reading
  <2>3. /\ m.seq \in Nat /\ m.top \in [Topics -> Nat] /\ m.seq <= EventCursor
        /\ StateAt(m.seq, m.top) /\ EventCursor \in Nat
    BY <2>2, LogTypes DEF SnapshotOK, Message, StreamInv
  <2>4. ASSUME view[d].inst = inst, NEW t \in Topics PROVE view[d].top[t] <= m.top[t]
    <3>1. view[d].top[t] <= m.seq /\ view[d].top[t] \in Nat
      BY <2>2, <2>4, PageFacts DEF SnapshotOK
    <3>2. view[d].top[t] # 0 => log[view[d].top[t]].topic = t
      BY <2>4, PageFacts DEF PageOK
    <3>3. LastPatch(m.seq, t, m.top[t]) /\ m.top[t] \in Nat
      BY <2>3 DEF StateAt
    <3> QED BY <2>3, <3>1, <3>2, <3>3 DEF LastPatch
  <2> QED BY <2>1, <2>2, <2>3, <2>4, ShowsMap
<1>2. CASE OnEvent(d, m)
  <2>1. /\ Reads(d, m) /\ m.seq \in Nat /\ m.seq <= EventCursor
        /\ view' \in [Clients -> [inst : Nat, top : [Topics -> Nat]]]
        /\ MovedTo(d, view'[d].top) /\ StateAt(m.seq, view'[d].top)
        /\ \A t \in Topics : view[d].top[t] <= view'[d].top[t]
    BY <1>2, EventRead
  <2>2. view'[d].top \in [Topics -> Nat] /\ UNCHANGED hubVars
    BY <2>1, Reading
  <2> QED BY <2>1, <2>2, ShowsMap
<1>3. CASE OnReady(d, m) \/ OnResync(d, m) \/ OnRefused(d, m)
  BY <1>3, Reading DEF OnReady, OnResync, OnRefused
<1> QED BY <1>1, <1>2, <1>3

LEMMA StepMaps == StreamInv /\ [Next]_vars => [Mirrored!Next]_(Mirrored!vars)
<1> SUFFICES ASSUME StreamInv, [Next]_vars
             PROVE  Mirrored!Next \/ UNCHANGED <<inst, log, view>>
  BY DEF Mirrored!vars
<1>1. ASSUME NEW c \in Conns, Handler(c) PROVE UNCHANGED <<inst, log, view>>
  BY <1>1 DEF Handler, Greet, Subscribe, ReplayNext, Wait, WaitOver, Deliver, Delivered, CheckAuth,
              HangUp, Handled
<1>2. ASSUME NEW d \in Clients, Page(d) PROVE Mirrored!Next \/ UNCHANGED <<inst, log, view>>
  <2>1. CASE (\E c \in Conns : Connect(d, c)) \/ Unpaired(d) \/ Drop(d)
    BY <2>1 DEF Connect, Unpaired, Drop
  <2>2. CASE Receive(d)
    BY <2>2, ReadsMap DEF Receive, Mirrored!Next
  <2> QED BY <1>2, <2>1, <2>2 DEF Page
<1>3. ASSUME NEW e \in Events, Publish(e) PROVE Mirrored!Next
  <2>1. log \in Seq(Events) /\ log' = Append(log, e) /\ UNCHANGED <<inst, view>>
    BY <1>3 DEF Publish, StreamInv, TypeOK
  <2>2. TopicsOf(log') = Append(TopicsOf(log), e.topic) /\ e.topic \in Topics \cup {NoTopic}
    BY <2>1, TopicsOfAppend, EventsAssumption
  <2> QED BY <2>1, <2>2 DEF Mirrored!Next, Mirrored!Publish, TopicsOf
<1>4. ASSUME NEW d \in Clients, Reload(d) PROVE Mirrored!Next
  <2>1. view' = [view EXCEPT ![d] = Blank] /\ UNCHANGED <<inst, log>>
    BY <1>4 DEF Reload
  <2>2. Mirrored!Blank = Blank
    BY DEF Mirrored!Blank, Blank, NoPatch
  <2> QED BY <2>1, <2>2 DEF Mirrored!Next, Mirrored!Reload
<1>5. CASE Restart
  <2>1. inst' = inst + 1 /\ log' = <<>> /\ UNCHANGED view /\ <<>> \in Seq(Events)
    BY <1>5 DEF Restart
  <2>2. TopicsOf(log') = <<>>
    BY <2>1, TopicsOfNone
  <2> QED BY <2>1, <2>2 DEF Mirrored!Next, Mirrored!Restart, TopicsOf
<1>6. CASE (\E d \in Clients : Revoke(d)) \/ (\E c \in Conns : Break(c) \/ RegistryUnread(c))
  BY <1>6 DEF Revoke, Break, RegistryUnread
<1>7. CASE UNCHANGED vars
  BY <1>7 DEF vars
<1> QED BY <1>1, <1>2, <1>3, <1>4, <1>5, <1>6, <1>7 DEF Next, World

LEMMA InitMaps == Init => Mirrored!Init
<1> SUFFICES ASSUME Init PROVE Mirrored!Init
  OBVIOUS
<1>1. inst = 1 /\ log = <<>> /\ view = [d \in Clients |-> Blank] /\ <<>> \in Seq(Events)
  BY DEF Init
<1>2. TopicsOf(log) = <<>>
  BY <1>1, TopicsOfNone
<1>3. Mirrored!Blank = Blank
  BY DEF Mirrored!Blank, Blank, NoPatch
<1> QED BY <1>1, <1>2, <1>3 DEF Mirrored!Init, TopicsOf

\* A page shows states the host was in and goes forward only, whatever is lost on the way.
THEOREM StreamMirrors == Spec => Mirrors
  BY InitMaps, StepMaps, Invariant, PTL DEF Spec, Mirrors, Mirrored!Spec
=============================================================================
