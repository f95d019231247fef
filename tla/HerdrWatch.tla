----------------------------- MODULE HerdrWatch -----------------------------
(***************************************************************************)
(* How core follows a Herdr session: the poll of service.py that reads its *)
(* layout and publishes what moved, the thread of herdr_events.py that is  *)
(* subscribed to the events of the session's panes, and the poke by which  *)
(* an event asks for a read at once.                                       *)
(*                                                                         *)
(* The layout is a version: every move of it makes one, with panes of its  *)
(* own.  One session; the ones that are listed, started and stopped, and   *)
(* the clock that says when a session is due, are choices.  Herdr itself   *)
(* is external.                                                            *)
(***************************************************************************)
EXTENDS Naturals

CONSTANTS MaxMoves, MaxFaults

VARIABLES
  now,      \* Herdr: the layout it has
  wire,     \* Herdr: it wrote an event the thread has not read
  sig,      \* the bridge: what its revision stands for
  told,     \* what herdr.layout.changed was last published for
  read,     \* ghost: what the poll last read
  dirty,    \* the session is in _herdr_dirty
  soon,     \* _herdr_poke_soon is queued on the loop
  handle,   \* _herdr_poke_handle is set
  follow,   \* _herdr_follow_up
  poll,     \* the refresh: its step, the revision before, what it read
  panes,    \* the watch: the panes it is to subscribe to
  changed,  \* the watch: _changed
  sock,     \* the watch: _socket, as the thread left it: "none", "open", "shut"
  events,   \* the watch's thread: its step, what it subscribed to
  failed

watchVars == <<now, wire, sig, told, read, dirty, soon, handle, follow, poll, panes, changed, sock, events, failed>>
loopVars == <<soon, handle, follow>>
watch    == <<panes, changed, sock, events>>
herdr    == <<now, wire>>

Versions == 0..MaxMoves
NoPoll == [at |-> "none", before |-> 0, got |-> 0]
Poll(step) == poll' = [poll EXCEPT !.at = step]

-----------------------------------------------------------------------------
(* Herdr, and the clients of it besides the poll *)

Move ==
  /\ now < MaxMoves /\ now' = now + 1
  /\ wire' = (wire \/ (events.at = "recv" /\ sock = "open"))
  /\ UNCHANGED <<sig, told, read, dirty, loopVars, poll, watch, failed>>

\* A request that found the cached layout too old reads another: the revision moves.
OtherReads ==
  /\ sig # now /\ sig' = now
  /\ UNCHANGED <<herdr, told, read, dirty, loopVars, poll, watch, failed>>

-----------------------------------------------------------------------------
(* The refresh: one at a time, on a worker *)

Scheduled == poll' = [NoPoll EXCEPT !.at = "scheduled"]

\* The tick of the daemon's loop; a refresh that runs is left alone.
Tick ==
  /\ poll.at = "none" /\ Scheduled
  /\ UNCHANGED <<herdr, sig, told, read, dirty, loopVars, watch, failed>>

\* notify_herdr_layout: what is dirty is taken in one hold of the lock; then the session's
\* turn, by its being dirty or by the clock.
Take ==
  /\ poll.at = "scheduled" /\ dirty' = FALSE
  /\ \/ poll' = [poll EXCEPT !.at = "reading", !.before = sig]
     \/ ~dirty /\ Poll("done")
  /\ UNCHANGED <<herdr, sig, told, read, loopVars, watch, failed>>

\* bridge.layout().  A session that does not answer keeps its last reading.
Read ==
  /\ poll.at = "reading"
  /\ sig' = now /\ read' = now /\ poll' = [poll EXCEPT !.at = "subscribe", !.got = now]
  /\ UNCHANGED <<herdr, told, dirty, loopVars, watch, failed>>
ReadFails ==
  /\ poll.at = "reading" /\ failed < MaxFaults /\ failed' = failed + 1 /\ Poll("done")
  /\ UNCHANGED <<herdr, sig, told, read, dirty, loopVars, watch>>

\* HerdrEventWatches.ensure, and set_panes in its three parts.
Ensure ==
  /\ poll.at = "subscribe"
  /\ IF panes = poll.got /\ events.at # "off" THEN UNCHANGED <<panes, events>> /\ Poll("publish")
     ELSE /\ panes' = poll.got /\ Poll("flag")
          /\ events' = IF events.at = "off" THEN [events EXCEPT !.at = "idle"] ELSE events
  /\ UNCHANGED <<herdr, sig, told, read, dirty, loopVars, changed, sock, failed>>
Flag ==
  /\ poll.at = "flag" /\ changed' = TRUE /\ Poll("drop")
  /\ UNCHANGED <<herdr, sig, told, read, dirty, loopVars, panes, sock, events, failed>>
Drop ==
  /\ poll.at = "drop" /\ sock' = IF sock = "open" THEN "shut" ELSE sock
  /\ Poll("publish")
  /\ UNCHANGED <<herdr, sig, told, read, dirty, loopVars, panes, changed, events, failed>>

\* Only a revision other than the one before is news.
Publish ==
  /\ poll.at = "publish" /\ Poll("done")
  /\ told' = IF poll.got # poll.before THEN poll.got ELSE told
  /\ UNCHANGED <<herdr, sig, read, dirty, loopVars, watch, failed>>

\* run's finally: a poke that came in while it ran gets a refresh of its own.
End ==
  /\ poll.at = "done" /\ follow' = FALSE
  /\ IF follow THEN Scheduled ELSE poll' = NoPoll
  /\ UNCHANGED <<herdr, sig, told, read, dirty, soon, handle, watch, failed>>

-----------------------------------------------------------------------------
(* The poke, from the watch's thread to the loop *)

PokeSoon ==
  /\ soon /\ soon' = FALSE /\ handle' = TRUE
  /\ UNCHANGED <<herdr, sig, told, read, dirty, follow, poll, watch, failed>>
PokeFire ==
  /\ handle /\ handle' = FALSE
  /\ IF poll.at = "none" THEN Scheduled /\ UNCHANGED follow
     ELSE follow' = TRUE /\ UNCHANGED poll
  /\ UNCHANGED <<herdr, sig, told, read, dirty, soon, watch, failed>>

-----------------------------------------------------------------------------
(* HerdrEventWatch: the thread *)

Events(step) == events' = [events EXCEPT !.at = step]

\* serve_once: _changed is cleared before the panes are read, so that a change after the
\* reading is seen after the connection.
Serve ==
  /\ events.at = "idle" /\ changed' = FALSE /\ Events("cleared")
  /\ UNCHANGED <<herdr, sig, told, read, dirty, loopVars, poll, panes, sock, failed>>
ReadPanes ==
  /\ events.at = "cleared" /\ events' = [at |-> "connect", panes |-> panes]
  /\ UNCHANGED <<herdr, sig, told, read, dirty, loopVars, poll, panes, changed, sock, failed>>
Connect ==
  /\ events.at = "connect" /\ sock' = "open" /\ Events("joined") /\ wire' = FALSE
  /\ UNCHANGED <<now, sig, told, read, dirty, loopVars, poll, panes, changed, failed>>
ConnectFails ==
  /\ events.at = "connect" /\ failed < MaxFaults /\ failed' = failed + 1 /\ Events("retry")
  /\ UNCHANGED <<herdr, sig, told, read, dirty, loopVars, poll, panes, changed, sock>>

\* The panes moved while this was connecting: from the start.
Subscribe ==
  /\ events.at = "joined"
  /\ IF changed THEN sock' = "none" /\ Events("retry") ELSE Events("recv") /\ UNCHANGED sock
  /\ UNCHANGED <<herdr, sig, told, read, dirty, loopVars, poll, panes, changed, failed>>

\* recv: an event is a poke; a socket that was shut, here or by Herdr, ends it.
Event ==
  /\ events.at = "recv" /\ wire /\ wire' = FALSE /\ dirty' = TRUE /\ Events("poke")
  /\ UNCHANGED <<now, sig, told, read, loopVars, poll, panes, changed, sock, failed>>
Poke ==
  /\ events.at = "poke" /\ soon' = TRUE /\ Events("recv")
  /\ UNCHANGED <<herdr, sig, told, read, dirty, handle, follow, poll, panes, changed, sock, failed>>
Ended ==
  /\ events.at = "recv" /\ sock' = "none" /\ Events("retry") /\ wire' = FALSE
  /\ \/ sock = "shut" /\ UNCHANGED failed
     \/ failed < MaxFaults /\ failed' = failed + 1
  /\ UNCHANGED <<now, sig, told, read, dirty, loopVars, poll, panes, changed>>

\* _run: a change is served at once, anything else after a while.
Retry ==
  /\ events.at = "retry" /\ changed' = FALSE /\ Events("idle")
  /\ UNCHANGED <<herdr, sig, told, read, dirty, loopVars, poll, panes, sock, failed>>
\* A Herdr that does not know the method is not asked again; forget() ends it too.
Refused ==
  /\ events.at = "recv" /\ ~wire /\ failed < MaxFaults /\ failed' = failed + 1
  /\ sock' = "none" /\ Events("refused")
  /\ UNCHANGED <<herdr, sig, told, read, dirty, loopVars, poll, panes, changed>>

-----------------------------------------------------------------------------
Init ==
  /\ now = 0 /\ wire = FALSE /\ sig = 0 /\ told = 0 /\ read = 0
  /\ dirty = FALSE /\ soon = FALSE /\ handle = FALSE /\ follow = FALSE
  /\ poll = NoPoll /\ panes = 0 /\ changed = FALSE /\ sock = "none"
  /\ events = [at |-> "off", panes |-> 0] /\ failed = 0

Next ==
  \/ Move \/ OtherReads \/ Tick \/ Take \/ Read \/ ReadFails \/ Ensure \/ Flag \/ Drop \/ Publish \/ End
  \/ PokeSoon \/ PokeFire
  \/ Serve \/ ReadPanes \/ Connect \/ ConnectFails \/ Subscribe \/ Event \/ Poke \/ Ended \/ Retry \/ Refused
Spec == Init /\ [][Next]_watchVars
Alone == Init /\ [][Next /\ ~OtherReads]_watchVars

TypeOK ==
  /\ now \in Versions /\ sig \in Versions /\ told \in Versions /\ read \in Versions /\ panes \in Versions
  /\ wire \in BOOLEAN /\ dirty \in BOOLEAN /\ soon \in BOOLEAN /\ handle \in BOOLEAN /\ follow \in BOOLEAN
  /\ changed \in BOOLEAN /\ sock \in {"none", "open", "shut"} /\ failed \in 0..MaxFaults
  /\ poll.before \in Versions /\ poll.got \in Versions /\ events.panes \in Versions

\* A session whose events say it moved is read for it: the poke is on its way to the loop,
\* waits for the refresh that runs, or the refresh that will take it is scheduled.
PokeNotLost == dirty => soon \/ handle \/ follow \/ poll.at = "scheduled" \/ events.at = "poke"

\* The thread never listens to panes the session no longer has: one that was subscribed to
\* other panes has a closed socket, or the poll is about to close it.
SubscribedToThePanes ==
  events.at \in {"recv", "poke"} /\ sock = "open" /\ events.panes # panes => poll.at \in {"flag", "drop"}

\* "The poll publishes herdr.layout.changed after every read that moved": not when another
\* reader of the bridge read first, and took the revision with it.
ReadsAreTold == poll.at = "none" => told = read

\* What keeps them: a thread that is about to subscribe to other panes than the session's has
\* a change to see, or the poll is about to flag it.
SubscribesOK ==
  events.at \in {"connect", "joined"} /\ events.panes # panes => changed \/ poll.at = "flag"
Polls == [at : {"none", "scheduled", "reading", "subscribe", "flag", "drop", "publish", "done"},
          before : Versions, got : Versions]
ShapesOK ==
  /\ poll \in Polls
  /\ events \in [at : {"off", "idle", "cleared", "connect", "joined", "recv", "poke", "retry", "refused"},
                 panes : Versions]
WatchInv == TypeOK /\ ShapesOK /\ PokeNotLost /\ SubscribesOK /\ SubscribedToThePanes
=============================================================================
