------------------------------ MODULE Overview ------------------------------
(***************************************************************************)
(* What a person has not seen and what needs them: the ledger of seen.py,  *)
(* the projector of overview.py, and the two values service.py publishes   *)
(* of them.  The ledger is fed by the layout poll on its worker, by the    *)
(* agent's events on the loop, and marked by streams and by keys sent to a *)
(* pane on threads of their own; every one of them publishes afterwards.   *)
(*                                                                         *)
(* One session; times are compared as before and after; what a screen or   *)
(* a reply says is whether it was read.  The ledger's file, the names of   *)
(* agents, the limits and the order of the list are left out.              *)
(***************************************************************************)
EXTENDS Naturals

CONSTANTS
  Panes, Agent, \* Herdr's panes, and the key of the agent's conversation
  Callers,      \* threads of requests
  MaxMoves

VARIABLES
  status,   \* outside: what each pane's agent, and the agent, is doing
  row,      \* _rows: the status observed, and the last finish: none, unseen or seen
  watching, \* _watching: streams that show a key
  over,     \* the projector: the statuses of its rows
  read,     \* the projector: panes whose screen was read since they appeared
  hubAgent, \* state.agent
  unseen,   \* _unseen_value and state.unseen
  list,     \* _overview_value and state.overview
  thread,   \* what each thread is doing
  moves

overviewVars == <<status, row, watching, over, read, hubAgent, unseen, list, thread, moves>>
ledger == <<row, watching>>
shown  == <<over, read, hubAgent, unseen, list>>

Keys     == Panes \cup {Agent}
Threads  == {"poll", "loop"} \cup Callers
Statuses == {"gone", "working", "blocked", "idle"}
Working  == {"working", "blocked"}
NoRow    == [status |-> "gone", fin |-> "none"]
Rest     == [at |-> "idle", agent |-> "idle", unseen |-> {}, also |-> FALSE]

At(t, step) == thread[t].at = step
Go(t, step) == thread' = [thread EXCEPT ![t].at = step]

-----------------------------------------------------------------------------
(* The ledger *)

\* _unseen of every row.
Unseen(rows) == {k \in Keys : rows[k].status = "idle" /\ rows[k].fin = "unseen"}

\* _observe: the first sighting is a baseline; a finish that is watched is seen.
Observe(r, s, watched) ==
  IF r = NoRow THEN [status |-> s, fin |-> "none"]
  ELSE [status |-> s, fin |-> IF r.status \in Working /\ s = "idle"
                                THEN IF watched THEN "seen" ELSE "unseen"
                                ELSE r.fin]
Seen(r) == IF r.fin = "none" THEN r ELSE [r EXCEPT !.fin = "seen"]

\* observe_herdr, and set_session of the projector, with one layout.
PollReads ==
  /\ At("poll", "idle") /\ thread' = [thread EXCEPT !["poll"].at = "rows", !["poll"].also = TRUE]
  /\ over' = [p \in Panes |-> status[p]]
  /\ read' = {p \in read : status[p] # "gone"}
  /\ UNCHANGED <<status, ledger, hubAgent, unseen, list, moves>>
PollObserves ==
  /\ At("poll", "rows") /\ Go("poll", "unseen")
  /\ row' = [k \in Keys |->
       IF k = Agent THEN row[k]
       ELSE IF over[k] = "gone" THEN NoRow ELSE Observe(row[k], over[k], watching[k] > 0)]
  /\ UNCHANGED <<status, watching, shown, moves>>

\* A change of the agent: state.agent, and the observers of the event.
AgentMoves(s) ==
  /\ At("loop", "idle") /\ moves < MaxMoves /\ moves' = moves + 1 /\ s # status[Agent] /\ s # "gone"
  /\ status' = [status EXCEPT ![Agent] = s] /\ hubAgent' = s
  /\ row' = [row EXCEPT ![Agent] = Observe(@, s, watching[Agent] > 0)]
  /\ thread' = [thread EXCEPT !["loop"].at = "unseen", !["loop"].also = TRUE]
  /\ UNCHANGED <<watching, over, read, unseen, list>>

\* seen_mark, and seen_watch at the opening of a stream and at its end.
Mark(t, k) ==
  /\ At(t, "idle") /\ Go(t, "unseen") /\ row' = [row EXCEPT ![k] = Seen(@)]
  /\ UNCHANGED <<status, watching, shown, moves>>
Open(k) ==
  /\ At("loop", "idle") /\ watching[k] < 1 /\ watching' = [watching EXCEPT ![k] = @ + 1]
  /\ row' = [row EXCEPT ![k] = Seen(@)] /\ Go("loop", "unseen")
  /\ UNCHANGED <<status, shown, moves>>
Close(k) ==
  /\ At("loop", "idle") /\ watching[k] > 0 /\ watching' = [watching EXCEPT ![k] = @ - 1]
  /\ UNCHANGED <<status, row, shown, thread, moves>>

-----------------------------------------------------------------------------
(* publish_unseen *)

\* _unseen_lock: the ledger's value and what is published of it.
Value(t) ==
  /\ thread' = [thread EXCEPT ![t].at = IF Unseen(row) # unseen THEN "over" ELSE "done"]
  /\ unseen' = Unseen(row)

PublishUnseen(t) ==
  /\ At(t, "unseen") /\ Value(t)
  /\ UNCHANGED <<status, ledger, over, read, hubAgent, list, moves>>

-----------------------------------------------------------------------------
(* _overview_read and publish_overview *)

\* The poll reads the screens of blocked panes; then it, and whoever saw the agent move,
\* publishes the list whether the unseen moved or not.
Finish(t) ==
  /\ At(t, "done")
  /\ IF thread[t].also THEN Go(t, "over") ELSE thread' = [thread EXCEPT ![t] = Rest]
  /\ read' = IF t = "poll" THEN read \cup {p \in Panes : over[p] = "blocked"} ELSE read
  /\ UNCHANGED <<status, ledger, over, hubAgent, unseen, list, moves>>

Free == \A t \in Threads : thread[t].at \notin {"over.unseen", "over.rows"}

\* _overview_lock, held over the three readings: state.agent, the unseen, the rows.
ListAgent(t) ==
  /\ At(t, "over") /\ Free
  /\ thread' = [thread EXCEPT ![t].at = "over.unseen", ![t].agent = hubAgent]
  /\ UNCHANGED <<status, ledger, shown, moves>>
ListUnseen(t) ==
  /\ At(t, "over.unseen")
  /\ thread' = [thread EXCEPT ![t].at = "over.rows", ![t].unseen = unseen]
  /\ UNCHANGED <<status, ledger, shown, moves>>

\* value(): blocked before finished before working.
State(s, asked, finished) ==
  IF s = "blocked" THEN IF asked THEN "asks" ELSE "waits"
  ELSE IF finished THEN "done" ELSE IF s = "working" THEN "working" ELSE "none"
Listed(agent, un) ==
  [k \in Keys |-> IF k = Agent THEN State(agent, TRUE, k \in un)
                  ELSE State(over[k], k \in read, k \in un /\ over[k] # "gone")]
ListRows(t) ==
  /\ At(t, "over.rows") /\ list' = Listed(thread[t].agent, thread[t].unseen)
  /\ thread' = [thread EXCEPT ![t] = Rest]
  /\ UNCHANGED <<status, ledger, over, read, hubAgent, unseen, moves>>

-----------------------------------------------------------------------------
PaneMoves(p, s) ==
  /\ moves < MaxMoves /\ moves' = moves + 1 /\ s # status[p] /\ status' = [status EXCEPT ![p] = s]
  /\ UNCHANGED <<ledger, shown, thread>>

Init ==
  /\ status = [k \in Keys |-> IF k = Agent THEN "idle" ELSE "gone"]
  /\ row = [k \in Keys |-> NoRow] /\ watching = [k \in Keys |-> 0]
  /\ over = [p \in Panes |-> "gone"] /\ read = {} /\ hubAgent = "idle"
  /\ unseen = {} /\ list = [k \in Keys |-> "none"]
  /\ thread = [t \in Threads |-> Rest] /\ moves = 0

Publishes(t) ==
  \/ PublishUnseen(t) \/ Finish(t) \/ ListAgent(t) \/ ListUnseen(t) \/ ListRows(t)
Next ==
  \/ PollReads \/ PollObserves
  \/ \E s \in Statuses : AgentMoves(s) \/ \E p \in Panes : PaneMoves(p, s)
  \/ \E k \in Keys : Open(k) \/ Close(k)
  \/ \E t \in Callers, p \in Panes : Mark(t, p)
  \/ \E t \in Threads : Publishes(t)
Spec == Init /\ [][Next]_overviewVars

TypeOK ==
  /\ status \in [Keys -> Statuses] /\ over \in [Panes -> Statuses] /\ hubAgent \in Statuses
  /\ row \in [Keys -> [status : Statuses, fin : {"none", "unseen", "seen"}]]
  /\ watching \in [Keys -> 0..1] /\ read \subseteq Panes /\ unseen \subseteq Keys
  /\ list \in [Keys -> {"asks", "waits", "done", "working", "none"}]
  /\ moves \in 0..MaxMoves

\* What finished unseen is what the clients are told of, and the list they are shown is of
\* the rows, the unseen and the agent as they are: whichever thread changed one of them
\* last, somebody still has to publish it - two that publish at once included.
Current(t) ==
  \/ thread[t].at \in {"rows", "unseen", "over"}
  \/ At(t, "done") /\ thread[t].also
  \/ At(t, "over.unseen") /\ thread[t].agent = hubAgent
  \/ At(t, "over.rows") /\ thread[t].agent = hubAgent /\ thread[t].unseen = unseen
ToldOrToCome ==
  /\ Unseen(row) # unseen => \E t \in Threads : At(t, "unseen")
  /\ list # Listed(hubAgent, unseen) => \E t \in Threads : Current(t)

\* What is on a device's screen is seen: it never counts as finished unseen.
WatchedIsSeen == \A k \in Keys : watching[k] > 0 => row[k].fin # "unseen"

\* What keeps it: one thread at a time reads for the list, and when what it has read is
\* stale, or the list is, whoever made it so has yet to publish.
Steps     == {"idle", "rows", "unseen", "over", "done", "over.unseen", "over.rows"}
Works     == [at : Steps, agent : Statuses, unseen : SUBSET Keys, also : BOOLEAN]
Reads(t)  == thread[t].at \in {"over.unseen", "over.rows"}
Comes(t)  == At(t, "over") \/ (thread[t].also /\ thread[t].at \in {"rows", "unseen", "done"})
AsItIs(t) == thread[t].agent = hubAgent /\ (At(t, "over.rows") => thread[t].unseen = unseen)
ThreadOK  == /\ thread \in [Threads -> Works] /\ (~At("poll", "idle") => thread["poll"].also)
             /\ \A t, u \in Threads : Reads(t) /\ Reads(u) => t = u
UnseenComes == Unseen(row) # unseen => \E t \in Threads : At(t, "unseen")
ListComes == /\ list # Listed(hubAgent, unseen) => \E t \in Threads : Comes(t) \/ (Reads(t) /\ AsItIs(t))
             /\ \A t \in Threads : Reads(t) /\ ~AsItIs(t) => \E u \in Threads : Comes(u)
SeenInv   == TypeOK /\ ThreadOK /\ UnseenComes /\ ListComes /\ WatchedIsSeen
=============================================================================
