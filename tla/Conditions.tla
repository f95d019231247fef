----------------------------- MODULE Conditions -----------------------------
(***************************************************************************)
(* When a condition of a menu row is read again: conditions.py (the table  *)
(* of readings, and the inotify watches) and catalog_runtime.py (the       *)
(* catalog on the shelf, built of them).                                   *)
(*                                                                         *)
(* The event loop reads, and workers do: the maintenance tick's, and one   *)
(* for each menu that was opened.  A thread of its own dispatches the      *)
(* events of the watches.  The engine's lock is held for a step at a time. *)
(* Every condition is a shell's; what it would answer is a number that     *)
(* grows.  A condition marked is ready: not_before is over by the next     *)
(* pass.                                                                   *)
(***************************************************************************)
EXTENDS Naturals

CONSTANTS
  Workers,  \* threads that read, besides the loop
  Files,    \* conditions of the file class: their paths are watched
  Demands,  \* conditions of the demand class: read again when a menu opens
  MaxMoves, \* times an answer changes
  MaxEdits  \* times a row is taken from the menu's source, or put back

VARIABLES
  rows,     \* conditions some row of the source has
  value,    \* what each would answer now
  told,     \* the answer each had when its trigger fired last
  entries,  \* ConditionEngine._entries: the conditions in it
  reading,  \* of each, 0 for none
  due,      \* those marked
  inflight, \* _inflight
  watched,  \* conditions whose paths are watched
  stale,    \* _watches_stale
  events,   \* conditions with an event that was not dispatched
  thread,   \* each thread: its step, what it reads, what it got, the patterns it arms
  dirty,    \* CatalogRuntime._dirty
  shelf,    \* the readings the catalog on the shelf was built of
  over,     \* conditions that changed under the read that answered for them
  overlap,  \* two threads were reading at once, or arming the watches
  revived,  \* conditions forgotten while a thread read them, and made anew by it unwatched
  missed,   \* a reading moved between the walk of the rows and the end of it
  edits

conditionVars == <<rows, value, told, entries, reading, due, inflight, watched, stale, events,
                   thread, dirty, shelf, over, overlap, revived, missed, edits>>
hostVars  == <<rows, value, told, events, edits>>
tableVars == <<entries, reading, due, inflight>>
watchVars == <<watched, stale>>
shelfVars == <<dirty, shelf, missed>>

Keys    == Files \cup Demands
Threads == {"loop"} \cup Workers
Rest    == [at |-> "idle", jobs |-> {}, got |-> [k \in Keys |-> 0], arm |-> {}]
Busy(t) == thread[t].at \in {"arm", "claim", "read"}

-----------------------------------------------------------------------------
(* The host *)

\* The answer changes; a watched path tells.
Move(k) ==
  /\ value[k] <= MaxMoves /\ value' = [value EXCEPT ![k] = @ + 1]
  /\ events' = IF k \in watched THEN events \cup {k} ELSE events
  /\ told' = IF k \in Files \cap entries THEN [told EXCEPT ![k] = value[k] + 1] ELSE told
  /\ over' = IF \E t \in Threads : thread[t].got[k] # 0 THEN over \cup {k} ELSE over
  /\ UNCHANGED <<rows, tableVars, watchVars, thread, shelfVars, overlap, revived, edits>>
Edit(k) ==
  /\ edits < MaxEdits /\ edits' = edits + 1 /\ thread["loop"].at = "idle"
  /\ rows' = IF k \in rows THEN rows \ {k} ELSE rows \cup {k}
  /\ dirty' = TRUE
  /\ UNCHANGED <<value, told, events, tableVars, watchVars, thread, shelf, missed, over, overlap, revived>>

\* mark_due: what is read at this moment is marked too, and not read again for it.
MarkDue(ks) ==
  /\ due' = due \cup (ks \cap entries)
  /\ over' = over \cup {k \in ks : \E t \in Threads : thread[t].got[k] # 0}

\* PathWatcher._dispatch, on its own thread.
Dispatch(k) ==
  /\ k \in events /\ events' = events \ {k}
  /\ MarkDue({k})
  /\ UNCHANGED <<rows, value, told, edits, entries, reading, inflight, watchVars, thread, shelfVars, overlap, revived>>

-----------------------------------------------------------------------------
(* A pass: what is owed is chosen, watched, claimed and read *)

Ready == {k \in rows \cap entries : k \in due \/ reading[k] = 0}
To(t, step) == thread' = [thread EXCEPT ![t].at = step]

\* _warm_engine: a worker reads what is owed, the loop what was never read.
Begins(t, kept) ==
  LET new  == rows \ kept
      owed == {k \in Ready \cup new : t = "loop" => reading[k] = 0} IN
  /\ thread[t].at = "idle"
  /\ entries' = kept \cup new /\ stale' = (stale \/ kept # entries \/ new \cap Files # {})
  /\ reading' = [k \in Keys |-> IF k \in kept THEN reading[k] ELSE 0] /\ due' = due \cap kept
  /\ thread' = [thread EXCEPT ![t].jobs = owed, ![t].at =
                  IF owed # {} \/ t # "loop" THEN "sync" ELSE "walk"]
  /\ revived' = revived \cap kept
  /\ UNCHANGED <<hostVars, inflight, watched, shelfVars, over, overlap>>
\* warm: conditions no row has are forgotten, and their watches, also when nothing is owed.
Warm(t) == t \in Workers /\ Begins(t, entries \cap rows)
\* refresh: the shelf is dirty, or its window is over.
Refresh == Begins("loop", entries)

\* sync_watches: the patterns are taken under the lock and armed after it.
Sync(t) ==
  /\ thread[t].at = "sync" /\ stale' = FALSE
  /\ thread' = [thread EXCEPT ![t].at = IF stale THEN "arm" ELSE "claim",
                              ![t].arm = IF stale THEN entries \cap Files ELSE {}]
  /\ UNCHANGED <<hostVars, tableVars, watched, shelfVars, over, overlap, revived>>
Arm(t) ==
  /\ thread[t].at = "arm" /\ thread' = [thread EXCEPT ![t].at = "claim", ![t].arm = {}]
  /\ watched' = thread[t].arm
  /\ UNCHANGED <<hostVars, tableVars, stale, shelfVars, over, overlap, revived>>

\* evaluate
Unclaimed(t) == thread[t].jobs \ inflight
Claim(t) ==
  /\ thread[t].at = "claim" /\ inflight' = inflight \cup Unclaimed(t)
  /\ thread' = [thread EXCEPT ![t].jobs = Unclaimed(t), ![t].at =
                  IF Unclaimed(t) # {} THEN "read" ELSE IF t = "loop" THEN "walk" ELSE "idle"]
  /\ overlap' = (overlap \/ \E u \in Threads \ {t} : Busy(u))
  /\ UNCHANGED <<hostVars, entries, reading, due, watchVars, shelfVars, over, revived>>
\* The shells run at once.
Read(t, k) ==
  /\ thread[t].at = "read" /\ k \in thread[t].jobs /\ thread[t].got[k] = 0
  /\ thread' = [thread EXCEPT ![t].got[k] = value[k]]
  /\ over' = over \ {k}
  /\ UNCHANGED <<hostVars, tableVars, watchVars, shelfVars, overlap, revived>>
\* All are recorded together, an entry that went meanwhile made anew.
Finish(t) ==
  LET js == thread[t].jobs IN
  /\ thread[t].at = "read" /\ \A k \in js : thread[t].got[k] # 0
  /\ entries' = entries \cup js
  /\ reading' = [k \in Keys |-> IF k \in js THEN thread[t].got[k] ELSE reading[k]]
  /\ due' = due \ js /\ inflight' = inflight \ js
  /\ thread' = [thread EXCEPT ![t] = [Rest EXCEPT !.at = IF \E k \in js : thread[t].got[k] # reading[k] THEN "dirty"
                                                           ELSE IF t = "loop" THEN "walk" ELSE "idle"]]
  /\ revived' = revived \cup ((js \cap Files) \ entries)
  /\ UNCHANGED <<hostVars, watchVars, shelfVars, over, overlap>>
Dirty(t) ==
  /\ thread[t].at = "dirty" /\ To(t, IF t = "loop" THEN "walk" ELSE "idle") /\ dirty' = TRUE
  /\ UNCHANGED <<hostVars, tableVars, watchVars, shelf, missed, over, overlap, revived>>

\* The rows are walked with the readings they have; then the shelf is no longer dirty.
Walk ==
  /\ thread["loop"].at = "walk"
  /\ thread' = [thread EXCEPT !["loop"].at = "built", !["loop"].got = [k \in Keys |-> 0]]
  /\ shelf' = reading /\ missed' = FALSE
  /\ UNCHANGED <<hostVars, tableVars, watchVars, dirty, over, overlap, revived>>
Built ==
  /\ thread["loop"].at = "built" /\ To("loop", "idle") /\ dirty' = FALSE
  /\ missed' = (shelf # reading)
  /\ UNCHANGED <<hostVars, tableVars, watchVars, shelf, over, overlap, revived>>

-----------------------------------------------------------------------------
(* What fires a trigger besides a watch *)

\* demand: a menu opens; the file class counts while nothing watches it.
OpenMenu ==
  /\ thread["loop"].at = "idle"
  /\ \E old \in SUBSET (entries \cap Demands) \ {{}} : \* those older than demand_ttl
     /\ MarkDue(old)
     /\ told' = [k \in Keys |-> IF k \in old THEN value[k] ELSE told[k]]
  /\ UNCHANGED <<rows, value, events, edits, entries, reading, inflight, watchVars, thread, shelfVars, overlap, revived>>
\* invoke: invalidate_row before the action, after_invoke behind it.
Invoke(k) ==
  /\ thread["loop"].at = "idle" /\ k \in rows \cap entries
  /\ LET after == ({k} \cup Demands) \cap rows \cap entries IN
     /\ MarkDue(after)
     /\ value' \in {value} \cup {[value EXCEPT ![k] = @ + 1] : n \in {1} \cap 1..(MaxMoves + 1 - value[k])}
     /\ events' = IF value' # value /\ k \in watched THEN events \cup {k} ELSE events
     /\ told' = [j \in Keys |-> IF j \in after THEN value'[j] ELSE told[j]]
  /\ dirty' = TRUE
  /\ UNCHANGED <<rows, edits, entries, reading, inflight, watchVars, thread, shelf, missed, overlap, revived>>

-----------------------------------------------------------------------------
Init ==
  /\ rows = Keys /\ value = [k \in Keys |-> 1] /\ told = [k \in Keys |-> 0] /\ events = {} /\ edits = 0
  /\ entries = {} /\ reading = [k \in Keys |-> 0] /\ due = {} /\ inflight = {}
  /\ watched = {} /\ stale = FALSE /\ thread = [t \in Threads |-> Rest]
  /\ dirty = TRUE /\ shelf = [k \in Keys |-> 0]
  /\ over = {} /\ overlap = FALSE /\ revived = {} /\ missed = FALSE

Next ==
  \/ \E k \in Keys : Move(k) \/ Edit(k) \/ Dispatch(k) \/ Invoke(k)
  \/ Refresh \/ Walk \/ Built \/ OpenMenu
  \/ \E t \in Threads :
       \/ Warm(t) \/ Sync(t) \/ Arm(t) \/ Claim(t) \/ Finish(t) \/ Dirty(t)
       \/ \E k \in Keys : Read(t, k)
Spec == Init /\ [][Next]_conditionVars

TypeOK ==
  /\ rows \subseteq Keys /\ entries \subseteq Keys /\ due \subseteq entries
  /\ inflight \subseteq Keys /\ watched \subseteq Files /\ events \subseteq Files
  /\ value \in [Keys -> 1..(MaxMoves + 1)] /\ reading \in [Keys -> 0..(MaxMoves + 1)]
  /\ \A t \in Threads : thread[t].jobs \subseteq Keys

\* What a thread reads or is about to, with an answer no older than its trigger.
Underway(k) == \E t \in Threads :
  \/ k \in thread[t].jobs /\ thread[t].at \in {"sync", "arm", "claim"}
  \/ thread[t].at = "read" /\ k \in thread[t].jobs /\ thread[t].got[k] \in {0} \cup told[k]..(MaxMoves + 1)
Owed(k) == k \notin entries \/ k \in due \/ reading[k] = 0 \/ k \in events \/ Underway(k)

\* A condition whose trigger fired is read again: its path changed, a menu was opened or
\* an action ran.
FiredIsRead == \A k \in rows : reading[k] >= told[k] \/ Owed(k)

\* The same, unless it fired while the condition was being read or two threads were
\* reading: a watch is armed before what it watches is read.
QuietIsRead == \A k \in rows : reading[k] >= told[k] \/ Owed(k) \/ k \in over \/ overlap \/ k \in revived

\* Two threads never run one condition's shell at once.
OneShell == \A t, u \in Threads :
  t # u /\ thread[t].at = "read" /\ thread[u].at = "read" => thread[t].jobs \cap thread[u].jobs = {}

\* A catalog built of other readings than there are is dirty, or about to be; unless they
\* moved after the rows were walked.
ShelfIsMarked ==
  thread["loop"].at = "idle" /\ (\A t \in Threads : thread[t].at # "dirty") /\ ~missed =>
    dirty \/ \A k \in rows : shelf[k] = reading[k]
-----------------------------------------------------------------------------
(* The inductive invariant *)

Steps == {"idle", "sync", "arm", "claim", "read", "dirty", "walk", "built"}
ThreadRecords == [at : Steps, jobs : SUBSET Keys, got : [Keys -> 0..(MaxMoves + 1)], arm : SUBSET Files]
CondShapesOK ==
  /\ rows \subseteq Keys /\ entries \subseteq Keys /\ due \subseteq entries /\ inflight \subseteq Keys
  /\ watched \subseteq Files /\ events \subseteq Files
  /\ value \in [Keys -> 1..(MaxMoves + 1)] /\ told \in [Keys -> 0..(MaxMoves + 1)]
  /\ reading \in [Keys -> 0..(MaxMoves + 1)]
  /\ thread \in [Threads -> ThreadRecords]

\* What is in flight is what the readers read, each its own; what is not known has no reading.
ReadersOK ==
  /\ \A k \in Keys : k \in inflight <=> \E t \in Threads : thread[t].at = "read" /\ k \in thread[t].jobs
  /\ \A t \in Threads, k \in Keys : thread[t].got[k] # 0 => thread[t].at = "read" /\ k \in thread[t].jobs
  /\ OneShell
  /\ \A k \in Keys : k \notin entries => reading[k] = 0

\* An answer in hand is no older than its trigger, unless it changed under the read.
AnswersOK ==
  /\ \A k \in Keys : told[k] <= value[k]
  /\ \A t \in Threads, k \in Keys : thread[t].got[k] # 0 => k \in over \/ told[k] <= thread[t].got[k]

Tracked   == (Files \cap entries) \ revived
Coming(k) == \E t \in Threads : thread[t].at \in {"sync", "arm", "claim"} /\ k \in thread[t].jobs
Owing(k)  == stale /\ \E t \in Threads : thread[t].at = "sync" /\ k \in thread[t].jobs
Doomed    == overlap \/ \E t, u \in Threads :
  t # u /\ thread[t].at \in {"arm", "claim"} /\ thread[u].at \in {"arm", "claim"}

\* While one thread at most arms and claims, a path is watched, or in the patterns about
\* to be armed, or they are taken anew before it is read.
PatternsOK == ~Doomed => \A k \in Tracked :
  /\ k \in watched \/ Owing(k) \/ \E t \in Threads : thread[t].at = "arm" /\ k \in thread[t].arm
  /\ \A t \in Threads : thread[t].at = "arm" => k \in thread[t].arm \/ Owing(k)

\* A path that is not watched, or is about to be forgotten, is read afterwards.
WatchesOK == ~overlap => \A k \in Tracked :
  /\ k \in watched \/ Coming(k)
  /\ \A t \in Threads : thread[t].at = "arm" => k \in thread[t].arm \/ Coming(k)

\* QuietIsRead, of every condition.
FiredOK == \A k \in Keys : told[k] <= reading[k] \/ Owed(k) \/ k \in over \/ overlap \/ k \in revived

CondInv == CondShapesOK /\ ReadersOK /\ AnswersOK /\ PatternsOK /\ WatchesOK /\ FiredOK /\ ShelfIsMarked
=============================================================================
