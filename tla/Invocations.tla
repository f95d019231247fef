----------------------------- MODULE Invocations -----------------------------
(***************************************************************************)
(* A row of the menu, tapped on a device and run on the host: service.py   *)
(* (invoke, _resolve_target, _require_confirmation), menu_actions.py       *)
(* (sync, perform) and shortcut_provider.py (rows, perform).               *)
(*                                                                         *)
(* An answer may be lost, so a device sends a request again under its id.  *)
(* An invocation runs to its end on the event loop; the file of the menu,  *)
(* or the keybindings, are edited at any moment, and the daemon may die in *)
(* the middle of one.                                                      *)
(***************************************************************************)
EXTENDS Naturals, Sequences, SequencesExt

CONSTANTS
  Devices,
  MaxStore, \* requests CoreService keeps the outcome of
  MaxTaps,  \* what a person taps
  MaxSends, \* times one request is sent
  MaxEdits  \* times a row is edited

VARIABLES
  text,     \* of each row, at its source: a version, 0 when it is gone
  edits,
  compiled, \* the catalog in the daemon
  owned,    \* MenuActionAdapter.owned, ShortcutProvider.records: what each row runs
  copy,     \* the versions each device is shown
  tap,      \* each device's request: its number, its row, the version it was shown, times sent
  taps,
  store,    \* CoreService._requests, the oldest first
  arms,     \* CoreService._confirm_arms: devices that were refused and may call again
  refused,  \* times each was
  job,      \* the invocation that runs
  ran,      \* times the request of each ran
  runs,     \* times the row that asks for confirmation ran for each
  forgotten,\* the outcome of a device's request was evicted, or died with the daemon
  stale     \* a row ran with another text than its source had when it was called

callVars == <<text, edits, compiled, owned, copy, tap, taps, store, arms, refused, job, ran, runs, forgotten, stale>>

\* A row of the menu that changes the computer, and a keybinding.
Rows   == {"menu", "key"}
NoTap  == [n |-> 0, row |-> "menu", version |-> 0, sent |-> 0]
NoJob  == [on |-> FALSE, device |-> "none", row |-> "menu", text |-> 0]
Entry(d) == <<d, tap[d].n>>
Known(d) == Entry(d) \in ToSet(store)

-----------------------------------------------------------------------------
(* The host and the devices *)

\* A row is edited, or taken away.
Edit(r) ==
  /\ edits < MaxEdits /\ edits' = edits + 1
  /\ \E v \in {0, edits + 2} \ {text[r]} : text' = [text EXCEPT ![r] = v]
  /\ UNCHANGED <<compiled, owned, copy, tap, taps, store, arms, refused, job, ran, runs, forgotten, stale>>

\* refresh_sources, and menu_actions.sync: what is registered follows the source.
Compiled == text
Sync == compiled' = Compiled /\ owned' = Compiled
\* The maintenance tick; the device is shown what was compiled.
Tick ==
  /\ ~job.on /\ compiled # text /\ compiled' = text /\ owned' = text
  /\ UNCHANGED <<text, edits, copy, tap, taps, store, arms, refused, job, ran, runs, forgotten, stale>>
Shown(d) ==
  /\ copy[d] # compiled /\ copy' = [copy EXCEPT ![d] = compiled]
  /\ UNCHANGED <<text, edits, compiled, owned, tap, taps, store, arms, refused, job, ran, runs, forgotten, stale>>
Tap(d, r) ==
  /\ ~(job.on /\ job.device = d)
  /\ taps < MaxTaps /\ taps' = taps + 1 /\ copy[d][r] # 0
  /\ tap' = [tap EXCEPT ![d] = [n |-> taps', row |-> r, version |-> copy[d][r], sent |-> 0]]
  /\ ran' = [ran EXCEPT ![d] = 0] /\ forgotten' = [forgotten EXCEPT ![d] = FALSE]
  /\ UNCHANGED <<text, edits, compiled, owned, copy, store, arms, refused, job, runs, stale>>
\* CONFIRM_WINDOW is over.
Expires(d) ==
  /\ d \in arms /\ arms' = arms \ {d}
  /\ UNCHANGED <<text, edits, compiled, owned, copy, tap, taps, store, refused, job, ran, runs, forgotten, stale>>

-----------------------------------------------------------------------------
(* invoke *)

\* A request is sent, for the first time or again; the loop takes it.
Sent(d) ==
  /\ ~job.on /\ tap[d].n # 0 /\ tap[d].sent < MaxSends
  /\ tap' = [tap EXCEPT ![d].sent = @ + 1]
\* Its outcome is known: it is given, and nothing else is read.
Repeats(d) ==
  /\ Sent(d) /\ Known(d)
  /\ UNCHANGED <<text, edits, compiled, owned, copy, taps, store, arms, refused, job, ran, runs, forgotten, stale>>
\* A row that is gone; a keybinding is a digest of its record, another record another row.
Stands(d) == LET r == tap[d].row IN Compiled[r] # 0 /\ (r = "key" => Compiled[r] = tap[d].version)
Refuses(d) ==
  /\ Sent(d) /\ ~Known(d) /\ Sync /\ ~Stands(d)
  /\ UNCHANGED <<text, edits, copy, taps, store, arms, refused, job, ran, runs, forgotten, stale>>
\* The first call is refused, and arms a second.
Asks(d) ==
  /\ Sent(d) /\ ~Known(d) /\ Sync /\ Stands(d) /\ tap[d].row = "menu" /\ d \notin arms
  /\ arms' = arms \cup {d} /\ refused' = [refused EXCEPT ![d] = @ + 1]
  /\ UNCHANGED <<text, edits, copy, taps, store, job, ran, runs, forgotten, stale>>
\* Slip: an arm is good for the whole of its window.
Kept(d) == arms
\* An arm is good for one call.
Spent(d) == IF tap[d].row = "menu" THEN arms \ {d} ELSE arms
\* The acceptance is stored before anything runs.
Store(d) == Append(store, Entry(d))
Accepts(d) ==
  /\ Sent(d) /\ ~Known(d) /\ Sync /\ Stands(d) /\ (tap[d].row = "menu" => d \in arms)
  /\ arms' = Spent(d) /\ store' = Store(d)
  /\ job' = [on |-> TRUE, device |-> d, row |-> tap[d].row, text |-> text[tap[d].row]]
  /\ UNCHANGED <<text, edits, copy, taps, refused, ran, runs, forgotten, stale>>

\* perform: the text that runs is the catalog's, if it is what was registered; the
\* keybindings are read once more, and the record must still be there.
Runs ==
  /\ job.on /\ job.text # 0
  /\ LET d == job.device r == job.row
         now == IF r = "key" THEN text[r] ELSE compiled[r] IN
     /\ IF IF r = "key" THEN now = tap[d].version ELSE now = owned[r]
        THEN /\ ran' = [ran EXCEPT ![d] = @ + 1]
             /\ runs' = IF r = "menu" THEN [runs EXCEPT ![d] = @ + 1] ELSE runs
             /\ stale' = (stale \/ now # job.text)
        ELSE UNCHANGED <<ran, runs, stale>>
  /\ job' = [job EXCEPT !.text = 0]
  /\ UNCHANGED <<text, edits, compiled, owned, copy, tap, taps, store, arms, refused, forgotten>>
\* The compositor is gone, or the row cannot be started.
Fails ==
  /\ job.on /\ job.text # 0 /\ job' = [job EXCEPT !.text = 0]
  /\ UNCHANGED <<text, edits, compiled, owned, copy, tap, taps, store, arms, refused, ran, runs, forgotten, stale>>
\* Slip: nothing is let go.
Untrimmed(all) == all
\* The oldest outcome is let go when there are too many.
Trimmed(all) == IF Len(all) > MaxStore THEN Tail(all) ELSE all
\* The outcome is stored in the same place.
Ends ==
  /\ job.on /\ job.text = 0 /\ job' = NoJob
  /\ LET all == IF Known(job.device) THEN store ELSE Append(store, Entry(job.device)) IN
     store' = Trimmed(all)
  /\ forgotten' = [d \in Devices |-> forgotten[d] \/ (Known(d) /\ Entry(d) \notin ToSet(store'))]
  /\ UNCHANGED <<text, edits, compiled, owned, copy, tap, taps, arms, refused, ran, runs, stale>>
Dies ==
  /\ store' = <<>> /\ arms' = {} /\ job' = NoJob
  /\ forgotten' = [d \in Devices |-> forgotten[d] \/ Known(d)] /\ forgotten' # forgotten
  /\ UNCHANGED <<text, edits, compiled, owned, copy, tap, taps, refused, ran, runs, stale>>

-----------------------------------------------------------------------------
Init ==
  /\ text = [r \in Rows |-> 1] /\ edits = 0 /\ compiled = text /\ owned = text
  /\ copy = [d \in Devices |-> text] /\ tap = [d \in Devices |-> NoTap] /\ taps = 0
  /\ store = <<>> /\ arms = {} /\ refused = [d \in Devices |-> 0] /\ job = NoJob
  /\ ran = [d \in Devices |-> 0] /\ runs = ran /\ forgotten = [d \in Devices |-> FALSE]
  /\ stale = FALSE

Next ==
  \/ \E r \in Rows : Edit(r)
  \/ Tick \/ Runs \/ Fails \/ Ends \/ Dies
  \/ \E d \in Devices :
       \/ Shown(d) \/ Expires(d) \/ Repeats(d) \/ Refuses(d) \/ Asks(d) \/ Accepts(d)
       \/ \E r \in Rows : Tap(d, r)
Spec == Init /\ [][Next]_callVars

TypeOK ==
  /\ {text, compiled, owned} \subseteq [Rows -> 0..(MaxEdits + 1)]
  /\ Len(store) <= (IF job.on THEN MaxStore + 1 ELSE MaxStore) /\ arms \subseteq Devices /\ stale \in BOOLEAN
  /\ \A d \in Devices : tap[d].sent \in 0..MaxSends

\* A request that is sent again does not run again, unless its outcome was forgotten.
RunsOnce == \A d \in Devices : ran[d] > 1 => forgotten[d]

\* What changes the computer runs for a device only on a call after one that was refused,
\* and each refusal is good for one run.
RunsConfirmed == \A d \in Devices : runs[d] <= refused[d]

\* A row runs with the text its source had when the device called, or does not run.
RunsTheSource == ~stale

-----------------------------------------------------------------------------
(* The inductive invariant *)

Pending(d) == job.on /\ job.device = d /\ job.text # 0
TapRecords == [n : Nat, row : Rows, version : Nat, sent : Nat]
JobRecords == [on : BOOLEAN, device : Devices \cup {"none"}, row : Rows, text : Nat]
CallShapesOK ==
  /\ tap \in [Devices -> TapRecords] /\ job \in JobRecords
  /\ {text, compiled, owned} \subseteq [Rows -> Nat] /\ copy \in [Devices -> [Rows -> Nat]]
  /\ ran \in [Devices -> Nat] /\ runs \in [Devices -> Nat] /\ refused \in [Devices -> Nat]
  /\ forgotten \in [Devices -> BOOLEAN] /\ store \in Seq(Devices \X Nat) /\ arms \subseteq Devices
  /\ {taps, edits} \subseteq Nat /\ (job.on => job.device \in Devices)
\* What ran, or is to, has its outcome on record or was forgotten.
OutcomeOK == \A d \in Devices :
  /\ ran[d] # 0 => forgotten[d] \/ Known(d)
  /\ job.on /\ job.device = d => forgotten[d] \/ Known(d)
  /\ Pending(d) => forgotten[d] \/ ran[d] = 0
\* A refusal that was not used yet is one more than what ran.
ConfirmOK == \A d \in Devices :
  /\ d \in arms \/ (Pending(d) /\ job.row = "menu") => runs[d] + 1 <= refused[d]
  /\ Pending(d) /\ job.row = "menu" => d \notin arms
\* While an invocation runs, neither the catalog nor what its device tapped changes.
AcceptedOK == \A d \in Devices :
  Pending(d) => job.text = IF job.row = "menu" THEN compiled["menu"] ELSE tap[d].version
CallInv == CallShapesOK /\ OutcomeOK /\ ConfirmOK /\ AcceptedOK /\ RunsOnce /\ RunsConfirmed /\ RunsTheSource
\* What keeps TypeOK with it: the request that runs has its place in the store.
VersionsOK == edits <= MaxEdits /\ {text, compiled, owned} \subseteq [Rows -> 0..(MaxEdits + 1)]
StoreOK ==
  /\ Len(store) <= (IF job.on THEN MaxStore + 1 ELSE MaxStore) /\ (job.on => Known(job.device))
  /\ stale \in BOOLEAN /\ \A d \in Devices : tap[d].sent <= MaxSends
=============================================================================
