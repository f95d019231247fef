------------------------------ MODULE Notices ------------------------------
(***************************************************************************)
(* The toasts of the desktop, mirrored to the phones: notifications.py.    *)
(* The Omarchy shell keeps a file per toast, in one directory while it is  *)
(* on screen and in another afterwards; a watch thread reads both, asks    *)
(* core which of its own requests still wait, and takes down what was      *)
(* decided.  Phones act on toasts from threads of their own.  The shell    *)
(* and the plugin that posts the requests are external.                    *)
(*                                                                         *)
(* The requests here are of one device and so their toasts share a title;  *)
(* a stranger's toast may contain it.  The order of rows, their limits and *)
(* what a row says are left out.                                           *)
(***************************************************************************)
EXTENDS Naturals, FiniteSets

CONSTANTS
  Ours, Strangers, \* toasts a request of ours posts, that somebody else posts
  Requests, NoRequest,
  MaxRestarts, MaxAsks

VARIABLES
  waiting,      \* requests not decided
  asks,         \* how often a request was made
  screen, past, \* the shell's files
  for,          \* the request a toast was posted for
  rows,         \* _rows
  withdrawn,    \* _withdrawn: "no", taken from the lists, dismissed at the shell
  told,         \* what the clients' lists hold
  watch,        \* the watch thread: its step and what it has read
  act,          \* a client's call: its step and the toast
  settled,      \* ghost: toasts whose request was decided after they were posted
  restarts

noticeVars == <<waiting, asks, screen, past, for, rows, withdrawn, told, watch, act, settled, restarts>>
files  == <<screen, past>>
asked  == <<waiting, asks, for, settled>>
mirror == <<rows, withdrawn>>

Toasts == Ours \cup Strangers
Listed == {"none", "active", "past", "gone"}
Quiet  == [t \in Toasts |-> "none"]
Idle   == [at |-> "idle", live |-> {}, kept |-> {}, stale |-> {}, out |-> Quiet]
Go(step) == watch' = [watch EXCEPT !.at = step]
Found  == watch.live \cup watch.kept

-----------------------------------------------------------------------------
(* Outside: the stores that hold the requests, the plugin, the shell *)

\* A device asks to pair, or offers a key; a key may be offered again.
Ask(r) ==
  /\ r \notin waiting /\ asks < MaxAsks /\ asks' = asks + 1 /\ waiting' = waiting \cup {r}
  /\ UNCHANGED <<files, for, settled, mirror, told, watch, act, restarts>>

Settle(r) == settled' = settled \cup {t \in Ours : for[t] = r}
Decide(r) ==
  /\ r \in waiting /\ waiting' = waiting \ {r} /\ Settle(r)
  /\ UNCHANGED <<files, asks, for, mirror, told, watch, act, restarts>>

Unused(t) == t \notin screen \cup past \cup Found /\ rows[t] = "none" /\ withdrawn[t] = "no"
Post(t, r) ==
  /\ Unused(t) /\ for[t] = NoRequest /\ t \notin settled
  /\ (t \in Ours /\ r \in waiting) \/ (t \in Strangers /\ r = NoRequest)
  /\ screen' = screen \cup {t} /\ for' = [for EXCEPT ![t] = r]
  /\ UNCHANGED <<past, waiting, asks, settled, mirror, told, watch, act, restarts>>

\* A toast leaves the screen by itself or by hand; the history keeps the last ten.
Leave(t) ==
  /\ t \in screen /\ screen' = screen \ {t} /\ past' = past \cup {t}
  /\ UNCHANGED <<asked, mirror, told, watch, act, restarts>>
Evict(t) ==
  /\ t \in past /\ past' = past \ {t}
  /\ UNCHANGED <<screen, asked, mirror, told, watch, act, restarts>>

-----------------------------------------------------------------------------
(* scan *)

\* _read_file of every file on screen, then of every file of the history.
ReadScreen ==
  /\ watch.at = "idle" /\ watch' = [Idle EXCEPT !.at = "history", !.live = screen]
  /\ UNCHANGED <<files, asked, mirror, told, act, restarts>>
ReadHistory ==
  /\ watch.at = "history" /\ watch' = [watch EXCEPT !.at = "pending", !.kept = past]
  /\ UNCHANGED <<files, asked, mirror, told, act, restarts>>

Decided(ts) == {t \in ts \cap Ours : for[t] \notin waiting}

\* Slip: a store that cannot say is a store in which nothing waits.
ReadNothing ==
  /\ watch.at = "pending"
  /\ \E known \in BOOLEAN :
       watch' = [watch EXCEPT !.at = "apply", !.stale = IF known THEN Decided(Found) ELSE Found \cap Ours]
  /\ UNCHANGED <<files, asked, mirror, told, act, restarts>>

\* _pending: only when one of ours is there; a store that cannot say withdraws nothing.
ReadPending ==
  /\ watch.at = "pending"
  /\ \E known \in BOOLEAN :
       watch' = [watch EXCEPT !.at = "apply", !.stale = IF known THEN Decided(Found) ELSE {}]
  /\ UNCHANGED <<files, asked, mirror, told, act, restarts>>

\* The lists move under the lock; what is told of it is told after.
Drop(t)   == t \in Found /\ (t \in watch.stale \/ withdrawn[t] # "no")
After(t)  ==
  IF Drop(t) THEN "none"
  ELSE IF t \in Found /\ rows[t] = "none"
         THEN IF t \in watch.kept THEN "past" ELSE "active"
  ELSE IF rows[t] = "active" /\ (t \in watch.kept \/ t \notin watch.live) THEN "past"
  ELSE rows[t]
Apply ==
  /\ watch.at = "apply"
  /\ rows' = [t \in Toasts |-> After(t)]
  /\ withdrawn' = [t \in Toasts |->
       IF t \notin Found THEN "no" ELSE IF Drop(t) /\ withdrawn[t] = "no" THEN "yes" ELSE withdrawn[t]]
  /\ watch' = [watch EXCEPT !.at = "emit", !.stale = {},
       !.out = [t \in Toasts |-> IF rows[t] = After(t) THEN "none"
                                 ELSE IF Drop(t) THEN "gone" ELSE After(t)]]
  /\ UNCHANGED <<files, asked, told, act, restarts>>

\* notification.posted and notification.updated, handed to the loop in order.
Emit ==
  /\ watch.at = "emit"
  /\ told' = [t \in Toasts |-> IF watch.out[t] = "none" THEN told[t] ELSE watch.out[t]]
  /\ watch' = [Idle EXCEPT !.at = "targets"]
  /\ UNCHANGED <<files, asked, mirror, act, restarts>>

-----------------------------------------------------------------------------
(* withdraw_stale *)

\* The targets are copied under the lock, and their files read again.
Targets ==
  /\ watch.at = "targets"
  /\ LET ts == {t \in Ours : withdrawn[t] # "no"} IN
     watch' = IF ts = {} THEN Idle
              ELSE [Idle EXCEPT !.at = "reread", !.stale = ts]
  /\ UNCHANGED <<files, asked, mirror, told, act, restarts>>
Reread ==
  /\ watch.at = "reread"
  /\ watch' = [watch EXCEPT !.at = "history.off", !.live = screen, !.kept = past \cap watch.stale]
  /\ UNCHANGED <<files, asked, mirror, told, act, restarts>>

\* _remove of what is in the history.
RemovePast ==
  /\ watch.at = "history.off" /\ past' = past \ (watch.kept \ watch.live) /\ Go("screen.off")
  /\ UNCHANGED <<screen, asked, mirror, told, act, restarts>>

\* The toasts on screen of the one title: wait for ours that still waits, ask the shell,
\* or, when a stranger shares the title or the shell did not move them, remove the files.
\* dismiss goes by the title: whatever is on screen by then is matched.
Mine    == watch.live \cap watch.stale
Sharing == watch.live \ watch.stale
AskShell ==
  /\ watch.at = "screen.off" /\ Mine # {} /\ Sharing = {} /\ (\E t \in Mine : withdrawn[t] = "yes")
  /\ \E matched \in SUBSET screen :
       /\ matched # {} /\ screen' = screen \ matched /\ past' = past \cup matched
  /\ Go("asked")
  /\ UNCHANGED <<asked, mirror, told, act, restarts>>
RemoveFiles ==
  /\ watch.at = "screen.off" /\ Mine # {} /\ (Sharing = {} \/ ~(Sharing \subseteq Ours))
  /\ screen' = screen \ Mine /\ watch' = Idle
  /\ UNCHANGED <<past, asked, mirror, told, act, restarts>>
LeaveThem ==
  /\ watch.at = "screen.off"
  /\ \/ Mine = {}
     \/ Sharing # {} /\ Sharing \subseteq Ours
     \/ Sharing = {} /\ \A t \in Mine : withdrawn[t] = "asked"
  /\ watch' = Idle
  /\ UNCHANGED <<files, asked, mirror, told, act, restarts>>
Dismissed ==
  /\ watch.at = "asked" /\ watch' = Idle
  /\ withdrawn' = [t \in Toasts |-> IF t \in Mine /\ withdrawn[t] # "no" THEN "asked" ELSE withdrawn[t]]
  /\ UNCHANGED <<files, asked, rows, told, act, restarts>>

-----------------------------------------------------------------------------
(* act: a client dismisses or invokes; the row is looked at, the shell asked, the row *)
(* ended under the lock, and the end told after it.                                   *)

NoAct == [at |-> "idle", toast |-> {}]
ActBegin(t) ==
  /\ act = NoAct /\ rows[t] = "active" /\ act' = [at |-> "shell", toast |-> {t}]
  /\ UNCHANGED <<files, asked, mirror, told, watch, restarts>>
\* dismissOne and invokeLast take the newest popup, dismiss one of that title.
ActShell ==
  /\ act.at = "shell"
  /\ \/ \E t \in screen : /\ screen' = screen \ {t} /\ past' = past \cup {t}
                          /\ act' = [act EXCEPT !.at = "row"]
     \/ UNCHANGED files /\ act' = NoAct
  /\ UNCHANGED <<asked, mirror, told, watch, restarts>>
ActRow ==
  /\ act.at = "row"
  /\ LET ended == {t \in act.toast : rows[t] = "active"} IN
     /\ rows' = [t \in Toasts |-> IF t \in ended THEN "past" ELSE rows[t]]
     /\ act' = IF ended = {} THEN NoAct ELSE [act EXCEPT !.at = "tell"]
  /\ UNCHANGED <<files, asked, withdrawn, told, watch, restarts>>
ActTell ==
  /\ act.at = "tell" /\ told' = [t \in Toasts |-> IF t \in act.toast THEN "past" ELSE told[t]]
  /\ act' = NoAct
  /\ UNCHANGED <<files, asked, mirror, watch, restarts>>

\* The daemon is restarted: the mirror is read from the files, the keys offered are gone.
Restart ==
  /\ restarts < MaxRestarts /\ restarts' = restarts + 1
  /\ \E kept \in SUBSET waiting :
       /\ waiting' = kept
       /\ settled' = settled \cup {t \in Ours : for[t] \in waiting \ kept}
  /\ rows' = Quiet /\ withdrawn' = [t \in Toasts |-> "no"] /\ told' = Quiet
  /\ watch' = Idle /\ act' = NoAct
  /\ UNCHANGED <<files, asks, for>>

-----------------------------------------------------------------------------
Init ==
  /\ waiting = {} /\ asks = 0 /\ screen = {} /\ past = {} /\ for = [t \in Toasts |-> NoRequest]
  /\ rows = Quiet /\ withdrawn = [t \in Toasts |-> "no"] /\ told = Quiet
  /\ watch = Idle /\ act = NoAct /\ settled = {} /\ restarts = 0

Outside ==
  \/ \E r \in Requests : Ask(r) \/ Decide(r)
  \/ \E t \in Toasts : Leave(t) \/ Evict(t) \/ \E r \in Requests \cup {NoRequest} : Post(t, r)
Watch ==
  \/ ReadScreen \/ ReadHistory \/ ReadPending \/ Apply \/ Emit
  \/ Targets \/ Reread \/ RemovePast \/ AskShell \/ RemoveFiles \/ LeaveThem \/ Dismissed
Next == Outside \/ Watch \/ (\E t \in Toasts : ActBegin(t)) \/ ActShell \/ ActRow \/ ActTell \/ Restart
Spec == Init /\ [][Next]_noticeVars

TypeOK ==
  /\ waiting \subseteq Requests /\ asks \in 0..MaxAsks /\ screen \subseteq Toasts /\ past \subseteq Toasts
  /\ for \in [Toasts -> Requests \cup {NoRequest}] /\ settled \subseteq Ours
  /\ rows \in [Toasts -> Listed] /\ told \in [Toasts -> Listed]
  /\ withdrawn \in [Toasts -> {"no", "yes", "asked"}]
  /\ act.toast \subseteq Toasts /\ watch.out \in [Toasts -> Listed]

\* A request that nobody has decided stays on every list: whatever was posted, decided or
\* asked again while the files were read, a toast is withdrawn only when its own request
\* was decided after it was posted, and no stranger's ever is.
WaitingStays == \A t \in Toasts :
  withdrawn[t] # "no" \/ told[t] = "gone" \/ watch.out[t] = "gone" => t \in settled

\* "Rows here never reach a client again" (a client's dismissal, told late, says otherwise).
NeverAgain == \A t \in Toasts : withdrawn[t] # "no" /\ watch.at = "idle" => told[t] \in {"gone", "none"}

\* What keeps WaitingStays: a toast of ours that the shell or the watch thread has is of a
\* request that waits or was settled, and only the settled are stale.
Steps == {"idle", "history", "pending", "apply", "emit", "targets", "reread", "history.off", "screen.off", "asked"}
WatchOK  == /\ watch \in [at : Steps, live : SUBSET Toasts, kept : SUBSET Toasts, stale : SUBSET Toasts,
                          out : [Toasts -> Listed]]
            /\ act \in [at : {"idle", "shell", "row", "tell"}, toast : SUBSET Toasts]
StaleOK  == watch.stale \subseteq settled
PostedOK == \A t \in Ours : t \in screen \cup past \cup Found => for[t] \in waiting \/ t \in settled
StaleIsSettled == TypeOK /\ WatchOK /\ WaitingStays /\ StaleOK /\ PostedOK
=============================================================================
