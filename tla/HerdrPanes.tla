----------------------------- MODULE HerdrPanes -----------------------------
(***************************************************************************)
(* What devices do to one pane of a Herdr session: the control streams,    *)
(* one at a time and taken over on request; a view, restarted to change    *)
(* its size; and the keys, texts and launches that are typed without a     *)
(* stream, Enter only when the screen shows that the text arrived.         *)
(* (herdr_bridge.py, and the stream handler of network.py.)                *)
(*                                                                         *)
(* Herdr, the pane's program and the person at it are external: what they  *)
(* show and when a dialog takes the keyboard is a choice.  A text is its   *)
(* writer; of a size only that it is the one asked for last.               *)
(***************************************************************************)
EXTENDS Naturals, FiniteSets

CONSTANTS
  Streams, NoStream, \* channels of control streams
  Writers, NoWriter, \* requests that type
  MaxSizes, MaxRuns

VARIABLES
  holder,   \* _controllers of the pane
  stream,   \* each control stream: its step, and whether it was told to end
  wanted,   \* the view: the size of state["argv"]
  shown,    \* the view: the size its process runs at, or 0
  restart,  \* the view: state["restart"]
  view,     \* the view: what its reader of the socket and its writer are doing
  writer,   \* each writer: its step, kind, whether it submits, what it saw before
  lock,     \* the pane's lock
  screen,   \* the texts on screen
  blocked,  \* Herdr reports the pane's agent blocked
  last,     \* ghost: who typed last
  proved,   \* ghost: the writer whose text was seen to arrive, until something is typed
  runs

paneVars == <<holder, stream, wanted, shown, restart, view, writer, lock, screen, blocked, last, proved, runs>>
control == <<holder, stream>>
looking == <<wanted, shown, restart, view>>
typing  == <<writer, lock, last, proved>>
outside == <<screen, blocked>>

Sizes == 0..MaxSizes
At(s, step) == stream[s].at = step
Set(s, step) == stream' = [stream EXCEPT ![s].at = step]

-----------------------------------------------------------------------------
(* The control streams *)

NoClaim == [at |-> "idle", evicted |-> FALSE]

\* claim_control, and the eviction of whoever held it, before the upgrade.
Claim(s, takeover) ==
  /\ At(s, "idle") /\ runs < MaxRuns /\ runs' = runs + 1
  /\ holder = NoStream \/ takeover
  /\ holder' = s
  /\ stream' = [c \in Streams |->
       IF c = s THEN [at |-> "upgrade", evicted |-> FALSE]
       ELSE IF c = holder THEN [stream[c] EXCEPT !.evicted = TRUE] ELSE stream[c]]
  /\ UNCHANGED <<looking, typing, outside>>

\* Slip: the end of a stream frees the pane, whoever has taken it meanwhile.
FreesIt(s) == NoStream

\* release_control: only its own claim.
Released(s) == IF holder = s THEN NoStream ELSE holder

\* ws.prepare, with the process that follows it; a connection that broke gives the claim back.
Upgrade(s) ==
  /\ At(s, "upgrade")
  /\ \/ Set(s, "open") /\ UNCHANGED holder
     \/ holder' = Released(s) /\ stream' = [stream EXCEPT ![s] = NoClaim]
  /\ UNCHANGED <<looking, typing, outside, runs>>
\* Only a ConnectionError is caught: a request that is no upgrade at all keeps the claim.
UpgradeRefused(s) ==
  /\ At(s, "upgrade") /\ stream' = [stream EXCEPT ![s] = NoClaim] /\ UNCHANGED holder
  /\ UNCHANGED <<looking, typing, outside, runs>>

\* taken_over, the client or Herdr closing it, the credential refused by guard.
Ending(s) ==
  /\ At(s, "open") /\ Set(s, "ending")
  /\ UNCHANGED <<holder, looking, typing, outside, runs>>
\* The tasks are cancelled and the process is gone; the claim goes last.
Ended(s) ==
  /\ At(s, "ending") /\ holder' = Released(s) /\ stream' = [stream EXCEPT ![s] = NoClaim]
  /\ UNCHANGED <<looking, typing, outside, runs>>

-----------------------------------------------------------------------------
(* A view.  Two tasks share its process: to_host hears of a new size and stops it,   *)
(* to_client sees it end and, when it was asked to, starts another.                  *)

Resize ==
  /\ view.host = "read" /\ wanted < MaxSizes /\ wanted' = wanted + 1 /\ restart' = TRUE
  /\ shown' = 0 /\ view' = [view EXCEPT !.host = "stop"]
  /\ UNCHANGED <<control, typing, outside, runs>>
Stopped ==
  /\ view.host = "stop" /\ view' = [view EXCEPT !.host = "read"]
  /\ UNCHANGED <<control, wanted, shown, restart, typing, outside, runs>>
\* The end of the process, read by to_client.
EndOfFile ==
  /\ view.client = "read" /\ shown = 0
  /\ restart' = FALSE /\ view' = [view EXCEPT !.client = IF restart THEN "stop" ELSE "closed"]
  /\ UNCHANGED <<control, wanted, shown, typing, outside, runs>>
\* spawn(): the size is the one asked for as it begins, and the process is there later.
Spawn ==
  /\ view.client = "stop" /\ view' = [view EXCEPT !.client = "spawn", !.size = wanted]
  /\ UNCHANGED <<control, wanted, shown, restart, typing, outside, runs>>
Spawned ==
  /\ view.client = "spawn" /\ shown' = view.size /\ view' = [view EXCEPT !.client = "read"]
  /\ UNCHANGED <<control, wanted, restart, typing, outside, runs>>

-----------------------------------------------------------------------------
(* Typing *)

Idle == [at |-> "idle", kind |-> "keys", before |-> FALSE, tries |-> 0]
W(w, step) == writer[w].at = step
Step(w, step) == writer' = [writer EXCEPT ![w].at = step]
Typed(w) == last' = w /\ proved' = NoWriter
Done(w) == writer' = [writer EXCEPT ![w] = Idle] /\ lock' = NoWriter

Begin(w, kind) ==
  /\ W(w, "idle") /\ runs < MaxRuns /\ runs' = runs + 1
  /\ writer' = [writer EXCEPT ![w] = [Idle EXCEPT !.at = "lock", !.kind = kind]]
  /\ UNCHANGED <<control, looking, lock, last, proved, outside>>

\* _pane_lock, over the whole of what is typed.
Lock(w) ==
  /\ W(w, "lock") /\ lock = NoWriter /\ lock' = w
  /\ Step(w, IF writer[w].kind = "submit" THEN "blocked" ELSE "send")
  /\ UNCHANGED <<control, looking, last, proved, outside, runs>>

\* agent_blocked: a text is not typed into a question.
Blocked(w) ==
  /\ W(w, "blocked")
  /\ IF blocked THEN Done(w) ELSE Step(w, "before") /\ UNCHANGED lock
  /\ UNCHANGED <<control, looking, last, proved, outside, runs>>
Before(w) ==
  /\ W(w, "before")
  /\ writer' = [writer EXCEPT ![w].at = "send", ![w].before = w \in screen]
  /\ UNCHANGED <<control, looking, lock, last, proved, outside, runs>>

\* pane.send_keys or pane.send_text: the program may show it, or swallow it.
Send(w) ==
  /\ W(w, "send") /\ Typed(w)
  /\ IF writer[w].kind \in {"submit", "launch"}
       THEN Step(w, IF writer[w].kind = "submit" THEN "look" ELSE "enter") /\ UNCHANGED lock
       ELSE Done(w)
  /\ screen' \in IF writer[w].kind = "keys" THEN {screen} ELSE {screen, screen \cup {w}}
  /\ UNCHANGED <<control, looking, blocked, runs>>
SendFails(w) ==
  /\ writer[w].at \in {"before", "send", "enter"} /\ Done(w)
  /\ UNCHANGED <<control, looking, last, proved, outside, runs>>

\* text_proof: there now, and not before.
Proof(w) == w \in screen /\ ~writer[w].before

\* The screen is read until it shows the text, or the tries are over.
Look(w) ==
  /\ W(w, "look")
  /\ IF Proof(w)
       THEN /\ Step(w, "enter") /\ UNCHANGED lock
            /\ proved' = IF writer[w].before THEN proved ELSE w
     ELSE /\ UNCHANGED proved
          /\ IF writer[w].tries < 1 THEN writer' = [writer EXCEPT ![w].tries = @ + 1] /\ UNCHANGED lock
             ELSE Done(w)
  /\ UNCHANGED <<control, looking, last, outside, runs>>
Enter(w) ==
  /\ W(w, "enter") /\ Typed(w) /\ Done(w) /\ screen' = screen \ {w}
  /\ UNCHANGED <<control, looking, blocked, runs>>

\* The pane's program and the person at the desk.
Shows(w) ==
  /\ screen' \in {screen \ {w}, screen \cup {w}} /\ screen' # screen
  /\ UNCHANGED <<control, looking, typing, blocked, runs>>
Asks ==
  /\ blocked' = ~blocked /\ UNCHANGED <<control, looking, typing, screen, runs>>

-----------------------------------------------------------------------------
Init ==
  /\ holder = NoStream /\ stream = [s \in Streams |-> NoClaim]
  /\ wanted = 1 /\ shown = 1 /\ restart = FALSE
  /\ view = [host |-> "read", client |-> "read", size |-> 1]
  /\ writer = [w \in Writers |-> Idle] /\ lock = NoWriter /\ screen = {} /\ blocked = FALSE
  /\ last = NoWriter /\ proved = NoWriter /\ runs = 0

Next ==
  \/ \E s \in Streams : \/ \E takeover \in BOOLEAN : Claim(s, takeover)
                        \/ Upgrade(s) \/ UpgradeRefused(s) \/ Ending(s) \/ Ended(s)
  \/ Resize \/ Stopped \/ EndOfFile \/ Spawn \/ Spawned
  \/ \E w \in Writers : \/ \E kind \in {"keys", "text", "submit", "launch"} : Begin(w, kind)
                        \/ Lock(w) \/ Blocked(w) \/ Before(w) \/ Send(w) \/ SendFails(w)
                        \/ Look(w) \/ Enter(w) \/ Shows(w)
  \/ Asks
Spec == Init /\ [][Next]_paneVars

TypeOK ==
  /\ holder \in Streams \cup {NoStream}
  /\ stream \in [Streams -> [at : {"idle", "upgrade", "open", "ending"}, evicted : BOOLEAN]]
  /\ wanted \in Sizes /\ shown \in Sizes /\ view.size \in Sizes /\ restart \in BOOLEAN
  /\ lock \in Writers \cup {NoWriter} /\ last \in Writers \cup {NoWriter}
  /\ screen \subseteq Writers /\ runs \in 0..MaxRuns

\* A stream that nobody took the pane from holds it until its end: the end of the one it
\* took it from, which comes later, does not free it for a third.
HolderStays == \A s \in Streams : stream[s].at \in {"upgrade", "open"} /\ ~stream[s].evicted => holder = s

\* Enter is pressed for a reply only when its own words were seen to arrive, and core has
\* typed nothing else into the pane since: the words of one device are never submitted by
\* another's keys, nor a line that was on the screen before.
EnterIsProved == \A w \in Writers : W(w, "enter") /\ writer[w].kind = "submit" => last = w /\ proved = w

\* "The bridge restarts the stream at the new size": not when the new size comes while the
\* process for the one before is starting.
ResizeIsShown == view.host = "read" /\ view.client = "read" /\ shown # 0 => shown = wanted

\* A pane is held by a stream that is there: not after a request that was no upgrade.
HeldIsThere == holder # NoStream => ~At(holder, "idle")

\* What keeps them: who types has the pane's lock from its first look to its last key, and so
\* nothing is typed between a text, the look that finds it and the Enter.
TypistOK ==
  \A w \in Writers :
    /\ writer[w].at \in {"blocked", "before", "send", "look", "enter"} => lock = w
    /\ W(w, "look") => last = w
Turns == [at : {"idle", "lock", "blocked", "before", "send", "look", "enter"},
          kind : {"keys", "text", "submit", "launch"}, before : BOOLEAN, tries : 0..1]
ShapesOK ==
  /\ view \in [host : {"read", "stop"}, client : {"read", "stop", "spawn", "closed"}, size : Sizes]
  /\ proved \in Writers \cup {NoWriter}
  /\ writer \in [Writers -> Turns]
PaneInv == TypeOK /\ ShapesOK /\ TypistOK /\ HolderStays /\ EnterIsProved
=============================================================================
