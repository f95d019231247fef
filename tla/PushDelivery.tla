---------------------------- MODULE PushDelivery ---------------------------
(***************************************************************************)
(* What one phone is told while its browser is closed: the Watcher and the *)
(* PushSender of push.py.                                                  *)
(*                                                                         *)
(* The hub's observers are called as an event is published; the sender     *)
(* decides in a later turn of the loop.  The default agent's alerts share  *)
(* a source and a tag: one every debounce, the newest waiting its turn in  *)
(* a window, and held back while somebody is at the desk.  Panes of Herdr  *)
(* that wait are put together in a digest after a delay.  A lane delivers  *)
(* in order.  Texts, languages, echoes and the toasts of the desktop,      *)
(* which go the way of the agent's alerts, are left out.                   *)
(***************************************************************************)
EXTENDS Naturals, Sequences, FiniteSets

CONSTANTS
  Panes,
  MaxNews, MaxSubs, MaxFaults \* changes of the host; subscriptions and settings; deliveries that fail

VARIABLES
  agent, blocked, desk, native, \* the host: the agent, the panes that wait, the desk, an App in front
  events,                       \* published and not yet decided on
  watch,                        \* Watcher: agent, blocked
  sub, want,                    \* the device's row: its subscription, 0 for none; the kinds it wants
  apple,                        \* its service withdraws nothing
  window,                       \* _windows of the agent's source: open, pending, timer
  held,                         \* _held of the agent's source
  announced, timer, waiting,    \* the digest: panes named, the timer, held for the desk
  lane,                         \* what the worker has yet to deliver
  screen, digest,               \* what the phone shows: the agent's alert; the panes of a digest
  kept, fresh,                  \* ghosts: the alert, and the panes, the phone is still owed
  news, subs, faults

host   == <<agent, blocked, desk, native>>
row    == <<sub, want, apple>>
agentq == <<window, held, kept>>
herdrq == <<announced, timer, waiting, fresh>>
phone  == <<screen, digest>>
count  == <<news, subs, faults>>
pushVars == <<host, events, watch, row, agentq, herdrq, lane, phone, count>>

Alerts   == {"approval", "input", "done"}
Statuses == {"idle", "working"} \cup Alerts
Kinds    == Alerts \cup {"blocked"}
Wanted(k) == sub # 0 /\ k \in want /\ ~native
Job(what, panes) == [what |-> what, panes |-> panes, sub |-> sub]

-----------------------------------------------------------------------------
(* What happens on the host, and what the hub publishes of it *)

Change(kind, v) == news < MaxNews /\ news' = news + 1 /\ events' = Append(events, [kind |-> kind, v |-> v])
Rest == UNCHANGED <<watch, row, agentq, herdrq, lane, phone, subs, faults>>
AgentChanges ==
  /\ \E s \in Statuses : s # agent /\ agent' = s /\ Change("agent", s)
  /\ UNCHANGED <<blocked, desk, native>> /\ Rest
PanesChange ==
  /\ \E b \in SUBSET Panes : b # blocked /\ blocked' = b /\ Change("layout", b)
  /\ UNCHANGED <<agent, desk, native>> /\ Rest
DeskChanges ==
  /\ desk' = ~desk /\ Change("desk", desk') /\ UNCHANGED <<agent, blocked, native>> /\ Rest

-----------------------------------------------------------------------------
(* The agent's alerts *)

\* _cancel_pending()
ForgetPending == window' = [window EXCEPT !.pending = "none"]

\* Slip: what waits in the window goes first, the newer is dropped.
AdmitFirst(k) ==
  IF ~window.open /\ ~window.timer
  THEN window' = [window EXCEPT !.open = TRUE] /\ lane' = Append(lane, Job(k, {}))
  ELSE /\ window' = [window EXCEPT !.pending = IF @ = "none" THEN k ELSE @, !.timer = TRUE] /\ UNCHANGED lane
\* _admit(): at once, or as the newest of its window.
Admit(k) ==
  IF ~window.open /\ ~window.timer
  THEN window' = [window EXCEPT !.open = TRUE] /\ lane' = Append(lane, Job(k, {}))
  ELSE window' = [window EXCEPT !.pending = k, !.timer = TRUE] /\ UNCHANGED lane

Waits(s) == s \in {"approval", "input"}
Pushed(old, new) == IF Waits(new) \/ (new = "done" /\ old \in {"working", "approval", "input"}) THEN new ELSE "none"

\* _on_event() of agent.changed.
Agent(new) ==
  LET old == watch.agent  k == Pushed(old, new) IN
  /\ watch' = [watch EXCEPT !.agent = new]
  /\ IF new = old THEN UNCHANGED <<agentq, lane>>
     ELSE IF k = "none" THEN
       IF ~Waits(old) \/ sub = 0 THEN kept' = "none" /\ UNCHANGED <<window, held, lane>>
       ELSE /\ ForgetPending /\ held' = "none" /\ kept' = "none"
            /\ lane' = IF apple THEN lane ELSE Append(lane, Job("retract", {}))
     ELSE IF ~Wanted(k) THEN kept' = "none" /\ UNCHANGED <<window, held, lane>>
     ELSE /\ kept' = k
          /\ IF desk THEN held' = k /\ UNCHANGED <<window, lane>> ELSE Admit(k) /\ UNCHANGED held

\* _flush(): the window's time is over.
Flush ==
  /\ window.timer /\ UNCHANGED <<host, events, watch, row, herdrq, phone, count>>
  /\ LET k == window.pending  over == [open |-> FALSE, pending |-> "none", timer |-> FALSE] IN
     IF k = "none" THEN window' = over /\ UNCHANGED <<held, lane, kept>>
     ELSE IF ~Wanted(k) THEN window' = over /\ kept' = "none" /\ UNCHANGED <<held, lane>>
     \* what was held already is lost to the older alert of the window
     ELSE IF desk THEN window' = over /\ held' = k /\ kept' = (IF held = "none" THEN kept ELSE "none") /\ UNCHANGED lane
     ELSE window' = [over EXCEPT !.open = TRUE] /\ lane' = Append(lane, Job(k, {})) /\ UNCHANGED <<held, kept>>
WindowOver ==
  /\ window.open /\ ~window.timer /\ window' = [window EXCEPT !.open = FALSE]
  /\ UNCHANGED <<host, events, watch, row, held, kept, herdrq, lane, phone, count>>

-----------------------------------------------------------------------------
(* The digest *)

StillNamed == announced \cap watch'.blocked

\* _herdr_settle()
Settle(new) ==
  /\ watch' = [watch EXCEPT !.blocked = new]
  /\ fresh' = IF sub = 0 THEN {} ELSE (fresh \cap new) \cup (new \ watch.blocked)
  /\ IF new = watch.blocked \/ sub = 0 THEN UNCHANGED <<announced, timer, waiting, lane>>
     ELSE IF new = {} THEN
       /\ timer' = FALSE /\ waiting' = FALSE /\ announced' = {}
       /\ lane' = IF announced # {} /\ ~apple THEN Append(lane, Job("retract digest", {})) ELSE lane
     ELSE /\ announced' = StillNamed
          /\ timer' = (timer \/ (new \ announced' # {} /\ ~waiting)) /\ UNCHANGED <<waiting, lane>>

\* _herdr_fire(): what waits by now and was not named; q: what the lane holds.
Fired(q) ==
  \/ /\ watch.blocked \subseteq announced \/ ~Wanted("blocked")
     /\ lane' = q /\ waiting' = FALSE /\ fresh' = {} /\ UNCHANGED announced
  \/ /\ ~(watch.blocked \subseteq announced) /\ Wanted("blocked")
     /\ IF desk THEN lane' = q /\ waiting' = TRUE /\ UNCHANGED <<announced, fresh>>
        ELSE lane' = Append(q, Job("digest", watch.blocked)) /\ announced' = watch.blocked
             /\ waiting' = FALSE /\ fresh' = {}
Fire ==
  /\ timer /\ timer' = FALSE /\ Fired(lane)
  /\ UNCHANGED <<host, events, watch, row, agentq, phone, count>>

-----------------------------------------------------------------------------
(* The desk is left, and the loop takes the next event *)

\* _release(): what is still true goes, the rest is dropped.
Desk(present) ==
  /\ UNCHANGED watch
  /\ IF present THEN UNCHANGED <<agentq, herdrq, lane>>
     ELSE LET k == held  go == k # "none" /\ watch.agent = k /\ Wanted(k)
              first == ~window.open /\ ~window.timer
              q == IF go /\ first THEN Append(lane, Job(k, {})) ELSE lane IN
          /\ held' = "none"
          /\ window' = IF ~go THEN window ELSE IF first THEN [window EXCEPT !.open = TRUE]
                       ELSE [window EXCEPT !.pending = k, !.timer = TRUE]
          /\ kept' = IF k # "none" /\ ~Wanted(k) THEN "none" ELSE kept
          /\ IF waiting THEN Fired(q) /\ timer' = FALSE ELSE lane' = q /\ UNCHANGED herdrq
Decide ==
  /\ events # <<>> /\ events' = Tail(events)
  /\ LET e == Head(events) IN
     \/ e.kind = "agent" /\ Agent(e.v) /\ UNCHANGED herdrq
     \/ e.kind = "layout" /\ Settle(e.v) /\ UNCHANGED agentq
     \/ e.kind = "desk" /\ Desk(e.v)
  /\ UNCHANGED <<host, row, phone, count>>

-----------------------------------------------------------------------------
(* The lane, the phone and its settings *)

Shown(j) ==
  \/ j.what \in Alerts /\ screen' = j.what /\ kept' = (IF kept = j.what THEN "none" ELSE kept) /\ UNCHANGED digest
  \/ j.what = "retract" /\ screen' = "none" /\ UNCHANGED <<digest, kept>>
  \/ j.what = "digest" /\ digest' = j.panes /\ UNCHANGED <<screen, kept>>
  \/ j.what = "retract digest" /\ digest' = {} /\ UNCHANGED <<screen, kept>>

\* drop_endpoint(): only the subscription the service spoke of.
Drop(j) == sub' = IF sub = j.sub THEN 0 ELSE sub

\* _deliver(): it arrives, every try fails, or the service says the subscription is gone.
Deliver ==
  /\ lane # <<>> /\ lane' = Tail(lane)
  /\ LET j == Head(lane) IN
     \/ j.sub = subs /\ Shown(j) /\ UNCHANGED <<sub, faults>>
     \/ /\ \/ j.sub # subs /\ UNCHANGED faults
           \/ j.sub = subs /\ faults < MaxFaults /\ faults' = faults + 1
        /\ Drop(j) /\ UNCHANGED phone
        /\ kept' = IF kept = j.what THEN "none" ELSE kept
     \/ /\ faults < MaxFaults /\ faults' = faults + 1 /\ UNCHANGED <<sub, phone>>
        /\ kept' = IF kept = j.what THEN "none" ELSE kept
  /\ UNCHANGED <<host, events, watch, want, apple, window, held, herdrq, news, subs>>

\* A new subscription ends the one before; the phone shows nothing of it yet.
Subscribe ==
  /\ subs < MaxSubs /\ subs' = subs + 1 /\ sub' = subs' /\ UNCHANGED <<want, kept>>
  /\ UNCHANGED <<host, events, watch, apple, window, held, herdrq, lane, phone, news, faults>>
Prefer ==
  /\ news < MaxNews /\ news' = news + 1
  /\ \/ \E k \in Kinds : want' = (IF k \in want THEN want \ {k} ELSE want \cup {k}) /\ UNCHANGED native
     \/ native' = ~native /\ UNCHANGED want
  /\ UNCHANGED <<agent, blocked, desk, events, watch, sub, apple, agentq, herdrq, lane, phone, subs, faults>>

-----------------------------------------------------------------------------
Init ==
  /\ agent = "idle" /\ blocked = {} /\ desk \in BOOLEAN /\ native = FALSE /\ events = <<>>
  /\ watch = [agent |-> "idle", blocked |-> {}]
  /\ sub = 1 /\ subs = 1 /\ want = Kinds /\ apple \in BOOLEAN
  /\ window = [open |-> FALSE, pending |-> "none", timer |-> FALSE] /\ held = "none" /\ kept = "none"
  /\ announced = {} /\ timer = FALSE /\ waiting = FALSE /\ fresh = {}
  /\ lane = <<>> /\ screen = "none" /\ digest = {} /\ news = 0 /\ faults = 0

Next ==
  \/ AgentChanges \/ PanesChange \/ DeskChanges
  \/ Decide \/ Flush \/ WindowOver \/ Fire \/ Deliver \/ Subscribe \/ Prefer

Spec == Init /\ [][Next]_pushVars

-----------------------------------------------------------------------------
(* Properties *)

Jobs == [what : Alerts \cup {"retract", "digest", "retract digest"}, panes : SUBSET Panes, sub : 0..MaxSubs]
Windows == [open : BOOLEAN, pending : Alerts \cup {"none"}, timer : BOOLEAN]
TypeOK ==
  /\ agent \in Statuses /\ blocked \subseteq Panes /\ desk \in BOOLEAN /\ native \in BOOLEAN
  /\ \A i \in 1..Len(events) :
       \/ events[i].kind = "agent" /\ events[i].v \in Statuses
       \/ events[i].kind = "layout" /\ events[i].v \subseteq Panes
       \/ events[i].kind = "desk" /\ events[i].v \in BOOLEAN
  /\ watch \in [agent : Statuses, blocked : SUBSET Panes]
  /\ sub \in 0..MaxSubs /\ want \subseteq Kinds /\ apple \in BOOLEAN
  /\ window \in Windows
  /\ held \in Alerts \cup {"none"} /\ kept \in Alerts \cup {"none"}
  /\ announced \subseteq Panes /\ fresh \subseteq Panes /\ timer \in BOOLEAN /\ waiting \in BOOLEAN
  /\ lane \in Seq(Jobs)
  /\ screen \in Alerts \cup {"none"} /\ digest \subseteq Panes
  /\ news \in 0..MaxNews /\ subs \in 1..MaxSubs /\ faults \in 0..MaxFaults

InLane(k) == \E i \in 1..Len(lane) : lane[i].what = k
Leaving == \E i \in 1..Len(events) : events[i].kind = "desk" /\ events[i].v = FALSE

\* What the agent waits for reaches the phone: an alert it is owed is in the lane, waits for
\* its window or for the desk to be left (kept leaves out the one case in _flush() it is lost).
WaitingIsTold ==
  kept # "none" /\ watch.agent = kept =>
    InLane(kept) \/ (window.pending = kept /\ window.timer)
    \/ (held = kept /\ (desk \/ Leaving))

\* A pane that starts to wait is named by a digest to come, however often it waited before.
PanesAreTold == fresh # {} /\ subs = 1 => timer \/ (waiting /\ (desk \/ Leaving))

\* "When every pane the last digest named has been answered, it is withdrawn."
DigestWithdrawn ==
  events = <<>> /\ lane = <<>> /\ faults = 0 /\ subs = 1 /\ ~apple /\ blocked = {} => digest = {}

\* A subscription the service did not call gone stays.
FreshStays == [][sub' = 0 /\ sub # 0 => Head(lane).sub = sub]_pushVars

\* What keeps them: what was held for the desk is let go when it is left, and a digest has
\* named only panes that still wait.
WaitsForDesk == waiting => desk \/ Leaving
NamedStill   == subs = 1 /\ sub # 0 => announced \subseteq watch.blocked
Events == [kind : {"agent"}, v : Statuses] \cup [kind : {"layout"}, v : SUBSET Panes] \cup [kind : {"desk"}, v : BOOLEAN]
PushInv == /\ TypeOK /\ events \in Seq(Events)
           /\ WaitingIsTold /\ PanesAreTold /\ WaitsForDesk /\ NamedStill
=============================================================================
