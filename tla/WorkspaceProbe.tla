---------------------------- MODULE WorkspaceProbe ----------------------------
(***************************************************************************)
(* What the devices are shown of the desktop, and what they do there:      *)
(* graphical.py (inspect, publish, select_existing, move) and service.py   *)
(* (schedule_workspace_refresh, set_workspace_snapshot, the window a token *)
(* stands for).                                                            *)
(*                                                                         *)
(* A probe asks the compositor from a worker; a workspace is selected and  *)
(* a window moved on the event loop, which publishes what it read back.    *)
(* The person at the desk does the same at any moment.                     *)
(***************************************************************************)
EXTENDS Naturals

CONSTANTS
  Spaces,  \* workspaces
  Windows,
  MaxTime, \* times the desk changes
  MaxActs, \* what the devices ask for
  MaxShown \* times what is shown changes

VARIABLES
  desk,  \* the compositor: the active workspace, the focused window, when either changed
  shown, \* what is published: the same, read at a time, and the token of the focused window
  tokens,\* tokens made
  revision,\* of the published state
  gen,   \* HyprlandWorkspaceAdapter.generation
  probe, \* a probe under way: the generation it began in, and what it has read
  copy,  \* what a device was shown: its token, the window that was, the revision
  act,   \* the action on the event loop
  back,  \* when the last action was read back
  moved, \* the window moved last, and the one the device had seen
  acts

probeVars == <<desk, shown, tokens, revision, gen, probe, copy, act, back, moved, acts>>

NoProbe == [on |-> FALSE, gen |-> 0, focus |-> "none", active |-> 0, at |-> 0]
NoAct   == [at |-> "none", space |-> 0, window |-> "none", token |-> 0]
Reading == [active |-> desk.active, focus |-> desk.focus, at |-> desk.time]

-----------------------------------------------------------------------------
(* The desk *)

Changes(active, focus) == desk.time < MaxTime /\ desk' = [active |-> active, focus |-> focus, time |-> desk.time + 1]
Person ==
  /\ \E s \in Spaces, w \in Windows \cup {"none"} : <<s, w>> # <<desk.active, desk.focus>> /\ Changes(s, w)
  /\ UNCHANGED <<shown, tokens, revision, gen, probe, copy, act, back, moved, acts>>

-----------------------------------------------------------------------------
(* Publishing *)

\* set_workspace_snapshot: another window in front is another token.
Token(focus) == IF focus = "none" THEN 0 ELSE IF focus = shown.focus THEN shown.token ELSE tokens + 1
Publish(reading) ==
  /\ shown' = [active |-> reading.active, focus |-> reading.focus, at |-> reading.at, token |-> Token(reading.focus)]
  /\ tokens' = IF Token(reading.focus) > tokens THEN Token(reading.focus) ELSE tokens
  /\ revision' = revision + (IF <<reading.active, reading.focus>> # <<shown.active, shown.focus>> THEN 1 ELSE 0)
  /\ revision' <= MaxShown

\* schedule_workspace_refresh: the windows are asked for before the workspace.
ProbeBegins ==
  /\ ~probe.on /\ act.at = "none" /\ probe' = [NoProbe EXCEPT !.on = TRUE, !.gen = gen]
  /\ UNCHANGED <<desk, shown, tokens, revision, gen, copy, act, back, moved, acts>>
ProbeWindow ==
  /\ probe.on /\ probe.at = 0 /\ probe' = [probe EXCEPT !.focus = desk.focus, !.at = desk.time]
  /\ UNCHANGED <<desk, shown, tokens, revision, gen, copy, act, back, moved, acts>>
ProbeActive ==
  /\ probe.on /\ probe.at # 0 /\ probe.active = 0 /\ probe' = [probe EXCEPT !.active = desk.active]
  /\ UNCHANGED <<desk, shown, tokens, revision, gen, copy, act, back, moved, acts>>
SameGeneration == probe.gen = gen
ProbePublishes ==
  /\ probe.on /\ probe.active # 0 /\ act.at = "none" /\ probe' = NoProbe
  /\ IF SameGeneration THEN Publish(probe) ELSE UNCHANGED <<shown, tokens, revision>>
  /\ UNCHANGED <<desk, gen, copy, act, back, moved, acts>>

-----------------------------------------------------------------------------
(* The devices *)

Look ==
  /\ copy' = [token |-> shown.token, window |-> shown.focus, revision |-> revision] /\ copy' # copy
  /\ UNCHANGED <<desk, shown, tokens, revision, gen, probe, act, back, moved, acts>>

\* select_existing: the workspace is there, as far as a reading of this moment says.
Select(s) ==
  /\ act.at = "none" /\ acts < MaxActs /\ acts' = acts + 1 /\ gen' = gen + 1
  /\ act' = [NoAct EXCEPT !.at = "select", !.space = s]
  /\ UNCHANGED <<desk, shown, tokens, revision, probe, copy, back, moved>>
Selected ==
  /\ act.at = "select" /\ act' = [act EXCEPT !.at = "read"]
  /\ \/ Changes(act.space, desk.focus)
     \/ act.space = desk.active /\ UNCHANGED desk
  /\ UNCHANGED <<shown, tokens, revision, gen, probe, copy, back, moved, acts>>

\* invoke: the state is read again, and must be the one the device was shown.
AskMove ==
  /\ act.at = "none" /\ acts < MaxActs /\ acts' = acts + 1
  /\ Publish(Reading)
  /\ act' = IF copy.revision = revision' /\ copy.token # 0 /\ copy.token = shown'.token
            THEN [at |-> "move", space |-> 0, window |-> shown'.focus, token |-> copy.token] ELSE NoAct
  /\ UNCHANGED <<desk, gen, probe, copy, back, moved>>
\* move: once more, and the window the token stands for must be in front.
MoveChecks ==
  /\ act.at = "move" /\ gen' = gen + 1 /\ Publish(Reading)
  /\ act' = IF desk.focus = act.window THEN [act EXCEPT !.at = "dispatch"] ELSE NoAct
  /\ UNCHANGED <<desk, probe, copy, back, moved, acts>>
\* The command names it by its address.
Named == act.window
Moves ==
  /\ act.at = "dispatch" /\ Named # "none" /\ act' = [act EXCEPT !.at = "read"]
  /\ moved' = [window |-> Named, seen |-> copy.window]
  /\ UNCHANGED <<desk, shown, tokens, revision, gen, probe, copy, back, acts>>
\* The readback is published.
ReadBack ==
  /\ act.at = "read" /\ act' = NoAct /\ Publish(Reading) /\ back' = desk.time
  /\ UNCHANGED <<desk, gen, probe, copy, moved, acts>>
\* The compositor refuses, or does not answer.
Fails ==
  /\ act.at \in {"select", "dispatch"} /\ act' = NoAct
  /\ UNCHANGED <<desk, shown, tokens, revision, gen, probe, copy, back, moved, acts>>

-----------------------------------------------------------------------------
Init ==
  /\ desk = [active |-> CHOOSE s \in Spaces : TRUE, focus |-> CHOOSE w \in Windows : TRUE, time |-> 1]
  /\ shown = [active |-> 0, focus |-> "none", at |-> 0, token |-> 0]
  /\ tokens = 0 /\ revision = 0 /\ gen = 0 /\ probe = NoProbe
  /\ copy = [token |-> 0, window |-> "none", revision |-> 0]
  /\ act = NoAct /\ back = 0 /\ moved = [window |-> "none", seen |-> "none"] /\ acts = 0

Next ==
  \/ Person \/ ProbeBegins \/ ProbeWindow \/ ProbeActive \/ ProbePublishes
  \/ Look \/ Selected \/ MoveChecks \/ Moves \/ ReadBack \/ Fails \/ AskMove
  \/ \E s \in Spaces : Select(s)
Spec == Init /\ [][Next]_probeVars

TypeOK ==
  /\ desk.active \in Spaces /\ desk.focus \in Windows \cup {"none"}
  /\ shown.focus \in Windows \cup {"none"} /\ shown.active \in Spaces \cup {0} /\ shown.token \in 0..tokens
  /\ revision \in 0..MaxShown /\ gen \in 0..MaxActs /\ back \in 0..MaxTime

\* A reading begun before an action does not overwrite what the action read back.
ReadbackStands == shown.at >= back

\* A window is moved for a device only if it is the one the device was shown.
MovesTheShown == moved.window = moved.seen

-----------------------------------------------------------------------------
(* The inductive invariant *)

ProbeShapesOK ==
  /\ desk.time \in Nat \ {0} /\ back \in 0..desk.time /\ {tokens, gen} \subseteq Nat
  /\ {shown.token, copy.token} \subseteq 0..tokens /\ shown.at \in 0..desk.time
\* What a probe read in the generation there is was read since the last readback; and a probe
\* that is under way during an action began before it.
ProbeOK ==
  probe.on =>
    /\ probe.gen \in 0..gen /\ probe.at \in 0..desk.time /\ (probe.active # 0 => probe.at # 0)
    /\ act.at \in {"select", "dispatch", "read"} => probe.gen < gen
    /\ probe.gen = gen /\ probe.at # 0 => probe.at >= back
\* A token stands for one window; and what is to be moved is shown, to the device too.
TokenOK ==
  /\ copy.token # 0 /\ copy.token = shown.token => copy.window = shown.focus
  /\ act.at \in {"move", "dispatch"} => act.window = shown.focus /\ act.window = copy.window
ProbeInv == ProbeShapesOK /\ ProbeOK /\ TokenOK /\ ReadbackStands /\ MovesTheShown
\* What keeps TypeOK with it: what is read or asked for is of the desk, and an action counts
\* once towards the generation.
SeenOK ==
  /\ desk.active \in Spaces /\ desk.focus \in Windows \cup {"none"}
  /\ shown.active \in Spaces \cup {0} /\ shown.focus \in Windows \cup {"none"}
  /\ probe.active \in Spaces \cup {0} /\ probe.focus \in Windows \cup {"none"}
  /\ act.at = "select" => act.space \in Spaces
CountsOK ==
  /\ desk.time <= MaxTime /\ revision \in 0..MaxShown
  /\ acts \in 0..MaxActs /\ gen <= acts /\ (act.at = "move" => gen < acts)
=============================================================================
