--------------------------- MODULE MirroredState ---------------------------
(***************************************************************************)
(* What the event stream promises the page that shows a host: the state    *)
(* on the screen is a state the host was in, and within one run of the     *)
(* daemon it never goes back.  docs/hub.md calls the place in that history *)
(* the pair (instance_id, seq).                                            *)
(***************************************************************************)
EXTENDS Naturals, Sequences

CONSTANTS Clients, Topics, NoTopic

VARIABLES
  inst,    \* the run of the daemon
  log,     \* the part of the state each event of this run patched
  view     \* what each page shows: for every part, the event it is from

vars == <<inst, log, view>>

\* s is the last of the first n events to patch t; 0, if none has.
LastPatch(n, t, s) ==
  /\ s \in 0..n /\ (s # 0 => log[s] = t)
  /\ \A q \in s+1..n : log[q] # t

Blank == [inst |-> 0, top |-> [t \in Topics |-> 0]]

Publish == \E t \in Topics \cup {NoTopic} : log' = Append(log, t) /\ UNCHANGED <<inst, view>>

\* The page moves on to a later state, or to one of a later run.
Show(d) ==
  \E n \in 0..Len(log) : \E top \in [Topics -> 0..n] :
    /\ \A t \in Topics : LastPatch(n, t, top[t])
    /\ view[d].inst = inst => \A t \in Topics : view[d].top[t] <= top[t]
    /\ view' = [view EXCEPT ![d] = [inst |-> inst, top |-> top]]
    /\ UNCHANGED <<inst, log>>

Reload(d) == view' = [view EXCEPT ![d] = Blank] /\ UNCHANGED <<inst, log>>

Restart == inst' = inst + 1 /\ log' = <<>> /\ UNCHANGED view

Init == inst = 1 /\ log = <<>> /\ view = [d \in Clients |-> Blank]

Next == Publish \/ Restart \/ \E d \in Clients : Show(d) \/ Reload(d)

Spec == Init /\ [][Next]_vars
=============================================================================
