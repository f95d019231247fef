---------------------------- MODULE ServeMapping ----------------------------
(***************************************************************************)
(* The one mapping of `tailscale serve` that gives Odomo its address, and  *)
(* the record of whose it is: odomo_serve.py (ensure, remove), which       *)
(* Install, Remove and `omodachi-host odomo` run.                          *)
(*                                                                         *)
(* What serves a port is asked for, and changed by another command: a      *)
(* person may have changed it in between, and every command may fail.      *)
(***************************************************************************)
EXTENDS Naturals

CONSTANTS
  MaxTurns, \* changes of a person
  MaxRuns

VARIABLES
  map,    \* [port -> what it serves]: nothing, core's target, or something else
  made,   \* the ports core made a mapping on, and may have on record
  theirs, \* [port -> what a person put there last]
  record, \* tailscale-serve.json
  run,    \* the operation, its step, what it asked for, the port it is at
  raced,  \* a person changed a port between the question and the command
  turns, runs

serveVars == <<map, made, theirs, record, run, raced, turns, runs>>

Ports == {443, 8443}
NoRecord == [port |-> 0, owner |-> "none"]
NoRun == [op |-> "none", at |-> "none", port |-> 0]
At(op, step) == run.op = op /\ run.at = step
To(step) == run' = [run EXCEPT !.at = step]

-----------------------------------------------------------------------------
\* A person serves something of their own, the same target, or nothing.
Turns(p) ==
  /\ turns < MaxTurns /\ turns' = turns + 1
  /\ \E m \in {"free", "core", "other"} \ {map[p]} :
       /\ map' = [map EXCEPT ![p] = m]
       /\ theirs' = [theirs EXCEPT ![p] = m]
  /\ raced' = (raced \/ (run.at \in {"command", "verify"} /\ run.port = p))
  /\ UNCHANGED <<made, record, run, runs>>

Begin(op) ==
  /\ run = NoRun /\ runs < MaxRuns /\ runs' = runs + 1
  /\ run' = [NoRun EXCEPT !.op = op, !.at = "asks"]
  /\ UNCHANGED <<map, made, theirs, record, raced, turns>>
\* Tailscale is not there, not running, or not this user's to change.  A removal that does not
\* find the program forgets its record all the same.
Off ==
  /\ run.at = "asks" /\ run' = NoRun
  /\ record' \in {record} \cup (IF run.op = "remove" THEN {NoRecord} ELSE {})
  /\ UNCHANGED <<map, made, theirs, raced, turns, runs>>

\* An identical mapping is a person's, unless the record says otherwise of this port.
Owner(p) == IF record.port = p THEN record.owner ELSE "user"
\* ensure: the first port that serves core already, or serves nothing.
Chosen(found) == IF found[443] # "other" THEN 443 ELSE IF found[8443] # "other" THEN 8443 ELSE 0
Finds ==
  /\ At("ensure", "asks")
  /\ LET p == Chosen(map) IN
     IF p # 0 /\ map[p] = "free"
     THEN run' = [run EXCEPT !.at = "command", !.port = p] /\ UNCHANGED record
     ELSE /\ run' = NoRun /\ record' = IF p = 0 THEN record ELSE [port |-> p, owner |-> Owner(p)]
  /\ UNCHANGED <<map, made, theirs, raced, turns, runs>>
Maps ==
  /\ At("ensure", "command") /\ To("verify")
  /\ \/ /\ map' = [map EXCEPT ![run.port] = "core"]
        /\ made' = made \cup {run.port}
     \/ UNCHANGED <<map, made>>
  /\ UNCHANGED <<theirs, record, raced, turns, runs>>
\* The mapping is asked for again, which may fail: it is recorded only if it is there.
Records ==
  /\ At("ensure", "verify") /\ run' = NoRun
  /\ \/ UNCHANGED record
     \/ record' = IF map[run.port] = "core" THEN [port |-> run.port, owner |-> "omodachi"] ELSE record
  /\ UNCHANGED <<map, made, theirs, raced, turns, runs>>

\* remove: a record of core's own, and a mapping that points where it did.
StillOurs == record.owner = "omodachi" /\ map[record.port] = "core"
Looks ==
  /\ At("remove", "asks")
  /\ IF StillOurs THEN run' = [run EXCEPT !.at = "command", !.port = record.port] /\ UNCHANGED record
                  ELSE run' = NoRun /\ record' = NoRecord
  /\ UNCHANGED <<map, made, theirs, raced, turns, runs>>
TurnsOff ==
  /\ At("remove", "command") /\ To("verify")
  /\ map' \in {map, [map EXCEPT ![run.port] = "free"]}
  /\ UNCHANGED <<made, theirs, record, raced, turns, runs>>
Clears ==
  /\ At("remove", "verify") /\ run' = NoRun
  /\ \/ UNCHANGED record
     \/ record' = IF map[run.port] = "free" THEN NoRecord ELSE record
  /\ UNCHANGED <<map, made, theirs, raced, turns, runs>>
Killed ==
  /\ run # NoRun /\ run' = NoRun
  /\ UNCHANGED <<map, made, theirs, record, raced, turns, runs>>

-----------------------------------------------------------------------------
Init ==
  /\ map \in [Ports -> {"free", "core", "other"}] /\ made = {} /\ theirs = map
  /\ record = NoRecord /\ run = NoRun /\ raced = FALSE /\ turns = 0 /\ runs = 0

Next ==
  \/ \E p \in Ports : Turns(p)
  \/ Begin("ensure") \/ Begin("remove") \/ Off
  \/ Finds \/ Maps \/ Records \/ Looks \/ TurnsOff \/ Clears \/ Killed
Spec == Init /\ [][Next]_serveVars

TypeOK ==
  /\ map \in [Ports -> {"free", "core", "other"}] /\ made \subseteq Ports /\ theirs \in [Ports -> {"free", "core", "other"}]
  /\ record.port \in Ports \cup {0} /\ record.owner \in {"none", "omodachi", "user"} /\ raced \in BOOLEAN

\* What a person serves is neither replaced nor turned off, also when it is the mapping core
\* would have made, except where core had made one on that port or both changed it at once.
UsersMappingStays ==
  ~raced => \A p \in Ports : theirs[p] = "other" \/ (theirs[p] = "core" /\ p \notin made) => map[p] = theirs[p]

\* Where a command is given, what it changes is still what was asked for.
ServeShapesOK ==
  /\ map \in [Ports -> {"free", "core", "other"}] /\ theirs \in [Ports -> {"free", "core", "other"}]
  /\ run \in [op : {"none", "ensure", "remove"}, at : {"none", "asks", "command", "verify"}, port : Ports \cup {0}]
  /\ run.at \in {"command", "verify"} => run.port \in Ports
  /\ record \in [port : Ports \cup {0}, owner : {"none", "omodachi", "user"}]
  /\ record.owner = "omodachi" => record.port \in Ports
FoundOK ==
  ~raced =>
    /\ At("ensure", "command") => map[run.port] = "free"
    /\ At("ensure", "verify") /\ map[run.port] = "core" => run.port \in made
    /\ At("remove", "command") => map[run.port] = "core" /\ run.port \in made
    /\ record.owner = "omodachi" => record.port \in made
ServeInv == ServeShapesOK /\ FoundOK /\ UsersMappingStays
=============================================================================
