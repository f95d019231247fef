--------------------------- MODULE WorkspaceLayout ---------------------------
(***************************************************************************)
(* The layout of one workspace, changed by a device: service.py            *)
(* (_capture_workspace_action, the published binding) and                  *)
(* workspace_layout.py (execute, and the file that keeps the layout).      *)
(*                                                                         *)
(* The daemon runs an action to its end; between any two of its steps the  *)
(* host moves: the person switches workspaces or toggles the layout, and   *)
(* other programs write the same file.  They write it whole, in place or   *)
(* by a rename.                                                            *)
(***************************************************************************)
EXTENDS Naturals

CONSTANTS
  MaxMade, \* versions of the file ever written
  MaxActs, \* layout actions asked for
  MaxTurns \* times the host switches workspaces, or the layout

VARIABLES
  here,     \* the workspace is the active one
  layout,   \* the layout the compositor gives it
  file,     \* <workspace>.lua
  temp,     \* the file an action staged, under its hidden name
  left,     \* versions under hidden names nothing will clean up
  made,     \* versions written so far
  owned,    \* versions of other programs, in files of their own, that none of them replaced,
            \* nor an action rightly
  binding,  \* the layout published for the workspace, or "none"
  fresh,    \* the device's copy of the binding is of the current revision
  step,     \* of the action
  from,     \* the layout it changes
  expected, \* the file it found
  staged,   \* the inode it made
  result,   \* of the last action
  acts, turns,
  quiet     \* nobody else has touched the layout or the file since it was begun

layoutVars == <<here, layout, file, temp, left, made, owned, binding, fresh, step, from, expected, staged, result,
                acts, turns, quiet>>
hostVars  == <<here, layout, turns>>
fileVars  == <<file, temp, left, made, owned>>
boundVars == <<binding, fresh>>
actVars   == <<from, expected, staged, acts>>

Layouts  == {"dwindle", "scrolling"}
Other(l) == CHOOSE m \in Layouts : m # l
\* A file: its inode, what was written to it last, and what that says.
NoFile   == [ino |-> 0, ver |-> 0, says |-> "nothing"]
New(l)   == [ino |-> made + 1, ver |-> made + 1, says |-> l]

-----------------------------------------------------------------------------
(* The host *)

Switch ==
  /\ turns < MaxTurns /\ turns' = turns + 1 /\ here' = ~here
  /\ UNCHANGED <<layout, fileVars, boundVars, step, actVars, result, quiet>>
Toggle ==
  /\ turns < MaxTurns /\ turns' = turns + 1 /\ layout' = Other(layout) /\ quiet' = FALSE
  /\ UNCHANGED <<here, fileVars, boundVars, step, actVars, result>>
\* Another program writes the file, or takes it away.
HostWrites ==
  /\ made < MaxMade /\ made' = made + 1 /\ quiet' = FALSE
  /\ \E l \in Layouts \cup {"other"} : \/ file' = New(l)
                                       \/ file # NoFile /\ file' = [New(l) EXCEPT !.ino = file.ino]
                                       \/ file # NoFile /\ l = "other" /\ file' = NoFile
  /\ owned' = (owned \ {file.ver}) \cup (IF file'.ino \in {0, staged} THEN {} ELSE {made + 1})
  /\ UNCHANGED <<hostVars, temp, left, boundVars, step, actVars, result>>

-----------------------------------------------------------------------------
(* The binding *)

\* _publish_workspace_layout_binding, of the readings there are: they may be old.
Publish ==
  /\ step = "idle" /\ binding' \in Layouts \cup {"none"} /\ binding' # binding /\ fresh' = FALSE
  /\ UNCHANGED <<hostVars, fileVars, step, actVars, result, quiet>>
Shown ==
  /\ binding # "none" /\ ~fresh /\ fresh' = TRUE
  /\ UNCHANGED <<hostVars, fileVars, binding, step, actVars, result, quiet>>

\* _capture_workspace_action: the compositor is asked before the action is accepted.
Capture ==
  /\ step = "idle" /\ acts < MaxActs /\ binding # "none" /\ fresh
  /\ acts' = acts + 1 /\ staged' = 0
  /\ IF here /\ layout = binding
     THEN /\ step' = "check" /\ from' = binding /\ quiet' = TRUE /\ result' = "none"
          /\ UNCHANGED boundVars
     ELSE /\ binding' = "none" /\ fresh' = FALSE /\ result' = "refused"
          /\ UNCHANGED <<step, from, quiet>>
  /\ UNCHANGED <<hostVars, fileVars, expected>>

-----------------------------------------------------------------------------
(* execute *)

To(s) == step' = s
Ends(r) == /\ step' = "clean" /\ result' = r

Check ==
  /\ step = "check"
  /\ IF here /\ layout = from THEN To("snapshot") /\ UNCHANGED result ELSE Ends("failed")
  /\ UNCHANGED <<hostVars, fileVars, boundVars, actVars, quiet>>
\* _snapshot: a body that is not one of the two is a conflict.
Snapshot ==
  /\ step = "snapshot"
  /\ IF file.says # "other" THEN To("prepare") /\ expected' = file /\ UNCHANGED result
                            ELSE Ends("failed") /\ UNCHANGED expected
  /\ UNCHANGED <<hostVars, fileVars, boundVars, from, staged, acts, quiet>>
Prepare ==
  /\ step = "prepare"
  /\ \/ /\ made < MaxMade /\ made' = made + 1
        /\ temp' = New(Other(from)) /\ staged' = made + 1 /\ To("mutate") /\ UNCHANGED result
     \/ Ends("failed") /\ UNCHANGED <<made, temp, staged>>
  /\ UNCHANGED <<hostVars, file, left, owned, boundVars, from, expected, acts, quiet>>
\* The command, which may fail before the compositor took it or after.
Mutate ==
  /\ step = "mutate" /\ layout' \in {layout, Other(from)}
  /\ \/ layout' = Other(from) /\ To("read") /\ UNCHANGED result
     \/ Ends("partial")
  /\ UNCHANGED <<here, turns, fileVars, boundVars, actVars, quiet>>
ReadBack ==
  /\ step = "read"
  /\ IF layout = Other(from) THEN To("compare") /\ UNCHANGED result ELSE Ends("partial")
  /\ UNCHANGED <<hostVars, fileVars, boundVars, actVars, quiet>>

\* _commit
Compare ==
  /\ step = "compare"
  /\ IF file = expected THEN To(IF expected = NoFile THEN "link" ELSE "exchange") /\ UNCHANGED result ELSE Ends("partial")
  /\ UNCHANGED <<hostVars, fileVars, boundVars, actVars, quiet>>
\* A name that is taken meanwhile is left to its owner.
Link ==
  /\ step = "link"
  /\ IF file = NoFile THEN file' = temp /\ temp' = NoFile /\ To("saved") /\ UNCHANGED result
                      ELSE Ends("partial") /\ UNCHANGED <<file, temp>>
  /\ UNCHANGED <<hostVars, left, made, owned, boundVars, actVars, quiet>>
Exchange ==
  /\ step = "exchange"
  /\ \/ file # NoFile /\ file' = temp /\ temp' = file /\ To("verify") /\ UNCHANGED result
     \/ Ends("partial") /\ UNCHANGED <<file, temp>>
  /\ UNCHANGED <<hostVars, left, made, owned, boundVars, actVars, quiet>>
\* What was displaced must be what was found, and ours still be the file.
Verify ==
  /\ step = "verify" /\ To(IF temp = expected /\ file.ino = staged THEN "drop" ELSE "restore")
  /\ UNCHANGED <<hostVars, fileVars, boundVars, actVars, result, quiet>>
Restore ==
  /\ step = "restore" /\ result' = "partial"
  /\ To(IF file.ino = staged THEN "putback" ELSE "clean")
  /\ UNCHANGED <<hostVars, fileVars, boundVars, actVars, quiet>>
PutBack ==
  /\ step = "putback" /\ To("clean")
  /\ IF file # NoFile THEN file' = temp /\ temp' = file ELSE UNCHANGED <<file, temp>>
  /\ UNCHANGED <<hostVars, left, made, owned, boundVars, actVars, result, quiet>>

\* _cleanup_temporary: the hidden name goes if it has the inode it is told of.
Drop ==
  /\ step = "drop" /\ To("saved")
  /\ IF temp.ino = expected.ino THEN temp' = NoFile /\ owned' = owned \ {expected.ver} ELSE UNCHANGED <<temp, owned>>
  /\ UNCHANGED <<hostVars, file, left, made, boundVars, actVars, result, quiet>>
Saved ==
  /\ step = "saved" /\ Ends(IF file.says = Other(from) THEN "applied" ELSE "partial")
  /\ UNCHANGED <<hostVars, fileVars, boundVars, actVars, quiet>>
Remains == IF temp.ino = staged THEN NoFile ELSE temp
\* The finally.
Clean ==
  /\ step = "clean" /\ To("idle")
  /\ temp' = NoFile /\ left' = left \cup ({Remains.ver} \ {0})
  /\ UNCHANGED <<hostVars, file, made, owned, boundVars, actVars, result, quiet>>
Dies ==
  /\ step # "idle" /\ step' = "idle" /\ result' = "unknown" /\ temp' = NoFile /\ left' = left \cup ({temp.ver} \ {0})
  /\ binding' = "none" /\ fresh' = FALSE
  /\ UNCHANGED <<hostVars, file, made, owned, actVars, quiet>>

-----------------------------------------------------------------------------
Init ==
  /\ here = TRUE /\ layout = "dwindle" /\ turns = 0
  /\ file \in {NoFile, [ino |-> 1, ver |-> 1, says |-> "dwindle"]} /\ made = 1
  /\ owned = {file.ver} \ {0} /\ temp = NoFile /\ left = {}
  /\ binding = "none" /\ fresh = FALSE
  /\ step = "idle" /\ from = "dwindle" /\ expected = NoFile /\ staged = 0 /\ result = "none"
  /\ acts = 0 /\ quiet = TRUE

Execute ==
  \/ Check \/ Snapshot \/ Prepare \/ Mutate \/ ReadBack \/ Compare \/ Link \/ Exchange \/ Verify \/ Restore \/ PutBack
  \/ Drop \/ Saved \/ Clean
Next ==
  \/ Switch \/ Toggle \/ HostWrites
  \/ Publish \/ Shown \/ Capture
  \/ Execute \/ Dies
Spec == Init /\ [][Next]_layoutVars

Versions == 0..(MaxMade + 1)
TypeOK ==
  /\ {here, fresh, quiet} \subseteq BOOLEAN /\ layout \in Layouts /\ from \in Layouts
  /\ {file.ino, file.ver, temp.ino, temp.ver, staged} \subseteq Versions
  /\ left \subseteq Versions /\ owned \subseteq Versions
  /\ binding \in Layouts \cup {"none"} /\ result \in {"none", "refused", "failed", "partial", "applied", "unknown"}

\* What another program wrote, in a file of its own, is never lost: it is the file, or stands under the name it
\* was moved to, unless an action replaced what it had found there.
OthersFileKept == \A v \in owned : v \in {file.ver, temp.ver} \cup left

\* An action reported as applied is so in the compositor and in the file, unless somebody
\* moved either after it was accepted; one reported as failed changed nothing and left nothing.
AsReported ==
  step = "idle" /\ quiet =>
    /\ result = "applied" => file.says = Other(from) /\ layout = Other(from)
    /\ result = "failed" => layout = from /\ staged = 0

-----------------------------------------------------------------------------
(* The inductive invariant *)

Files == [ino : Nat, ver : Nat, says : Layouts \cup {"other", "nothing"}]
\* No version and no inode is there twice, and where there is none there is no file.
LayoutShapesOK ==
  /\ file \in Files /\ temp \in Files /\ expected \in Files
  /\ \A f \in {file, temp, expected} : f.ino <= made /\ f.ver <= made /\ (f.ino = 0 => f = NoFile)
  /\ made \in Nat /\ staged \in 0..made /\ owned \subseteq 1..made
\* What is under the inode of the action is its own, or was written over it.
StagedOK == staged # 0 => \A f \in {file, temp} : f.ino = staged => f.ver \notin owned
\* Before it stages anything the action has none, and it drops what it expected.
TempOK ==
  /\ step \in {"idle", "check", "snapshot", "prepare"} => temp = NoFile
  /\ step = "drop" => temp = expected
  /\ step \in {"check", "snapshot", "prepare"} => staged = 0
ReportOK ==
  /\ step \notin {"clean", "idle"} => result \notin {"applied", "failed"}
  /\ step = "clean" /\ result = "failed" => staged = 0
  /\ quiet /\ step \in {"check", "snapshot", "prepare"} => layout = from
  /\ quiet /\ step \in {"compare", "link", "exchange", "verify", "drop", "saved"} => layout = Other(from)
  /\ quiet /\ step = "clean" =>
       /\ result = "applied" => file.says = Other(from) /\ layout = Other(from)
       /\ result = "failed" => layout = from
LayoutInv == LayoutShapesOK /\ StagedOK /\ TempOK /\ ReportOK /\ OthersFileKept /\ AsReported
\* What keeps TypeOK with it: no more versions are written than there may be.
NamesOK ==
  /\ {here, fresh, quiet} \subseteq BOOLEAN /\ layout \in Layouts /\ from \in Layouts /\ binding \in Layouts \cup {"none"}
  /\ result \in {"none", "refused", "failed", "partial", "applied", "unknown"}
MadeOK == made <= MaxMade + 1 /\ left \subseteq 0..made
=============================================================================
