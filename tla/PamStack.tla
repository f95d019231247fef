------------------------------- MODULE PamStack -------------------------------
(***************************************************************************)
(* One file of /etc/pam.d with the two lines Omodachi puts in it, and what *)
(* goes with them: pam_install.py (install, remove), which install_host.py *)
(* runs as root.                                                           *)
(*                                                                         *)
(* A service has a file of the host's own, or only the vendor's, of which  *)
(* an install makes a copy.  Between two steps of a run the run may be     *)
(* killed; at any time the person edits the file, or a package update      *)
(* changes the vendor's.                                                   *)
(***************************************************************************)
EXTENDS Naturals

CONSTANTS
  MaxVersions, \* what the rest of the file says, of the vendor and of the person
  MaxRuns      \* installs and removals

VARIABLES
  vendor,  \* the vendor's file
  live,    \* /etc/pam.d/<service>: what it says besides, and the state of our lines
  backup,  \* <service>.orig
  absent,  \* <service>.absent, and the digest it holds of the copy that was made
  helper,  \* /usr/local/bin/omodachi-pam and its configuration
  keys,    \* the keys of the devices, enrolled in root's store
  dropin,  \* the drop-in and the tmpfiles fragment
  manifest,
  run,     \* the run of the installer: what it does, its step, what it has read
  result,  \* of the last
  runs,
  versions,
  theirs,  \* what the host's own file says; 0 while there is none
  raced,   \* the file was edited between a run's reading and its writing of it
  killed,  \* a run was killed
  deleted, \* the file was deleted by hand
  updated  \* the vendor's file changed

pamVars == <<vendor, live, backup, absent, helper, keys, dropin, manifest, run, result, runs, versions, theirs, raced,
             killed, deleted, updated>>
hostVars   == <<vendor, versions, theirs, raced, killed, deleted, updated>>
recordVars == <<backup, absent, manifest>>
placeVars  == <<helper, keys, dropin>>

\* line: none, the two that are ours, or a line that names us and was changed.
NoFile   == [says |-> 0, line |-> "none"]
Unmarked == [on |-> FALSE, seed |-> 0]
NoRun    == [op |-> "none", at |-> "none", text |-> NoFile]

-----------------------------------------------------------------------------
(* The host *)

\* The person edits the rest of the file, our lines, or deletes it.
Edits ==
  /\ versions < MaxVersions /\ versions' = versions + 1
  /\ \/ /\ live # NoFile /\ live' = [live EXCEPT !.says = versions + 1] /\ theirs' = versions + 1 /\ UNCHANGED deleted
     \/ /\ live.line = "ours" /\ \E l \in {"none", "edited"} : live' = [live EXCEPT !.line = l]
        /\ UNCHANGED <<theirs, deleted>>
     \/ live # NoFile /\ live' = NoFile /\ theirs' = 0 /\ deleted' = TRUE
  /\ raced' = (raced \/ run.at = "write")
  /\ UNCHANGED <<vendor, recordVars, placeVars, run, result, runs, killed, updated>>
Update ==
  /\ versions < MaxVersions /\ versions' = versions + 1 /\ vendor' = versions + 1 /\ updated' = TRUE
  /\ UNCHANGED <<live, theirs, raced, killed, deleted, recordVars, placeVars, run, result, runs>>
\* pam_enroll, run by hand.
Enrols ==
  /\ helper /\ run = NoRun /\ ~keys /\ keys' = TRUE
  /\ UNCHANGED <<hostVars, live, recordVars, helper, dropin, run, result, runs>>

-----------------------------------------------------------------------------
(* install *)

At(op, step) == run.op = op /\ run.at = step
To(step)     == run' = [run EXCEPT !.at = step]

Begin(op, first) ==
  /\ run = NoRun /\ runs < MaxRuns /\ runs' = runs + 1 /\ result' = "none"
  /\ run' = [NoRun EXCEPT !.op = op, !.at = first]
  /\ UNCHANGED <<hostVars, live, recordVars, placeVars>>
WriteHelper ==
  /\ At("install", "helper") /\ helper' = TRUE /\ To("backup")
  /\ UNCHANGED <<hostVars, live, recordVars, keys, dropin, result, runs>>
\* _ensure_backup: what was there is recorded once.
Backup ==
  /\ At("install", "backup") /\ To("seed")
  /\ IF backup # NoFile \/ absent.on THEN UNCHANGED <<backup, absent>>
     ELSE IF live # NoFile THEN backup' = live /\ UNCHANGED absent
     ELSE absent' = [Unmarked EXCEPT !.on = TRUE] /\ UNCHANGED backup
  /\ UNCHANGED <<hostVars, live, manifest, placeVars, result, runs>>
\* _seed: the copy, and then its digest; the first digest in the marker is the one that counts.
Seed ==
  /\ At("install", "seed")
  /\ IF live # NoFile THEN To("read") /\ UNCHANGED live
     ELSE live' = [NoFile EXCEPT !.says = vendor] /\ run' = [run EXCEPT !.at = "digest", !.text = live']
  /\ UNCHANGED <<hostVars, recordVars, placeVars, result, runs>>
Digest ==
  /\ At("install", "digest") /\ To("read")
  /\ absent' = IF absent.on /\ absent.seed = 0 THEN [absent EXCEPT !.seed = run.text.says] ELSE absent
  /\ UNCHANGED <<hostVars, live, backup, manifest, placeVars, result, runs>>
ReadFile ==
  /\ run.at = "read" /\ (run.op = "install" => live # NoFile) /\ run' = [run EXCEPT !.at = "write", !.text = live]
  /\ UNCHANGED <<hostVars, live, recordVars, placeVars, result, runs>>
\* _insert: every line that names us goes, and ours are put in.
Insert ==
  /\ At("install", "write") /\ live' = [run.text EXCEPT !.line = "ours"] /\ To("dropin")
  /\ UNCHANGED <<hostVars, recordVars, placeVars, result, runs>>
DropIn ==
  /\ At("install", "dropin") /\ dropin' = TRUE /\ To("manifest")
  /\ UNCHANGED <<hostVars, live, recordVars, helper, keys, result, runs>>
Manifest ==
  /\ At("install", "manifest") /\ manifest' = TRUE /\ run' = NoRun /\ result' = "installed"
  /\ UNCHANGED <<hostVars, live, backup, absent, placeVars, runs>>

-----------------------------------------------------------------------------
(* remove *)

\* A copy of ours that says what the vendor's file says now, or said then, goes.
OurCopy == absent.on /\ run.text.says \in {vendor, absent.seed}
Stripped == IF OurCopy THEN NoFile ELSE [run.text EXCEPT !.line = "none"]
\* A line that was changed is a conflict: the file is left, and its records.
Conflict == run.text.line = "edited"
Strip ==
  /\ At("remove", "write") /\ live' = IF Conflict \/ run.text = NoFile THEN live ELSE Stripped
  /\ To(IF Conflict THEN "dropin" ELSE "records") /\ result' = IF Conflict THEN "conflict" ELSE "none"
  /\ UNCHANGED <<hostVars, recordVars, placeVars, runs>>
DropBackup ==
  /\ At("remove", "records") /\ backup' = NoFile /\ To("marker")
  /\ UNCHANGED <<hostVars, live, absent, manifest, placeVars, result, runs>>
DropMarker ==
  /\ At("remove", "marker") /\ absent' = Unmarked /\ To("dropin")
  /\ UNCHANGED <<hostVars, live, backup, manifest, placeVars, result, runs>>
RemoveDropIn ==
  /\ At("remove", "dropin") /\ dropin' = FALSE /\ To("keys")
  /\ UNCHANGED <<hostVars, live, recordVars, helper, keys, result, runs>>
RemoveKeys ==
  /\ At("remove", "keys") /\ keys' = FALSE /\ To("helper")
  /\ UNCHANGED <<hostVars, live, recordVars, helper, dropin, result, runs>>
RemoveHelper ==
  /\ At("remove", "helper") /\ helper' = FALSE /\ To("manifest")
  /\ UNCHANGED <<hostVars, live, recordVars, keys, dropin, result, runs>>
RemoveManifest ==
  /\ At("remove", "manifest") /\ run' = NoRun
  /\ manifest' = (manifest /\ result = "conflict") /\ result' = IF result = "conflict" THEN result ELSE "removed"
  /\ UNCHANGED <<hostVars, live, backup, absent, placeVars, runs>>
Killed ==
  /\ run # NoRun /\ run' = NoRun /\ result' = "killed" /\ killed' = TRUE
  /\ UNCHANGED <<vendor, versions, theirs, raced, deleted, updated, live, recordVars, placeVars, runs>>

-----------------------------------------------------------------------------
Init ==
  /\ vendor = 1 /\ versions = 2 /\ updated = FALSE
  /\ live \in {NoFile, [NoFile EXCEPT !.says = 2]} /\ theirs = live.says
  /\ backup = NoFile /\ absent = Unmarked /\ manifest = FALSE
  /\ helper = FALSE /\ keys = FALSE /\ dropin = FALSE
  /\ run = NoRun /\ result = "none" /\ runs = 0 /\ raced = FALSE
  /\ killed = FALSE /\ deleted = FALSE

Install == Begin("install", "helper")
\* A removal reads the file if anything shows the service was touched.
Remove == Begin("remove", IF manifest \/ backup # NoFile \/ absent.on \/ live.line # "none" THEN "read" ELSE "dropin")
Next ==
  \/ Edits \/ Update \/ Enrols
  \/ Install \/ WriteHelper \/ Backup \/ Seed \/ Digest \/ ReadFile \/ Insert \/ DropIn \/ Manifest
  \/ Remove \/ Strip \/ DropBackup \/ DropMarker \/ RemoveDropIn \/ RemoveKeys \/ RemoveHelper \/ RemoveManifest
  \/ Killed
Spec == Init /\ [][Next]_pamVars

Lines == {"none", "ours", "edited"}
Files == [says : 0..(MaxVersions + 1), line : Lines]
TypeOK ==
  /\ {live, backup, run.text} \subseteq Files /\ {helper, keys, dropin, manifest, raced, killed, deleted, updated} \subseteq BOOLEAN
  /\ theirs \in 0..MaxVersions /\ result \in {"none", "installed", "removed", "conflict", "killed"}

\* What the host's own file says besides our lines is never lost nor put back to an older
\* state, whatever is installed, removed or killed; unless it was edited under a run's hands.
TheirsKept == ~raced => (theirs # 0 => live.says = theirs)

\* A removal that ends takes our lines, the keys and the helper, and the copy of the
\* vendor's file nobody changed; it may stay where the vendor's file was updated after a run
\* was killed, or where the host's own was deleted by hand (its backup then stands for it).
RemovedIsGone ==
  result = "removed" /\ ~raced =>
    /\ live.line # "ours" /\ ~helper /\ ~keys /\ ~dropin
    /\ theirs = 0 /\ ~deleted /\ ~(killed /\ updated) => live = NoFile

\* A file that has our lines has the helper they name.
LinesHaveHelper == live.line = "ours" => helper

\* The steps of a removal after it has read the file, and of an install after its first.
Removing  == At("remove", "dropin") \/ At("remove", "keys") \/ At("remove", "helper") \/ At("remove", "manifest")
             \/ At("remove", "records") \/ At("remove", "marker")
Text == [says : Nat, line : Lines]
Runs == [op : {"none", "install", "remove"}, text : Text,
         at : {"none", "helper", "backup", "seed", "digest", "read", "write", "dropin", "manifest", "records",
               "marker", "keys"}]
PamShapesOK ==
  /\ run \in Runs /\ live \in Text /\ backup \in Text /\ absent \in [on : BOOLEAN, seed : Nat]
  /\ (run.op = "none" => run = NoRun)
  /\ (run # NoRun => result \in {"none", "conflict"}) /\ (run.op = "install" => result = "none")
\* No two texts are the same: the person's is not the vendor's, nor one the vendor's was.
FreshOK ==
  /\ vendor \in 1..versions /\ absent.seed \in 0..versions /\ theirs \in 0..versions /\ versions \in Nat
  /\ At("install", "digest") => run.text.says \in 1..versions /\ run.text.says # theirs
  /\ theirs # 0 => theirs # vendor /\ theirs # absent.seed
\* A file that is there says something.
SaysOK ==
  /\ live # NoFile => live.says # 0
  /\ run.text # NoFile => run.text.says # 0
  /\ At("install", "write") => run.text # NoFile
ReadOK == ~raced /\ run.at = "write" => run.text = live /\ (run.op = "install" => live # NoFile)
HelperOK ==
  /\ run.op = "install" /\ run.at # "helper" => helper
  /\ At("remove", "write") /\ run.text.line # "ours" => live.line # "ours"
  /\ Removing => live.line # "ours"
\* The copy of the vendor's file, while nobody has one of their own and no run was killed that
\* an update came after, is known for one.
CopyOK ==
  ~raced /\ theirs = 0 /\ ~deleted /\ ~(killed /\ updated) =>
    /\ backup = NoFile
    /\ live # NoFile => absent.on
    /\ At("install", "seed") => absent.on
    /\ At("install", "digest") => absent.on
    /\ ~updated => vendor = 1 /\ live.says \in {0, 1}
    /\ ~killed =>
         /\ (live # NoFile /\ live.says # absent.seed) =>
              At("install", "digest") /\ absent.seed = 0 /\ live.says = run.text.says
         /\ At("install", "digest") => absent.seed = 0 /\ live # NoFile
         /\ live = NoFile => absent.seed = 0 \/ At("remove", "records") \/ At("remove", "marker")
    /\ Removing /\ result # "conflict" => live = NoFile
    /\ At("remove", "records") \/ At("remove", "marker") => result # "conflict"
GoneOK ==
  /\ At("remove", "keys") => ~dropin
  /\ At("remove", "helper") => ~dropin /\ ~keys
  /\ At("remove", "manifest") => ~dropin /\ ~keys /\ ~helper
  /\ result = "removed" => run = NoRun /\ live.line # "ours"
PamInv ==
  PamShapesOK /\ FreshOK /\ SaysOK /\ ReadOK /\ HelperOK /\ CopyOK /\ GoneOK /\ TheirsKept /\ RemovedIsGone /\ LinesHaveHelper
\* What keeps TypeOK with it: every text was written by somebody.
VersionsOK == versions <= MaxVersions /\ {live.says, backup.says, run.text.says} \subseteq 0..versions
FlagsOK ==
  /\ {helper, keys, dropin, manifest, raced, killed, deleted, updated} \subseteq BOOLEAN
  /\ result \in {"none", "installed", "removed", "conflict", "killed"}
=============================================================================
