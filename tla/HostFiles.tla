------------------------------ MODULE HostFiles ------------------------------
(***************************************************************************)
(* What Install and Remove do with the files they share with a person:     *)
(* install_host.py (install_local, remove_local).  A unit of systemd       *)
(* stands for the files known by a marker, and the theme template for      *)
(* those known byte for byte; apps.json is Sunshine's own configuration,   *)
(* of which one entry is core's.                                           *)
(*                                                                         *)
(* A run is a sequence of steps.  Between two of them a person, or the     *)
(* fork, may write the same files, and the run may be killed.              *)
(***************************************************************************)
EXTENDS Naturals

CONSTANTS
  MaxEdits, \* changes somebody makes
  MaxRuns   \* installs and removals

VARIABLES
  file,    \* [place -> whose file is there]
  mine,    \* [place -> whether a person put a file of their own there]
  raced,   \* what was written between a run's reading of it and its writing; and the daemon,
           \* when it ran on past the removal of its lines
  apps,    \* apps.json: there, readable, what it says besides, core's entry
  wanted,  \* what the person or the fork last put in it
  backup,  \* apps.json.omodachi-bak
  vox,     \* the configuration of Voxtype
  daemon, keys, rules, \* omodachid runs; its lines in authorized_keys; its rules in ufw
  pam, sources,        \* the PAM entry; ~/.local/share/omodachi/src
  run,     \* the step of the run, what it read, and what it left behind
  result,
  edits, runs

fileVars == <<file, mine, raced, apps, wanted, backup, vox, daemon, keys, rules, pam, sources, run, result, edits, runs>>
placeVars  == <<file, mine>>
appVars    == <<apps, wanted, backup>>
grantVars  == <<daemon, keys, rules, pam, sources>>
boundVars  == <<edits, runs>>

Places == {"unit", "template"}
NoApps == [there |-> FALSE, ok |-> TRUE, says |-> 0, entry |-> FALSE]
NoRun  == [at |-> "none", op |-> "none", doc |-> NoApps, pam |-> FALSE, left |-> FALSE]
At(op, step) == run.op = op /\ run.at = step
To(step)     == run' = [run EXCEPT !.at = step]
Ends(r)      == run' = NoRun /\ result' = r

-----------------------------------------------------------------------------
(* The host *)

Reads(p) == IF p = "unit" THEN {"replace", "unlink"} ELSE {"render", "withdraw"}
\* unit_is_ours knows a marker; template_is_ours knows the bytes.
Ours(p) == file[p] = "ours" \/ (p = "unit" /\ file[p] = "edited")
Person(p) ==
  /\ edits < MaxEdits /\ edits' = edits + 1
  /\ \E f \in {"none", "person", "edited"} \ {file[p]} :
       /\ f = "edited" => file[p] = "ours"
       /\ f = "none" => file[p] # "none"
       /\ file' = [file EXCEPT ![p] = f]
       /\ mine' = [mine EXCEPT ![p] = f = "person" \/ (f = "edited" /\ p = "template")]
  /\ raced' = IF run.at \in Reads(p) THEN raced \cup {p} ELSE raced
  /\ UNCHANGED <<appVars, vox, grantVars, run, result, runs>>
\* The fork saves its list of apps, or a person edits it, with core's entry or without.
Saves ==
  /\ edits < MaxEdits /\ edits' = edits + 1
  /\ \E ok, e \in BOOLEAN :
       /\ e => apps.entry /\ apps.ok
       /\ apps' = [there |-> TRUE, ok |-> ok, says |-> edits', entry |-> e]
  /\ wanted' = edits'
  /\ raced' = IF run.at \in {"backup", "append", "takeout"} THEN raced \cup {"apps"} ELSE raced
  /\ UNCHANGED <<placeVars, backup, vox, grantVars, run, result, runs>>
\* A device is granted a line while the daemon runs.
Grants ==
  /\ daemon /\ ~keys /\ keys' = TRUE
  /\ UNCHANGED <<placeVars, raced, appVars, vox, daemon, rules, pam, sources, run, result, boundVars>>
\* The daemon ends by itself.
Dies ==
  /\ daemon /\ daemon' = FALSE
  /\ UNCHANGED <<placeVars, raced, appVars, vox, keys, rules, pam, sources, run, result, boundVars>>
\* The daemon ends during a dictation; a person edits what it made of the configuration.
Dictates ==
  /\ daemon /\ vox = "theirs" /\ vox' = "pointed"
  /\ UNCHANGED <<placeVars, raced, appVars, grantVars, run, result, boundVars>>
EditsVox ==
  /\ edits < MaxEdits /\ edits' = edits + 1 /\ vox = "pointed" /\ vox' = "edited"
  /\ UNCHANGED <<placeVars, raced, appVars, grantVars, run, result, runs>>
\* The bootstrap fetches the sources; the PAM entry is put in from them.
Fetches ==
  /\ run.at = "none" /\ ~sources /\ sources' = TRUE /\ result' = "none"
  /\ UNCHANGED <<placeVars, raced, appVars, vox, daemon, keys, rules, pam, run, boundVars>>
InstallsPam ==
  /\ run.at = "none" /\ sources /\ ~pam /\ pam' = TRUE /\ result' = "none"
  /\ UNCHANGED <<placeVars, raced, appVars, vox, daemon, keys, rules, sources, run, boundVars>>

-----------------------------------------------------------------------------
(* install_local *)

Begin(op, first) ==
  /\ run.at = "none" /\ sources /\ runs < MaxRuns /\ runs' = runs + 1 /\ result' = "none"
  /\ run' = [NoRun EXCEPT !.op = op, !.at = first] /\ raced' = raced \ {"daemon"}
  /\ UNCHANGED <<placeVars, appVars, vox, grantVars, edits>>
\* files_refusal: every place is looked at before anything is changed.
Refusal ==
  /\ At("install", "refusal")
  /\ IF \A p \in Places : file[p] = "none" \/ Ours(p) THEN To("apps") /\ UNCHANGED result ELSE Ends("refused")
  /\ UNCHANGED <<placeVars, raced, appVars, vox, grantVars, boundVars>>
\* ensure_sunshine_app: a file that cannot be read, or has the entry, is left.
ReadApps ==
  /\ At("install", "apps")
  /\ run' = [run EXCEPT !.at = IF apps.there /\ (~apps.ok \/ apps.entry) THEN "write" ELSE "backup", !.doc = apps]
  /\ UNCHANGED <<placeVars, raced, appVars, vox, grantVars, result, boundVars>>
Backup ==
  /\ At("install", "backup") /\ To("append")
  /\ backup' = IF run.doc.there /\ ~backup.there THEN apps ELSE backup
  /\ UNCHANGED <<placeVars, raced, apps, wanted, vox, grantVars, result, boundVars>>
Append ==
  /\ At("install", "append") /\ To("write")
  /\ apps' = [run.doc EXCEPT !.there = TRUE, !.entry = TRUE]
  /\ UNCHANGED <<placeVars, raced, wanted, backup, vox, grantVars, result, boundVars>>
\* write: the file is read again; one that is not the installer's raises NotOurs.
Replaceable(p) == file[p] = "none" \/ Ours(p)
CheckPlace(p, step, after) ==
  /\ At("install", step)
  /\ IF Replaceable(p) THEN To(after) /\ UNCHANGED result ELSE Ends("failed")
  /\ UNCHANGED <<placeVars, raced, appVars, vox, grantVars, boundVars>>
PutPlace(p, step, after) ==
  /\ At("install", step) /\ To(after) /\ file' = [file EXCEPT ![p] = "ours"]
  /\ UNCHANGED <<mine, raced, appVars, vox, grantVars, result, boundVars>>
\* configure_firewall may be refused by sudo; the units are enabled and started, or the
\* install ends with systemctl's refusal.
Firewall ==
  /\ At("install", "firewall") /\ To("start") /\ rules' \in {rules, TRUE}
  /\ UNCHANGED <<placeVars, raced, appVars, vox, daemon, keys, pam, sources, result, boundVars>>
Start ==
  /\ At("install", "start")
  /\ \/ Ends("installed") /\ daemon' = TRUE
     \/ Ends("failed") /\ daemon' \in BOOLEAN
  /\ UNCHANGED <<placeVars, raced, appVars, vox, keys, rules, pam, sources, boundVars>>

-----------------------------------------------------------------------------
(* remove_local *)

\* remove_pam: the root step may not run, or leave what was changed.
RemovePam ==
  /\ At("remove", "pam") /\ pam' \in {pam, FALSE}
  /\ run' = [run EXCEPT !.at = "unit", !.pam = pam', !.left = pam']
  /\ UNCHANGED <<placeVars, raced, appVars, vox, daemon, keys, rules, sources, result, boundVars>>
Look(p, step, after, otherwise) ==
  /\ At("remove", step) /\ To(IF Ours(p) \/ (p = "unit" /\ file[p] = "none") THEN after ELSE otherwise)
  /\ UNCHANGED <<placeVars, raced, appVars, vox, grantVars, result, boundVars>>
\* disable --now, whose failure is not looked at; and its file goes.
Unlink ==
  /\ At("remove", "unlink") /\ To("vox") /\ daemon' \in {daemon, FALSE} /\ file' = [file EXCEPT !["unit"] = "none"]
  /\ UNCHANGED <<mine, raced, appVars, vox, keys, rules, pam, sources, result, boundVars>>
\* restore_voxtype: only over exactly what the daemon made of it.
RestoreVox ==
  /\ At("remove", "vox") /\ To("published") /\ vox' = IF vox = "pointed" THEN "theirs" ELSE vox
  /\ UNCHANGED <<placeVars, raced, appVars, grantVars, result, boundVars>>
\* remove_sunshine_app: the one entry is taken out again.
ReadPublished ==
  /\ At("remove", "published")
  /\ run' = [run EXCEPT !.at = IF apps.ok /\ apps.entry THEN "takeout" ELSE "ssh", !.doc = apps]
  /\ UNCHANGED <<placeVars, raced, appVars, vox, grantVars, result, boundVars>>
Without == IF run.doc.says = 0 /\ ~backup.there THEN NoApps ELSE [run.doc EXCEPT !.entry = FALSE]
TakeOut ==
  /\ At("remove", "takeout") /\ To("ssh") /\ apps' = Without
  /\ backup' = IF backup = Without THEN NoApps ELSE backup
  /\ UNCHANGED <<placeVars, raced, wanted, vox, grantVars, result, boundVars>>
\* remove_ssh_lines may fail; then the removal is partial.  A daemon that runs on can write
\* lines again.
RemoveLines ==
  /\ At("remove", "ssh") /\ keys' \in {keys, FALSE}
  /\ run' = [run EXCEPT !.at = "sources", !.left = @ \/ keys']
  /\ raced' = raced \cup (IF daemon THEN {"daemon"} ELSE {})
  /\ UNCHANGED <<placeVars, appVars, vox, daemon, rules, pam, sources, result, boundVars>>
\* Slip: the sources go whatever is left.
Always == TRUE
\* The PAM entry is removed out of the sources: they stay while it does, and also when the
\* bootstrap did not make them or they were changed.
MayGo == ~run.pam
DropSources ==
  /\ At("remove", "sources") /\ To("surfaces") /\ sources' \in {sources, sources /\ ~MayGo}
  /\ UNCHANGED <<placeVars, raced, appVars, vox, daemon, keys, rules, pam, result, boundVars>>
Withdraw ==
  /\ At("remove", "withdraw") /\ To("rules") /\ file' = [file EXCEPT !["template"] = "none"]
  /\ UNCHANGED <<mine, raced, appVars, vox, grantVars, result, boundVars>>
DropRules ==
  /\ At("remove", "rules") /\ rules' \in {rules, FALSE}
  /\ Ends(IF run.left \/ rules' THEN "partial" ELSE "removed")
  /\ UNCHANGED <<placeVars, raced, appVars, vox, daemon, keys, pam, sources, boundVars>>
Killed ==
  /\ run.at # "none" /\ Ends("killed")
  /\ UNCHANGED <<placeVars, raced, appVars, vox, grantVars, boundVars>>

-----------------------------------------------------------------------------
Init ==
  /\ file \in [Places -> {"none", "person"}] /\ mine = [p \in Places |-> file[p] = "person"] /\ raced = {}
  /\ \/ apps = NoApps
     \/ apps = [NoApps EXCEPT !.there = TRUE, !.says = MaxEdits + 1]
  /\ wanted = apps.says /\ backup = NoApps /\ vox = "theirs"
  /\ daemon = FALSE /\ keys = FALSE /\ rules = FALSE /\ pam = FALSE /\ sources = TRUE
  /\ run = NoRun /\ result = "none" /\ edits = 0 /\ runs = 0

Install ==
  \/ Begin("install", "refusal") \/ Refusal \/ ReadApps \/ Backup \/ Append
  \/ CheckPlace("unit", "write", "replace") \/ PutPlace("unit", "replace", "theme")
  \/ CheckPlace("template", "theme", "render") \/ PutPlace("template", "render", "firewall")
  \/ Firewall \/ Start
Remove ==
  \/ Begin("remove", "pam") \/ RemovePam \/ Look("unit", "unit", "unlink", "vox") \/ Unlink \/ RestoreVox
  \/ ReadPublished \/ TakeOut \/ RemoveLines \/ DropSources
  \/ Look("template", "surfaces", "withdraw", "rules") \/ Withdraw \/ DropRules
Next ==
  \/ \E p \in Places : Person(p)
  \/ Saves \/ Grants \/ Dies \/ Dictates \/ EditsVox \/ Fetches \/ InstallsPam
  \/ Install \/ Remove \/ Killed
Spec == Init /\ [][Next]_fileVars

Documents == [there : BOOLEAN, ok : BOOLEAN, says : 0..(MaxEdits + 1), entry : BOOLEAN]
TypeOK ==
  /\ file \in [Places -> {"none", "ours", "edited", "person"}] /\ mine \in [Places -> BOOLEAN]
  /\ {apps, backup, run.doc} \subseteq Documents /\ wanted \in 0..(MaxEdits + 1)
  /\ raced \subseteq Places \cup {"apps", "daemon"} /\ vox \in {"theirs", "pointed", "edited"}
  /\ {daemon, keys, rules, pam, sources} \subseteq BOOLEAN
  /\ result \in {"none", "refused", "failed", "installed", "removed", "partial", "killed"}

\* A file a person put where the installer writes one of its own is neither replaced nor
\* removed, unless it appeared between the look at the place and the rename.
PersonsFileStays == \A p \in Places \ raced : mine[p] => file[p] \in {"person", "edited"}

\* What Sunshine's list of apps says besides core's entry is what was last put there,
\* unless it was saved between the reading and the writing of a run.
AppsKept == "apps" \notin raced => apps.says = wanted

\* What takes the PAM entry out again is there as long as the entry is.
PamNeedsSources == pam => sources

\* A removal that says it is complete leaves nothing that grants access to this computer, and
\* nothing comes back, unless the daemon ran on past the removal of its lines: from a unit of
\* the person's own, or because its stop failed, which is not looked at (install_host.py:1644).
RemovedIsComplete == result = "removed" /\ "daemon" \notin raced => ~rules /\ ~keys /\ ~pam

\* install_host.py:1711-1714 says that a removed host does not keep letting paired devices in:
\* a complete removal leaves no line.  TLC refutes it by a daemon whose stop failed.
RemovedLetsNobodyIn == result = "removed" /\ (\A p \in Places : ~mine[p]) => ~keys

FileShapesOK ==
  /\ file \in [Places -> {"none", "ours", "edited", "person"}] /\ mine \in [Places -> BOOLEAN]
\* A step that is to write a place has found it free, or the installer's, and what it is to
\* write into the list of apps says what it read.
SeenOK ==
  /\ mine["unit"] /\ "unit" \notin raced => file["unit"] = "person"
  /\ \A p \in Places : run.at \in Reads(p) /\ mine[p] => p \in raced
  /\ run.at \in {"backup", "append", "takeout"} /\ "apps" \notin raced => run.doc.says = wanted
\* What a removal leaves is on its account, and without it nothing comes back.
LeftOK ==
  /\ At("remove", "unit") \/ At("remove", "unlink") \/ At("remove", "vox") \/ At("remove", "published")
       \/ At("remove", "takeout") \/ At("remove", "ssh") => (run.pam <=> pam) /\ (run.left <=> pam)
  /\ At("remove", "sources") => run.pam <=> pam
  /\ At("remove", "sources") \/ At("remove", "surfaces") \/ At("remove", "withdraw") \/ At("remove", "rules") =>
       /\ pam => run.left
       /\ "daemon" \notin raced => ~daemon /\ (keys => run.left)
  /\ result = "removed" => run.at = "none" /\ ("daemon" \notin raced => ~daemon)
FileInv ==
  /\ FileShapesOK /\ SeenOK /\ LeftOK
  /\ PersonsFileStays /\ AppsKept /\ PamNeedsSources /\ RemovedIsComplete
\* What keeps TypeOK with it: what a run read is a document, and edits are counted.
RunRecords == [at : {"none", "refusal", "apps", "backup", "append", "write", "replace", "theme", "render", "firewall",
                     "start", "pam", "unit", "unlink", "vox", "published", "takeout", "ssh", "sources", "surfaces",
                     "withdraw", "rules"},
               op : {"none", "install", "remove"}, doc : Documents, pam : BOOLEAN, left : BOOLEAN]
DocsOK  == apps \in Documents /\ backup \in Documents /\ run \in RunRecords
EditsOK == wanted \in 0..(MaxEdits + 1) /\ edits \in 0..MaxEdits
FlagsOK ==
  /\ {daemon, keys, rules, pam, sources} \subseteq BOOLEAN
  /\ raced \subseteq Places \cup {"apps", "daemon"} /\ vox \in {"theirs", "pointed", "edited"}
  /\ result \in {"none", "refused", "failed", "installed", "removed", "partial", "killed"}
=============================================================================
