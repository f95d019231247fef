---------------------------- MODULE SunshineUnit ----------------------------
(***************************************************************************)
(* The managed Sunshine fork on the host: its tree under ~/.local/share,   *)
(* its unit of systemd, its web login, the record of what was there before *)
(* it and the clients it trusts: sunshine_package.py (install, unpack,     *)
(* ensure_unit, remove).                                                   *)
(*                                                                         *)
(* A person may have a Sunshine of their own before, between and after,    *)
(* and may change what is there between two steps of a run; a run may be   *)
(* killed between any two.                                                 *)
(***************************************************************************)
EXTENDS Naturals

CONSTANTS
  MaxTurns, \* what a person does
  MaxRuns   \* installs and removals

VARIABLES
  unit,     \* the unit file: none, ours, or a person's
  packaged, \* a unit of the distribution's, with our drop-in or without
  dropins,  \* beside the unit: ours, or a person's
  enabled,
  active,   \* it runs; "left": on, because a removal's stop failed
  chosen,   \* a person enabled the unit of theirs
  record,   \* sunshine-unit.json: what was before the first install
  config,   \* ~/.config/sunshine is there
  clients,  \* sunshine_state.json: the fork's, or of a person's Sunshine
  tree,     \* the directory of the build
  aside,    \* the one it replaces, under a transient name
  login,    \* the web login
  run, result,
  meddled,  \* a person took out what was ours, or set up theirs during a run, or a run was killed
  built,    \* a person built or changed the tree
  raced,    \* between the look at it and its renaming
  turns, runs

sunshineVars == <<unit, packaged, dropins, enabled, active, chosen, record, config, clients, tree, aside, login, run,
                  result, meddled, built, raced, turns, runs>>
unitVars  == <<unit, packaged, dropins, enabled, active, chosen>>
dataVars  == <<record, config, clients>>
treeVars  == <<tree, aside>>
flagVars  == <<meddled, built, raced, turns, runs>>

NoRecord == [on |-> FALSE, disable |-> FALSE, created |-> FALSE]
NoRun == [op |-> "none", at |-> "none", created |-> FALSE, owner |-> "none", ours |-> FALSE]
At(op, step) == run.op = op /\ run.at = step
To(step)     == run' = [run EXCEPT !.at = step]
Ends(r)      == run' = NoRun /\ result' = r

\* unit_owner: a person's drop-ins beside our unit or our drop-in are kept; where they are alone,
\* they would change what our unit runs.
OurDropin == "ours" \in dropins
Owner == IF unit # "none" THEN (IF unit = "ours" THEN "ours" ELSE "foreign")
         ELSE IF packaged THEN (IF OurDropin THEN "ours" ELSE "foreign")
         ELSE IF dropins \ {"ours"} # {} THEN "foreign" ELSE "absent"
Marked == unit = "ours" \/ OurDropin

-----------------------------------------------------------------------------
(* The person, and the fork *)

Turn == turns < MaxTurns /\ turns' = turns + 1
\* A Sunshine of the person's own, from a package or with a unit of theirs.
SetsUp ==
  /\ Turn /\ unit # "person" /\ ~packaged /\ (unit = "none" \/ run = NoRun)
  /\ \/ unit = "none" /\ packaged' = TRUE /\ UNCHANGED unit
     \/ unit' = "person" /\ UNCHANGED packaged
  /\ meddled' = (meddled \/ unit = "ours" \/ run # NoRun)
  /\ enabled' = TRUE /\ chosen' = TRUE /\ config' = TRUE
  /\ clients' = IF clients = "none" THEN "theirs" ELSE clients
  /\ active' = IF unit' = unit THEN active ELSE "no"
  /\ UNCHANGED <<dropins, record, treeVars, login, run, result, built, raced, runs>>
TakesOut ==
  /\ Turn /\ run = NoRun
  /\ \/ packaged /\ packaged' = FALSE /\ enabled' = FALSE /\ chosen' = FALSE /\ UNCHANGED unit
     \/ unit # "none" /\ unit' = "none" /\ enabled' = FALSE /\ chosen' = FALSE /\ UNCHANGED packaged
  /\ active' = "no" /\ meddled' = (meddled \/ Marked)
  /\ UNCHANGED <<dropins, dataVars, treeVars, login, run, result, built, raced, runs>>
\* A drop-in of the person's, put beside the unit or taken away.
Customises ==
  /\ Turn /\ dropins' = (dropins \ {"theirs"}) \cup ({"theirs"} \ dropins)
  /\ UNCHANGED <<unit, packaged, enabled, active, chosen, dataVars, treeVars, login, run, result, meddled, built,
                 raced, runs>>
\* A build by hand under the same name, or a change of the one that is there.
Builds ==
  /\ Turn /\ tree # "changed" /\ tree' = "changed" /\ built' = TRUE /\ raced' = (raced \/ run.at = "aside")
  /\ UNCHANGED <<unitVars, dataVars, aside, login, run, result, meddled, runs>>
ForkWrites ==
  /\ active = "left" \/ (active = "yes" /\ unit = "ours")
  /\ clients = "none" /\ clients' = "fork" /\ config' = TRUE
  /\ UNCHANGED <<unitVars, record, treeVars, login, run, result, flagVars>>

-----------------------------------------------------------------------------
(* install *)

\* install_local looks whether there is a configuration before it writes apps.json into it.
Install ==
  /\ run = NoRun /\ runs < MaxRuns /\ runs' = runs + 1 /\ result' = "none"
  /\ run' = [NoRun EXCEPT !.op = "install", !.at = "unpack", !.created = ~config]
  /\ Owner # "foreign" /\ config' = TRUE
  /\ UNCHANGED <<unitVars, record, clients, treeVars, login, meddled, built, raced, turns>>
\* The archive cannot be had, or does not hash to what it was pinned to.
Unfetched ==
  /\ At("install", "unpack") /\ Ends("failed")
  /\ UNCHANGED <<unitVars, dataVars, treeVars, login, flagVars>>
\* pristine: exactly the contents of an archive.
Replaceable == tree = "pristine"
Unpack ==
  /\ At("install", "unpack")
  /\ IF tree = "none" THEN To("swap") /\ UNCHANGED result
     ELSE IF Replaceable THEN To("aside") /\ UNCHANGED result ELSE Ends("failed")
  /\ UNCHANGED <<unitVars, dataVars, treeVars, login, flagVars>>
MoveAside ==
  /\ At("install", "aside") /\ To("swap") /\ aside' = tree /\ tree' = "none"
  /\ UNCHANGED <<unitVars, dataVars, login, result, flagVars>>
\* A name that was taken meanwhile stops the install.
Swap ==
  /\ At("install", "swap")
  /\ IF tree = "none" THEN tree' = "pristine" /\ To("sweep") /\ UNCHANGED result
                      ELSE Ends("failed") /\ UNCHANGED tree
  /\ UNCHANGED <<unitVars, dataVars, aside, login, flagVars>>
Sweep ==
  /\ At("install", "sweep") /\ To("owner") /\ aside' = "none"
  /\ UNCHANGED <<unitVars, dataVars, tree, login, result, flagVars>>
\* ensure_unit: whose unit it is is asked again, and the login is made.
Login ==
  /\ At("install", "owner")
  /\ IF Owner = "foreign" THEN Ends("failed") /\ UNCHANGED login
     ELSE run' = [run EXCEPT !.at = "record", !.owner = IF packaged /\ unit = "none" THEN "dropin" ELSE Owner]
          /\ login' = TRUE /\ UNCHANGED result
  /\ UNCHANGED <<unitVars, dataVars, treeVars, flagVars>>
\* What was there before is recorded once.
Before == [on |-> TRUE, disable |-> run.owner # "dropin", created |-> run.created /\ run.owner = "absent"]
Record ==
  /\ At("install", "record") /\ To("write")
  /\ record' = IF record.on THEN record ELSE Before
  /\ UNCHANGED <<unitVars, config, clients, treeVars, login, result, flagVars>>
WriteUnit ==
  /\ At("install", "write") /\ To("enable")
  /\ IF run.owner = "dropin" THEN dropins' = dropins \cup {"ours"} /\ UNCHANGED unit
                             ELSE unit' = "ours" /\ dropins' = dropins \ {"ours"}
  /\ UNCHANGED <<packaged, enabled, active, chosen, dataVars, treeVars, login, result, flagVars>>
\* The enabling or the restart may fail; the install says so and ends.
Start ==
  /\ At("install", "enable") /\ Ends("installed")
  /\ enabled' \in {enabled, TRUE} /\ active' \in {"yes", "no", active}
  /\ UNCHANGED <<unit, packaged, dropins, chosen, dataVars, treeVars, login, flagVars>>

-----------------------------------------------------------------------------
(* remove *)

Remove ==
  /\ run = NoRun /\ runs < MaxRuns /\ runs' = runs + 1 /\ result' = "none"
  /\ run' = [NoRun EXCEPT !.op = "remove", !.at = IF Marked THEN "stop" ELSE "trees", !.ours = Marked]
  /\ UNCHANGED <<unitVars, dataVars, treeVars, login, meddled, built, raced, turns>>
\* It is disabled only if the installer enabled it.  What systemctl answers to the stop and to
\* the disabling is not looked at.
EnabledByUs == IF record.on THEN record.disable ELSE unit = "ours"
Stop ==
  /\ At("remove", "stop") /\ To("unlink")
  /\ active' \in {"no", IF active = "yes" THEN "left" ELSE active}
  /\ \/ enabled' = (enabled /\ ~EnabledByUs) /\ chosen' = (chosen /\ ~(EnabledByUs /\ unit = "person"))
     \/ UNCHANGED <<enabled, chosen>>
  /\ UNCHANGED <<unit, packaged, dropins, dataVars, treeVars, login, result, flagVars>>
Unlink ==
  /\ At("remove", "unlink") /\ To("trees")
  /\ unit' = IF unit = "ours" THEN "none" ELSE unit
  /\ dropins' = dropins \ {"ours"}
  /\ UNCHANGED <<packaged, enabled, active, chosen, dataVars, treeVars, login, result, flagVars>>
DropTrees ==
  /\ At("remove", "trees") /\ To("login")
  /\ tree' = IF Replaceable THEN "none" ELSE tree
  /\ aside' = IF aside = "pristine" THEN "none" ELSE aside
  /\ UNCHANGED <<unitVars, dataVars, login, result, flagVars>>
DropLogin ==
  /\ At("remove", "login") /\ To("clients") /\ login' = FALSE
  /\ UNCHANGED <<unitVars, dataVars, treeVars, result, flagVars>>
\* The clients go with the fork if there was no configuration before it.
CreatedByUs == record.created /\ run.ours
DropClients ==
  /\ At("remove", "clients") /\ To("forget")
  /\ clients' = IF CreatedByUs THEN "none" ELSE clients
  /\ config' = (clients' # "none")
  /\ UNCHANGED <<unitVars, record, treeVars, login, result, flagVars>>
Forget ==
  /\ At("remove", "forget") /\ Ends("removed") /\ record' = NoRecord
  /\ UNCHANGED <<unitVars, config, clients, treeVars, login, flagVars>>
Killed ==
  /\ run # NoRun /\ Ends("killed") /\ meddled' = TRUE
  /\ UNCHANGED <<unitVars, dataVars, treeVars, login, built, raced, turns, runs>>

-----------------------------------------------------------------------------
\* Nothing; a Sunshine of the person's; or one with the drop-in of an earlier installer.
Init ==
  /\ unit = "none" /\ packaged \in BOOLEAN
  /\ dropins \in SUBSET ({"theirs"} \cup (IF packaged THEN {"ours"} ELSE {}))
  /\ chosen = packaged /\ enabled = packaged /\ active = "no"
  /\ record = NoRecord /\ config = packaged /\ clients = IF packaged THEN "theirs" ELSE "none"
  /\ tree = "none" /\ aside = "none" /\ login = FALSE /\ run = NoRun /\ result = "none"
  /\ meddled = FALSE /\ built = FALSE /\ raced = FALSE /\ turns = 0 /\ runs = 0

Next ==
  \/ SetsUp \/ TakesOut \/ Customises \/ Builds \/ ForkWrites
  \/ Install \/ Unfetched \/ Unpack \/ MoveAside \/ Swap \/ Sweep \/ Login \/ Record \/ WriteUnit \/ Start
  \/ Remove \/ Stop \/ Unlink \/ DropTrees \/ DropLogin \/ DropClients \/ Forget \/ Killed
Spec == Init /\ [][Next]_sunshineVars

Trees == {"none", "pristine", "changed"}
TypeOK ==
  /\ unit \in {"none", "ours", "person"} /\ {tree, aside} \subseteq Trees /\ clients \in {"none", "fork", "theirs"}
  /\ dropins \subseteq {"ours", "theirs"} /\ active \in {"no", "yes", "left"}
  /\ {packaged, enabled, chosen, config, login, meddled, built, raced} \subseteq BOOLEAN
  /\ result \in {"none", "failed", "installed", "removed", "killed"}

\* The clients a person's own Sunshine trusts are not deleted with the fork, nor is that
\* Sunshine disabled, unless what was ours had been taken out by hand, both were set up
\* at once, or a run was killed.
PersonsSunshineStays == ~meddled /\ packaged => enabled = chosen /\ clients # "none"

\* A tree that somebody built or changed is not deleted, unless that was between a run's look at it and
\* its renaming.
BuildsAreKept == built /\ ~raced => tree = "changed"

\* The fork never runs without the login that keeps its web page from whoever opens it first,
\* unless the stop of a removal failed: systemctl's answer is not looked at (sunshine_package.py:1024),
\* and the removal goes on to the unit (1034) and the login (1054).
RunsLocked == active = "yes" => login

\* remove() says "stopped" (sunshine_package.py:1025) and takes the login away: nothing of the
\* fork's runs without it.  TLC refutes this by a stop that fails.
RemovedIsStopped == active # "no" => login

SunShapesOK == enabled \in BOOLEAN /\ chosen \in BOOLEAN /\ (run.op = "none" => run = NoRun)
\* What runs has the login and is known as ours, and a removal has stopped it before it takes
\* either away.
RunsOK ==
  /\ active = "yes" => Marked
  /\ At("install", "record") \/ At("install", "write") \/ At("install", "enable") => login
  /\ At("install", "enable") => Marked
  /\ At("remove", "unlink") \/ At("remove", "trees") \/ At("remove", "login") \/ At("remove", "clients")
       \/ At("remove", "forget") => active # "yes"
AsideOK == At("install", "aside") /\ ~raced => tree = "pristine"
\* While nobody meddles, a Sunshine from a package has no unit but the package's, and the
\* record says that the installer has neither enabled it nor made its configuration.
PackagedOK ==
  ~meddled =>
    /\ packaged => unit = "none" /\ chosen
    /\ OurDropin => packaged
    /\ At("install", "record") \/ At("install", "write") => (packaged <=> run.owner = "dropin")
    /\ record.on /\ packaged => ~record.disable /\ ~record.created
    /\ record.created => record.on
    /\ record.on => \/ Marked \/ At("install", "write") \/ At("remove", "trees") \/ At("remove", "login")
                    \/ At("remove", "clients") \/ At("remove", "forget")
SunInv ==
  SunShapesOK /\ RunsOK /\ AsideOK /\ PackagedOK /\ PersonsSunshineStays /\ BuildsAreKept /\ RunsLocked
=============================================================================
