--------------------------- MODULE InstalledTrees ---------------------------
(***************************************************************************)
(* The directories the installer replaces and deletes whole, from          *)
(* scripts/install_host.py: the virtualenv and the previous one            *)
(* (install_venv, remove_venvs), the checkout it runs from and the one it  *)
(* builds Sunshine in (fetch_sunshine_commit, checkout_differs).           *)
(*                                                                         *)
(* A run can be killed between any two of its steps, and any command of it *)
(* can fail.  A person works in these directories while no run is under    *)
(* way; what they did there is their work, and is in a tree or kept.       *)
(***************************************************************************)
EXTENDS Naturals, FiniteSets

CONSTANTS
  MaxRuns, \* installs, and so ids they give
  MaxWork  \* pieces of work a person does

VARIABLES
  venv,     \* the two virtualenvs: who made each, its id, whether it is marked and whole
  ids,      \* venv-ids.json
  tree,     \* the two checkouts: who made each, whether marked and checked out, the work in it
  kept,     \* work in trees that were moved to ~/.local/share/omodachi-kept
  work,     \* pieces of work a person did and did not take back
  run,      \* the run: its step, the ids it read, whether it moved a virtualenv, what ran before
  runs

treeVars == <<venv, ids, tree, kept, work, run, runs>>
workVars == <<tree, kept, work>>

Venvs    == {"venv", "previous"}
Trees    == {"src", "cache"}
NoVenv   == [by |-> "none", id |-> 0, mark |-> FALSE, whole |-> FALSE]
NoTree   == [by |-> "none", mark |-> FALSE, head |-> FALSE, work |-> {}]
NoRun    == [at |-> "idle", ids |-> {}, moved |-> FALSE, worked |-> FALSE]
Resting  == run.at \in {"idle", "failed"}

-----------------------------------------------------------------------------
(* Whose it is *)

\* earlier_venv: a whole one that holds exactly what an install puts there.
Earlier(v) == v.whole

\* Slip: a virtualenv there is taken for the installer's.
AnyIsOurs(v) == IF v = NoVenv THEN "absent" ELSE "ours"
\* venv_ownership: the id in it is on record, or it is an earlier install's.
Ownership(v) ==
  IF v = NoVenv THEN "absent"
  ELSE IF v.mark /\ v.id \in ids THEN "ours"
  ELSE IF Earlier(v) THEN "earlier" ELSE "foreign"

\* checkout_differs: only the commit it was made to hold, and nothing beside it; a
\* checkout with no commit is that while its work tree is empty.
Differs(t) == t.work # {}

\* owned_checkout_state, source_is_the_bootstraps
State(t) ==
  IF t = NoTree THEN "absent"
  ELSE IF ~t.mark THEN "foreign"
  ELSE IF Differs(t) THEN "changed" ELSE "pristine"

-----------------------------------------------------------------------------
(* install_venv *)

\* Both are asked for twice, before anything is changed and right here.
Install ==
  /\ Resting /\ runs < MaxRuns /\ tree["src"] # NoTree
  /\ \A p \in Venvs : Ownership(venv[p]) # "foreign"
  /\ runs' = runs + 1
  /\ run' = [at |-> "drop", ids |-> ids, moved |-> FALSE, worked |-> venv["venv"].whole]
  /\ UNCHANGED <<venv, ids, workVars>>
DropPrevious ==
  /\ run.at = "drop" /\ venv' = [venv EXCEPT !["previous"] = NoVenv]
  /\ run' = [run EXCEPT !.at = "move", !.ids = @ \ {venv["previous"].id}]
  /\ UNCHANGED <<ids, workVars, runs>>
MoveAside ==
  /\ run.at = "move"
  /\ venv' = [p \in Venvs |-> IF p = "venv" THEN NoVenv ELSE venv["venv"]]
  /\ run' = [run EXCEPT !.at = "record", !.moved = (venv["venv"] # NoVenv)]
  /\ UNCHANGED <<ids, workVars, runs>>
Record ==
  /\ run.at = "record" /\ ids' = run.ids \cup {runs} /\ run' = [run EXCEPT !.at = "make"]
  /\ UNCHANGED <<venv, workVars, runs>>
Make ==
  /\ run.at = "make" /\ run' = [run EXCEPT !.at = "mark"]
  /\ venv' = [venv EXCEPT !["venv"] = [NoVenv EXCEPT !.by = "us", !.id = runs]]
  /\ UNCHANGED <<ids, workVars, runs>>
Mark ==
  /\ run.at = "mark" /\ venv' = [venv EXCEPT !["venv"].mark = TRUE] /\ run' = [run EXCEPT !.at = "fill"]
  /\ UNCHANGED <<ids, workVars, runs>>
Fill ==
  /\ run.at = "fill" /\ venv' = [venv EXCEPT !["venv"].whole = TRUE] /\ run' = [run EXCEPT !.at = "clean"]
  /\ UNCHANGED <<ids, workVars, runs>>
Clean ==
  /\ run.at = "clean" /\ venv' = [venv EXCEPT !["previous"] = NoVenv] /\ run' = [run EXCEPT !.at = "forget"]
  /\ UNCHANGED <<ids, workVars, runs>>
Forget ==
  /\ run.at = "forget" /\ ids' = {runs} /\ run' = NoRun
  /\ UNCHANGED <<venv, workVars, runs>>

\* A step failed: what this run made goes, and what was there comes back.
PutBack == venv' = [p \in Venvs |-> IF ~run.moved THEN (IF p = "venv" THEN NoVenv ELSE venv[p])
                                    ELSE IF p = "venv" THEN venv["previous"] ELSE NoVenv]
Fails ==
  /\ run.at \in {"make", "mark", "fill"} /\ PutBack /\ run' = [run EXCEPT !.at = "undo"]
  /\ UNCHANGED <<ids, workVars, runs>>
Undo ==
  /\ run.at = "undo" /\ ids' = run.ids /\ run' = [run EXCEPT !.at = "failed"]
  /\ UNCHANGED <<venv, workVars, runs>>

-----------------------------------------------------------------------------
(* fetch_sunshine_commit, the commit built in the cache *)

\* What the cache held is thrown away, or moved aside with the work in it; or it is left
\* as it is and nothing is built.
Fetch ==
  /\ Resting /\ runs < MaxRuns /\ runs' = runs + 1
  /\ State(tree["cache"]) # "foreign"
  /\ kept' = IF State(tree["cache"]) = "changed" THEN kept \cup tree["cache"].work ELSE kept
  /\ tree' = [tree EXCEPT !["cache"] = NoTree] /\ run' = [NoRun EXCEPT !.at = "init"]
  /\ UNCHANGED <<venv, ids, work>>
GitInit ==
  /\ run.at = "init" /\ tree' = [tree EXCEPT !["cache"] = [NoTree EXCEPT !.by = "us"]]
  /\ run' = [run EXCEPT !.at = "marker"] /\ UNCHANGED <<venv, ids, kept, work, runs>>
WriteMarker ==
  /\ run.at = "marker" /\ tree' = [tree EXCEPT !["cache"].mark = TRUE]
  /\ run' = [run EXCEPT !.at = "checkout"] /\ UNCHANGED <<venv, ids, kept, work, runs>>
\* Fetched, checked out and verified; or not, and nothing is built.
Checkout ==
  /\ run.at = "checkout" /\ run' = NoRun
  /\ \E done \in BOOLEAN : tree' = [tree EXCEPT !["cache"].head = done]
  /\ UNCHANGED <<venv, ids, kept, work, runs>>

\* The plugin's bootstrap puts its checkout there.
Bootstrap ==
  /\ Resting /\ tree["src"] = NoTree
  /\ tree' = [tree EXCEPT !["src"] = [by |-> "us", mark |-> TRUE, head |-> TRUE, work |-> {}]]
  /\ UNCHANGED <<venv, ids, kept, work, run, runs>>

-----------------------------------------------------------------------------
(* remove_local, one step for the virtualenvs and one for the checkouts *)

Remove ==
  /\ Resting /\ run.at = "idle" /\ run' = [NoRun EXCEPT !.at = "removing"]
  /\ UNCHANGED <<venv, ids, workVars, runs>>
RemoveVenvs ==
  /\ run.at = "removing" /\ run' = [run EXCEPT !.at = "trees"]
  /\ venv' = [p \in Venvs |-> IF Ownership(venv[p]) \in {"ours", "earlier"} THEN NoVenv ELSE venv[p]]
  /\ ids' = ids \ {venv[p].id : p \in {q \in Venvs : Ownership(venv[q]) \in {"ours", "earlier"}}}
  /\ UNCHANGED <<workVars, runs>>
\* The checkout, and with a purge the build cache.
RemoveTrees ==
  /\ run.at = "trees" /\ run' = NoRun
  /\ \E purge \in BOOLEAN :
       tree' = [t \in Trees |-> IF (t = "src" \/ purge) /\ State(tree[t]) = "pristine"
                                  THEN NoTree ELSE tree[t]]
  /\ UNCHANGED <<venv, ids, kept, work, runs>>

-----------------------------------------------------------------------------
(* Around it *)

Killed == /\ ~Resting /\ run' = NoRun /\ UNCHANGED <<venv, ids, workVars, runs>>

\* A person puts a virtualenv or a checkout of their own there, or takes it away.
PersonsVenv(p) ==
  /\ Resting /\ venv[p].by # "us"
  /\ venv' = [venv EXCEPT ![p] = IF @ = NoVenv THEN [NoVenv EXCEPT !.by = "person"] ELSE NoVenv]
  /\ run' = NoRun /\ UNCHANGED <<ids, workVars, runs>>
Works(t) ==
  /\ Resting /\ Cardinality(work) < MaxWork /\ \E w \in (1..MaxWork) \ work :
       /\ work' = work \cup {w}
       /\ tree' = [tree EXCEPT ![t].work = @ \cup {w}, ![t].by = IF @ = "none" THEN "person" ELSE @]
  /\ UNCHANGED <<venv, ids, kept, run, runs>>
\* The venv's record is lost.
LosesRecord ==
  /\ Resting /\ ids # {} /\ ids' = {} /\ UNCHANGED <<venv, workVars, run, runs>>

Init ==
  /\ venv \in {[p \in Venvs |-> NoVenv],
               [p \in Venvs |-> IF p = "venv" THEN [NoVenv EXCEPT !.by = "us", !.whole = TRUE] ELSE NoVenv]}
  /\ ids = {} /\ tree = [t \in Trees |-> NoTree] /\ kept = {} /\ work = {}
  /\ run = NoRun /\ runs = 0

Next ==
  \/ Install \/ DropPrevious \/ MoveAside \/ Record \/ Make \/ Mark \/ Fill \/ Clean \/ Forget
  \/ Fails \/ Undo
  \/ Fetch \/ GitInit \/ WriteMarker \/ Checkout \/ Bootstrap
  \/ Remove \/ RemoveVenvs \/ RemoveTrees
  \/ Killed \/ LosesRecord
  \/ \E p \in Venvs : PersonsVenv(p)
  \/ \E t \in Trees : Works(t)
Spec == Init /\ [][Next]_treeVars

TypeOK ==
  /\ ids \subseteq 0..MaxRuns /\ kept \subseteq 1..MaxWork /\ work \subseteq 1..MaxWork /\ runs \in 0..MaxRuns
  /\ \A p \in Venvs : venv[p].id \in 0..MaxRuns /\ venv[p].by \in {"none", "us", "person"}
  /\ \A t \in Trees : tree[t].work \subseteq 1..MaxWork

\* What a person did in a checkout is still in one, or in what was kept of it, however
\* often the installer built, removed and was killed.
WorkIsKept == work = kept \cup tree["src"].work \cup tree["cache"].work

\* A virtualenv of a person's is never moved and never deleted.
NotMoved == \A p \in Venvs :
  venv[p].by = "person" => \/ venv'[p] = venv[p]
                           \/ venv'[p] = NoVenv /\ Resting
PersonsStays == [][NotMoved]_treeVars

\* A virtualenv that was moved aside is nobody's but the installer's, and an update that
\* failed leaves what ran before it running.
FailedUpdateKeeps ==
  /\ run.at # "idle" => \A p \in Venvs : venv[p].by = "person" => run.at \in {"removing", "trees", "init", "marker", "checkout"}
  /\ run.at \in {"undo", "failed"} => venv["venv"].whole = run.worked

\* A run killed half-way still leaves a virtualenv that is provably the installer's.
KilledIsOurs == \A p \in Venvs : Resting /\ venv[p].by = "us" => Ownership(venv[p]) # "foreign"

Virtualenvs == [by : {"none", "us", "person"}, id : Nat, mark : BOOLEAN, whole : BOOLEAN]
Checkouts == [by : {"none", "us", "person"}, mark : BOOLEAN, head : BOOLEAN, work : SUBSET (1..MaxWork)]
\* What a run found: whether it moved a virtualenv and what ran before.
ShapesOK ==
  /\ venv \in [Venvs -> Virtualenvs]
  /\ tree \in [Trees -> Checkouts]
  /\ run.moved \in BOOLEAN /\ run.worked \in BOOLEAN
  /\ runs \in Nat /\ kept \subseteq 1..MaxWork /\ work \subseteq 1..MaxWork
RunOK ==
  /\ run.at \in {"drop", "move"} => run.worked = venv["venv"].whole
  /\ run.at \in {"record", "make", "mark", "fill"} =>
       IF run.moved THEN venv["previous"].whole = run.worked ELSE ~run.worked
\* A person's virtualenv has neither the mark nor what an install puts there, so that no run
\* takes it for the installer's.
PersonsOK == \A p \in Venvs : venv[p].by = "person" => ~venv[p].mark /\ ~venv[p].whole
\* The cache is built in from nothing.
InitOK == run.at = "init" => tree["cache"] = NoTree
TreesInv == ShapesOK /\ RunOK /\ PersonsOK /\ InitOK /\ WorkIsKept /\ FailedUpdateKeeps
\* What keeps TypeOK with it: every id was given by a run there was.
IdsOK ==
  /\ runs \in 0..MaxRuns /\ ids \subseteq 0..MaxRuns /\ run.ids \subseteq 0..MaxRuns
  /\ \A p \in Venvs : venv[p].id \in 0..MaxRuns
=============================================================================
