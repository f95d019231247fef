---------------------------- MODULE Preferences ----------------------------
(***************************************************************************)
(* The host's preferences (preferences.py): one file, a revision and the   *)
(* values, read and replaced under a lock by whatever build runs - a newer *)
(* one knows controls an older one does not, and a file of the first       *)
(* version has neither.  A page changes a value with the revision it last  *)
(* saw, and is refused when the file has moved on.                         *)
(***************************************************************************)
EXTENDS Naturals, FiniteSets

CONSTANTS Pages,   \* pages and commands that read, then change
          Shared,  \* controls every build knows
          Newer,   \* controls only the newer build knows
          Absent,  \* no value
          MaxRevision,
          MaxBuilds  \* bound on the builds taken in turn

VARIABLES
  version, revision, values,  \* the file
  build,   \* the build that runs: "old" or "new"
  seen,    \* page -> the revision and values it was shown
  lost,    \* a change was made over one its page had not been shown
  dropped, \* a build changed a control it does not know
  builds

prefVars == <<version, revision, values, build, seen, lost, dropped, builds>>

Controls == Shared \cup Newer
Values == {"default", "chosen"}
Knows(b) == IF b = "new" THEN Controls ELSE Shared
Shown(v, b) == [k \in Controls |-> IF k \in Knows(b) THEN v[k] ELSE Absent]

TypeOK ==
  /\ version \in {1, 2} /\ revision \in 0..MaxRevision
  /\ values \in [Controls -> Values \cup {Absent}]
  /\ build \in {"old", "new"} /\ {lost, dropped} \subseteq BOOLEAN
  /\ \A p \in Pages : seen[p].revision \in 0..MaxRevision

Init ==
  /\ version \in {1, 2} /\ revision = 0
  /\ values \in [Controls -> Values \cup {Absent}]
  /\ \A k \in Newer : values[k] = Absent
  /\ version = 2 => \A k \in Shared : values[k] # Absent
  /\ build = "old"
  /\ seen = [p \in Pages |-> [revision |-> 0, values |-> [k \in Controls |-> Absent]]]
  /\ lost = FALSE /\ dropped = FALSE /\ builds = 0

-----------------------------------------------------------------------------
\* _read(): what the file lacks of this build's controls has its default, and
\* the file is written again; what this build does not know stays.
Filled(v) == [k \in Controls |-> IF k \in Knows(build) /\ v[k] = Absent THEN "default"
                                 ELSE v[k]]
Write(v) ==
  /\ version' = 2 /\ values' = v
  /\ dropped' = (dropped \/ \E k \in Controls \ Knows(build) : v[k] # values[k])

Get(p) ==
  /\ Write(Filled(values))
  /\ seen' = [seen EXCEPT ![p] = [revision |-> revision,
                                  values |-> Shown(Filled(values), build)]]
  /\ UNCHANGED <<revision, build, lost, builds>>

\* Slip: the change is made whatever the page saw.
Always(p) == TRUE
Current(p) == seen[p].revision = revision
\* set(): a change that changes nothing keeps the revision.
Set(p, k, v) ==
  /\ k \in Knows(build) /\ Current(p)
  /\ LET now == Filled(values) new == [now EXCEPT ![k] = v] IN
     /\ new # now /\ revision < MaxRevision
     /\ Write(new) /\ revision' = revision + 1
     /\ lost' = (lost \/ \E c \in Controls :
                  seen[p].values[c] \notin {Absent, now[c]})
     /\ seen' = [seen EXCEPT ![p] = [revision |-> revision + 1,
                                     values |-> Shown(new, build)]]
  /\ UNCHANGED <<build, builds>>

\* Another build starts: an update, or the return to an older one.
Restart ==
  /\ builds < MaxBuilds /\ builds' = builds + 1
  /\ build' = IF build = "old" THEN "new" ELSE "old"
  /\ UNCHANGED <<version, revision, values, seen, lost, dropped>>

Next ==
  \/ \E p \in Pages : Get(p) \/ \E k \in Controls, v \in Values : Set(p, k, v)
  \/ Restart

Spec == Init /\ [][Next]_prefVars
-----------------------------------------------------------------------------
(***************************************************************************)
(* No page writes over a change it was not shown: the value of every       *)
(* control it saw is the one in the file when its own change is made, with *)
(* builds changing between its read and its write.                         *)
(***************************************************************************)
NothingIsLost == ~lost

(***************************************************************************)
(* What the newer build was told outlives the older one: no build changes  *)
(* a control it does not know, when it fills in its own nor when it is     *)
(* asked for a change.                                                     *)
(***************************************************************************)
OthersKept == ~dropped

-----------------------------------------------------------------------------
\* What a page was shown is of a revision the file has had; of the one it has, every value
\* that was shown is still there.
SeenOK ==
  /\ revision \in Nat /\ values \in [Controls -> Values \cup {Absent}]
  /\ seen \in [Pages -> [revision : Nat, values : [Controls -> Values \cup {Absent}]]]
  /\ \A p \in Pages : seen[p].revision <= revision
  /\ \A p \in Pages : Current(p) => \A k \in Controls : seen[p].values[k] \in {Absent, values[k]}
PrefInv == SeenOK /\ NothingIsLost /\ OthersKept
=============================================================================
