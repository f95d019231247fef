------------------------------ MODULE Uploads ------------------------------
(***************************************************************************)
(* Files a device sends for the agent or a pane (uploads.py, network.py).  *)
(* The body of one request streams into a .part of its own; finish() names *)
(* it once it is whole and of an accepted kind, a HEIC photo by way of a   *)
(* .jpg beside it; a sweep at start and every hour removes what is a week  *)
(* old and the parts a dead stream left; a send asks for the file by its   *)
(* id, and a chip taken off removes it.                                    *)
(*                                                                         *)
(* The n-th upload is n.  Of its bytes only their kind is kept, of time    *)
(* only what a sweep tells apart: age 1 is past PART_TTL_SECONDS (an       *)
(* hour), age 2 past TTL_SECONDS (a week).  A reader that hears nothing    *)
(* for thirty seconds ends its upload and the converter is given sixty, so *)
(* a live stream wrote its part within the hour and no finish() spans one. *)
(***************************************************************************)
EXTENDS Naturals, FiniteSets

CONSTANTS Ids,        \* 1..n, the uploads
          Asks,       \* sends and removals under way at once
          Off,        \* the rest of an ask
          MaxCrash,   \* bound on the deaths of the daemon
          MaxHours,   \* bound on the long spells without a step
          MaxAsks     \* bound on the sends and removals

VARIABLES
  kind,     \* id -> the kind of its bytes
  stage,    \* id -> where its request is
  files,    \* id -> the files on disk: "part", "jpg", "stored"
  age,      \* id -> how long ago they were written
  known,    \* UploadStore._known
  answered, \* ids whose device has the answer
  gone,     \* ids deleted or swept, ever
  valid,    \* the device's credential is
  checked,  \* id -> the credential was when its body had ended
  spared,   \* no sweep took a part of a live stream
  ask,      \* ask -> what a send or a removal has found
  crashes, hours, asks

uploadVars == <<kind, stage, files, age, known, answered, gone, valid, checked, spared,
                ask, crashes, hours, asks>>

Kinds == {"text", "heic", "refused"}
Live == {"body", "ended", "convert", "named"}
Idle == [op |-> Off, id |-> 0, at |-> Off]

TypeOK ==
  /\ kind \in [Ids -> Kinds]
  /\ stage \in [Ids -> Live \cup {"none", "done", "refused", "lost"}]
  /\ files \in [Ids -> SUBSET {"part", "jpg", "stored"}]
  /\ age \in [Ids -> 0..2] /\ known \subseteq Ids /\ answered \subseteq Ids
  /\ gone \subseteq Ids /\ {valid, spared} \subseteq BOOLEAN /\ checked \in [Ids -> BOOLEAN]
  /\ \A a \in Asks : ask[a].id \in Ids \cup {0}

Init ==
  /\ kind \in [Ids -> Kinds] /\ stage = [i \in Ids |-> "none"]
  /\ files = [i \in Ids |-> {}] /\ age = [i \in Ids |-> 0]
  /\ known = {} /\ answered = {} /\ gone = {} /\ valid = TRUE
  /\ checked = [i \in Ids |-> FALSE] /\ spared = TRUE
  /\ ask = [a \in Asks |-> Idle] /\ crashes = 0 /\ hours = 0 /\ asks = 0

-----------------------------------------------------------------------------
(* One request: stream_into() and finish().                                *)

\* What the rename takes.
Source(i) == IF stage[i] = "convert" THEN "jpg" ELSE "part"

\* receive() makes the .part before a byte of the body is read.
Receive(i) ==
  /\ stage[i] = "none" /\ valid /\ \A j \in Ids : j < i => stage[j] # "none"
  /\ stage' = [stage EXCEPT ![i] = "body"]
  /\ files' = [files EXCEPT ![i] = {"part"}] /\ age' = [age EXCEPT ![i] = 0]
  /\ UNCHANGED <<kind, known, answered, gone, valid, checked, spared, ask, crashes,
                 hours, asks>>

\* abort(): the body is too large, stalled for thirty seconds or cut off.
Abort(i) ==
  /\ stage[i] = "body"
  /\ stage' = [stage EXCEPT ![i] = "refused"]
  /\ files' = [files EXCEPT ![i] = @ \ {"part"}]
  /\ UNCHANGED <<kind, age, known, answered, gone, valid, checked, spared, ask, crashes,
                 hours, asks>>

\* Slip: the credential of the request's start is enough.
EndsUnchecked(i) ==
  /\ stage[i] = "body"
  /\ stage' = [stage EXCEPT ![i] = "ended"]
  /\ checked' = [checked EXCEPT ![i] = valid]
  /\ UNCHANGED <<kind, files, age, known, answered, gone, valid, spared, ask, crashes, hours,
                 asks>>

\* The body ended: the credential is asked for again before finish() runs.
BodyEnds(i) ==
  /\ stage[i] = "body"
  /\ stage' = [stage EXCEPT ![i] = IF valid THEN "ended" ELSE "refused"]
  /\ files' = [files EXCEPT ![i] = IF valid THEN @ ELSE @ \ {"part"}]
  /\ checked' = [checked EXCEPT ![i] = valid]
  /\ UNCHANGED <<kind, age, known, answered, gone, valid, spared, ask, crashes, hours,
                 asks>>

\* finish() up to the rename: the kind is refused, or a photo converted.
Refuse(i) ==
  /\ \/ stage[i] = "ended" /\ kind[i] = "refused"
     \/ stage[i] = "ended" /\ kind[i] = "heic"  \* no converter could
  /\ stage' = [stage EXCEPT ![i] = "refused"]
  /\ files' = [files EXCEPT ![i] = @ \ {"part", "jpg"}]
  /\ UNCHANGED <<kind, age, known, answered, gone, valid, checked, spared, ask, crashes,
                 hours, asks>>

Convert(i) ==
  /\ stage[i] = "ended" /\ kind[i] = "heic" /\ "part" \in files[i]
  /\ stage' = [stage EXCEPT ![i] = "convert"]
  /\ files' = [files EXCEPT ![i] = @ \cup {"jpg"}]
  /\ UNCHANGED <<kind, age, known, answered, gone, valid, checked, spared, ask, crashes,
                 hours, asks>>

\* keep(): the rename; what is left of a converted photo was removed first.
Rename(i) ==
  /\ \/ stage[i] = "ended" /\ kind[i] = "text"
     \/ stage[i] = "convert"
  /\ Source(i) \in files[i]
  /\ stage' = [stage EXCEPT ![i] = "named"]
  /\ files' = [files EXCEPT ![i] = (@ \ {"part", "jpg"}) \cup {"stored"}]
  /\ UNCHANGED <<kind, age, known, answered, gone, valid, checked, spared, ask, crashes,
                 hours, asks>>

\* _known has it and the device its answer.
Answer(i) ==
  /\ stage[i] = "named"
  /\ stage' = [stage EXCEPT ![i] = "done"]
  /\ known' = known \cup {i} /\ answered' = answered \cup {i}
  /\ UNCHANGED <<kind, files, age, gone, valid, checked, spared, ask, crashes, hours,
                 asks>>

-----------------------------------------------------------------------------
(* A send or a removal: resolve().                                         *)

\* An id the store does not know may still be a file: after a restart all are.
OnDisk(i) == "stored" \in files[i]
Look(a, op, i) ==
  /\ ask[a] = Idle /\ asks < MaxAsks /\ asks' = asks + 1
  /\ i \in answered /\ valid
  /\ ask' = [ask EXCEPT ![a] = [op |-> op, id |-> i, at |->
               CASE i \in known /\ OnDisk(i) -> "found"
                 [] i \notin known /\ OnDisk(i) -> "scanned"
                 [] OTHER -> "gone"]]
  /\ UNCHANGED <<kind, stage, files, age, known, answered, gone, valid, checked, spared,
                 crashes, hours>>

\* The id found again is kept; an id without a file is forgotten.
Note(a) ==
  /\ ask[a].at \in {"scanned", "gone"}
  /\ LET i == ask[a].id IN
     \/ /\ ask[a].at = "scanned" /\ known' = known \cup {i}
        /\ ask' = [ask EXCEPT ![a].at = "found"]
     \/ /\ ask[a].at = "gone" /\ known' = known \ {i}
        /\ ask' = [ask EXCEPT ![a] = Idle]
  /\ UNCHANGED <<kind, stage, files, age, answered, gone, valid, checked, spared,
                 crashes, hours, asks>>

\* The send goes out with the path; a removal takes the file.
Sent(a) ==
  /\ ask[a].op = "send" /\ ask[a].at = "found"
  /\ ask' = [ask EXCEPT ![a] = Idle]
  /\ UNCHANGED <<kind, stage, files, age, known, answered, gone, valid, checked, spared,
                 crashes, hours, asks>>

Remove(a) ==
  /\ ask[a].op = "delete" /\ ask[a].at = "found"
  /\ LET i == ask[a].id IN
     /\ files' = [files EXCEPT ![i] = @ \ {"stored"}]
     /\ gone' = gone \cup {i} /\ known' = known \ {i}
  /\ ask' = [ask EXCEPT ![a] = Idle]
  /\ UNCHANGED <<kind, stage, age, answered, valid, checked, spared, crashes, hours, asks>>

-----------------------------------------------------------------------------
(* The sweep, time, revocation and the daemon's death.                     *)

DueAsPart(i, f) == age[i] >= 1
\* A stored file after a week, a part after an hour; never before.
Due(i, f) == age[i] >= (IF f = "stored" THEN 2 ELSE 1)
Sweep(i, f) ==
  /\ f \in files[i] /\ Due(i, f)
  /\ files' = [files EXCEPT ![i] = @ \ {f}]
  /\ known' = IF f = "stored" THEN known \ {i} ELSE known
  /\ gone' = IF f = "stored" /\ age[i] = 2 THEN gone \cup {i} ELSE gone
  /\ spared' = (spared /\ ~(f # "stored" /\ stage[i] \in Live))
  /\ UNCHANGED <<kind, stage, age, answered, valid, checked, ask, crashes, hours, asks>>

Unhurried(i) == FALSE
\* A stream that is still read wrote its part less than thirty seconds ago.
Wrote(i) == stage[i] = "body"
TimePasses ==
  /\ hours < MaxHours /\ hours' = hours + 1
  /\ \A i \in Ids : stage[i] \notin {"ended", "convert", "named"}
  /\ age' = [i \in Ids |-> CASE stage[i] = "none" \/ Wrote(i) -> 0
                              [] age[i] = 2 -> 2
                              [] OTHER -> age[i] + 1]
  /\ UNCHANGED <<kind, stage, files, known, answered, gone, valid, checked, spared, ask,
                 crashes, asks>>

Revoke ==
  /\ valid /\ valid' = FALSE
  /\ UNCHANGED <<kind, stage, files, age, known, answered, gone, checked, spared, ask,
                 crashes, hours, asks>>

\* What was written is all that is left.
Crash ==
  /\ crashes < MaxCrash /\ crashes' = crashes + 1
  /\ stage' = [i \in Ids |-> IF stage[i] \in Live THEN "lost" ELSE stage[i]]
  /\ known' = {} /\ ask' = [a \in Asks |-> Idle]
  /\ UNCHANGED <<kind, files, age, answered, gone, valid, checked, spared, hours, asks>>

Next ==
  \/ \E i \in Ids : Receive(i) \/ Abort(i) \/ BodyEnds(i) \/ Refuse(i) \/ Convert(i)
                     \/ Rename(i) \/ Answer(i)
  \/ \E a \in Asks : Note(a) \/ Sent(a) \/ Remove(a)
  \/ \E a \in Asks, op \in {"send", "delete"}, i \in Ids : Look(a, op, i)
  \/ \E i \in Ids, f \in {"part", "jpg", "stored"} : Sweep(i, f)
  \/ TimePasses \/ Revoke \/ Crash

Spec == Init /\ [][Next]_uploadVars
-----------------------------------------------------------------------------
(***************************************************************************)
(* What a request leaves: an upload that was answered or refused has no    *)
(* part and no half-made photo behind, and a file that has its name came   *)
(* in over a credential that was good when the body had ended.             *)
(***************************************************************************)
NothingIsLeft ==
  \A i \in Ids :
    /\ stage[i] \in {"done", "refused", "named"} => files[i] \cap {"part", "jpg"} = {}
    /\ OnDisk(i) => checked[i]

(***************************************************************************)
(* The sweep takes no part a request still writes or converts, and a file  *)
(* a device was told of is on disk until it is a week old or taken off,    *)
(* through crashes and restarts.                                           *)
(***************************************************************************)
SavedStays ==
  /\ spared
  /\ \A i \in answered \ gone : OnDisk(i)

(***************************************************************************)
(* A send is refused with attachment_gone only when the file is gone: a    *)
(* restart that forgot every id refuses nothing that is still there.       *)
(***************************************************************************)
RefusedIsGone == \A a \in Asks : ask[a].at = "gone" => ask[a].id \in gone

-----------------------------------------------------------------------------
AskStates == [op : {"send", "delete", Off}, id : Ids \cup {0}, at : {"found", "scanned", "gone", Off}]
UploadShapesOK ==
  /\ stage \in [Ids -> Live \cup {"none", "done", "refused", "lost"}]
  /\ files \in [Ids -> SUBSET {"part", "jpg", "stored"}] /\ age \in [Ids -> 0..2]
  /\ checked \in [Ids -> BOOLEAN] /\ ask \in [Asks -> AskStates]
  /\ valid \in BOOLEAN /\ answered \subseteq Ids
\* What a request has on disk goes by where it is: no name before the rename, no photo half
\* made before the body has ended, and both names taken off when it is over; what finish()
\* works on was checked, and what is at work is fresh.
StageOK ==
  \A i \in Ids :
    /\ stage[i] = "none" => files[i] = {}
    /\ stage[i] \in {"body", "ended"} => files[i] \subseteq {"part"}
    /\ stage[i] = "convert" => "stored" \notin files[i]
    /\ stage[i] = "named" => files[i] = {"stored"}
    /\ stage[i] \in {"ended", "convert"} => checked[i]
    /\ stage[i] \in Live => age[i] = 0
    /\ i \in answered => stage[i] = "done"
\* A send or a removal is of an upload its device has the answer of.
AskOK == \A a \in Asks : ask[a].at \in {"found", "scanned", "gone"} => ask[a].id \in answered
UploadInv == UploadShapesOK /\ AskOK /\ StageOK /\ NothingIsLeft /\ SavedStays /\ RefusedIsGone
=============================================================================
