--------------------------- MODULE RemoteSession ---------------------------
(***************************************************************************)
(* The one remote session of a host: RemoteManager of remote/session.py,   *)
(* with the journal files it keeps (remote/journal.py), the backend lease  *)
(* it holds (remote/backends.py) and the watchdog of remote/service.py     *)
(* that expires it and finishes what a failed restore left.                *)
(*                                                                         *)
(* RemoteService runs every manager call under one lock, so at most one    *)
(* job (op) is in hand; heartbeats, the host and a crash of the daemon     *)
(* interleave with its steps.  A job's step is one host mutation or one    *)
(* journal write, the grain at which a crash can cut it.                   *)
(***************************************************************************)
EXTENDS Naturals, FiniteSets

CONSTANTS
  Sessions,        \* session ids; each create draws a fresh one
  None,            \* no session
  DeskUses,        \* what a takeover finds to change on this host's desk
  FaultKinds,      \* the kinds of failure this instance injects
  MaxFaults,       \* how many of them
  MaxCrashes,      \* how often the daemon dies
  MaxReloads,      \* how often the host rearranges itself
  MaxMisses,       \* RECONFIGURE_ATTEMPTS
  RetryLimit       \* failed tries after which RETRY_GIVE_UP seconds may have passed

Backends  == {"sunshine", "vnc"}
Modes     == {"extend", "takeover"}
Live      == {"creating", "ready", "resizing", "stopping"}
States    == Live \cup {"none", "failed", "released"}
OfTakeover == {"aspect", "dpms_wake", "workspaces", "dpms", "input", "bar"}
AnyMode    == {"backend", "physical", "device_output", "idle", "output"}
Steps      == OfTakeover \cup AnyMode          \* the names restore() gives its steps
Marks      == Steps \cup {"blanking"}          \* "blanking": a blanked entry whose method is still None
Things     == (Steps \ {"backend"}) \cup Backends \* what may stand on the host; a lease per backend,
              \cup {"reclaim"}                      \* and the fork's as restore() took it again
Kinds      == {"host", "disk", "read"}

ASSUME NoneAssumption   == None \notin Sessions
ASSUME DeskAssumption   == DeskUses \subseteq OfTakeover
ASSUME BoundsAssumption == /\ FaultKinds \subseteq Kinds
                           /\ MaxFaults \in Nat /\ MaxCrashes \in Nat /\ MaxReloads \in Nat
                           /\ MaxMisses \in Nat \ {0} /\ RetryLimit \in Nat \ {0}

VARIABLES
  sid, state, mode, backend,         \* self.session; self._journal is always its own file
  beat,                              \* is the last heartbeat within the session's ttl?
  misses, drifted,                   \* _reconfigure_failures; the owned output was moved by the host
  record,                            \* self._record
  unfinished,                        \* self._unfinished
  disk,                              \* the journal directory
  standing,                          \* the host mutations in force, by session
  op, req, todo, errs, rrec, cont, files, \* the job in hand
  watching,                          \* the watchdog task is alive
  used, faults, crashes, reloads,    \* ids drawn, and what the bounds count
  dropped                            \* history: whose failed steps no one in memory has in hand any more

sessionVars == <<sid, state, mode, backend, beat, misses>>
memoryVars  == <<record, unfinished>>
hostVars    == <<standing, drifted>>
jobVars     == <<op, req, todo, errs, rrec, cont, files>>
boundVars   == <<used, faults, crashes, reloads, dropped>>
vars == <<sessionVars, memoryVars, disk, hostVars, jobVars, watching, boundVars>>

\* One journal record, as far as restore() reads it.
Record == [id : Sessions \cup {None}, backend : Backends,
           marks : SUBSET Marks, failed : SUBSET Steps]
NoRecord == [id |-> None, backend |-> "vnc", marks |-> {}, failed |-> {}]
NoRetry  == [rec |-> NoRecord, steps |-> {}, tries |-> 0]
NoReq    == [id |-> None, mode |-> "extend", backend |-> "vnc"]

IsLive   == state \in Live                         \* current() is not None
Free     == op = "none"
Fault(k) == k \in FaultKinds /\ faults < MaxFaults /\ faults' = faults + 1

-----------------------------------------------------------------------------
(* The order things are taken in, and the order they are put back in. *)

TakeRank(r) ==
  CASE r = "idle" -> 1   [] r = "output" -> 2      [] r = "aspect" -> 3
    [] r = "dpms_wake" -> 4 [] r = "workspaces" -> 5 [] r = "dpms" -> 6
    [] r = "input" -> 7  [] r = "bar" -> 8 [] r = "device_output" -> 9 [] OTHER -> 10

RestoreRank(r) ==
  CASE r = "backend" -> 1 [] r = "dpms" -> 2 [] r = "physical" -> 3
    [] r = "workspaces" -> 4 [] r = "input" -> 5 [] r = "device_output" -> 6
    [] r = "dpms_wake" -> 7 [] r = "aspect" -> 8 [] r = "idle" -> 9
    [] r = "bar" -> 10 [] OTHER -> 11

FirstToTake(r)    == r \in todo /\ \A q \in todo : TakeRank(r) <= TakeRank(q)
FirstToRestore(r) == r \in todo /\ \A q \in todo : RestoreRank(r) <= RestoreRank(q)

Stands(r) == \E s \in Sessions : <<s, r>> \in standing

\* record.get("failed_steps") narrows a restore; an empty list narrows nothing.
Owed(rec) == IF rec.failed = {} THEN Steps ELSE rec.failed

\* The thing a step is about: for the backend, its lease.
Held(r, b) == IF r = "backend" THEN b ELSE r

\* Journal.read: the file of a session, if there is one.
Read(s) == IF s \in Sessions THEN disk[s] ELSE NoRecord

\* What a step of restore() puts back when it works.  Some things go back to what
\* this session found; the others are switches of the host with one off position.
Own == {"backend", "output", "physical", "workspaces", "bar"}
Undone(rec, r) ==
  IF r \notin rec.marks THEN {}
  ELSE (IF r \in Own THEN {rec.id} ELSE Sessions) \X
       ({Held(r, rec.backend)} \cup (IF r = "backend" THEN {"reclaim"} ELSE {}))

\* Slip: the lease is entered under the step's name instead of its backend's.
EffectByStep(r) == {<<sid, r>>} \cup (IF r = "output" THEN {<<sid, "physical">>} ELSE {})

\* What taking r puts on the host.  Creating the output re-packs the physical ones.
Effect(r) == {<<sid, Held(r, req.backend)>>} \cup (IF r = "output" THEN {<<sid, "physical">>} ELSE {})

\* _advance() into a live state writes the record to this session's journal file.
Advanced == [disk EXCEPT ![sid] = record]

StartRestore(rec, only, why) ==
  /\ op' = "restore" /\ rrec' = rec /\ todo' = only \cap rec.marks /\ errs' = {}
  /\ cont' = why /\ UNCHANGED <<req, files>>

JobDone == /\ op' = "none" /\ req' = NoReq /\ todo' = {} /\ errs' = {}
           /\ rrec' = NoRecord /\ cont' = "" /\ files' = {}

\* An exception inside the try of create() or _reapply(): the session failed, and
\* what the record in memory names is put back.  A host's rebuild that met the
\* host's refusal is only a missed pass, until the misses are used up; any other
\* exception of it ends the watchdog task with it.
Failed(rec) ==
  /\ state' = "failed"
  /\ StartRestore(rec, Owed(rec), IF cont = "created" THEN "create_failed" ELSE "resize_failed")

Missed ==
  /\ misses' = misses + 1
  /\ IF misses' < MaxMisses
       THEN state' = "ready" /\ JobDone
       ELSE state' = "failed" /\ StartRestore(record, Owed(record), "resize_failed")

\* Slip: a missed rebuild leaves the session "resizing".
HostRefusesLeft ==
  IF cont = "rebuilt" THEN /\ misses' = IF misses < MaxMisses THEN misses + 1 ELSE misses
                           /\ JobDone /\ UNCHANGED <<state, disk>>
                      ELSE Failed(record) /\ UNCHANGED <<misses, disk>>

HostRefuses ==
  IF cont = "rebuilt" THEN Missed /\ disk' = Advanced
                      ELSE Failed(record) /\ UNCHANGED <<misses, disk>>

DiskRefuses(rec) ==
  /\ record' = rec /\ Failed(rec)
  /\ watching' = (watching /\ cont # "rebuilt")
  /\ UNCHANGED <<disk, misses>>

-----------------------------------------------------------------------------
(* create() *)

\* A POST while a session is live is refused; otherwise the last one's restore
\* is settled first.
Request(s, m, b) ==
  /\ Free /\ ~IsLive /\ s \notin used
  /\ used' = used \cup {s}
  /\ op' = "settle" /\ req' = [id |-> s, mode |-> m, backend |-> b]
  /\ UNCHANGED <<todo, errs, rrec, cont, files>>
  /\ UNCHANGED <<sessionVars, memoryVars, disk, hostVars, watching, faults, crashes, reloads, dropped>>

\* _settle_unfinished: one pass over what is left; RestoreDone decides on more.
Settle ==
  /\ op = "settle"
  /\ IF unfinished = NoRetry
       THEN op' = "begin" /\ UNCHANGED <<req, todo, errs, rrec, cont, files>>
       ELSE StartRestore(unfinished.rec, unfinished.steps, "settle")
  /\ UNCHANGED <<sessionVars, memoryVars, disk, hostVars, watching, boundVars>>

\* Validation, the backend's status and its preflight may refuse before anything
\* is assigned.
BeginRefused ==
  /\ op = "begin" /\ JobDone
  /\ UNCHANGED <<sessionVars, memoryVars, disk, hostVars, watching, boundVars>>

Begin ==
  /\ op = "begin"
  /\ sid' = req.id /\ state' = "creating" /\ mode' = req.mode /\ backend' = req.backend
  /\ misses' = 0 /\ beat' = TRUE
  /\ op' = "snapshot" /\ UNCHANGED <<req, todo, errs, rrec, cont, files>>
  /\ UNCHANGED <<memoryVars, disk, hostVars, watching, boundVars>>

FreshRecord ==
  [id |-> sid, backend |-> backend, failed |-> {},
   marks |-> {"output", "physical"} \cup (IF Stands("idle") THEN {} ELSE {"idle"})]

\* Mode and backend decide what this session will take.
Wanted == (FreshRecord.marks \ {"physical"}) \cup {"backend"}
          \cup (IF mode = "takeover" THEN DeskUses ELSE {})
          \cup (IF backend = "sunshine" THEN {"device_output"} ELSE {})

Snapshot ==
  /\ op = "snapshot"
  /\ record' = FreshRecord /\ disk' = [disk EXCEPT ![sid] = FreshRecord]
  /\ op' = "take" /\ todo' = Wanted /\ cont' = "created" /\ UNCHANGED <<req, errs, rrec, files>>
  /\ drifted' = FALSE
  /\ UNCHANGED <<sessionVars, unfinished, standing, watching, boundVars>>

\* Reading the screens, the workspaces or the shell's crashes, or the first
\* journal write, fails: all of it stands outside the try, with the session
\* already assigned and the record assigned only if the screens were read.
SnapshotFails ==
  /\ op = "snapshot"
  /\ \/ Fault("read") /\ record' \in {record, FreshRecord}
     \/ Fault("disk") /\ record' = FreshRecord
  /\ JobDone
  /\ UNCHANGED <<sessionVars, unfinished, disk, hostVars, watching, used, crashes, reloads, dropped>>

\* Hyprland already has the option or the screen the way the session wants it:
\* nothing of it is this session's doing.
AlreadySo(r) == r \in {"aspect", "dpms_wake", "dpms"} /\ Stands(r) /\ <<sid, r>> \notin standing
Premarked(r) == r \in record.marks \/ (r = "dpms" /\ "blanking" \in record.marks)
ToMark(r)    == op = "take" /\ FirstToTake(r) /\ ~AlreadySo(r) /\ ~Premarked(r)
ToTake(r)    == op = "take" /\ FirstToTake(r) /\ ~AlreadySo(r) /\ Premarked(r)

TakeSkip(r) ==
  /\ op = "take" /\ FirstToTake(r) /\ AlreadySo(r)
  /\ todo' = todo \ {r} /\ UNCHANGED <<op, req, errs, rrec, cont, files>>
  /\ UNCHANGED <<sessionVars, memoryVars, disk, hostVars, watching, boundVars>>

\* The intent goes into the record and onto the disk before the host is touched.
MarkOf(r) == IF r = "dpms" THEN "blanking" ELSE r
Noted(m)  == [record EXCEPT !.marks = @ \cup {m}]

\* Slip: the journal is left for the end of create().
TakeMarkInMemory(r) ==
  /\ ToMark(r)
  /\ record' = Noted(MarkOf(r))
  /\ UNCHANGED <<sessionVars, unfinished, disk, hostVars, jobVars, watching, boundVars>>

TakeMark(r) ==
  /\ ToMark(r)
  /\ record' = Noted(MarkOf(r)) /\ disk' = [disk EXCEPT ![sid] = record']
  /\ UNCHANGED <<sessionVars, unfinished, hostVars, jobVars, watching, boundVars>>

\* The bar's helper swallows its own journal failure, and the record is read back.
MarkFails(r) ==
  /\ ToMark(r) /\ Fault("disk")
  /\ \/ r # "bar" /\ DiskRefuses(Noted(MarkOf(r)))
     \/ /\ r = "bar" /\ record' = Read(sid) /\ todo' = todo \ {"bar"}
        /\ UNCHANGED <<state, misses, watching, disk, op, req, errs, rrec, cont, files>>
  /\ UNCHANGED <<sid, mode, backend, beat, unfinished, hostVars, used, crashes, reloads, dropped>>

\* The fork serves one lease: a second one is refused as desktop_busy.
HeldByOther(me) == \E s \in Sessions \ {me} : <<s, "sunshine">> \in standing \/ <<s, "reclaim">> \in standing
Busy == req.backend = "sunshine" /\ HeldByOther(sid)

\* The mutation itself.  A screen is darkened first and its method journaled
\* after; the dispatcher that will not answer falls back to disabling the
\* output, which the baseline already covers.
TakeAct(r) ==
  /\ ToTake(r) /\ (r = "backend" => ~Busy)
  /\ standing' = standing \cup Effect(r)
  /\ IF r = "dpms" THEN op' = "confirm" /\ UNCHANGED todo
                   ELSE op' = "take" /\ todo' = todo \ {r}
  /\ UNCHANGED <<req, errs, rrec, cont, files>>
  /\ UNCHANGED <<sessionVars, memoryVars, disk, drifted, watching, boundVars>>

Confirm ==
  /\ op = "confirm"
  /\ record' = Noted("dpms") /\ disk' = [disk EXCEPT ![sid] = record']
  /\ op' = "take" /\ todo' = todo \ {"dpms"} /\ UNCHANGED <<req, errs, rrec, cont, files>>
  /\ UNCHANGED <<sessionVars, unfinished, hostVars, watching, boundVars>>

ConfirmFails ==
  /\ op = "confirm" /\ Fault("disk") /\ DiskRefuses(Noted("dpms"))
  /\ UNCHANGED <<sid, mode, backend, beat, unfinished, hostVars, used, crashes, reloads, dropped>>

\* A comfort setting, the bar and a screen that can be disabled instead never
\* cost the session.
Shrugged == {"aspect", "dpms_wake", "bar", "dpms"}

TakeShrugged(r) ==
  /\ ToTake(r) /\ r \in Shrugged /\ Fault("host")
  /\ standing' \in {standing, standing \cup (IF r = "dpms" THEN {} ELSE Effect(r))}
  /\ todo' = todo \ {r} /\ UNCHANGED <<op, req, errs, rrec, cont, files>>
  /\ UNCHANGED <<sessionVars, memoryVars, disk, drifted, watching, used, crashes, reloads, dropped>>

\* Everything else does, whether or not the host had already done it.
TakeFails(r) ==
  /\ ToTake(r) /\ r \notin Shrugged \ {"dpms"}
  /\ \/ /\ Fault("host")
        /\ standing' \in {standing, standing \cup (IF r = "backend" /\ Busy THEN {} ELSE Effect(r))}
     \/ r = "backend" /\ Busy /\ UNCHANGED <<standing, faults>>
  /\ HostRefuses
  /\ UNCHANGED <<sid, mode, backend, beat, memoryVars, drifted, watching, used, crashes, reloads, dropped>>

\* The last _advance() stands outside the try: when its write fails the caller
\* gets the error and the session is ready all the same.
Ready ==
  /\ op = "take" /\ todo = {}
  /\ state' = "ready" /\ JobDone
  /\ \/ /\ disk' = Advanced /\ UNCHANGED <<watching, faults>>
        /\ misses' = IF cont = "rebuilt" THEN 0 ELSE misses
     \/ /\ Fault("disk") /\ UNCHANGED <<disk, misses>>
        /\ watching' = (watching /\ cont # "rebuilt")
  /\ UNCHANGED <<sid, mode, backend, beat, memoryVars, hostVars, used, crashes, reloads, dropped>>

-----------------------------------------------------------------------------
(* resize(), switch_backend() and the rebuild of an output the host removed *)

ReapplyBegin(b, why) ==
  /\ req' = [id |-> sid, mode |-> mode, backend |-> b]
  /\ cont' = why /\ op' = "stop" /\ state' = "resizing" /\ disk' = Advanced
  /\ UNCHANGED <<todo, errs, rrec, files>>

\* The journal write of _advance("resizing") fails before the try is entered.
ReapplyStuck == Fault("disk") /\ state' = "resizing" /\ JobDone /\ UNCHANGED disk

Resize(b) ==
  /\ Free /\ state = "ready"
  /\ \/ ReapplyBegin(b, "resized") /\ UNCHANGED faults
     \/ ReapplyStuck
  /\ UNCHANGED <<sid, mode, backend, beat, misses, memoryVars, hostVars, watching,
                 used, crashes, reloads, dropped>>

\* The old stream is stopped, waiting out one that has not pinged yet, and its
\* lease given back when another backend takes over.
OldLease == IF req.backend = backend THEN {} ELSE {<<sid, backend>>}

\* Slip: a switch stops the old backend and keeps its lease.
StopOldOnly ==
  /\ op = "stop" /\ op' = "configure" /\ UNCHANGED <<req, todo, errs, rrec, cont, files>>
  /\ UNCHANGED <<sessionVars, memoryVars, disk, hostVars, watching, boundVars>>

StopOld ==
  /\ op = "stop" /\ op' = "configure" /\ standing' = standing \ OldLease
  /\ UNCHANGED <<req, todo, errs, rrec, cont, files>>
  /\ UNCHANGED <<sessionVars, memoryVars, disk, drifted, watching, boundVars>>

StopFails ==
  /\ op = "stop" /\ Fault("host") /\ HostRefuses
  /\ standing' \in {standing, standing \ OldLease}
  /\ UNCHANGED <<sid, mode, backend, beat, memoryVars, drifted, watching, used, crashes, reloads, dropped>>

\* The output is put back if the host removed it and given the new profile, and
\* the record names the new backend before that one is asked for anything.
Configure ==
  /\ op = "configure"
  /\ standing' = standing \cup Effect("output") /\ drifted' = FALSE
  /\ backend' = req.backend
  /\ record' = [record EXCEPT !.backend = req.backend]
  /\ disk' = [disk EXCEPT ![sid] = record']
  /\ op' = "take"
  /\ todo' = {"backend"} \cup (IF mode = "takeover" THEN DeskUses \cap {"bar"} ELSE {})
             \cup (IF req.backend = "sunshine" THEN {"device_output"} \ record.marks ELSE {})
  /\ UNCHANGED <<req, errs, rrec, cont, files>>
  /\ UNCHANGED <<sid, state, mode, beat, misses, unfinished, watching, boundVars>>

ConfigureFails ==
  /\ op = "configure" /\ standing' \in {standing, standing \cup Effect("output")}
  /\ \/ Fault("host") /\ HostRefuses /\ UNCHANGED <<backend, record, watching>>
     \/ /\ Fault("disk") /\ backend' = req.backend
        /\ DiskRefuses([record EXCEPT !.backend = req.backend])
  /\ UNCHANGED <<sid, mode, beat, unfinished, drifted, used, crashes, reloads, dropped>>

-----------------------------------------------------------------------------
(* restore(): every step on its own, and the journal goes only if all worked *)

\* The fork's stop() claims the lease first, whether or not it still holds it; one
\* that then fails leaves the claim in force.
Reclaimed(r) ==
  IF r = "backend" /\ rrec.backend = "sunshine" /\ ~HeldByOther(rrec.id)
    THEN ({rrec.id} \ {None}) \X {"reclaim"} ELSE {}

RestoreStep(r) ==
  /\ op = "restore" /\ FirstToRestore(r) /\ todo' = todo \ {r}
  /\ \/ /\ standing' = standing \ Undone(rrec, r) /\ UNCHANGED <<errs, faults>>
     \/ /\ Fault("host")
        /\ standing' \in {standing, standing \ Undone(rrec, r), standing \cup Reclaimed(r)}
        \* the bar's helper answers "unavailable" instead of raising
        /\ errs' = IF r = "bar" THEN errs ELSE errs \cup {r}
  /\ record' = IF r # "bar" THEN record ELSE IF Read(rrec.id) # NoRecord THEN Read(rrec.id) ELSE rrec
  /\ UNCHANGED <<op, req, rrec, cont, files>>
  /\ UNCHANGED <<sessionVars, unfinished, disk, drifted, watching, used, crashes, reloads, dropped>>

Restored == op = "restore" /\ todo = {}
Unlinked == [disk EXCEPT ![rrec.id] = NoRecord]

\* There is one place for what is unfinished: another session's is replaced in it.
Replaced(rec) == dropped' = dropped \cup ({unfinished.rec.id} \ {None, rec.id})

\* Slip: only the backend is thought worth trying again.
KeepBackend(rec) ==
  LET kept == [rec EXCEPT !.failed = errs] IN
  /\ Replaced(rec)
  /\ unfinished' = [rec |-> kept, steps |-> errs \cap {"backend"}, tries |-> 0]
  /\ disk' = [disk EXCEPT ![rec.id] = kept] /\ UNCHANGED faults

\* _keep_unfinished: the steps that failed go into the journal, if it can be
\* written, and are what the background tries again.
Keep(rec) ==
  LET kept == [rec EXCEPT !.failed = errs] IN
  /\ Replaced(rec)
  /\ unfinished' = [rec |-> kept, steps |-> errs, tries |-> 0]
  /\ \/ disk' = [disk EXCEPT ![rec.id] = kept] /\ UNCHANGED faults
     \/ Fault("disk") /\ UNCHANGED disk

\* Slips: a release says "released" whatever its restore said; its errors are dropped.
RestoreDoneReleased ==
  /\ Restored /\ cont \in {"create_failed", "released"} /\ JobDone
  /\ state' = IF cont = "released" THEN "released" ELSE "failed"
  /\ \/ errs = {} /\ disk' = Unlinked /\ UNCHANGED <<memoryVars, faults, dropped>>
     \/ errs # {} /\ Keep(record) /\ record' = [record EXCEPT !.failed = errs]
  /\ UNCHANGED <<sid, mode, backend, beat, misses, hostVars, watching, used, crashes, reloads>>

RestoreDoneForgets ==
  /\ Restored /\ cont \in {"create_failed", "released"} /\ JobDone
  /\ state' = IF cont = "released" /\ errs = {} THEN "released" ELSE "failed"
  /\ disk' = IF errs = {} THEN Unlinked ELSE disk
  /\ UNCHANGED <<sid, mode, backend, beat, misses, memoryVars, hostVars, watching, boundVars>>

\* The end of a create that failed, and of a release.
RestoreDone ==
  /\ Restored /\ cont \in {"create_failed", "released"} /\ JobDone
  /\ state' = IF cont = "released" /\ errs = {} THEN "released" ELSE "failed"
  /\ \/ errs = {} /\ disk' = Unlinked /\ UNCHANGED <<memoryVars, faults, dropped>>
     \/ errs # {} /\ Keep(record) /\ record' = [record EXCEPT !.failed = errs]
  /\ UNCHANGED <<sid, mode, backend, beat, misses, hostVars, watching, used, crashes, reloads>>

\* Slip: the journal goes although a step failed.
ReapplyDoneUnlinks ==
  /\ Restored /\ cont = "resize_failed" /\ JobDone /\ disk' = Unlinked
  /\ UNCHANGED <<sessionVars, memoryVars, hostVars, watching, boundVars>>

\* A resize that failed does not look at what its restore could not do.
ReapplyDone ==
  /\ Restored /\ cont = "resize_failed" /\ JobDone
  /\ \/ errs = {} /\ disk' = Unlinked /\ UNCHANGED dropped
     \/ errs # {} /\ dropped' = dropped \cup {rrec.id} /\ UNCHANGED disk
  /\ UNCHANGED <<sessionVars, memoryVars, hostVars, watching, used, faults, crashes, reloads>>

\* _finish_unfinished, with what its caller does next: a create waits only for
\* the backend, and not for long.  Once RETRY_GIVE_UP has passed it is given up.
RetryDone ==
  /\ Restored /\ cont \in {"retry", "settle"}
  /\ \/ /\ errs = {} /\ disk' = Unlinked /\ unfinished' = NoRetry /\ UNCHANGED dropped
        /\ state' = IF sid = rrec.id /\ state = "failed" THEN "released" ELSE state
     \/ /\ errs # {} /\ UNCHANGED <<disk, state>>
        /\ \/ /\ unfinished' = [rec |-> rrec, steps |-> errs, tries |-> unfinished.tries + 1]
              /\ UNCHANGED dropped
           \/ /\ unfinished.tries + 1 >= RetryLimit /\ unfinished' = NoRetry
              /\ dropped' = dropped \cup {rrec.id}
  /\ IF cont = "retry" THEN JobDone
     ELSE /\ op' \in {"begin"} \cup (IF "backend" \in errs THEN {"settle"} ELSE {})
          /\ todo' = {} /\ errs' = {} /\ rrec' = NoRecord /\ cont' = "" /\ UNCHANGED <<req, files>>
  /\ UNCHANGED <<sid, mode, backend, beat, misses, record, hostVars, watching,
                 used, faults, crashes, reloads>>

\* One journal of recover() is done; of several that failed, the last is kept.
RecoveredOne ==
  /\ Restored /\ cont = "recover"
  /\ \/ errs = {} /\ disk' = Unlinked /\ UNCHANGED <<unfinished, faults, dropped>>
     \/ errs # {} /\ Keep(rrec)
  /\ op' = "recover" /\ errs' = {} /\ rrec' = NoRecord /\ UNCHANGED <<req, todo, cont, files>>
  /\ UNCHANGED <<sessionVars, record, hostVars, watching, used, crashes, reloads>>

-----------------------------------------------------------------------------
(* release(), the retry in the background, expiry and recovery *)

\* A record is there to write and to restore, or the call dies on None.
StopSession ==
  \/ /\ record.id = None /\ state' = "stopping" /\ JobDone /\ UNCHANGED <<disk, faults, dropped>>
  \/ /\ record.id # None /\ state' = "stopping" /\ disk' = Advanced
     /\ StartRestore(record, Owed(record), "released")
     /\ dropped' = dropped \ {record.id} /\ UNCHANGED faults
  \/ /\ record.id # None /\ Fault("disk") /\ state' = "stopping" /\ JobDone
     /\ UNCHANGED <<disk, dropped>>

\* DELETE, the local owner's stop, a revoked device, or the daemon stopping.
Release ==
  /\ Free /\ sid # None /\ state # "released"
  /\ IF state = "failed" /\ unfinished # NoRetry /\ unfinished.rec.id = sid
       THEN /\ StartRestore(unfinished.rec, unfinished.steps, "retry")
            /\ UNCHANGED <<state, disk, faults, dropped>>
       ELSE StopSession
  /\ UNCHANGED <<sid, mode, backend, beat, misses, memoryVars, hostVars, watching,
                 used, crashes, reloads>>

\* The watchdog: a ready session whose client fell silent.
Expire ==
  /\ Free /\ watching /\ state = "ready" /\ ~beat /\ StopSession
  /\ watching' = (op' = "restore")
  /\ UNCHANGED <<sid, mode, backend, beat, misses, memoryVars, hostVars,
                 used, crashes, reloads>>

\* Slip: maintain() returns early when no session is live.
RetryWhileLive ==
  /\ Free /\ watching /\ unfinished # NoRetry /\ IsLive
  /\ StartRestore(unfinished.rec, unfinished.steps, "retry")
  /\ UNCHANGED <<sessionVars, memoryVars, disk, hostVars, watching, boundVars>>

BackgroundRetry ==
  /\ Free /\ watching /\ unfinished # NoRetry
  /\ StartRestore(unfinished.rec, unfinished.steps, "retry")
  /\ UNCHANGED <<sessionVars, memoryVars, disk, hostVars, watching, boundVars>>

\* `remote recover`, or a start of the daemon, takes every journal in turn.
Recover ==
  /\ Free /\ op' = "recover" /\ files' = {f \in Sessions : disk[f] # NoRecord}
  /\ UNCHANGED <<req, todo, errs, rrec, cont>>
  /\ UNCHANGED <<sessionVars, memoryVars, disk, hostVars, watching, boundVars>>

RecoverFile(f) ==
  /\ op = "recover" /\ f \in files /\ files' = files \ {f}
  /\ IF disk[f] = NoRecord
       THEN UNCHANGED <<op, req, todo, errs, rrec, cont, dropped>>
       ELSE /\ op' = "restore" /\ rrec' = disk[f] /\ todo' = Owed(disk[f]) \cap disk[f].marks
            /\ errs' = {} /\ cont' = "recover" /\ dropped' = dropped \ {disk[f].id} /\ UNCHANGED req
  /\ UNCHANGED <<sessionVars, memoryVars, disk, hostVars, watching, used, faults, crashes, reloads>>

RecoverDone ==
  /\ op = "recover" /\ files = {} /\ JobDone
  /\ sid' = None /\ state' = "none"
  /\ UNCHANGED <<mode, backend, beat, misses, memoryVars, disk, hostVars, watching, boundVars>>

-----------------------------------------------------------------------------
(* reconcile(), the client's heartbeat, and what the host and a crash do *)

\* `hyprctl reload` and activity in the room put these back by themselves.
Reloadable == {"aspect", "dpms_wake", "dpms", "workspaces"}

\* Slip: a screen that came back on is left on.
EnforcedLit == {r \in {"aspect", "dpms_wake"} : r \in record.marks}

\* What a pass re-asserts: only the marks of the session itself, and a workspace
\* only off a screen it darkened and onto an output that is there.
Enforced ==
  {r \in Reloadable \cap record.marks :
     r = "workspaces" => "blanking" \in record.marks /\ <<sid, "output">> \in standing}

Reconcile ==
  /\ Free /\ watching /\ state = "ready"
  /\ \E again \in SUBSET Enforced :
       /\ standing' = standing \cup ({sid} \X again)
       /\ \/ \* every write took; the output decides what else there is to do
             /\ again = Enforced /\ UNCHANGED <<faults, watching>>
             /\ IF <<sid, "output">> \notin standing
                  THEN ReapplyBegin(backend, "rebuilt") /\ UNCHANGED <<misses, drifted>>
                  ELSE misses' = 0 /\ drifted' = FALSE /\ UNCHANGED <<state, disk, jobVars>>
          \/ \* the host refused a re-assertion, silently
             /\ again # Enforced /\ Fault("host") /\ ~drifted /\ <<sid, "output">> \in standing
             /\ misses' = 0 /\ UNCHANGED <<watching, drifted, state, disk, jobVars>>
          \/ \* or the repin, or the rebuild's first question of the backend
             /\ again = Enforced /\ Fault("host") /\ (drifted \/ <<sid, "output">> \notin standing)
             /\ Missed /\ UNCHANGED <<watching, drifted, disk>>
          \/ \* the write of an adopted baseline, or of the rebuild's first step, fails
             /\ again = Enforced /\ Fault("disk") /\ watching' = FALSE
             /\ UNCHANGED <<misses, drifted, disk, jobVars>>
             /\ state' \in {"ready"} \cup (IF <<sid, "output">> \in standing THEN {} ELSE {"resizing"})
  /\ UNCHANGED <<sid, mode, backend, beat, memoryVars, used, crashes, reloads, dropped>>

\* The Omarchy shell crashed under the session and was restarted: the watchdog notes
\* it in the record and writes that to the session's journal.
WatchShell ==
  /\ Free /\ watching /\ IsLive /\ record.id # None
  /\ \/ disk' = Advanced /\ UNCHANGED <<watching, faults>>
     \/ Fault("disk") /\ watching' = FALSE /\ UNCHANGED disk
  /\ UNCHANGED <<sessionVars, memoryVars, hostVars, jobVars, used, crashes, reloads, dropped>>

\* POST .../heartbeat does not take the lock the jobs run under.
Heartbeat ==
  /\ IsLive /\ beat' = TRUE
  /\ UNCHANGED <<sid, state, mode, backend, misses, memoryVars, disk, hostVars, jobVars,
                 watching, boundVars>>

Lapse ==                               \* ttl_seconds pass without one
  /\ IsLive /\ beat /\ beat' = FALSE
  /\ UNCHANGED <<sid, state, mode, backend, misses, memoryVars, disk, hostVars, jobVars,
                 watching, boundVars>>

HostReload ==
  /\ reloads < MaxReloads /\ reloads' = reloads + 1 /\ state \in {"creating", "ready"}
  /\ \E R \in {Reloadable, {"dpms"}} : standing' = standing \ (Sessions \X R)
  /\ drifted' \in {drifted, TRUE}
  /\ UNCHANGED <<sessionVars, memoryVars, disk, jobVars, watching, used, faults, crashes, dropped>>

HostRemovesOutput ==
  /\ reloads < MaxReloads /\ reloads' = reloads + 1 /\ state \in {"creating", "ready"}
  /\ <<sid, "output">> \in standing
  /\ standing' = standing \ {<<sid, "output">>, <<sid, "workspaces">>}
  /\ UNCHANGED <<drifted, sessionVars, memoryVars, disk, jobVars, watching, used, faults, crashes, dropped>>

\* What is on the disk and on the host outlives the daemon, and the next one
\* begins by recovering.
Crash ==
  /\ crashes < MaxCrashes /\ crashes' = crashes + 1
  /\ sid' = None /\ state' = "none" /\ mode' = "extend" /\ backend' = "vnc"
  /\ beat' = FALSE /\ misses' = 0
  /\ record' = NoRecord /\ unfinished' = NoRetry /\ watching' = TRUE
  /\ op' = "recover" /\ files' = {f \in Sessions : disk[f] # NoRecord}
  /\ req' = NoReq /\ todo' = {} /\ errs' = {} /\ rrec' = NoRecord /\ cont' = ""
  /\ dropped' = {} /\ UNCHANGED <<disk, hostVars, used, faults, reloads>>

-----------------------------------------------------------------------------

Init ==
  /\ sid = None /\ state = "none" /\ mode = "extend" /\ backend = "vnc"
  /\ beat = FALSE /\ misses = 0 /\ drifted = FALSE
  /\ record = NoRecord /\ unfinished = NoRetry /\ disk = [f \in Sessions |-> NoRecord]
  /\ standing = {} /\ watching = TRUE
  /\ op = "none" /\ req = NoReq /\ todo = {} /\ errs = {} /\ rrec = NoRecord /\ cont = "" /\ files = {}
  /\ used = {} /\ dropped = {} /\ faults = 0 /\ crashes = 0 /\ reloads = 0

Taking == \E r \in todo : \/ TakeSkip(r) \/ TakeMark(r) \/ MarkFails(r) \/ TakeAct(r)
                          \/ TakeShrugged(r) \/ TakeFails(r)

\* The steps of the job in hand, which its thread takes one after the other.
Job ==
  \/ Settle \/ BeginRefused \/ Begin \/ Snapshot \/ SnapshotFails
  \/ Taking \/ Confirm \/ ConfirmFails \/ Ready
  \/ StopOld \/ StopFails \/ Configure \/ ConfigureFails
  \/ (\E r \in todo : RestoreStep(r)) \/ RestoreDone \/ ReapplyDone \/ RetryDone \/ RecoveredOne
  \/ (\E f \in files : RecoverFile(f)) \/ RecoverDone

Clients ==
  \/ \E s \in Sessions, m \in Modes, b \in Backends : Request(s, m, b)
  \/ (\E b \in Backends : Resize(b)) \/ Release \/ Recover \/ Heartbeat

Watchdog == Expire \/ BackgroundRetry \/ Reconcile \/ WatchShell

Host == Lapse \/ HostReload \/ HostRemovesOutput \/ Crash

Next == Job \/ Clients \/ Watchdog \/ Host

Spec == Init /\ [][Next]_vars

-----------------------------------------------------------------------------
(* What is said of it *)

SessionOK == /\ sid \in Sessions \cup {None} /\ state \in States
             /\ mode \in Modes /\ backend \in Backends
FlagsOK   == beat \in BOOLEAN /\ watching \in BOOLEAN /\ drifted \in BOOLEAN
CopiesOK  == /\ record \in Record /\ rrec \in Record /\ disk \in [Sessions -> Record]
             /\ unfinished \in [rec : Record, steps : SUBSET Steps, tries : Nat]
HostOK    == standing \in SUBSET (Sessions \X Things)
JobOK ==
  /\ op \in {"none", "settle", "begin", "snapshot", "take", "confirm", "stop", "configure",
             "restore", "recover"}
  /\ req \in [id : Sessions \cup {None}, mode : Modes, backend : Backends]
  /\ todo \in SUBSET Steps /\ errs \in SUBSET Steps /\ files \in SUBSET Sessions
  /\ cont \in {"", "created", "resized", "rebuilt", "create_failed", "resize_failed", "released",
               "retry", "settle", "recover"}
CountsOK  == /\ used \in SUBSET Sessions /\ dropped \in SUBSET (Sessions \cup {None})
             /\ misses \in Nat /\ faults \in Nat /\ crashes \in Nat /\ reloads \in Nat

\* Every variable keeps the shape RemoteManager, its journal and its jobs give it.
TypeOK == SessionOK /\ FlagsOK /\ CopiesOK /\ HostOK /\ JobOK /\ CountsOK

\* A screen darkened before its method is journaled, the bar, whose helper swallows
\* its failures, and a lease taken again are what the journal does not answer for.
Firm == Things \ {"dpms", "bar", "reclaim"}
StepOf(r) == IF r \in Backends THEN "backend" ELSE r

\* A copy of a record names, and still owes, all that stands under its session's id.
Covers(rec) ==
  \A r \in Firm : <<rec.id, r>> \in standing =>
    /\ StepOf(r) \in rec.marks \cap Owed(rec)
    /\ r \in Backends => r = rec.backend

\* At every instant a crash can strike, whatever stands on the host is named by a
\* journal file whose restore() would run the step that puts it back: the order
\* of journal.write and host call in create(), _reapply(), restore() and recover().
JournalCovers ==
  /\ \A p \in standing : p[2] \in Firm => \E f \in Sessions : disk[f].id = p[1]
  /\ \A f \in Sessions : Covers(disk[f])

\* The steps _finish_unfinished will run again are enough for what still stands
\* of that session, whatever later sessions, recoveries and retries did meanwhile.
RetryCovers ==
  unfinished # NoRetry =>
    \A r \in Firm : <<unfinished.rec.id, r>> \in standing =>
      /\ StepOf(r) \in unfinished.steps
      /\ r \in Backends => r = unfinished.rec.backend

\* release() (or the retry that finished it) says "released" only of a session
\* nothing firm of which stands any more.
ReleasedMeansRestored == state = "released" => \A r \in Firm : <<sid, r>> \notin standing

\* Through any number of switches, failed switches and rebuilds, a ready session
\* holds the lease of the backend it says it is on, and no other.
LeaseMatches ==
  state = "ready" /\ cont # "recover" =>
    \A b \in Backends : <<sid, b>> \in standing <=> b = backend

\* The journal is a note of what is borrowed, in the sense of BorrowedHost: written
\* before, kept until all is back, through crashes and failed restores.
Lent  == {p \in standing : p[2] \in Firm}
Named == {disk[f].id : f \in Sessions} \ {None}
Borrowed == INSTANCE BorrowedHost WITH Things <- Firm, lent <- Lent, noted <- Named
BorrowsUnderNotes == Borrowed!Spec

\* The job's thread runs on; the watchdog's loop goes through its calls in turn, and
\* the lock they wait for is first come, first served.
Fairness == /\ WF_vars(Job)
            /\ SF_vars(Expire) /\ SF_vars(BackgroundRetry) /\ SF_vars(Reconcile)
FairSpec == Spec /\ Fairness

\* A session whose ttl has run out is ended unless a heartbeat comes: maintain(), and
\* no path of create() or _reapply() that leaves it in a state maintain() skips.
SilentSessionEnds == (IsLive /\ ~beat) ~> (~IsLive \/ beat \/ ~watching)

\* A restore that failed is finished, given up, or its watchdog is dead.
RetryEnds == (unfinished # NoRetry) ~> (unfinished = NoRetry \/ ~watching)

\* What a session that is over (or a daemon that died) left on the host does not stay
\* there: restore(), _finish_unfinished and recover() between them, also when a step of
\* the restore or of a retry fails in turn.  Exempt is only what the code lets go of
\* (dropped), until a release, a recovery or a start takes it up again: the errors of a
\* failed resize's restore (session.py:786), a retry given up after RETRY_GIVE_UP (1132)
\* and one that another session's unfinished steps replace (1103).
Leftover(s) == s \notin dropped /\ (s # sid \/ ~IsLive) /\ \E r \in Firm : <<s, r>> \in standing
GivenBack == \A s \in Sessions : Leftover(s) ~> (~Leftover(s) \/ ~watching)

\* What a reload or a removed output undid under a ready session, reconcile() puts
\* back, or the session does not stay ready.
DeskHeld ==
  \A r \in (Reloadable \cap DeskUses) \cup {"output"} :
    (state = "ready" /\ r \in record.marks /\ <<sid, r>> \notin standing)
      ~> (state # "ready" \/ <<sid, r>> \in standing \/ ~watching)

\* docs/remote-api.md:404 says each dark screen is in the journal and the restore
\* turns exactly those back on: while one is dark, a journal names its session.
DarkOnlyWithJournal ==
  \A s \in Sessions : <<s, "dpms">> \in standing => \E f \in Sessions : disk[f].id = s

\* docs/remote-api.md:507 says every mutation is journaled before it is issued: the
\* lease restore() takes again to stop the fork is one, and a journal names its session.
ClaimIsJournaled ==
  \A s \in Sessions : <<s, "reclaim">> \in standing => \E f \in Sessions : disk[f].id = s

\* create() says Omarchy must not blank and lock the machine underneath the stream:
\* while a session is ready, the idle cycle is off.
StreamStaysAwake == state = "ready" /\ cont # "recover" => Stands("idle")

\* POLISH-R2 says the steps that failed are tried again until they succeed
\* (session.py:1085-1092): what still stands of a failed session is in
\* _finish_unfinished's hands.  That takes two faults to fail (786), or a give-up.
FailedIsRetried ==
  state = "failed" /\ Free /\ (\E r \in Firm : <<sid, r>> \in standing)
    => unfinished # NoRetry /\ unfinished.rec.id = sid

-----------------------------------------------------------------------------
(***************************************************************************)
(* The inductive invariants behind JournalCovers, RetryCovers and          *)
(* ReleasedMeansRestored, and behind LeaseMatches. JournalCovers alone is  *)
(* not inductive: a crash forgets the copies in memory, but until then     *)
(* restore() works from those (record, unfinished, rrec) and writes them   *)
(* back, so each of them has to cover what stands as well, and it has to   *)
(* be known whose copies there can be when a session takes something or a  *)
(* new one begins.                                                         *)
(***************************************************************************)

\* rec names what stands under its id, and owed is enough to put it back.
CoversIn(st, rec, owed) ==
  \A r \in Firm : <<rec.id, r>> \in st =>
    /\ StepOf(r) \in rec.marks /\ StepOf(r) \in owed
    /\ r \in Backends => r = rec.backend

Recovering == op = "recover" \/ (op = "restore" /\ cont = "recover")
Taken      == op \in {"take", "confirm", "stop", "configure"}
Fresh      == op \in {"settle", "begin", "snapshot"} \/ (op = "restore" /\ cont = "settle")
Ending     == op = "restore" /\ cont \in {"create_failed", "resize_failed", "released"}
Retrying   == op = "restore" /\ cont \in {"retry", "settle"}

\* The session may take from the host: its record is current on the disk.
Owning == Taken \/ (state = "ready" /\ ~Recovering)

\* No copy of a record has this id, on the disk or in memory.
Unheard(s) == /\ \A f \in Sessions : disk[f].id # s
              /\ record.id # s /\ unfinished.rec.id # s
              /\ op = "restore" => rrec.id # s

\* Which job goes with which state of the session.
Control ==
  /\ op = "restore" => cont \in {"create_failed", "resize_failed", "released", "retry", "settle", "recover"}
  /\ Taken => cont \in {"created", "resized", "rebuilt"} /\ state \in {"creating", "resizing"}
  /\ op = "snapshot" => state = "creating"
  /\ op \in {"settle", "begin"} \/ (op = "restore" /\ cont = "settle") => ~IsLive
  /\ Ending => state \in {"failed", "stopping"}
  /\ state \in Live => sid # None
  /\ sid # None => sid \in used
  /\ Fresh => req.id \in used
  /\ op = "snapshot" => sid = req.id /\ backend = req.backend
  /\ Taken => req.id = sid /\ req.backend \in Backends

\* Every copy covers, by what would be run from it.
Copies ==
  /\ \A p \in standing : p[2] \in Firm => \E f \in Sessions : disk[f].id = p[1]
  /\ \A f \in Sessions : CoversIn(standing, disk[f], Owed(disk[f]))
  /\ CoversIn(standing, record, Owed(record))
  /\ CoversIn(standing, unfinished.rec, Owed(unfinished.rec))
  /\ CoversIn(standing, unfinished.rec, unfinished.steps)
  /\ op = "restore" => /\ CoversIn(standing, rrec, Owed(rrec))
                       /\ CoversIn(standing, rrec, todo \cup errs)

\* Whose the copies are: an empty file is NoRecord, and an id in a copy was drawn.
KnownIds ==
  /\ \A f \in Sessions : disk[f] = NoRecord \/ (f \in used /\ disk[f].id \in used)
  /\ record = NoRecord \/ record.id \in used
  /\ unfinished = NoRetry \/ unfinished.rec.id \in used
  /\ op = "restore" => rrec.id \in used

\* The file of a session some copy names is that session's or is gone.
OwnFiles == \A s \in Sessions : Unheard(s) \/ disk[s].id \in {s, None}

\* The present session's record is its own, unless nothing was ever noted of it.
Present ==
  sid # None /\ ~Recovering => /\ record.id = sid \/ Unheard(sid)
                               /\ disk[sid].id \in {None, record.id}

\* Of a session still to be begun there is no trace.
Awaited == Fresh => Unheard(req.id) /\ disk[req.id].id = None

\* What a restore works from; the bar's step reports no error and is not retried.
Restoring ==
  /\ Ending => rrec.id = record.id
  /\ Retrying => rrec = unfinished.rec /\ "bar" \notin todo
  /\ "bar" \notin unfinished.steps
  /\ op = "restore" => "bar" \notin errs

Places == KnownIds /\ OwnFiles /\ Present /\ Awaited /\ Restoring

\* While it may take, the session's own file is the only other copy of its record.
Holding ==
  Owning =>
    /\ record.id = sid /\ disk[sid] = record /\ record.failed = {}
    /\ record.backend = backend /\ {"output", "physical"} \subseteq record.marks
    /\ unfinished.rec.id # sid
    /\ \A f \in Sessions : f # sid => disk[f].id # sid
    /\ op \in {"take", "confirm"} => req.backend = backend
    /\ op = "configure" => \A b \in Backends : <<sid, b>> \in standing => b = req.backend

\* The invariant, with the two properties that are parts of it as they stand.
JournalInv == /\ TypeOK /\ Control /\ Copies /\ Places /\ Holding
              /\ ReleasedMeansRestored

\* Why a ready session holds its lease: the take of a create or a switch is not over
\* before its backend was asked for, and a rebuild keeps the lease throughout, so a
\* pass that is missed leaves it where it was.
LeaseInv ==
  /\ LeaseMatches
  /\ op \notin {"restore", "recover"} => cont # "recover"
  /\ op \in {"take", "confirm"} => "backend" \in todo \/ <<sid, backend>> \in standing
  /\ Taken /\ cont = "rebuilt" => req.backend = backend /\ <<sid, backend>> \in standing
=============================================================================
