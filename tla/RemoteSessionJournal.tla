------------------------ MODULE RemoteSessionJournal ------------------------
(***************************************************************************)
(* Proofs about RemoteSession, part two: JournalInv is inductive, and so   *)
(* the journal covers whatever stands on the host, for any number of       *)
(* sessions, failures, crashes and reloads; LeaseInv is, and so a running  *)
(* backend is never of a lease nobody holds; and RemoteSession implements  *)
(* BorrowedHost.                                                           *)
(***************************************************************************)
EXTENDS RemoteSessionProofs

USE NoneAssumption
USE DEF sessionVars, memoryVars, hostVars, jobVars, boundVars

-----------------------------------------------------------------------------
(* What it means for a copy of a record to cover what stands. *)

LEMMA CoversLess ==
  ASSUME NEW st, NEW less, less \subseteq st, NEW rec, NEW owed, CoversIn(st, rec, owed)
  PROVE  CoversIn(less, rec, owed)
  BY DEF CoversIn

\* Only what is firm counts.
LEMMA CoversFirm ==
  ASSUME NEW st, NEW less, \A p \in less : p[2] \in Firm => p \in st,
         NEW rec, NEW owed, CoversIn(st, rec, owed)
  PROVE  CoversIn(less, rec, owed)
  BY DEF CoversIn

\* A step of restore() puts nothing firm on the host.
LEMMA RestoreStepFirm ==
  ASSUME NEW r, RestoreStep(r) PROVE \A p \in standing' : p[2] \in Firm => p \in standing
<1>1. \A p \in Reclaimed(r) : p[2] \notin Firm
  BY DEF Reclaimed, Firm
<1> QED BY <1>1 DEF RestoreStep

LEMMA CoversMore ==
  ASSUME NEW st, NEW rec, NEW owed, NEW more, owed \subseteq more, CoversIn(st, rec, owed)
  PROVE  CoversIn(st, rec, more)
  BY DEF CoversIn

LEMMA FirmSteps == \A r \in Firm : StepOf(r) \in Steps /\ StepOf(r) # "bar"
  BY DEF Firm, Things, StepOf, Steps, OfTakeover, AnyMode, Backends

\* What is asked for is only what the record names, so no more than that is owed.
LEMMA CoversMarked ==
  ASSUME NEW st, NEW rec, NEW owed, CoversIn(st, rec, owed)
  PROVE  CoversIn(st, rec, owed \cap rec.marks)
  BY DEF CoversIn

LEMMA CoversAll ==
  ASSUME NEW st, NEW rec, NEW owed, rec.failed = {}, CoversIn(st, rec, owed)
  PROVE  CoversIn(st, rec, Owed(rec))
  BY FirmSteps DEF CoversIn, Owed

\* Two records of one id cover the same things by what they name.
LEMMA CoversOther ==
  ASSUME NEW st, NEW rec, NEW other, NEW owed, NEW asked,
         rec.id = other.id, rec.backend = other.backend, rec.marks = other.marks,
         CoversIn(st, other, owed), NEW third, third.id = rec.id, CoversIn(st, third, asked)
  PROVE  CoversIn(st, rec, asked)
  BY DEF CoversIn

LEMMA NobodyCovers ==
  ASSUME NEW st \in SUBSET (Sessions \X Things), NEW rec, NEW owed, rec.id = None
  PROVE  CoversIn(st, rec, owed)
  BY DEF CoversIn

\* Nothing is owed any more: nothing firm stands.
LEMMA NothingOwed ==
  ASSUME NEW st, NEW rec, CoversIn(st, rec, {})
  PROVE  \A r \in Firm : <<rec.id, r>> \notin st
  BY DEF CoversIn

\* Of a session no copy names, nothing firm stands: some journal would name it.
LEMMA UnheardHasNothing ==
  ASSUME Copies, NEW s, Unheard(s)
  PROVE  \A r \in Firm : <<s, r>> \notin standing
<1> SUFFICES ASSUME NEW r \in Firm, <<s, r>> \in standing PROVE FALSE
  OBVIOUS
<1> DEFINE p == <<s, r>>
<1>1. p \in standing /\ p[1] = s /\ p[2] \in Firm
  OBVIOUS
<1>2. \E f \in Sessions : disk[f].id = s
  BY <1>1 DEF Copies
<1> QED BY <1>2 DEF Unheard

-----------------------------------------------------------------------------
(* Three shapes a step can have, and what they leave of the invariant. *)

\* The copies are as they were, and less stands.
LEMMA CopiesLess ==
  ASSUME Copies, standing' \subseteq standing, UNCHANGED <<disk, record, unfinished>>,
         op' = "restore" => /\ CoversIn(standing, rrec', Owed(rrec'))
                            /\ CoversIn(standing, rrec', todo' \cup errs')
  PROVE  Copies'
<1>1. \A p \in standing' : p[2] \in Firm => \E f \in Sessions : disk'[f].id = p[1]
  BY DEF Copies
<1>2. \A f \in Sessions : CoversIn(standing', disk'[f], Owed(disk'[f]))
  BY CoversLess DEF Copies
<1>3. CoversIn(standing', record', Owed(record')) /\ CoversIn(standing', unfinished'.rec, Owed(unfinished'.rec))
  BY CoversLess DEF Copies
<1>4. CoversIn(standing', unfinished'.rec, unfinished'.steps)
  BY CoversLess DEF Copies
<1>5. op' = "restore" => /\ CoversIn(standing', rrec', Owed(rrec'))
                         /\ CoversIn(standing', rrec', todo' \cup errs')
  BY CoversLess
<1> QED BY <1>1, <1>2, <1>3, <1>4, <1>5 DEF Copies

\* No step of the host or of a clock touches anything but what stands.
LEMMA IdleKeeps ==
  ASSUME JournalInv, TypeOK', Control', standing' \subseteq standing,
         UNCHANGED <<sid, state, backend, memoryVars, disk, jobVars, used>>
  PROVE  JournalInv'
<1> USE DEF JournalInv
<1>1. Copies'
  BY CopiesLess DEF Copies
<1>2. Places'
  BY DEF Places, KnownIds, OwnFiles, Present, Awaited, Restoring, Unheard, Recovering, Fresh,
         Ending, Retrying
<1>3. Holding'
  BY DEF Holding, Owning, Taken, Recovering
<1>4. ReleasedMeansRestored'
  BY DEF ReleasedMeansRestored
<1> QED BY <1>1, <1>2, <1>3, <1>4

\* A job begins to restore from a copy there is.
LEMMA RestoreBegins ==
  ASSUME JournalInv, NEW rec, NEW only, NEW why, op # "restore",
         rec = record \/ rec = unfinished.rec \/ (\E f \in Sessions : rec = disk[f]),
         CoversIn(standing, rec, only), StartRestore(rec, only, why),
         UNCHANGED <<standing, memoryVars, disk>>
  PROVE  Copies' /\ (\A s \in Sessions : Unheard(s) => Unheard(s)')
<1> USE DEF JournalInv
<1>1. rrec' = rec /\ todo' \cup errs' = only \cap rec.marks
  BY DEF StartRestore
<1>2. CoversIn(standing, rec, Owed(rec))
  BY DEF Copies
<1>3. CoversIn(standing, rec, only \cap rec.marks)
  BY CoversMarked
<1>4. Copies'
  BY <1>1, <1>2, <1>3, CopiesLess
<1>5. ASSUME NEW s \in Sessions, Unheard(s) PROVE Unheard(s)'
  BY <1>1, <1>5 DEF Unheard
<1> QED BY <1>4, <1>5

-----------------------------------------------------------------------------
(* The steps that leave every copy and the host as they are. *)

LEMMA RequestInv ==
  ASSUME JournalInv, TypeControl', NEW s \in Sessions, NEW m \in Modes, NEW b \in Backends,
         Request(s, m, b)
  PROVE  JournalInv'
<1> USE DEF JournalInv, Places
<1>1. /\ op' = "settle" /\ req'.id = s /\ used' = used \cup {s} /\ s \notin used /\ op = "none"
      /\ UNCHANGED <<sid, state, backend, memoryVars, disk, standing, rrec>> /\ ~IsLive
  BY DEF Request, Free
<1>2. Copies'
  BY <1>1, CopiesLess
<1>3. \A f \in Sessions : Unheard(f) => Unheard(f)'
  BY <1>1 DEF Unheard
<1>4. Unheard(s)' /\ disk'[s].id = None
  <2>1. \A f \in Sessions : disk[f].id # s
    BY <1>1 DEF KnownIds, NoRecord
  <2>2. record.id # s /\ unfinished.rec.id # s /\ disk[s].id = None
    BY <1>1 DEF KnownIds, NoRetry, NoRecord
  <2> QED BY <1>1, <2>1, <2>2 DEF Unheard
<1>5. KnownIds' /\ OwnFiles'
  BY <1>1, <1>3 DEF KnownIds, OwnFiles
<1>6. Present'
  BY <1>1, <1>3 DEF Present, Recovering, TypeOK, SessionOK
<1>7. Awaited' /\ Restoring'
  BY <1>1, <1>4 DEF Awaited, Restoring, Ending, Retrying
<1>8. Holding' /\ ReleasedMeansRestored'
  BY <1>1 DEF Holding, Owning, Taken, Recovering, IsLive, Live, ReleasedMeansRestored
<1> QED BY <1>2, <1>5, <1>6, <1>7, <1>8 DEF TypeControl

LEMMA SettleInv == ASSUME JournalInv, TypeControl', Settle PROVE JournalInv'
<1> USE DEF JournalInv, Places
<1>1. /\ op = "settle" /\ ~IsLive
      /\ UNCHANGED <<sid, state, backend, memoryVars, disk, standing, req, used>>
  BY DEF Settle, Control, StartRestore
<1>2. CASE op' = "begin" /\ UNCHANGED rrec
  <2>1. Copies'
    BY <1>1, <1>2, CopiesLess
  <2>2. KnownIds' /\ OwnFiles' /\ Present' /\ Awaited' /\ Restoring'
    BY <1>1, <1>2 DEF KnownIds, OwnFiles, Present, Awaited, Restoring, Unheard, Recovering, Fresh,
                      Ending, Retrying
  <2>3. Holding' /\ ReleasedMeansRestored'
    BY <1>1, <1>2 DEF Holding, Owning, Taken, Recovering, IsLive, Live, ReleasedMeansRestored
  <2> QED BY <2>1, <2>2, <2>3 DEF TypeControl
<1>3. CASE unfinished # NoRetry /\ StartRestore(unfinished.rec, unfinished.steps, "settle")
  <2>1. CoversIn(standing, unfinished.rec, unfinished.steps)
    BY DEF Copies
  <2>2. Copies' /\ (\A s \in Sessions : Unheard(s) => Unheard(s)')
    BY <1>1, <1>3, <2>1, RestoreBegins
  <2>3. /\ op' = "restore" /\ cont' = "settle" /\ rrec' = unfinished.rec /\ errs' = {}
        /\ todo' \subseteq unfinished.steps
    BY <1>3 DEF StartRestore
  <2>4. KnownIds' /\ OwnFiles' /\ Restoring'
    BY <1>1, <1>3, <2>2, <2>3 DEF KnownIds, OwnFiles, Restoring, Ending, Retrying
  <2>5. Present'
    BY <1>1, <2>2, <2>3 DEF Present, Recovering, TypeOK, SessionOK
  <2>6. Unheard(req.id)'
    BY <1>1, <2>3 DEF Awaited, Fresh, Unheard
  <2>7. Awaited'
    BY <1>1, <2>6 DEF Awaited, Fresh
  <2>8. Holding' /\ ReleasedMeansRestored'
    BY <1>1, <2>3 DEF Holding, Owning, Taken, Recovering, IsLive, Live, ReleasedMeansRestored
  <2> QED BY <2>2, <2>4, <2>5, <2>7, <2>8 DEF TypeControl
<1> QED BY <1>2, <1>3 DEF Settle

LEMMA BeginRefusedInv == ASSUME JournalInv, TypeControl', BeginRefused PROVE JournalInv'
<1> USE DEF JournalInv, Places
<1>1. /\ op = "begin" /\ op' = "none" /\ ~IsLive
      /\ UNCHANGED <<sid, state, backend, memoryVars, disk, standing, used>>
  BY DEF BeginRefused, Control, JobDone
<1>2. Copies'
  BY <1>1, CopiesLess
<1>3. KnownIds' /\ OwnFiles' /\ Present' /\ Awaited' /\ Restoring'
  BY <1>1 DEF KnownIds, OwnFiles, Present, Awaited, Restoring, Unheard, Recovering, Fresh, Ending,
              Retrying
<1>4. Holding' /\ ReleasedMeansRestored'
  BY <1>1 DEF Holding, Owning, Taken, Recovering, IsLive, Live, ReleasedMeansRestored
<1> QED BY <1>2, <1>3, <1>4 DEF TypeControl

LEMMA BeginInv == ASSUME JournalInv, TypeControl', Begin PROVE JournalInv'
<1> USE DEF JournalInv, Places
<1>1. /\ op = "begin" /\ op' = "snapshot" /\ sid' = req.id /\ state' = "creating"
      /\ UNCHANGED <<memoryVars, disk, standing, used, req, todo, errs, rrec, cont, files>>
  BY DEF Begin
<1>2. Copies'
  BY <1>1, CopiesLess
<1>3. \A s : Unheard(s) => Unheard(s)'
  BY <1>1 DEF Unheard
<1>4. Unheard(req.id)' /\ disk'[req.id].id = None
  BY <1>1, <1>3 DEF Awaited, Fresh
<1>5. KnownIds' /\ OwnFiles' /\ Present' /\ Awaited' /\ Restoring'
  BY <1>1, <1>3, <1>4 DEF KnownIds, OwnFiles, Present, Awaited, Restoring, Recovering, Fresh, Ending,
                          Retrying
<1>6. Holding' /\ ReleasedMeansRestored'
  BY <1>1 DEF Holding, Owning, Taken, Recovering, ReleasedMeansRestored
<1> QED BY <1>2, <1>5, <1>6 DEF TypeControl

LEMMA RecoverInv == ASSUME JournalInv, TypeControl', Recover PROVE JournalInv'
<1> USE DEF JournalInv, Places
<1>1. /\ op = "none" /\ op' = "recover"
      /\ UNCHANGED <<sid, state, backend, memoryVars, disk, standing, used>>
  BY DEF Recover, Free
<1>2. Copies'
  BY <1>1, CopiesLess
<1>3. KnownIds' /\ OwnFiles' /\ Present' /\ Awaited' /\ Restoring'
  BY <1>1 DEF KnownIds, OwnFiles, Present, Awaited, Restoring, Unheard, Recovering, Fresh, Ending,
              Retrying
<1>4. Holding' /\ ReleasedMeansRestored'
  BY <1>1 DEF Holding, Owning, Taken, Recovering, ReleasedMeansRestored
<1> QED BY <1>2, <1>3, <1>4 DEF TypeControl

LEMMA RecoverFileInv ==
  ASSUME JournalInv, TypeControl', NEW f \in files, RecoverFile(f) PROVE JournalInv'
<1> USE DEF JournalInv, Places
<1>1. /\ op = "recover" /\ f \in Sessions
      /\ UNCHANGED <<sid, state, backend, memoryVars, disk, standing, used>>
  BY DEF RecoverFile, TypeOK, JobOK
<1>2. Holding' /\ ReleasedMeansRestored'
  BY <1>1 DEF Holding, Owning, Taken, Recovering, ReleasedMeansRestored, RecoverFile
<1>3. CASE UNCHANGED <<op, req, todo, errs, rrec, cont>>
  <2>1. Copies'
    BY <1>1, <1>3, CopiesLess
  <2>2. KnownIds' /\ OwnFiles' /\ Present' /\ Awaited' /\ Restoring'
    BY <1>1, <1>3 DEF KnownIds, OwnFiles, Present, Awaited, Restoring, Unheard, Recovering, Fresh,
                      Ending, Retrying
  <2> QED BY <1>2, <2>1, <2>2 DEF TypeControl
<1>4. CASE /\ disk[f] # NoRecord /\ op' = "restore" /\ rrec' = disk[f]
           /\ todo' = Owed(disk[f]) \cap disk[f].marks /\ cont' = "recover" /\ errs' = {}
  <2>1. Copies'
    BY <1>1, <1>4, CopiesLess, CoversMarked DEF Copies
  <2>2. KnownIds' /\ OwnFiles'
    BY <1>1, <1>4 DEF KnownIds, OwnFiles, Unheard
  <2>3. Present' /\ Awaited' /\ Restoring'
    BY <1>1, <1>4 DEF Present, Awaited, Restoring, Recovering, Fresh, Ending, Retrying
  <2> QED BY <1>2, <2>1, <2>2, <2>3 DEF TypeControl
<1> QED BY <1>3, <1>4 DEF RecoverFile

LEMMA RecoverDoneInv == ASSUME JournalInv, TypeControl', RecoverDone PROVE JournalInv'
<1> USE DEF JournalInv, Places
<1>1. /\ op = "recover" /\ op' = "none" /\ sid' = None /\ state' = "none"
      /\ UNCHANGED <<backend, memoryVars, disk, standing, used>>
  BY DEF RecoverDone, JobDone
<1>2. Copies'
  BY <1>1, CopiesLess
<1>3. KnownIds' /\ OwnFiles' /\ Present' /\ Awaited' /\ Restoring'
  BY <1>1 DEF KnownIds, OwnFiles, Present, Awaited, Restoring, Unheard, Recovering, Fresh, Ending,
              Retrying
<1>4. Holding' /\ ReleasedMeansRestored'
  BY <1>1 DEF Holding, Owning, Taken, Recovering, ReleasedMeansRestored
<1> QED BY <1>2, <1>3, <1>4 DEF TypeControl

LEMMA BackgroundRetryInv == ASSUME JournalInv, TypeControl', BackgroundRetry PROVE JournalInv'
<1> USE DEF JournalInv, Places
<1>1. /\ op = "none" /\ op' = "restore" /\ cont' = "retry" /\ rrec' = unfinished.rec /\ errs' = {}
      /\ todo' \subseteq unfinished.steps /\ unfinished # NoRetry
      /\ UNCHANGED <<sid, state, backend, memoryVars, disk, standing, used, req>>
      /\ StartRestore(unfinished.rec, unfinished.steps, "retry")
  BY DEF BackgroundRetry, Free, StartRestore
<1>2. Copies' /\ (\A s \in Sessions : Unheard(s) => Unheard(s)')
  BY <1>1, RestoreBegins DEF Copies
<1>3. KnownIds' /\ OwnFiles' /\ Restoring'
  BY <1>1, <1>2 DEF KnownIds, OwnFiles, Restoring, Ending, Retrying
<1>4. Present' /\ Awaited'
  BY <1>1, <1>2 DEF Present, Recovering, TypeOK, SessionOK, Awaited, Fresh
<1>5. Holding' /\ ReleasedMeansRestored'
  BY <1>1 DEF Holding, Owning, Taken, Recovering, ReleasedMeansRestored
<1> QED BY <1>2, <1>3, <1>4, <1>5 DEF TypeControl

\* Between jobs, the record in memory is written to the session's own file.
LEMMA AdvanceKeeps ==
  ASSUME JournalInv, op = "none", sid # None, record.id # None, disk' = Advanced,
         op' = "none" \/ (op' = "restore" /\ rrec' = record),
         UNCHANGED <<sid, memoryVars, standing, used>>
  PROVE  /\ \A p \in standing : p[2] \in Firm => \E f \in Sessions : disk'[f].id = p[1]
         /\ \A f \in Sessions : CoversIn(standing, disk'[f], Owed(disk'[f]))
         /\ KnownIds' /\ OwnFiles'
         /\ disk'[sid].id = record.id
<1> USE DEF JournalInv, Places
<1>1. sid \in Sessions /\ disk' = [disk EXCEPT ![sid] = record] /\ disk \in [Sessions -> Record]
  BY DEF Advanced, TypeOK, CopiesOK, SessionOK
<1>2. record.id \in used /\ sid \in used
  BY DEF KnownIds, NoRecord, Control
<1>3. disk[sid].id \in {None, record.id}
  BY DEF Present, Recovering
<1>4. \A s \in Sessions : Unheard(s) => Unheard(s)'
  BY <1>1 DEF Unheard
<1>5. \A p \in standing : p[2] \in Firm => \E f \in Sessions : disk'[f].id = p[1]
  <2> SUFFICES ASSUME NEW p \in standing, p[2] \in Firm
               PROVE  \E f \in Sessions : disk'[f].id = p[1]
    OBVIOUS
  <2>1. PICK f \in Sessions : disk[f].id = p[1]
    BY DEF Copies
  <2>2. p[1] \in Sessions
    BY DEF TypeOK, HostOK
  <2>3. CASE f = sid
    BY <1>1, <1>3, <2>1, <2>2, <2>3, NoneAssumption
  <2>4. CASE f # sid
    BY <1>1, <2>1, <2>4
  <2> QED BY <2>3, <2>4
<1>6. \A f \in Sessions : CoversIn(standing, disk'[f], Owed(disk'[f]))
  BY <1>1 DEF Copies
<1>7. KnownIds'
  BY <1>1, <1>2 DEF KnownIds
<1>8. OwnFiles'
  <2>1. ASSUME NEW s \in Sessions, s # sid PROVE Unheard(s)' \/ disk'[s].id \in {s, None}
    BY <1>1, <1>4, <2>1 DEF OwnFiles
  <2>2. Unheard(sid)' \/ disk'[sid].id \in {sid, None}
    BY <1>1, <1>4 DEF Present, Recovering
  <2> QED BY <2>1, <2>2 DEF OwnFiles
<1> QED BY <1>1, <1>5, <1>6, <1>7, <1>8

LEMMA StopSessionInv ==
  ASSUME JournalInv, TypeControl', op = "none", sid # None, StopSession,
         UNCHANGED <<sid, backend, memoryVars, standing, used>>
  PROVE  JournalInv'
<1> USE DEF JournalInv, Places
<1>1. sid \in Sessions /\ state' = "stopping" /\ op' \in {"none", "restore"}
  BY DEF TypeOK, SessionOK, StopSession, JobDone, StartRestore
<1>2. Holding' /\ ReleasedMeansRestored'
  BY <1>1 DEF Holding, Owning, Taken, ReleasedMeansRestored
<1>3. CASE JobDone /\ UNCHANGED disk
  <2>1. op' = "none"
    BY <1>3 DEF JobDone
  <2>2. Copies'
    BY <1>3, <2>1, CopiesLess
  <2>3. KnownIds' /\ OwnFiles' /\ Present' /\ Awaited' /\ Restoring'
    BY <1>3, <2>1 DEF KnownIds, OwnFiles, Present, Awaited, Restoring, Unheard, Recovering, Fresh,
                      Ending, Retrying
  <2> QED BY <1>2, <2>2, <2>3 DEF TypeControl
<1>4. CASE /\ record.id # None /\ disk' = Advanced
           /\ StartRestore(record, Owed(record), "released")
  <2>1. /\ op' = "restore" /\ cont' = "released" /\ rrec' = record /\ errs' = {}
        /\ todo' = Owed(record) \cap record.marks
    BY <1>4 DEF StartRestore
  <2>2. /\ \A p \in standing : p[2] \in Firm => \E f \in Sessions : disk'[f].id = p[1]
        /\ \A f \in Sessions : CoversIn(standing, disk'[f], Owed(disk'[f]))
        /\ KnownIds' /\ OwnFiles' /\ disk'[sid].id = record.id
    BY <1>4, <2>1, AdvanceKeeps
  <2>3. CoversIn(standing, record, todo' \cup errs')
    BY <2>1, CoversMarked DEF Copies
  <2>4. Copies'
    BY <2>1, <2>2, <2>3 DEF Copies
  <2>5. Unheard(sid) => Unheard(sid)'
    BY <1>1, <1>4, <2>1 DEF Unheard, Advanced, TypeOK, CopiesOK
  <2>6. Present'
    BY <1>1, <2>2, <2>5 DEF Present, Recovering
  <2>7. Awaited' /\ Restoring'
    BY <2>1 DEF Awaited, Fresh, Restoring, Ending, Retrying
  <2> QED BY <1>2, <2>2, <2>4, <2>6, <2>7 DEF TypeControl
<1> QED BY <1>3, <1>4 DEF StopSession

LEMMA WatchShellInv == ASSUME JournalInv, TypeControl', WatchShell PROVE JournalInv'
<1> USE DEF JournalInv, Places
<1>1. /\ op = "none" /\ op' = "none" /\ sid \in Sessions /\ sid # None /\ record.id # None
      /\ UNCHANGED <<sid, state, backend, memoryVars, standing, used, jobVars>>
  BY NoneAssumption DEF WatchShell, Free, IsLive, Control, TypeOK, SessionOK
<1>2. CASE UNCHANGED disk
  BY <1>1, <1>2, IdleKeeps DEF TypeControl
<1>3. CASE disk' = Advanced
  <2>1. /\ \A p \in standing : p[2] \in Firm => \E f \in Sessions : disk'[f].id = p[1]
        /\ \A f \in Sessions : CoversIn(standing, disk'[f], Owed(disk'[f]))
        /\ KnownIds' /\ OwnFiles' /\ disk'[sid].id = record.id
    BY <1>1, <1>3, AdvanceKeeps
  <2>2. Copies'
    BY <1>1, <2>1 DEF Copies
  <2>3. Unheard(sid) => Unheard(sid)'
    BY <1>1, <1>3 DEF Unheard, Advanced, TypeOK, CopiesOK
  <2>4. Present' /\ Awaited' /\ Restoring'
    BY <1>1, <2>1, <2>3 DEF Present, Recovering, Awaited, Fresh, Restoring, Ending, Retrying
  <2>5. Holding'
    <3>1. CASE state = "ready"
      <4>1. Owning
        BY <1>1, <3>1 DEF Owning, Recovering
      <4>2. disk[sid] = record /\ disk' = disk
        BY <1>1, <1>3, <4>1 DEF Holding, Advanced, TypeOK, CopiesOK
      <4> QED BY <1>1, <4>2 DEF Holding, Owning, Taken, Recovering
    <3>2. CASE state # "ready"
      BY <1>1, <3>2 DEF Holding, Owning, Taken
    <3> QED BY <3>1, <3>2
  <2>6. ReleasedMeansRestored'
    BY <1>1 DEF ReleasedMeansRestored
  <2> QED BY <2>1, <2>2, <2>4, <2>5, <2>6 DEF TypeControl
<1> QED BY <1>2, <1>3 DEF WatchShell

LEMMA ReleaseInv == ASSUME JournalInv, TypeControl', Release PROVE JournalInv'
<1>1. CASE ~(state = "failed" /\ unfinished # NoRetry /\ unfinished.rec.id = sid)
  BY <1>1, StopSessionInv DEF Release, Free
<1>2. CASE state = "failed" /\ unfinished # NoRetry /\ unfinished.rec.id = sid
  <2> USE DEF JournalInv, Places
  <2>1. /\ op = "none" /\ op' = "restore" /\ cont' = "retry" /\ rrec' = unfinished.rec /\ errs' = {}
        /\ todo' \subseteq unfinished.steps
        /\ UNCHANGED <<sid, backend, memoryVars, disk, standing, used, req>>
        /\ StartRestore(unfinished.rec, unfinished.steps, "retry")
    BY <1>2 DEF Release, Free, StartRestore
  <2>2. state # "released" /\ UNCHANGED state
    BY <1>2 DEF Release
  <2>3. Copies' /\ (\A s \in Sessions : Unheard(s) => Unheard(s)')
    BY <2>1, RestoreBegins DEF Copies
  <2>4. KnownIds' /\ OwnFiles' /\ Restoring'
    BY <1>2, <2>1, <2>3 DEF KnownIds, OwnFiles, Restoring, Ending, Retrying
  <2>5. Present' /\ Awaited'
    BY <2>1, <2>3 DEF Present, Recovering, TypeOK, SessionOK, Awaited, Fresh
  <2>6. Holding' /\ ReleasedMeansRestored'
    BY <2>1, <2>2 DEF Holding, Owning, Taken, Recovering, ReleasedMeansRestored
  <2> QED BY <2>3, <2>4, <2>5, <2>6 DEF TypeControl
<1> QED BY <1>1, <1>2 DEF Release

LEMMA ExpireInv == ASSUME JournalInv, TypeControl', Expire PROVE JournalInv'
<1>1. sid # None
  BY DEF Expire, JournalInv, Control, Live
<1> QED BY <1>1, StopSessionInv DEF Expire, Free

-----------------------------------------------------------------------------
(* The steps of a session that may take: its record is on its way to the disk. *)

LEMMA Owner ==
  ASSUME JournalInv, Owning, op # "restore"
  PROVE  /\ sid \in Sessions /\ sid \in used /\ record \in Record /\ disk \in [Sessions -> Record]
         /\ record.id = sid /\ disk[sid] = record /\ record.failed = {} /\ Advanced = disk
         /\ record.backend = backend /\ "physical" \in record.marks /\ "output" \in record.marks
         /\ CoversIn(standing, record, Steps)
<1> USE DEF JournalInv
<1>1. sid \in Sessions /\ sid \in used
  BY DEF TypeOK, SessionOK, Owning, Control, Taken, Live
<1>2. /\ record \in Record /\ disk \in [Sessions -> Record]
      /\ record.id = sid /\ disk[sid] = record /\ record.failed = {}
      /\ record.backend = backend /\ "physical" \in record.marks /\ "output" \in record.marks
  BY DEF TypeOK, CopiesOK, Holding
<1>3. CoversIn(standing, record, Steps)
  BY <1>2 DEF Copies, Owed
<1> QED BY <1>1, <1>2, <1>3 DEF Advanced

\* What has been taken of another session is not touched.
LEMMA CoversElse ==
  ASSUME NEW st, NEW after, NEW rec, NEW owed, rec.id # sid,
         \A p \in after : p \in st \/ p[1] = sid, CoversIn(st, rec, owed)
  PROVE  CoversIn(after, rec, owed)
<1> SUFFICES ASSUME NEW r \in Firm, <<rec.id, r>> \in after PROVE <<rec.id, r>> \in st
  BY DEF CoversIn
<1>1. <<rec.id, r>>[1] = rec.id
  OBVIOUS
<1> QED BY <1>1

\* How a job ends that was refused: given up for this pass, or by restoring rec.
Refusal(rec) ==
  \/ op' = "none" /\ state' = "ready"
  \/ /\ op' = "restore" /\ state' = "failed" /\ rrec' = rec /\ errs' = {}
     /\ todo' = Owed(rec) \cap rec.marks /\ cont' \in {"create_failed", "resize_failed"}

LEMMA OwnKeeps ==
  ASSUME JournalInv, TypeControl', Owning, op # "restore",
         NEW rec \in Record, rec.id = sid, record.marks \subseteq rec.marks, rec.failed = {},
         record' = rec, disk' = disk \/ disk' = [disk EXCEPT ![sid] = rec],
         \A p \in standing' : p \in standing \/ p[1] = sid,
         CoversIn(standing', rec, Steps), CoversIn(standing', disk'[sid], Steps),
         UNCHANGED <<sid, unfinished, used>>, state' # "released",
         Refusal(rec) \/ op' \in {"none", "take", "confirm", "stop", "configure"},
         Owning' => /\ disk'[sid] = rec /\ rec.backend = backend'
                    /\ op' \in {"take", "confirm"} => req'.backend = backend'
                    /\ op' = "configure" =>
                         \A b \in Backends : <<sid, b>> \in standing' => b = req'.backend
  PROVE  JournalInv'
<1> USE DEF JournalInv, Places
<1>1. /\ sid \in Sessions /\ sid \in used /\ disk \in [Sessions -> Record] /\ record.id = sid
      /\ disk[sid] = record /\ record.failed = {}
      /\ "physical" \in record.marks /\ "output" \in record.marks
  BY Owner
<1>2. /\ disk'[sid].id = sid /\ disk'[sid].failed = {}
      /\ \A f \in Sessions : f # sid => disk'[f] = disk[f] /\ disk[f].id # sid
      /\ unfinished.rec.id # sid
  BY <1>1 DEF Holding
<1>3. \A s \in Sessions : Unheard(s) => s # sid /\ Unheard(s)'
  <2> SUFFICES ASSUME NEW s \in Sessions, Unheard(s) PROVE s # sid /\ Unheard(s)'
    OBVIOUS
  <2>1. s # sid
    BY <1>1 DEF Unheard
  <2>2. \A f \in Sessions : disk'[f].id # s
    BY <1>2, <2>1 DEF Unheard
  <2> QED BY <2>1, <2>2 DEF Unheard, Refusal
<1>4. Copies'
  <2>1. \A p \in standing' : p[2] \in Firm => \E f \in Sessions : disk'[f].id = p[1]
    <3> SUFFICES ASSUME NEW p \in standing', p[2] \in Firm
                 PROVE  \E f \in Sessions : disk'[f].id = p[1]
      OBVIOUS
    <3>1. CASE p[1] = sid
      BY <1>1, <1>2, <3>1
    <3>2. CASE p[1] # sid
      <4>1. PICK f \in Sessions : disk[f].id = p[1]
        BY <3>2 DEF Copies
      <4> QED BY <1>1, <1>2, <3>2, <4>1
    <3> QED BY <3>1, <3>2
  <2>2. \A f \in Sessions : CoversIn(standing', disk'[f], Owed(disk'[f]))
    <3>1. CoversIn(standing', disk'[sid], Owed(disk'[sid]))
      BY <1>2, CoversAll
    <3>2. ASSUME NEW f \in Sessions, f # sid PROVE CoversIn(standing', disk'[f], Owed(disk'[f]))
      BY <1>2, <3>2, CoversElse DEF Copies
    <3> QED BY <3>1, <3>2
  <2>3. CoversIn(standing', rec, Owed(rec))
    BY CoversAll
  <2>4. /\ CoversIn(standing', unfinished'.rec, Owed(unfinished'.rec))
        /\ CoversIn(standing', unfinished'.rec, unfinished'.steps)
    BY <1>2, CoversElse DEF Copies
  <2>5. op' = "restore" => /\ CoversIn(standing', rrec', Owed(rrec'))
                           /\ CoversIn(standing', rrec', todo' \cup errs')
    BY <2>3, CoversMarked DEF Refusal
  <2> QED BY <2>1, <2>2, <2>3, <2>4, <2>5 DEF Copies
<1>5. KnownIds'
  BY <1>1, <1>2 DEF KnownIds, Refusal
<1>6. OwnFiles' /\ Present'
  BY <1>1, <1>2, <1>3 DEF OwnFiles, Present
<1>7. Awaited' /\ Restoring'
  BY DEF Awaited, Fresh, Restoring, Ending, Retrying, Refusal
<1>8. Holding'
  BY <1>1, <1>2 DEF Holding
<1>9. ReleasedMeansRestored'
  BY DEF ReleasedMeansRestored
<1> QED BY <1>4, <1>5, <1>6, <1>7, <1>8, <1>9 DEF TypeControl

LEMMA FailedRefusal == ASSUME NEW rec, Failed(rec) PROVE Refusal(rec)
  BY DEF Failed, StartRestore, Refusal

LEMMA MissedRefusal == ASSUME Missed PROVE Refusal(record)
  BY DEF Missed, StartRestore, JobDone, Refusal

LEMMA HostRefusal ==
  ASSUME HostRefuses, Advanced = disk PROVE Refusal(record) /\ UNCHANGED disk
  BY FailedRefusal, MissedRefusal DEF HostRefuses

LEMMA DiskRefusal ==
  ASSUME NEW rec, DiskRefuses(rec)
  PROVE  Refusal(rec) /\ record' = rec /\ op' = "restore" /\ state' = "failed" /\ UNCHANGED disk
  BY FailedRefusal DEF DiskRefuses, Failed, StartRestore

LEMMA NotedCovers ==
  ASSUME JournalInv, Owning, op # "restore", NEW m \in Marks
  PROVE  /\ Noted(m) \in Record /\ Noted(m).id = sid /\ record.marks \subseteq Noted(m).marks
         /\ Noted(m).failed = {} /\ Noted(m).backend = backend
         /\ CoversIn(standing, Noted(m), Steps)
<1>1. record \in Record /\ record.id = sid /\ record.failed = {} /\ record.backend = backend
      /\ CoversIn(standing, record, Steps)
  BY Owner
<1>2. Noted(m) = [id |-> record.id, backend |-> record.backend, marks |-> record.marks \cup {m},
                  failed |-> record.failed]
  BY <1>1 DEF Noted, Record
<1>3. Noted(m) \in Record
  BY <1>1, NotedType
<1> QED BY <1>1, <1>2, <1>3 DEF CoversIn

\* A taken thing is one the record names.
LEMMA EffectCovered ==
  ASSUME JournalInv, Owning, op # "restore", NEW rec \in Record, rec.id = sid,
         record.marks \subseteq rec.marks, CoversIn(standing, rec, Steps),
         NEW r \in Steps, r \in rec.marks \/ r = "dpms", r = "backend" => req.backend = rec.backend,
         req.backend \in Backends
  PROVE  CoversIn(standing \cup Effect(r), rec, Steps)
<1> SUFFICES ASSUME NEW q \in Firm, <<sid, q>> \in Effect(r)
             PROVE  /\ StepOf(q) \in rec.marks
                    /\ q \in Backends => q = rec.backend
  BY FirmSteps DEF CoversIn
<1>1. q = Held(r, req.backend) \/ q = "physical"
  BY DEF Effect
<1>2. CASE q = "physical"
  BY <1>2, Owner DEF StepOf, Backends
<1>3. CASE q = Held(r, req.backend) /\ r = "backend"
  BY <1>3 DEF Held, StepOf
<1>4. CASE q = Held(r, req.backend) /\ r # "backend"
  <2>1. q = r /\ q # "dpms"
    BY <1>4 DEF Held, Firm
  <2>2. q \notin Backends
    BY <2>1 DEF Steps, OfTakeover, AnyMode, Backends
  <2> QED BY <2>1, <2>2 DEF StepOf
<1> QED BY <1>1, <1>2, <1>3, <1>4

LEMMA EffectOwn == \A r, p : p \in Effect(r) => p[1] = sid
  BY DEF Effect

LEMMA TakeSkipInv == ASSUME JournalInv, TypeControl', NEW r \in todo, TakeSkip(r) PROVE JournalInv'
<1>1. Owning /\ op = "take" /\ op' = "take" /\ state # "released"
  BY DEF TakeSkip, Owning, Taken, JournalInv, Control
<1>2. UNCHANGED <<sid, state, backend, memoryVars, disk, standing, used, req>>
  BY DEF TakeSkip
<1>3. req.backend = backend
  BY <1>1 DEF JournalInv, Holding
<1> QED BY <1>1, <1>2, <1>3, Owner, OwnKeeps

LEMMA TakeMarkInv == ASSUME JournalInv, TypeControl', NEW r \in todo, TakeMark(r) PROVE JournalInv'
<1>1. Owning /\ op = "take" /\ op' = "take" /\ state # "released"
  BY DEF TakeMark, ToMark, Owning, Taken, JournalInv, Control
<1>2. /\ record' = Noted(MarkOf(r)) /\ disk' = [disk EXCEPT ![sid] = Noted(MarkOf(r))]
      /\ UNCHANGED <<sid, state, backend, unfinished, standing, used, req>>
  BY DEF TakeMark
<1>3. MarkOf(r) \in Marks
  BY MarkType DEF JournalInv, TypeOK, JobOK
<1>4. req.backend = backend
  BY <1>1 DEF JournalInv, Holding
<1>5. disk'[sid] = Noted(MarkOf(r))
  BY <1>1, <1>2, Owner
<1> HIDE DEF Noted
<1> QED BY <1>1, <1>2, <1>3, <1>4, <1>5, NotedCovers, OwnKeeps

LEMMA MarkFailsInv == ASSUME JournalInv, TypeControl', NEW r \in todo, MarkFails(r) PROVE JournalInv'
<1>1. Owning /\ op = "take" /\ UNCHANGED <<sid, backend, unfinished, standing, used, disk>>
  BY DEF MarkFails, ToMark, Owning, Taken, DiskRefuses
<1>2. CASE DiskRefuses(Noted(MarkOf(r)))
  <2>1. MarkOf(r) \in Marks
    BY MarkType DEF JournalInv, TypeOK, JobOK
  <2>2. CoversIn(standing, record, Steps) /\ disk[sid] = record
    BY <1>1, Owner
  <2>3. ~Owning'
    BY <1>2, DiskRefusal DEF Owning, Taken
  <2> QED BY <1>1, <1>2, <2>1, <2>2, <2>3, NotedCovers, DiskRefusal, OwnKeeps
<1>3. CASE record' = Read(sid) /\ UNCHANGED <<op, state, req>>
  <2>1. record' = record
    BY <1>1, <1>3, Owner DEF Read
  <2>2. state # "released" /\ req.backend = backend
    BY <1>1 DEF JournalInv, Control, Holding, Taken
  <2> QED BY <1>1, <1>3, <2>1, <2>2, Owner, OwnKeeps
<1> QED BY <1>2, <1>3 DEF MarkFails

LEMMA TakeCovered ==
  ASSUME JournalInv, NEW r \in todo, ToTake(r)
  PROVE  /\ Owning /\ op = "take" /\ req.backend = backend
         /\ CoversIn(standing \cup Effect(r), record, Steps)
<1>1. Owning /\ op = "take"
  BY DEF ToTake, Owning, Taken
<1>2. req.backend = backend /\ req.backend \in Backends /\ r \in Steps
  BY <1>1 DEF JournalInv, Holding, TypeOK, SessionOK, JobOK
<1>3. r \in record.marks \/ r = "dpms"
  BY DEF ToTake, Premarked
<1> QED BY <1>1, <1>2, <1>3, Owner, EffectCovered

LEMMA TakeActInv == ASSUME JournalInv, TypeControl', NEW r \in todo, TakeAct(r) PROVE JournalInv'
<1>1. /\ Owning /\ op = "take" /\ req.backend = backend
      /\ CoversIn(standing \cup Effect(r), record, Steps)
  BY TakeCovered DEF TakeAct
<1>2. /\ standing' = standing \cup Effect(r) /\ op' \in {"take", "confirm"}
      /\ UNCHANGED <<sid, state, backend, memoryVars, disk, used, req>>
  BY DEF TakeAct
<1>3. state # "released"
  BY <1>1 DEF JournalInv, Control, Taken
<1> QED BY <1>1, <1>2, <1>3, EffectOwn, Owner, OwnKeeps

LEMMA ConfirmInv == ASSUME JournalInv, TypeControl', Confirm PROVE JournalInv'
<1>1. Owning /\ op = "confirm" /\ state # "released"
  BY DEF Confirm, Owning, Taken, JournalInv, Control
<1>2. /\ record' = Noted("dpms") /\ disk' = [disk EXCEPT ![sid] = Noted("dpms")] /\ op' = "take"
      /\ UNCHANGED <<sid, state, backend, unfinished, standing, used, req>>
  BY DEF Confirm
<1>3. "dpms" \in Marks /\ req.backend = backend
  BY <1>1 DEF JournalInv, Holding, Marks, Steps, OfTakeover
<1>4. disk'[sid] = Noted("dpms")
  BY <1>1, <1>2, Owner
<1> QED BY <1>1, <1>2, <1>3, <1>4, NotedCovers, OwnKeeps

LEMMA ConfirmFailsInv == ASSUME JournalInv, TypeControl', ConfirmFails PROVE JournalInv'
<1>1. /\ Owning /\ op = "confirm" /\ DiskRefuses(Noted("dpms"))
      /\ UNCHANGED <<sid, backend, unfinished, standing, used>>
  BY DEF ConfirmFails, Owning, Taken
<1>2. "dpms" \in Marks
  BY DEF Marks, Steps, OfTakeover
<1>3. CoversIn(standing, record, Steps) /\ disk[sid] = record
  BY <1>1, Owner
<1>4. ~Owning'
  BY <1>1, DiskRefusal DEF Owning, Taken
<1> QED BY <1>1, <1>2, <1>3, <1>4, NotedCovers, DiskRefusal, OwnKeeps

LEMMA TakeShruggedInv ==
  ASSUME JournalInv, TypeControl', NEW r \in todo, TakeShrugged(r) PROVE JournalInv'
<1>1. /\ Owning /\ op = "take" /\ req.backend = backend
      /\ CoversIn(standing \cup Effect(r), record, Steps)
  BY TakeCovered DEF TakeShrugged
<1>2. /\ standing' \subseteq standing \cup Effect(r) /\ op' = "take"
      /\ UNCHANGED <<sid, state, backend, memoryVars, disk, used, req>>
  BY DEF TakeShrugged, ToTake
<1>3. state # "released"
  BY <1>1 DEF JournalInv, Control, Taken
<1>4. CoversIn(standing', record, Steps)
  BY <1>1, <1>2, CoversLess
<1> QED BY <1>1, <1>2, <1>3, <1>4, EffectOwn, Owner, OwnKeeps

\* The host refuses: what it may have done is covered, the record is as it was.
LEMMA HostRefusesInv ==
  ASSUME JournalInv, TypeControl', Owning, op # "restore", HostRefuses,
         CoversIn(standing', record, Steps), \A p \in standing' : p \in standing \/ p[1] = sid,
         UNCHANGED <<sid, backend, memoryVars, used>>
  PROVE  JournalInv'
<1>1. Refusal(record) /\ UNCHANGED disk
  BY Owner, HostRefusal
<1>2. state' # "released" /\ op' \notin {"take", "confirm", "configure"}
  BY <1>1 DEF Refusal
<1> QED BY <1>1, <1>2, Owner, OwnKeeps

LEMMA TakeFailsInv ==
  ASSUME JournalInv, TypeControl', NEW r \in todo, TakeFails(r) PROVE JournalInv'
<1>1. /\ Owning /\ op = "take" /\ CoversIn(standing \cup Effect(r), record, Steps)
  BY TakeCovered DEF TakeFails
<1>2. standing' \subseteq standing \cup Effect(r)
  BY DEF TakeFails
<1>3. CoversIn(standing', record, Steps)
  BY <1>1, <1>2, CoversLess
<1>4. HostRefuses /\ UNCHANGED <<sid, backend, memoryVars, used>>
  BY DEF TakeFails
<1> QED BY <1>1, <1>2, <1>3, <1>4, EffectOwn, HostRefusesInv

LEMMA ReadyInv == ASSUME JournalInv, TypeControl', Ready PROVE JournalInv'
<1>1. /\ Owning /\ op = "take" /\ op' = "none" /\ state' = "ready"
      /\ UNCHANGED <<sid, backend, memoryVars, standing, used>>
  BY DEF Ready, Owning, Taken, JobDone
<1>2. UNCHANGED disk
  BY <1>1, Owner DEF Ready
<1> QED BY <1>1, <1>2, Owner, OwnKeeps

LEMMA ResizeInv == ASSUME JournalInv, TypeControl', NEW b \in Backends, Resize(b) PROVE JournalInv'
<1>1. /\ Owning /\ op = "none" /\ UNCHANGED <<sid, backend, memoryVars, standing, used>>
  BY DEF Resize, Owning, Free, Recovering
<1>2. state' = "resizing" /\ op' \in {"none", "stop"}
  BY DEF Resize, ReapplyBegin, ReapplyStuck, JobDone
<1>3. UNCHANGED disk
  BY <1>1, Owner DEF Resize, ReapplyBegin, ReapplyStuck
<1> QED BY <1>1, <1>2, <1>3, Owner, OwnKeeps

LEMMA StopOldInv == ASSUME JournalInv, TypeControl', StopOld PROVE JournalInv'
<1>1. /\ Owning /\ op = "stop" /\ op' = "configure" /\ standing' = standing \ OldLease
      /\ state # "released" /\ req.backend \in Backends
      /\ UNCHANGED <<sid, state, backend, memoryVars, disk, used, req>>
  BY DEF StopOld, Owning, Taken, JournalInv, Control
<1>2. CoversIn(standing', record, Steps)
  BY <1>1, CoversLess, Owner
<1>3. ASSUME NEW b \in Backends, <<sid, b>> \in standing' PROVE b = req.backend
  <2>1. b \in Firm
    BY DEF Firm, Things, Backends
  <2>2. b = backend
    BY <1>1, <1>2, <1>3, <2>1, Owner DEF CoversIn
  <2> QED BY <1>1, <1>3, <2>2 DEF OldLease
<1> QED BY <1>1, <1>2, <1>3, Owner, OwnKeeps

LEMMA StopFailsInv == ASSUME JournalInv, TypeControl', StopFails PROVE JournalInv'
<1>1. /\ Owning /\ op = "stop" /\ standing' \subseteq standing /\ HostRefuses
      /\ UNCHANGED <<sid, backend, memoryVars, used>>
  BY DEF StopFails, Owning, Taken
<1>2. CoversIn(standing', record, Steps)
  BY <1>1, CoversLess, Owner
<1> QED BY <1>1, <1>2, HostRefusesInv

\* The record with the new backend's name covers as well: the old lease is gone.
LEMMA ConfigureCovered ==
  ASSUME JournalInv, op = "configure", NEW rec, rec = [record EXCEPT !.backend = req.backend]
  PROVE  /\ Owning /\ req.backend \in Backends
         /\ rec \in Record /\ rec.id = sid /\ rec.backend = req.backend /\ rec.failed = {}
         /\ record.marks \subseteq rec.marks
         /\ CoversIn(standing \cup Effect("output"), rec, Steps)
         /\ CoversIn(standing \cup Effect("output"), record, Steps)
<1>1. Owning /\ req.backend \in Backends
  BY DEF Owning, Taken, JournalInv, TypeOK, JobOK
<1>2. /\ rec \in Record /\ rec.id = sid /\ rec.backend = req.backend /\ rec.failed = {}
      /\ rec.marks = record.marks
  BY <1>1, Owner DEF Record
<1>3. \A b \in Backends : <<sid, b>> \in standing => b = req.backend
  BY <1>1 DEF JournalInv, Holding
<1>4. CoversIn(standing, rec, Steps)
  BY <1>1, <1>2, <1>3, Owner DEF CoversIn
<1>5. "output" \in Steps /\ "output" \in record.marks
  BY <1>1, Owner DEF Steps, AnyMode
<1>6. CoversIn(standing \cup Effect("output"), rec, Steps)
  BY <1>1, <1>2, <1>4, <1>5, EffectCovered
<1>7. CoversIn(standing \cup Effect("output"), record, Steps)
  BY <1>1, <1>5, Owner, EffectCovered
<1> QED BY <1>1, <1>2, <1>6, <1>7

LEMMA ConfigureInv == ASSUME JournalInv, TypeControl', Configure PROVE JournalInv'
<1> DEFINE rec == [record EXCEPT !.backend = req.backend]
<1>1. /\ op = "configure" /\ op' = "take" /\ standing' = standing \cup Effect("output")
      /\ record' = rec /\ disk' = [disk EXCEPT ![sid] = rec] /\ backend' = req.backend
      /\ UNCHANGED <<sid, state, unfinished, used, req>>
  BY DEF Configure
<1> HIDE DEF rec
<1>2. /\ Owning /\ rec \in Record /\ rec.id = sid /\ rec.backend = req.backend
      /\ rec.failed = {} /\ record.marks \subseteq rec.marks
      /\ CoversIn(standing \cup Effect("output"), rec, Steps)
  BY <1>1, ConfigureCovered DEF rec
<1>3. state # "released"
  BY <1>1 DEF JournalInv, Control, Taken
<1>4. disk'[sid] = rec
  BY <1>1, <1>2, Owner
<1> QED BY <1>1, <1>2, <1>3, <1>4, EffectOwn, OwnKeeps

LEMMA ConfigureFailsInv == ASSUME JournalInv, TypeControl', ConfigureFails PROVE JournalInv'
<1> DEFINE rec == [record EXCEPT !.backend = req.backend]
<1>1. /\ op = "configure" /\ standing' \subseteq standing \cup Effect("output")
      /\ UNCHANGED <<sid, unfinished, used>>
  BY DEF ConfigureFails
<1>2. \/ HostRefuses /\ UNCHANGED <<backend, record>>
      \/ DiskRefuses(rec)
  BY DEF ConfigureFails
<1> HIDE DEF rec
<1>3. /\ Owning /\ rec \in Record /\ rec.id = sid
      /\ rec.failed = {} /\ record.marks \subseteq rec.marks
      /\ CoversIn(standing', rec, Steps) /\ CoversIn(standing', record, Steps)
  BY <1>1, ConfigureCovered, CoversLess DEF rec
<1>4. CASE HostRefuses /\ UNCHANGED <<backend, record>>
  BY <1>1, <1>3, <1>4, EffectOwn, HostRefusesInv
<1>5. CASE DiskRefuses(rec)
  <2>1. ~Owning' /\ disk[sid] = record
    BY <1>1, <1>3, <1>5, Owner, DiskRefusal DEF Owning, Taken
  <2> QED BY <1>1, <1>3, <1>5, <2>1, EffectOwn, DiskRefusal, OwnKeeps
<1> QED BY <1>2, <1>4, <1>5

\* What reconcile() re-asserts is marked.
LEMMA EnforcedCovered ==
  ASSUME JournalInv, Owning, op # "restore", NEW again \in SUBSET Enforced
  PROVE  CoversIn(standing \cup ({sid} \X again), record, Steps)
<1> SUFFICES ASSUME NEW q \in Firm, q \in Enforced
             PROVE  StepOf(q) \in record.marks /\ q \notin Backends
  BY FirmSteps, Owner DEF CoversIn
<1> QED BY DEF Enforced, Reloadable, StepOf, Backends

LEMMA ReconcileInv == ASSUME JournalInv, TypeControl', Reconcile PROVE JournalInv'
<1>1. /\ Owning /\ op = "none" /\ state = "ready"
      /\ UNCHANGED <<sid, backend, memoryVars, used>>
  BY DEF Reconcile, Owning, Free, Recovering
<1>2. PICK again \in SUBSET Enforced : standing' = standing \cup ({sid} \X again)
  BY DEF Reconcile
<1>3. CoversIn(standing', record, Steps) /\ (\A p \in standing' : p \in standing \/ p[1] = sid)
  BY <1>1, <1>2, EnforcedCovered
<1>4. \/ ReapplyBegin(backend, "rebuilt")
      \/ state' \in {"ready", "resizing"} /\ UNCHANGED <<disk, jobVars>>
      \/ Missed /\ UNCHANGED disk
  BY DEF Reconcile
<1>5. CASE ReapplyBegin(backend, "rebuilt")
  BY <1>1, <1>3, <1>5, Owner, OwnKeeps DEF ReapplyBegin
<1>6. CASE state' \in {"ready", "resizing"} /\ UNCHANGED <<disk, jobVars>>
  BY <1>1, <1>3, <1>6, Owner, OwnKeeps
<1>7. CASE Missed /\ UNCHANGED disk
  <2>1. Refusal(record) /\ state' # "released" /\ op' \notin {"take", "confirm", "configure"}
    BY <1>7, MissedRefusal DEF Refusal
  <2> QED BY <1>1, <1>3, <1>7, <2>1, Owner, OwnKeeps
<1> QED BY <1>4, <1>5, <1>6, <1>7

-----------------------------------------------------------------------------
(* The first note of a session, and the restore of one. *)

LEMMA FreshFields == FreshRecord.id = sid /\ FreshRecord.failed = {} /\ FreshRecord.backend = backend
                     /\ {"output", "physical"} \subseteq FreshRecord.marks
  BY DEF FreshRecord

LEMMA SnapshotInv == ASSUME JournalInv, TypeControl', Snapshot PROVE JournalInv'
<1> USE DEF JournalInv, Places
<1>1. /\ op = "snapshot" /\ op' = "take" /\ record' = FreshRecord
      /\ disk' = [disk EXCEPT ![sid] = FreshRecord] /\ state = "creating"
      /\ UNCHANGED <<sid, state, backend, unfinished, standing, used, req>>
  BY DEF Snapshot, Control
<1>2. /\ sid \in Sessions /\ sid \in used /\ sid = req.id /\ backend = req.backend
      /\ disk \in [Sessions -> Record]
  BY <1>1 DEF Control, Live, TypeOK, SessionOK, CopiesOK
<1>3. Unheard(sid) /\ disk[sid].id = None
  BY <1>1, <1>2 DEF Awaited, Fresh
<1>4. \A r \in Firm : <<sid, r>> \notin standing
  BY <1>3, UnheardHasNothing
<1>5. /\ disk'[sid] = FreshRecord
      /\ \A f \in Sessions : f # sid => disk'[f] = disk[f] /\ disk[f].id # sid
      /\ unfinished.rec.id # sid
  BY <1>1, <1>2, <1>3 DEF Unheard
<1> HIDE DEF FreshRecord
<1>6. Copies'
  <2>1. ASSUME NEW p \in standing, p[2] \in Firm PROVE \E f \in Sessions : disk'[f].id = p[1]
    <3>1. PICK f \in Sessions : disk[f].id = p[1]
      BY <2>1 DEF Copies
    <3>2. p[1] # None
      BY DEF TypeOK, HostOK
    <3> QED BY <1>3, <1>5, <3>1, <3>2
  <2>2. \A owed : CoversIn(standing, FreshRecord, owed)
    BY <1>4, FreshFields DEF CoversIn
  <2>3. \A f \in Sessions : CoversIn(standing, disk'[f], Owed(disk'[f]))
    BY <1>5, <2>2 DEF Copies
  <2> QED BY <1>1, <2>1, <2>2, <2>3 DEF Copies
<1>7. \A s \in Sessions : s # sid /\ Unheard(s) => Unheard(s)'
  BY <1>1, <1>5, FreshFields DEF Unheard
<1>8. KnownIds' /\ OwnFiles' /\ Present'
  <2>1. KnownIds'
    BY <1>1, <1>2, <1>5, FreshFields DEF KnownIds
  <2>2. OwnFiles' /\ Present'
    BY <1>1, <1>2, <1>5, <1>7, FreshFields DEF OwnFiles, Present
  <2> QED BY <2>1, <2>2
<1>9. Awaited' /\ Restoring'
  BY <1>1 DEF Awaited, Fresh, Restoring, Ending, Retrying
<1>10. Holding' /\ ReleasedMeansRestored'
  BY <1>1, <1>2, <1>5, FreshFields DEF Holding, ReleasedMeansRestored
<1> QED BY <1>6, <1>8, <1>9, <1>10 DEF TypeControl

LEMMA SnapshotFailsInv == ASSUME JournalInv, TypeControl', SnapshotFails PROVE JournalInv'
<1> USE DEF JournalInv, Places
<1>1. /\ op = "snapshot" /\ op' = "none" /\ record' \in {record, FreshRecord} /\ state = "creating"
      /\ UNCHANGED <<sid, state, backend, unfinished, disk, standing, used>>
  BY DEF SnapshotFails, Control, JobDone
<1>2. sid \in Sessions /\ sid \in used /\ sid = req.id
  BY <1>1 DEF Control, Live, TypeOK, SessionOK
<1>3. Unheard(sid) /\ disk[sid].id = None
  BY <1>1, <1>2 DEF Awaited, Fresh
<1>4. \A r \in Firm : <<sid, r>> \notin standing
  BY <1>3, UnheardHasNothing
<1> HIDE DEF FreshRecord
<1>5. CoversIn(standing, record', Owed(record'))
  BY <1>1, <1>4, FreshFields DEF CoversIn, Copies
<1>6. Copies'
  BY <1>1, <1>5 DEF Copies
<1>7. \A s \in Sessions : s # sid /\ Unheard(s) => Unheard(s)'
  BY <1>1, FreshFields DEF Unheard
<1>8. KnownIds' /\ OwnFiles'
  BY <1>1, <1>2, <1>3, <1>7, FreshFields DEF KnownIds, OwnFiles
<1>9. Present'
  BY <1>1, <1>2, <1>3, FreshFields DEF Present, Unheard
<1>10. Awaited' /\ Restoring'
  BY <1>1 DEF Awaited, Fresh, Restoring, Ending, Retrying
<1>11. Holding' /\ ReleasedMeansRestored'
  BY <1>1 DEF Holding, Owning, Taken, ReleasedMeansRestored
<1> QED BY <1>6, <1>8, <1>9, <1>10, <1>11 DEF TypeControl

LEMMA RestoreStepInv ==
  ASSUME JournalInv, TypeControl', NEW r \in todo, RestoreStep(r) PROVE JournalInv'
<1> USE DEF JournalInv, Places
<1>1. /\ op = "restore" /\ todo' = todo \ {r}
      /\ \A p \in standing' : p[2] \in Firm => p \in standing
      /\ UNCHANGED <<op, rrec, cont, sid, state, backend, unfinished, disk, used, req>>
  BY RestoreStepFirm DEF RestoreStep
<1>2. rrec.id \in Sessions /\ rrec.id \in used /\ rrec \in Record
  BY <1>1 DEF KnownIds, TypeOK, CountsOK, CopiesOK
<1>3. errs' \in {errs, errs \cup {r}} /\ (r = "bar" => errs' = errs)
  BY DEF RestoreStep
<1>4. CoversIn(standing', rrec, todo' \cup errs')
  <2> SUFFICES ASSUME NEW q \in Firm, <<rrec.id, q>> \in standing'
               PROVE  StepOf(q) \in todo' \cup errs'
    BY <1>1 DEF Copies, CoversIn
  <2>1. /\ StepOf(q) \in rrec.marks /\ StepOf(q) \in todo \cup errs
        /\ q \in Backends => q = rrec.backend
    BY <1>1 DEF Copies, CoversIn
  <2>2. CASE StepOf(q) # r
    BY <1>1, <1>3, <2>1, <2>2
  <2>3. CASE StepOf(q) = r
    <3>1. r # "bar"
      BY <2>3, FirmSteps
    <3>2. q = Held(r, rrec.backend)
      BY <2>1, <2>3 DEF Held, StepOf, Firm, Things, Backends
    <3>3. <<rrec.id, q>> \in Undone(rrec, r)
      BY <1>2, <2>1, <2>3, <3>2 DEF Undone
    <3>4. r \in errs'
      <4>1. <<rrec.id, q>> \notin standing \ Undone(rrec, r)
        BY <3>3
      <4> QED BY <1>1, <3>1, <4>1 DEF RestoreStep
    <3> QED BY <2>3, <3>4
  <2> QED BY <2>2, <2>3
<1>5. record' = record \/ (r = "bar" /\ record'.id = rrec.id /\ record'.id # None
                            /\ CoversIn(standing, record', Owed(record')))
  <2>1. CASE r # "bar"
    BY <2>1 DEF RestoreStep
  <2>2. CASE r = "bar" /\ disk[rrec.id] = NoRecord
    BY <1>1, <1>2, <2>2 DEF RestoreStep, Read, Copies
  <2>3. CASE r = "bar" /\ disk[rrec.id] # NoRecord
    <3>1. record' = disk[rrec.id]
      BY <1>2, <2>3 DEF RestoreStep, Read
    <3>2. disk[rrec.id].id # None
      BY <1>2, <2>3 DEF KnownIds, TypeOK, CountsOK
    <3>3. disk[rrec.id].id = rrec.id
      BY <1>1, <1>2, <3>2 DEF OwnFiles, Unheard
    <3> QED BY <1>2, <2>3, <3>1, <3>2, <3>3 DEF Copies
  <2> QED BY <2>1, <2>2, <2>3
<1>6. \A s : Unheard(s) => Unheard(s)'
  BY <1>1, <1>5 DEF Unheard
<1>7. Copies'
  <2>1. CoversIn(standing', record', Owed(record'))
    BY <1>1, <1>5, CoversFirm DEF Copies
  <2>2. CoversIn(standing', rrec, Owed(rrec))
    BY <1>1, CoversFirm DEF Copies
  <2>3. \A f \in Sessions : CoversIn(standing', disk[f], Owed(disk[f]))
    BY <1>1, CoversFirm DEF Copies
  <2>4. /\ CoversIn(standing', unfinished.rec, Owed(unfinished.rec))
        /\ CoversIn(standing', unfinished.rec, unfinished.steps)
    BY <1>1, CoversFirm DEF Copies
  <2> QED BY <1>1, <1>4, <2>1, <2>2, <2>3, <2>4 DEF Copies
<1>8. KnownIds' /\ OwnFiles' /\ Awaited'
  <2>1. KnownIds'
    BY <1>1, <1>2, <1>5 DEF KnownIds
  <2>2. OwnFiles' /\ Awaited'
    BY <1>1, <1>6 DEF OwnFiles, Awaited, Fresh
  <2> QED BY <2>1, <2>2
<1>9. Restoring'
  BY <1>1, <1>3, <1>5 DEF Restoring, Ending, Retrying
<1>10. r = "bar" => ~Retrying
  BY DEF Restoring
<1>11. Present'
  <2>1. CASE record' = record
    BY <1>1, <1>6, <2>1 DEF Present, Recovering
  <2>2. CASE r = "bar" /\ record'.id = rrec.id /\ ~Recovering
    <3>1. record'.id = record.id
      BY <1>1, <1>10, <2>2 DEF Restoring, Ending, Retrying, Control, Recovering
    <3> QED BY <1>1, <1>6, <3>1, <2>2 DEF Present, Recovering
  <2> QED BY <1>1, <1>5, <2>1, <2>2 DEF Present, Recovering
<1>12. Holding'
  <2>1. CASE record' = record
    BY <1>1, <2>1 DEF Holding, Owning, Taken, Recovering
  <2>2. CASE r = "bar" /\ record'.id = rrec.id
    BY <1>1, <1>10, <2>2 DEF Holding, Owning, Taken, Recovering, Retrying, Control, Ending, Live
  <2> QED BY <1>5, <2>1, <2>2
<1>13. ReleasedMeansRestored'
  BY <1>1 DEF ReleasedMeansRestored
<1> QED BY <1>7, <1>8, <1>9, <1>11, <1>12, <1>13 DEF TypeControl

-----------------------------------------------------------------------------
(* The end of a restore: the journal goes, or what failed is kept. *)

LEMMA RestoredCovers ==
  ASSUME JournalInv, Restored
  PROVE  /\ rrec.id \in Sessions /\ rrec.id \in used /\ rrec.id # None
         /\ CoversIn(standing, rrec, errs) /\ "bar" \notin errs
<1>1. op = "restore" /\ todo \cup errs = errs
  BY DEF Restored
<1>2. CoversIn(standing, rrec, todo \cup errs)
  BY <1>1 DEF JournalInv, Copies
<1> QED BY <1>1, <1>2 DEF JournalInv, Places, KnownIds, Restoring, TypeOK, CountsOK

\* Nothing of it stands any more, so its journal may go.
LEMMA UnlinkKeeps ==
  ASSUME JournalInv, Restored, errs = {}, disk' = Unlinked
  PROVE  /\ \A r \in Firm : <<rrec.id, r>> \notin standing
         /\ \A p \in standing : p[2] \in Firm => \E f \in Sessions : disk'[f].id = p[1]
         /\ \A f \in Sessions : CoversIn(standing, disk'[f], Owed(disk'[f]))
         /\ \A f \in Sessions : IF f = rrec.id THEN disk'[f] = NoRecord ELSE disk'[f] = disk[f]
<1>1. rrec.id \in Sessions /\ rrec.id # None /\ CoversIn(standing, rrec, {}) /\ op = "restore"
  BY RestoredCovers DEF Restored
<1>2. \A r \in Firm : <<rrec.id, r>> \notin standing
  BY <1>1, NothingOwed
<1>3. \A f \in Sessions : IF f = rrec.id THEN disk'[f] = NoRecord ELSE disk'[f] = disk[f]
  BY <1>1 DEF Unlinked, JournalInv, TypeOK, CopiesOK
<1>4. ASSUME NEW p \in standing, p[2] \in Firm PROVE \E f \in Sessions : disk'[f].id = p[1]
  <2>1. p \in Sessions \X Things /\ p = <<p[1], p[2]>>
    BY DEF JournalInv, TypeOK, HostOK
  <2>2. PICK f \in Sessions : disk[f].id = p[1]
    BY <1>4 DEF JournalInv, Copies
  <2>3. f # rrec.id
    <3> SUFFICES ASSUME f = rrec.id PROVE FALSE
      OBVIOUS
    <3>1. disk[f].id \in {rrec.id, None}
      BY <1>1 DEF JournalInv, Places, OwnFiles, Unheard
    <3>2. p[1] = rrec.id
      BY <2>1, <2>2, <3>1
    <3> QED BY <1>2, <1>4, <2>1, <3>2
  <2> QED BY <1>3, <2>2, <2>3
<1>5. ASSUME NEW f \in Sessions PROVE CoversIn(standing, disk'[f], Owed(disk'[f]))
  <2>1. CASE f = rrec.id
    <3>1. NoRecord.id = None /\ standing \in SUBSET (Sessions \X Things)
      BY DEF NoRecord, JournalInv, TypeOK, HostOK
    <3> QED BY <1>3, <2>1, <3>1, NobodyCovers
  <2>2. CASE f # rrec.id
    BY <1>3, <2>2 DEF JournalInv, Copies
  <2> QED BY <2>1, <2>2
<1> QED BY <1>2, <1>3, <1>4, <1>5

\* A session no copy named is not named by fewer copies.
LEMMA UnlinkUnheard ==
  ASSUME JournalInv, Restored, errs = {}, disk' = Unlinked, UNCHANGED record,
         unfinished'.rec.id \in {None, unfinished.rec.id}, op' = "restore" => UNCHANGED rrec
  PROVE  \A s \in Sessions : Unheard(s) => Unheard(s)'
<1> SUFFICES ASSUME NEW s \in Sessions, Unheard(s) PROVE Unheard(s)'
  OBVIOUS
<1>1. \A f \in Sessions : disk'[f].id # s
  BY UnlinkKeeps DEF Unheard, NoRecord
<1> QED BY <1>1 DEF Unheard, Restored

\* The narrowed record covers what stands, by the steps that failed.
LEMMA KeepKeeps ==
  ASSUME JournalInv, Restored, errs # {}, NEW rec \in Record, rec.id = rrec.id,
         CoversIn(standing, rec, Owed(rec)), NEW kept, kept = [rec EXCEPT !.failed = errs]
  PROVE  /\ kept \in Record /\ kept.id = rrec.id /\ Owed(kept) = errs
         /\ CoversIn(standing, kept, errs)
<1>1. /\ kept.id = rrec.id /\ kept.failed = errs /\ kept.marks = rec.marks
      /\ kept.backend = rec.backend
  BY DEF Record
<1>2. kept \in Record
  BY FailedType DEF JournalInv, TypeOK, JobOK
<1>3. CoversIn(standing, kept, errs)
  BY <1>1, RestoredCovers, CoversOther
<1> QED BY <1>1, <1>2, <1>3 DEF Owed

\* What _keep_unfinished leaves of the invariant.
LEMMA KeepCopies ==
  ASSUME JournalInv, TypeControl', Restored, errs # {}, NEW rec \in Record, rec.id = rrec.id,
         CoversIn(standing, rec, Owed(rec)), Keep(rec), UNCHANGED <<standing, used>>,
         op' \in {"none", "recover"}, record' = record \/ record' = [rec EXCEPT !.failed = errs]
  PROVE  /\ Copies' /\ KnownIds' /\ OwnFiles' /\ Awaited' /\ Restoring'
         /\ \A s \in Sessions : Unheard(s) => Unheard(s)'
         /\ \A f \in Sessions : disk'[f] = disk[f] \/ (f = rrec.id /\ disk'[f].id = rrec.id)
<1> DEFINE kept == [rec EXCEPT !.failed = errs]
<1>1. /\ kept \in Record /\ kept.id = rrec.id /\ Owed(kept) = errs
      /\ CoversIn(standing, kept, errs)
  BY KeepKeeps
<1>2. /\ unfinished' = [rec |-> kept, steps |-> errs, tries |-> 0]
      /\ disk' = disk \/ disk' = [disk EXCEPT ![rec.id] = kept]
      /\ record' = record \/ record' = kept
  BY DEF Keep
<1> HIDE DEF kept
<1>3. /\ rrec.id \in Sessions /\ rrec.id \in used /\ rrec.id # None /\ "bar" \notin errs
      /\ op = "restore" /\ disk \in [Sessions -> Record]
  BY RestoredCovers DEF Restored, JournalInv, TypeOK, CopiesOK
<1>4. \A f \in Sessions : disk'[f] = disk[f] \/ (f = rrec.id /\ disk'[f] = kept)
  BY <1>2, <1>3
<1>5. \A s \in Sessions : Unheard(s) => Unheard(s)'
  BY <1>1, <1>2, <1>3, <1>4 DEF Unheard
<1>6. disk[rrec.id].id \in {rrec.id, None}
  BY <1>3 DEF JournalInv, Places, OwnFiles, Unheard
<1>7. Copies'
  <2>1. ASSUME NEW p \in standing, p[2] \in Firm PROVE \E f \in Sessions : disk'[f].id = p[1]
    <3>1. PICK f \in Sessions : disk[f].id = p[1]
      BY <2>1 DEF JournalInv, Copies
    <3>2. p[1] # None
      BY DEF JournalInv, TypeOK, HostOK
    <3> QED BY <1>1, <1>4, <1>6, <3>1, <3>2
  <2>2. \A f \in Sessions : CoversIn(standing, disk'[f], Owed(disk'[f]))
    BY <1>1, <1>4 DEF JournalInv, Copies
  <2>3. CoversIn(standing, record', Owed(record'))
    BY <1>1, <1>2 DEF JournalInv, Copies
  <2> QED BY <1>1, <1>2, <2>1, <2>2, <2>3 DEF Copies
<1>8. KnownIds'
  BY <1>1, <1>2, <1>3, <1>4 DEF KnownIds, JournalInv, Places
<1>9. OwnFiles'
  BY <1>1, <1>4, <1>5 DEF OwnFiles, JournalInv, Places
<1>10. Awaited' /\ Restoring'
  BY <1>2, <1>3 DEF Awaited, Fresh, Restoring, Ending, Retrying
<1> QED BY <1>1, <1>4, <1>5, <1>7, <1>8, <1>9, <1>10

\* What an unlink leaves of it.
LEMMA UnlinkCopies ==
  ASSUME JournalInv, Restored, errs = {}, disk' = Unlinked, UNCHANGED <<standing, used, record>>,
         unfinished' \in {unfinished, NoRetry}, op' # "restore"
  PROVE  Copies' /\ KnownIds' /\ OwnFiles'
<1>1. /\ \A p \in standing : p[2] \in Firm => \E f \in Sessions : disk'[f].id = p[1]
      /\ \A f \in Sessions : CoversIn(standing, disk'[f], Owed(disk'[f]))
      /\ \A f \in Sessions : IF f = rrec.id THEN disk'[f] = NoRecord ELSE disk'[f] = disk[f]
  BY UnlinkKeeps
<1>2. NoRetry.rec.id = None /\ standing \in SUBSET (Sessions \X Things)
  BY DEF NoRetry, NoRecord, JournalInv, TypeOK, HostOK
<1>3. /\ CoversIn(standing, unfinished'.rec, Owed(unfinished'.rec))
      /\ CoversIn(standing, unfinished'.rec, unfinished'.steps)
  BY <1>2, NobodyCovers DEF JournalInv, Copies
<1>4. Copies'
  BY <1>1, <1>3 DEF JournalInv, Copies
<1>5. \A s \in Sessions : Unheard(s) => Unheard(s)'
  BY <1>2, UnlinkUnheard
<1>6. KnownIds'
  BY <1>1 DEF KnownIds, JournalInv, Places
<1>7. OwnFiles'
  <2>1. ASSUME NEW s \in Sessions, ~Unheard(s)' PROVE disk'[s].id \in {s, None}
    <3>1. disk[s].id \in {s, None}
      BY <1>5, <2>1 DEF OwnFiles, JournalInv, Places
    <3> QED BY <1>1, <3>1 DEF NoRecord
  <2> QED BY <2>1 DEF OwnFiles
<1> QED BY <1>4, <1>6, <1>7

LEMMA RestoreDoneInv == ASSUME JournalInv, TypeControl', RestoreDone PROVE JournalInv'
<1>1. /\ Restored /\ op = "restore" /\ op' = "none" /\ Ending
      /\ cont \in {"create_failed", "released"} /\ rrec.id = record.id /\ ~Recovering
      /\ UNCHANGED <<sid, backend, standing, used>>
  BY DEF RestoreDone, Restored, JobDone, Ending, JournalInv, Places, Restoring, Recovering
<1>2. /\ state' = IF cont = "released" /\ errs = {} THEN "released" ELSE "failed"
      /\ \/ errs = {} /\ disk' = Unlinked /\ UNCHANGED <<memoryVars, faults>>
         \/ errs # {} /\ Keep(record) /\ record' = [record EXCEPT !.failed = errs]
  BY DEF RestoreDone
<1>3. Holding'
  BY <1>1, <1>2 DEF Holding, Owning, Taken
<1>4. CASE errs = {}
  <2>1. disk' = Unlinked /\ UNCHANGED memoryVars
    BY <1>2, <1>4
  <2>2. /\ \A r \in Firm : <<rrec.id, r>> \notin standing
        /\ \A f \in Sessions : IF f = rrec.id THEN disk'[f] = NoRecord ELSE disk'[f] = disk[f]
    BY <1>1, <1>4, <2>1, UnlinkKeeps
  <2>3. \A s \in Sessions : Unheard(s) => Unheard(s)'
    BY <1>1, <1>4, <2>1, UnlinkUnheard
  <2>4. Copies' /\ KnownIds' /\ OwnFiles'
    BY <1>1, <1>4, <2>1, UnlinkCopies
  <2>5. Present'
    <3> SUFFICES ASSUME sid # None
                 PROVE  (record.id = sid \/ Unheard(sid)') /\ disk'[sid].id \in {None, record.id}
      BY <1>1, <2>1 DEF Present
    <3>1. sid \in Sessions
      BY DEF JournalInv, TypeOK, SessionOK
    <3> QED BY <1>1, <2>2, <2>3, <3>1 DEF JournalInv, Places, Present, NoRecord
  <2>6. Awaited' /\ Restoring'
    BY <1>1, <2>1 DEF Awaited, Fresh, Restoring, Ending, Retrying, JournalInv, Places
  <2>7. ReleasedMeansRestored'
    <3> SUFFICES ASSUME state' = "released" PROVE \A r \in Firm : <<sid, r>> \notin standing
      BY <1>1 DEF ReleasedMeansRestored
    <3>1. sid # None => record.id = sid \/ Unheard(sid)
      BY <1>1 DEF JournalInv, Places, Present
    <3>2. sid = None => \A r \in Firm : <<sid, r>> \notin standing
      BY DEF JournalInv, TypeOK, HostOK
    <3> QED BY <1>1, <2>2, <3>1, <3>2, UnheardHasNothing DEF JournalInv
  <2> QED BY <1>3, <2>4, <2>5, <2>6, <2>7 DEF JournalInv, Places, TypeControl
<1>5. CASE errs # {}
  <2>1. Keep(record) /\ record' = [record EXCEPT !.failed = errs] /\ state' = "failed"
    BY <1>2, <1>5
  <2>2. record \in Record /\ CoversIn(standing, record, Owed(record))
    BY DEF JournalInv, TypeOK, CopiesOK, Copies
  <2>3. record'.id = record.id
    BY <2>1, <2>2 DEF Record
  <2>4. /\ Copies' /\ KnownIds' /\ OwnFiles' /\ Awaited' /\ Restoring'
        /\ \A s \in Sessions : Unheard(s) => Unheard(s)'
        /\ \A f \in Sessions : disk'[f] = disk[f] \/ (f = rrec.id /\ disk'[f].id = rrec.id)
    BY <1>1, <1>5, <2>1, <2>2, KeepCopies
  <2>5. Present'
    <3> SUFFICES ASSUME sid # None
                 PROVE  (record.id = sid \/ Unheard(sid)') /\ disk'[sid].id \in {None, record.id}
      BY <1>1, <2>3 DEF Present
    <3>1. sid \in Sessions
      BY DEF JournalInv, TypeOK, SessionOK
    <3> QED BY <1>1, <2>4, <3>1 DEF JournalInv, Places, Present
  <2>6. ReleasedMeansRestored'
    BY <2>1 DEF ReleasedMeansRestored
  <2> QED BY <1>3, <2>4, <2>5, <2>6 DEF JournalInv, Places, TypeControl
<1> QED BY <1>4, <1>5

LEMMA ReapplyDoneInv == ASSUME JournalInv, TypeControl', ReapplyDone PROVE JournalInv'
<1>1. /\ Restored /\ op = "restore" /\ op' = "none" /\ rrec.id = record.id /\ ~Recovering
      /\ state \in {"failed", "stopping"}
      /\ UNCHANGED <<sid, state, backend, memoryVars, standing, used>>
  BY DEF ReapplyDone, Restored, JobDone, Ending, JournalInv, Control, Places, Restoring, Recovering
<1>2. Holding' /\ ReleasedMeansRestored'
  BY <1>1 DEF Holding, Owning, Taken, ReleasedMeansRestored
<1>3. Awaited' /\ Restoring'
  BY <1>1 DEF Awaited, Fresh, Restoring, Ending, Retrying, JournalInv, Places
<1>4. CASE errs = {}
  <2>1. disk' = Unlinked
    BY <1>4 DEF ReapplyDone
  <2>2. \A f \in Sessions : IF f = rrec.id THEN disk'[f] = NoRecord ELSE disk'[f] = disk[f]
    BY <1>1, <1>4, <2>1, UnlinkKeeps
  <2>3. \A s \in Sessions : Unheard(s) => Unheard(s)'
    BY <1>1, <1>4, <2>1, UnlinkUnheard
  <2>4. Copies' /\ KnownIds' /\ OwnFiles'
    BY <1>1, <1>4, <2>1, UnlinkCopies
  <2>5. Present'
    <3> SUFFICES ASSUME sid # None
                 PROVE  (record.id = sid \/ Unheard(sid)') /\ disk'[sid].id \in {None, record.id}
      BY <1>1 DEF Present
    <3>1. sid \in Sessions
      BY DEF JournalInv, TypeOK, SessionOK
    <3> QED BY <1>1, <2>2, <2>3, <3>1 DEF JournalInv, Places, Present, NoRecord
  <2> QED BY <1>2, <1>3, <2>4, <2>5 DEF JournalInv, Places, TypeControl
<1>5. CASE errs # {}
  <2>1. UNCHANGED disk
    BY <1>5 DEF ReapplyDone
  <2>2. Copies'
    BY <1>1, <2>1, CopiesLess DEF JournalInv
  <2>3. KnownIds' /\ OwnFiles' /\ Present'
    BY <1>1, <2>1 DEF KnownIds, OwnFiles, Present, Unheard, JournalInv, Places
  <2> QED BY <1>2, <1>3, <2>2, <2>3 DEF JournalInv, Places, TypeControl
<1> QED BY <1>4, <1>5

LEMMA RetryDoneInv == ASSUME JournalInv, TypeControl', RetryDone PROVE JournalInv'
<1>1. /\ Restored /\ op = "restore" /\ op' \in {"none", "begin", "settle"} /\ Retrying
      /\ rrec = unfinished.rec /\ ~Recovering
      /\ UNCHANGED <<sid, backend, record, standing, used>>
  BY DEF RetryDone, Restored, JobDone, Retrying, JournalInv, Places, Restoring, Recovering
<1>2. op' # "none" => Fresh /\ UNCHANGED req
  BY <1>1 DEF RetryDone, JobDone, Fresh
<1>3. /\ rrec.id \in Sessions /\ rrec.id # None /\ CoversIn(standing, rrec, errs)
      /\ CoversIn(standing, rrec, Owed(rrec)) /\ "bar" \notin errs
  BY <1>1, RestoredCovers DEF JournalInv, Copies
<1>4. NoRetry.rec.id = None /\ NoRetry.steps = {} /\ standing \in SUBSET (Sessions \X Things)
  BY DEF NoRetry, NoRecord, JournalInv, TypeOK, HostOK
<1>5. /\ \A f \in Sessions : disk'[f] = disk[f]
           \/ (f = unfinished.rec.id /\ disk'[f] = NoRecord)
      /\ \A s \in Sessions : Unheard(s) => Unheard(s)'
      /\ Copies' /\ KnownIds' /\ OwnFiles' /\ Restoring'
      /\ unfinished'.rec.id \in {None, unfinished.rec.id}
      /\ ReleasedMeansRestored' /\ (state' = "ready" => state = "ready")
  <2>1. CASE errs = {}
    <3>1. /\ disk' = Unlinked /\ unfinished' = NoRetry
          /\ state' = IF sid = rrec.id /\ state = "failed" THEN "released" ELSE state
      BY <2>1 DEF RetryDone
    <3>2. /\ \A r \in Firm : <<rrec.id, r>> \notin standing
          /\ \A f \in Sessions : IF f = rrec.id THEN disk'[f] = NoRecord ELSE disk'[f] = disk[f]
      BY <1>1, <2>1, <3>1, UnlinkKeeps
    <3>3. \A s \in Sessions : Unheard(s) => Unheard(s)'
      BY <1>1, <1>4, <2>1, <3>1, UnlinkUnheard
    <3>4. Copies' /\ KnownIds' /\ OwnFiles'
      BY <1>1, <2>1, <3>1, UnlinkCopies
    <3>5. Restoring'
      BY <1>1, <1>4, <3>1 DEF Restoring, Ending, Retrying
    <3>6. ReleasedMeansRestored'
      BY <1>1, <3>1, <3>2 DEF ReleasedMeansRestored, JournalInv
    <3> QED BY <1>1, <1>4, <3>1, <3>2, <3>3, <3>4, <3>5, <3>6
  <2>2. CASE errs # {}
    <3>1. /\ UNCHANGED <<disk, state>>
          /\ unfinished' \in {NoRetry, [rec |-> rrec, steps |-> errs, tries |-> unfinished.tries + 1]}
      BY <2>2 DEF RetryDone
    <3>2. unfinished'.rec.id \in {None, unfinished.rec.id} /\ "bar" \notin unfinished'.steps
      BY <1>1, <1>3, <1>4, <3>1
    <3>3. \A s \in Sessions : Unheard(s) => Unheard(s)'
      BY <1>1, <3>1, <3>2 DEF Unheard
    <3>4. /\ CoversIn(standing, unfinished'.rec, Owed(unfinished'.rec))
          /\ CoversIn(standing, unfinished'.rec, unfinished'.steps)
      BY <1>3, <1>4, <3>1, NobodyCovers
    <3>5. Copies'
      BY <1>1, <3>1, <3>4 DEF Copies, JournalInv
    <3>6. KnownIds' /\ OwnFiles' /\ Restoring'
      <4>1. KnownIds'
        BY <1>1, <3>1 DEF KnownIds, JournalInv, Places
      <4>2. OwnFiles'
        BY <3>1, <3>3 DEF OwnFiles, JournalInv, Places
      <4>3. Restoring'
        BY <1>1, <3>2 DEF Restoring, Ending, Retrying
      <4> QED BY <4>1, <4>2, <4>3
    <3>7. ReleasedMeansRestored'
      BY <1>1, <3>1 DEF ReleasedMeansRestored, JournalInv
    <3> QED BY <3>1, <3>2, <3>3, <3>5, <3>6, <3>7
  <2> QED BY <2>1, <2>2
<1>6. Present'
  <2> SUFFICES ASSUME sid # None
               PROVE  (record.id = sid \/ Unheard(sid)') /\ disk'[sid].id \in {None, record.id}
    BY <1>1 DEF Present
  <2>1. sid \in Sessions
    BY DEF JournalInv, TypeOK, SessionOK
  <2> QED BY <1>1, <1>5, <2>1 DEF JournalInv, Places, Present, NoRecord
<1>7. Awaited'
  <2>1. CASE op' = "none"
    BY <2>1 DEF Awaited, Fresh
  <2>2. CASE op' # "none"
    <3>1. /\ Unheard(req.id) /\ disk[req.id].id = None /\ UNCHANGED req
      BY <1>2, <2>2 DEF JournalInv, Places, Awaited
    <3>2. req.id \in Sessions
      BY <1>2, <2>2 DEF JournalInv, Control, TypeOK, CountsOK
    <3>3. Unheard(req.id)' /\ disk'[req.id].id = None
      BY <1>5, <3>1, <3>2 DEF NoRecord, Unheard
    <3> QED BY <3>1, <3>3 DEF Awaited
  <2> QED BY <2>1, <2>2
<1>8. Holding'
  <2> SUFFICES ASSUME Owning' PROVE Holding'
    BY DEF Holding
  <2>1. /\ op' = "none" /\ state = "ready" /\ Owning
    BY <1>1, <1>2, <1>5 DEF Owning, Taken, Recovering, Fresh, JournalInv, Control, IsLive, Live
  <2>2. sid \in Sessions
    BY <2>1 DEF JournalInv, TypeOK, SessionOK, Control, Live
  <2>3. /\ record.id = sid /\ disk[sid] = record /\ record.failed = {}
        /\ record.backend = backend /\ {"output", "physical"} \subseteq record.marks
        /\ unfinished.rec.id # sid
        /\ \A f \in Sessions : f # sid => disk[f].id # sid
    BY <2>1 DEF JournalInv, Holding
  <2>4. disk'[sid] = record /\ unfinished'.rec.id # sid
    BY <1>5, <2>2, <2>3
  <2>5. \A f \in Sessions : f # sid => disk'[f].id # sid
    BY <1>5, <2>2, <2>3 DEF NoRecord
  <2> QED BY <1>1, <2>1, <2>3, <2>4, <2>5 DEF Holding
<1> QED BY <1>5, <1>6, <1>7, <1>8 DEF JournalInv, Places, TypeControl

LEMMA RecoveredOneInv == ASSUME JournalInv, TypeControl', RecoveredOne PROVE JournalInv'
<1>1. /\ Restored /\ op = "restore" /\ cont = "recover" /\ op' = "recover"
      /\ UNCHANGED <<sid, state, backend, record, standing, used>>
  BY DEF RecoveredOne, Restored
<1>2. Present' /\ Awaited' /\ Holding' /\ ReleasedMeansRestored'
  BY <1>1 DEF Present, Awaited, Holding, ReleasedMeansRestored, Recovering, Fresh, Owning, Taken,
              JournalInv
<1>3. CASE errs = {} /\ disk' = Unlinked /\ UNCHANGED unfinished
  <2>1. Copies' /\ KnownIds' /\ OwnFiles'
    BY <1>1, <1>3, UnlinkCopies
  <2>2. Restoring'
    BY <1>1, <1>3 DEF Restoring, Ending, Retrying, JournalInv, Places
  <2> QED BY <1>2, <2>1, <2>2 DEF JournalInv, Places, TypeControl
<1>4. CASE errs # {} /\ Keep(rrec)
  <2>1. rrec \in Record /\ CoversIn(standing, rrec, Owed(rrec))
    BY <1>1 DEF JournalInv, TypeOK, CopiesOK, Copies
  <2>2. Copies' /\ KnownIds' /\ OwnFiles' /\ Restoring'
    BY <1>1, <1>4, <2>1, KeepCopies
  <2> QED BY <1>2, <2>2 DEF JournalInv, Places, TypeControl
<1> QED BY <1>3, <1>4 DEF RecoveredOne

LEMMA CrashInv == ASSUME JournalInv, TypeControl', Crash PROVE JournalInv'
<1> USE DEF JournalInv, Places
<1>1. /\ op' = "recover" /\ sid' = None /\ state' = "none" /\ record' = NoRecord
      /\ unfinished' = NoRetry /\ errs' = {} /\ UNCHANGED <<disk, standing, used>>
  BY DEF Crash
<1>2. /\ NoRecord.id = None /\ NoRetry.rec.id = None /\ NoRetry.steps = {}
      /\ standing \in SUBSET (Sessions \X Things)
  BY DEF NoRecord, NoRetry, TypeOK, HostOK
<1>3. Copies'
  BY <1>1, <1>2, NobodyCovers DEF Copies
<1>4. \A s \in Sessions : Unheard(s) => Unheard(s)'
  BY <1>1, <1>2 DEF Unheard
<1>5. KnownIds' /\ OwnFiles'
  BY <1>1, <1>4 DEF KnownIds, OwnFiles
<1>6. Present' /\ Awaited' /\ Restoring'
  BY <1>1, <1>2 DEF Present, Awaited, Restoring, Fresh, Ending, Retrying
<1>7. Holding' /\ ReleasedMeansRestored'
  BY <1>1 DEF Holding, Owning, Taken, ReleasedMeansRestored
<1> QED BY <1>3, <1>5, <1>6, <1>7 DEF TypeControl

LEMMA HostInv == ASSUME JournalInv, TypeControl', Host PROVE JournalInv'
<1>1. TypeOK' /\ Control'
  BY DEF TypeControl
<1>2. CASE Lapse
  BY <1>1, <1>2, IdleKeeps DEF Lapse
<1>3. CASE HostReload
  BY <1>1, <1>3, IdleKeeps DEF HostReload
<1>4. CASE HostRemovesOutput
  BY <1>1, <1>4, IdleKeeps DEF HostRemovesOutput
<1> QED BY <1>2, <1>3, <1>4, CrashInv DEF Host

LEMMA HeartbeatInv == ASSUME JournalInv, TypeControl', Heartbeat PROVE JournalInv'
  BY IdleKeeps DEF Heartbeat, TypeControl

LEMMA StutterInv == ASSUME JournalInv, TypeControl', UNCHANGED vars PROVE JournalInv'
  BY IdleKeeps DEF vars, TypeControl

-----------------------------------------------------------------------------
(* The invariant, and what follows from it. *)

LEMMA InitInv == Init => JournalInv
<1> SUFFICES ASSUME Init PROVE JournalInv
  OBVIOUS
<1> USE DEF Init
<1>1. TypeOK /\ Control
  BY InitTypeControl DEF TypeControl
<1>2. Copies
  BY DEF Copies, CoversIn
<1>3. NoRecord.id = None /\ NoRetry.steps = {}
  BY DEF NoRecord, NoRetry
<1>4. KnownIds /\ OwnFiles /\ Present /\ Awaited /\ Restoring
  BY <1>3 DEF KnownIds, OwnFiles, Present, Awaited, Restoring, Fresh, Ending, Retrying
<1>5. Holding /\ ReleasedMeansRestored
  BY DEF Holding, Owning, Taken, ReleasedMeansRestored
<1> QED BY <1>1, <1>2, <1>4, <1>5 DEF JournalInv, Places

LEMMA NextInv == ASSUME JournalInv, [Next]_vars PROVE JournalInv'
<1>1. TypeControl'
  BY NextTypes DEF TypeControl, JournalInv
<1>2. CASE Job
  <2>1. CASE Taking
    BY <1>1, <2>1, TakeSkipInv, TakeMarkInv, MarkFailsInv, TakeActInv, TakeShruggedInv,
       TakeFailsInv DEF Taking
  <2> QED BY <1>1, <1>2, <2>1, SettleInv, BeginRefusedInv, BeginInv, SnapshotInv,
             SnapshotFailsInv, ConfirmInv, ConfirmFailsInv, ReadyInv, StopOldInv, StopFailsInv,
             ConfigureInv, ConfigureFailsInv, RestoreStepInv, RestoreDoneInv, ReapplyDoneInv,
             RetryDoneInv, RecoveredOneInv, RecoverFileInv, RecoverDoneInv DEF Job
<1>3. CASE Clients
  BY <1>1, <1>3, RequestInv, ResizeInv, ReleaseInv, RecoverInv, HeartbeatInv DEF Clients
<1>4. CASE Watchdog
  BY <1>1, <1>4, ExpireInv, BackgroundRetryInv, ReconcileInv, WatchShellInv DEF Watchdog
<1>5. CASE Host
  BY <1>1, <1>5, HostInv
<1> QED BY <1>1, <1>2, <1>3, <1>4, <1>5, StutterInv DEF Next

\* The invariant holds at every instant, mid-job and between crash and recovery.
THEOREM JournalInvariant == Spec => []JournalInv
<1>1. JournalInv /\ [Next]_vars => JournalInv'
  BY NextInv
<1> QED BY InitInv, <1>1, PTL DEF Spec

LEMMA CoversFromCopies ==
  ASSUME NEW rec, CoversIn(standing, rec, Owed(rec)) PROVE Covers(rec)
  BY DEF CoversIn, Covers

\* Whenever the daemon dies, some journal file names each session of which anything
\* firm stands, and restoring from the file would put all of it back.
THEOREM JournalIsEnough == Spec => []JournalCovers
<1>1. JournalInv => JournalCovers
  BY CoversFromCopies DEF JournalInv, Copies, JournalCovers
<1> QED BY JournalInvariant, <1>1, PTL

\* What the background retry has in hand is enough for what still stands.
THEOREM RetryIsEnough == Spec => []RetryCovers
<1>1. JournalInv => RetryCovers
  BY DEF JournalInv, Copies, CoversIn, RetryCovers
<1> QED BY JournalInvariant, <1>1, PTL

\* "released" is only said when nothing firm of the session stands.
THEOREM ReleasedIsRestored == Spec => []ReleasedMeansRestored
<1>1. JournalInv => ReleasedMeansRestored
  BY DEF JournalInv
<1> QED BY JournalInvariant, <1>1, PTL

-----------------------------------------------------------------------------
(* A ready session holds one lease, its backend's.  That it holds no other is  *)
(* already said: its record covers what stands.                                *)

SameLeases == \A b \in Backends : <<sid, b>> \in standing' <=> <<sid, b>> \in standing

LEMMA NotALease == \A r \in Steps : r \notin Backends
  BY DEF Steps, OfTakeover, AnyMode, Backends

\* The job in hand takes nothing, and the session is ready only if it was before.
LEMMA LeaseStep ==
  ASSUME LeaseInv, sid' = sid, ~Taken',
         op' \notin {"restore", "recover"} => cont' # "recover",
         state' = "ready" /\ cont' # "recover" =>
           state = "ready" /\ cont # "recover" /\ backend' = backend /\ SameLeases
  PROVE  LeaseInv'
  BY DEF LeaseInv, LeaseMatches, SameLeases, Taken

LEMMA NotReadyLease ==
  ASSUME state' # "ready", ~Taken', op' \notin {"restore", "recover"} => cont' # "recover"
  PROVE  LeaseInv'
  BY DEF LeaseInv, LeaseMatches, Taken

LEMMA IdleLease ==
  ASSUME LeaseInv, SameLeases, backend \in Backends,
         UNCHANGED <<sid, backend, state, op, cont, req>>,
         "backend" \in todo => "backend" \in todo'
  PROVE  LeaseInv'
  BY DEF LeaseInv, LeaseMatches, SameLeases, Taken

LEMMA FailedLease == ASSUME NEW rec, Failed(rec) PROVE LeaseInv'
  BY NotReadyLease DEF Failed, StartRestore, Taken

\* Whoever gets ready holds its own lease and, as its record covers, no other.
LEMMA ReadyLease ==
  ASSUME JournalInv', state' = "ready", op' = "none", cont' # "recover",
         <<sid', backend'>> \in standing'
  PROVE  LeaseInv'
<1>1. record'.id = sid' /\ record'.backend = backend'
  BY DEF JournalInv, Holding, Owning, Recovering
<1>2. \A b \in Backends : <<sid', b>> \in standing' => b = backend'
  <2>1. CoversIn(standing, record, Owed(record))'
    BY DEF JournalInv, Copies
  <2>2. \A b \in Backends : b \in Firm
    BY DEF Firm, Things, Backends
  <2> QED BY <1>1, <2>1, <2>2 DEF CoversIn
<1> QED BY <1>2 DEF LeaseInv, LeaseMatches, Taken

\* A job that the host refuses fails, unless it is a rebuild, which has its lease.
LEMMA RefusedLease ==
  ASSUME JournalInv', HostRefuses, Taken, LeaseInv, UNCHANGED <<sid, backend>>,
         cont = "rebuilt" => standing \subseteq standing'
  PROVE  LeaseInv'
<1>1. CASE cont # "rebuilt"
  BY <1>1, FailedLease DEF HostRefuses
<1>2. CASE cont = "rebuilt" /\ state' = "failed"
  BY <1>2, NotReadyLease DEF HostRefuses, Missed, StartRestore, JobDone, Taken
<1>3. CASE cont = "rebuilt" /\ state' # "failed"
  <2>1. state' = "ready" /\ op' = "none" /\ cont' = ""
    BY <1>3 DEF HostRefuses, Missed, JobDone, StartRestore
  <2>2. <<sid', backend'>> \in standing'
    BY <1>3 DEF LeaseInv
  <2> QED BY <2>1, <2>2, ReadyLease
<1> QED BY <1>1, <1>2, <1>3

LEMMA TakingLease ==
  ASSUME JournalInv, JournalInv', LeaseInv, NEW r \in todo,
         \/ TakeSkip(r) \/ TakeMark(r) \/ MarkFails(r) \/ TakeAct(r)
         \/ TakeShrugged(r) \/ TakeFails(r)
  PROVE  LeaseInv'
<1>1. /\ Taken /\ op = "take" /\ state \in {"creating", "resizing"} /\ backend \in Backends
      /\ req.backend = backend
  BY DEF TakeSkip, TakeMark, MarkFails, ToMark, TakeAct, TakeShrugged, TakeFails, ToTake, Taken,
         JournalInv, Control, TypeOK, SessionOK, Holding, Owning
<1>2. CASE TakeSkip(r)
  BY <1>1, <1>2, IdleLease DEF TakeSkip, AlreadySo, SameLeases
<1>3. CASE TakeMark(r)
  BY <1>1, <1>3, IdleLease DEF TakeMark, SameLeases
<1>4. CASE MarkFails(r)
  <2>1. CASE r # "bar"
    BY <1>4, <2>1, FailedLease DEF MarkFails, DiskRefuses
  <2>2. CASE r = "bar"
    BY <1>1, <1>4, <2>2, IdleLease DEF MarkFails, SameLeases
  <2> QED BY <2>1, <2>2
<1>5. CASE TakeAct(r)
  <2>1. /\ standing' = standing \cup Effect(r) /\ op' \in {"take", "confirm"}
        /\ UNCHANGED <<sid, state, backend, cont, req>>
        /\ todo' = todo \/ todo' = todo \ {r}
    BY <1>5 DEF TakeAct
  <2>2. r = "backend" => <<sid, backend>> \in Effect(r)
    BY <1>1 DEF Effect, Held
  <2>3. /\ "backend" \in todo' \/ <<sid, backend>> \in standing'
        /\ cont = "rebuilt" => req.backend = backend /\ <<sid, backend>> \in standing'
    BY <1>1, <2>1, <2>2 DEF LeaseInv
  <2> QED BY <1>1, <2>1, <2>3 DEF LeaseInv, LeaseMatches
<1>6. CASE TakeShrugged(r)
  <2>1. /\ standing \subseteq standing' /\ todo' = todo \ {r} /\ r # "backend"
        /\ UNCHANGED <<sid, state, backend, cont, req, op>>
    BY <1>6 DEF TakeShrugged, Shrugged
  <2> QED BY <1>1, <2>1 DEF LeaseInv, LeaseMatches
<1>7. CASE TakeFails(r)
  <2>1. standing \subseteq standing' /\ HostRefuses /\ UNCHANGED <<sid, backend>>
    BY <1>7 DEF TakeFails
  <2> QED BY <1>1, <2>1, RefusedLease
<1> QED BY <1>2, <1>3, <1>4, <1>5, <1>6, <1>7

LEMMA ConfirmLease ==
  ASSUME JournalInv, LeaseInv, Confirm \/ ConfirmFails PROVE LeaseInv'
<1>1. CASE Confirm
  <2>1. state # "ready" /\ op = "confirm"
    BY <1>1 DEF Confirm, JournalInv, Control, Taken
  <2> QED BY <1>1, <2>1 DEF Confirm, LeaseInv, LeaseMatches, Taken
<1>2. CASE ConfirmFails
  BY <1>2, FailedLease DEF ConfirmFails, DiskRefuses
<1> QED BY <1>1, <1>2

LEMMA ReadyHasLease == ASSUME JournalInv, JournalInv', LeaseInv, Ready PROVE LeaseInv'
<1>1. /\ state' = "ready" /\ op' = "none" /\ cont' = "" /\ op = "take" /\ todo = {}
      /\ UNCHANGED <<sid, backend, standing>>
  BY DEF Ready, JobDone
<1>2. <<sid', backend'>> \in standing'
  BY <1>1 DEF LeaseInv
<1> QED BY <1>1, <1>2, ReadyLease

LEMMA BeginningLease ==
  ASSUME JournalInv, LeaseInv, Settle \/ BeginRefused \/ Begin \/ Snapshot \/ SnapshotFails
  PROVE  LeaseInv'
<1>1. state # "ready"
  BY DEF Settle, BeginRefused, Begin, Snapshot, SnapshotFails, JournalInv, Control, IsLive, Live
<1>2. CASE Settle
  BY <1>1, <1>2, NotReadyLease DEF Settle, StartRestore, Taken, LeaseInv
<1>3. CASE BeginRefused
  BY <1>1, <1>3, NotReadyLease DEF BeginRefused, JobDone, Taken
<1>4. CASE Begin
  BY <1>4, NotReadyLease DEF Begin, Taken, LeaseInv
<1>5. CASE Snapshot
  <2>1. "backend" \in Wanted
    BY DEF Wanted
  <2> QED BY <1>1, <1>5, <2>1 DEF Snapshot, LeaseInv, LeaseMatches, Taken
<1>6. CASE SnapshotFails
  BY <1>1, <1>6, NotReadyLease DEF SnapshotFails, JobDone, Taken
<1> QED BY <1>2, <1>3, <1>4, <1>5, <1>6

LEMMA StopLease ==
  ASSUME JournalInv, JournalInv', LeaseInv, StopOld \/ StopFails PROVE LeaseInv'
<1>1. /\ Taken /\ op = "stop" /\ state \in {"creating", "resizing"}
      /\ cont = "rebuilt" => OldLease = {} /\ <<sid, backend>> \in standing /\ req.backend = backend
  BY DEF StopOld, StopFails, Taken, LeaseInv, OldLease, JournalInv, Control
<1>2. CASE StopOld
  <2>1. /\ standing' = standing \ OldLease /\ op' = "configure"
        /\ UNCHANGED <<sid, state, backend, cont, req>>
    BY <1>2 DEF StopOld
  <2> QED BY <1>1, <2>1 DEF LeaseInv, LeaseMatches
<1>3. CASE StopFails
  <2>1. /\ standing' \in {standing, standing \ OldLease} /\ HostRefuses
        /\ UNCHANGED <<sid, backend>>
    BY <1>3 DEF StopFails
  <2> QED BY <1>1, <2>1, RefusedLease
<1> QED BY <1>2, <1>3

LEMMA ConfigureLease ==
  ASSUME JournalInv, JournalInv', LeaseInv, Configure \/ ConfigureFails PROVE LeaseInv'
<1>1. /\ Taken /\ op = "configure" /\ state \in {"creating", "resizing"}
      /\ cont = "rebuilt" => <<sid, backend>> \in standing /\ req.backend = backend
  BY DEF Configure, ConfigureFails, Taken, LeaseInv, JournalInv, Control
<1>2. CASE Configure
  <2>1. /\ standing' = standing \cup Effect("output") /\ op' = "take" /\ "backend" \in todo'
        /\ backend' = req.backend /\ UNCHANGED <<sid, state, cont, req>>
    BY <1>2 DEF Configure
  <2> QED BY <1>1, <2>1 DEF LeaseInv, LeaseMatches
<1>3. CASE ConfigureFails
  <2>1. /\ standing \subseteq standing' /\ sid' = sid
        /\ \/ HostRefuses /\ backend' = backend
           \/ DiskRefuses([record EXCEPT !.backend = req.backend])
    BY <1>3 DEF ConfigureFails
  <2>2. CASE HostRefuses /\ backend' = backend
    BY <1>1, <2>1, <2>2, RefusedLease
  <2>3. CASE DiskRefuses([record EXCEPT !.backend = req.backend])
    BY <2>3, FailedLease DEF DiskRefuses
  <2> QED BY <2>1, <2>2, <2>3
<1> QED BY <1>2, <1>3

\* What a retry puts back beside a ready session is not that session's.
LEMMA RestoreStepLease ==
  ASSUME JournalInv, LeaseInv, NEW r \in todo, RestoreStep(r) PROVE LeaseInv'
<1>1. op = "restore" /\ UNCHANGED <<sid, state, backend, op, cont>> /\ r \in Steps
  BY DEF RestoreStep, JournalInv, TypeOK, JobOK
<1>2. ASSUME state = "ready", cont # "recover" PROVE SameLeases
  <2>1. Owning /\ Retrying
    BY <1>1, <1>2 DEF Owning, Retrying, Recovering, Ending, JournalInv, Control
  <2>2. rrec.id # sid
    BY <2>1 DEF JournalInv, Places, Restoring, Holding
  <2>3. \A b \in Backends : <<sid, b>> \notin Undone(rrec, r)
    <3>1. CASE r = "backend"
      BY <2>2, <3>1 DEF Undone, Own
    <3>2. CASE r # "backend"
      BY <1>1, <3>2, NotALease DEF Undone, Held
    <3> QED BY <3>1, <3>2
  <2>4. \A b \in Backends : <<sid, b>> \notin Reclaimed(r)
    BY DEF Reclaimed, Backends
  <2> QED BY <2>3, <2>4 DEF RestoreStep, SameLeases
<1> QED BY <1>1, <1>2, LeaseStep DEF Taken

LEMMA RestoredLease ==
  ASSUME JournalInv, LeaseInv,
         \/ RestoreDone \/ ReapplyDone \/ RetryDone \/ RecoveredOne
         \/ (\E f \in files : RecoverFile(f)) \/ RecoverDone
  PROVE  LeaseInv'
<1>1. CASE RestoreDone
  BY <1>1, NotReadyLease DEF RestoreDone, JobDone, Taken
<1>2. CASE ReapplyDone
  <2>1. state # "ready"
    BY <1>2 DEF ReapplyDone, Restored, JournalInv, Control, Ending
  <2> QED BY <1>2, <2>1, NotReadyLease DEF ReapplyDone, JobDone, Taken
<1>3. CASE RetryDone
  <2>1. /\ cont # "recover" /\ cont' = "" /\ ~Taken' /\ UNCHANGED <<sid, backend, standing>>
        /\ state' = "ready" => state = "ready"
    BY <1>3 DEF RetryDone, JobDone, Taken
  <2> QED BY <2>1, LeaseStep DEF SameLeases
<1>4. CASE RecoveredOne
  BY <1>4, LeaseStep DEF RecoveredOne, Taken, SameLeases
<1>5. ASSUME NEW f \in files, RecoverFile(f) PROVE LeaseInv'
  BY <1>5, LeaseStep DEF RecoverFile, Taken, SameLeases
<1>6. CASE RecoverDone
  BY <1>6, NotReadyLease DEF RecoverDone, JobDone, Taken
<1> QED BY <1>1, <1>2, <1>3, <1>4, <1>5, <1>6

LEMMA JobLease == ASSUME JournalInv, JournalInv', LeaseInv, Job PROVE LeaseInv'
<1>1. CASE Taking
  BY <1>1, TakingLease DEF Taking
<1>2. CASE \E r \in todo : RestoreStep(r)
  BY <1>2, RestoreStepLease
<1> QED BY <1>1, <1>2, BeginningLease, ConfirmLease, ReadyHasLease, StopLease, ConfigureLease,
           RestoredLease DEF Job

LEMMA StopSessionLease == ASSUME StopSession PROVE LeaseInv'
  BY NotReadyLease DEF StopSession, StartRestore, JobDone, Taken

LEMMA ClientsLease == ASSUME JournalInv, LeaseInv, Clients PROVE LeaseInv'
<1>1. backend \in Backends
  BY DEF JournalInv, TypeOK, SessionOK
<1>2. ASSUME NEW s \in Sessions, NEW m \in Modes, NEW b \in Backends, Request(s, m, b)
      PROVE  LeaseInv'
  BY <1>2, NotReadyLease DEF Request, Free, IsLive, Live, LeaseInv, Taken
<1>3. ASSUME NEW b \in Backends, Resize(b) PROVE LeaseInv'
  BY <1>3 DEF Resize, ReapplyBegin, ReapplyStuck, JobDone, LeaseInv, LeaseMatches, Taken
<1>4. CASE Release
  <2>1. CASE StopSession
    BY <2>1, StopSessionLease
  <2>2. CASE state = "failed" /\ StartRestore(unfinished.rec, unfinished.steps, "retry") /\ state' = state
    BY <2>2, NotReadyLease DEF StartRestore, Taken
  <2> QED BY <1>4, <2>1, <2>2 DEF Release
<1>5. CASE Recover
  BY <1>5, LeaseStep DEF Recover, Taken, SameLeases
<1>6. CASE Heartbeat
  BY <1>1, <1>6, IdleLease DEF Heartbeat, SameLeases
<1> QED BY <1>2, <1>3, <1>4, <1>5, <1>6 DEF Clients

LEMMA ReconcileLease == ASSUME JournalInv, JournalInv', LeaseInv, Reconcile PROVE LeaseInv'
<1>1. /\ op = "none" /\ state = "ready" /\ cont # "recover" /\ UNCHANGED <<sid, backend>>
      /\ backend \in Backends
  BY DEF Reconcile, Free, LeaseInv, JournalInv, TypeOK, SessionOK
<1>2. <<sid, backend>> \in standing
  BY <1>1 DEF LeaseInv, LeaseMatches
<1>3. PICK again \in SUBSET Enforced : standing' = standing \cup ({sid} \X again)
  BY DEF Reconcile
<1>4. SameLeases
  BY <1>3 DEF SameLeases, Enforced, Reloadable, Backends
<1>5. CASE ReapplyBegin(backend, "rebuilt")
  BY <1>1, <1>2, <1>3, <1>5 DEF ReapplyBegin, LeaseInv, LeaseMatches, Taken
<1>6. CASE UNCHANGED <<state, jobVars>>
  BY <1>1, <1>4, <1>6, IdleLease
<1>7. CASE Missed
  <2>1. CASE state' = "failed"
    BY <1>7, <2>1, NotReadyLease DEF Missed, StartRestore, JobDone, Taken
  <2>2. CASE state' # "failed"
    BY <1>1, <1>2, <1>3, <1>7, <2>2, ReadyLease DEF Missed, StartRestore, JobDone
  <2> QED BY <2>1, <2>2
<1>8. CASE state' \in {"ready", "resizing"} /\ UNCHANGED jobVars
  BY <1>1, <1>4, <1>8, LeaseStep DEF Taken, LeaseInv
<1> QED BY <1>5, <1>6, <1>7, <1>8 DEF Reconcile

LEMMA WatchdogLease == ASSUME JournalInv, JournalInv', LeaseInv, Watchdog PROVE LeaseInv'
<1>1. backend \in Backends
  BY DEF JournalInv, TypeOK, SessionOK
<1>2. CASE Expire
  BY <1>2, StopSessionLease DEF Expire
<1>3. CASE BackgroundRetry
  BY <1>3, LeaseStep DEF BackgroundRetry, StartRestore, Free, LeaseInv, Taken, SameLeases
<1>4. CASE WatchShell
  BY <1>1, <1>4, IdleLease DEF WatchShell, SameLeases
<1> QED BY <1>2, <1>3, <1>4, ReconcileLease DEF Watchdog

LEMMA HostLease == ASSUME JournalInv, LeaseInv, Host PROVE LeaseInv'
<1>1. backend \in Backends
  BY DEF JournalInv, TypeOK, SessionOK
<1>2. CASE Lapse
  BY <1>1, <1>2, IdleLease DEF Lapse, SameLeases
<1>3. CASE HostReload
  <2>1. SameLeases
    BY <1>3 DEF HostReload, SameLeases, Reloadable, Backends
  <2> QED BY <1>1, <1>3, <2>1, IdleLease DEF HostReload
<1>4. CASE HostRemovesOutput
  <2>1. SameLeases
    BY <1>4 DEF HostRemovesOutput, SameLeases, Backends
  <2> QED BY <1>1, <1>4, <2>1, IdleLease DEF HostRemovesOutput
<1>5. CASE Crash
  BY <1>5, NotReadyLease DEF Crash, Taken
<1> QED BY <1>2, <1>3, <1>4, <1>5 DEF Host

\* Through any number of switches, failed switches, rebuilds and recoveries, a ready
\* session holds the lease of the backend it says it is on, and no other.
THEOREM LeaseIsTheBackends == Spec => []LeaseMatches
<1>1. Init => LeaseInv
  BY DEF Init, LeaseInv, LeaseMatches, Taken
<1>2. JournalInv /\ JournalInv' /\ LeaseInv /\ [Next]_vars => LeaseInv'
  <2> SUFFICES ASSUME JournalInv, JournalInv', LeaseInv, [Next]_vars PROVE LeaseInv'
    OBVIOUS
  <2>1. CASE UNCHANGED vars
    BY <2>1, IdleLease DEF vars, SameLeases, JournalInv, TypeOK, SessionOK
  <2> QED BY <2>1, JobLease, ClientsLease, WatchdogLease, HostLease DEF Next
<1>3. LeaseInv => LeaseMatches
  BY DEF LeaseInv
<1> QED BY JournalInvariant, <1>1, <1>2, <1>3, PTL DEF Spec

-----------------------------------------------------------------------------
(***************************************************************************)
(* RemoteSession implements BorrowedHost.                                  *)
(* Every step is a note made, things borrowed under a note, things given   *)
(* back, a note thrown away when nothing is out under it, or none of these.*)
(***************************************************************************)

AbstractStep == Borrowed!Next \/ UNCHANGED <<Lent, Named>>

-----------------------------------------------------------------------------
(* The five shapes of a step. *)

LEMMA NamedSame ==
  ASSUME \A f \in Sessions : disk'[f].id = disk[f].id PROVE Named' = Named
  BY DEF Named

LEMMA Returns ==
  ASSUME \A p \in standing' : p[2] \in Firm => p \in standing,
         \A f \in Sessions : disk'[f].id = disk[f].id
  PROVE  AbstractStep
<1>1. Named' = Named
  BY NamedSame
<1>2. Lent' \subseteq Lent
  BY DEF Lent
<1> QED BY <1>1, <1>2 DEF AbstractStep, Borrowed!Next, Borrowed!Return

LEMMA Borrows ==
  ASSUME JournalInv, TypeControl', Owning, op # "restore", standing \subseteq standing',
         \A p \in standing' : p \in standing \/ p[1] = sid,
         \A f \in Sessions : disk'[f].id = disk[f].id
  PROVE  AbstractStep
<1>1. Named' = Named
  BY NamedSame
<1>2. sid \in Sessions /\ sid # None /\ disk[sid].id = sid
  BY Owner
<1>3. sid \in Named
  BY <1>2 DEF Named
<1>4. Lent \subseteq Lent'
  BY DEF Lent
<1>5. Lent' \ Lent \subseteq {sid} \X Firm
  BY DEF Lent, TypeControl, TypeOK, HostOK
<1> QED BY <1>1, <1>2, <1>3, <1>4, <1>5 DEF AbstractStep, Borrowed!Next, Borrowed!Borrow

LEMMA Notes ==
  ASSUME NEW s \in Sessions, NEW f \in Sessions, disk[f].id \in {None, s}, disk'[f].id = s,
         \A g \in Sessions : g # f => disk'[g].id = disk[g].id, UNCHANGED standing
  PROVE  AbstractStep
<1>1. Named' = Named \cup {s}
  BY DEF Named
<1>2. Lent' = Lent
  BY DEF Lent
<1> QED BY <1>1, <1>2 DEF AbstractStep, Borrowed!Next, Borrowed!Note

LEMMA Forgets ==
  ASSUME JournalInv, Restored, errs = {}, disk' = Unlinked, UNCHANGED standing
  PROVE  AbstractStep
<1>1. /\ \A r \in Firm : <<rrec.id, r>> \notin standing
      /\ \A f \in Sessions : IF f = rrec.id THEN disk'[f] = NoRecord ELSE disk'[f] = disk[f]
  BY UnlinkKeeps
<1>2. disk[rrec.id].id \in {rrec.id, None} /\ NoRecord.id = None
  BY RestoredCovers DEF Restored, JournalInv, Places, OwnFiles, Unheard, NoRecord
<1>3. Named' \subseteq Named /\ Named \ Named' \subseteq {rrec.id}
  BY <1>1, <1>2 DEF Named
<1>4. Lent' = Lent
  BY DEF Lent
<1>5. \A s \in Named \ Named' : \A t \in Firm : <<s, t>> \notin Lent
  BY <1>1, <1>3 DEF Lent
<1> QED BY <1>3, <1>4, <1>5 DEF AbstractStep, Borrowed!Next, Borrowed!Forget

LEMMA Keeps ==
  ASSUME JournalInv, Restored, NEW rec \in Record, rec.id = rrec.id, Keep(rec), UNCHANGED standing
  PROVE  AbstractStep
<1>1. rrec.id \in Sessions /\ disk[rrec.id].id \in {None, rrec.id}
  BY RestoredCovers DEF Restored, JournalInv, Places, OwnFiles, Unheard
<1>2. disk' = disk \/ disk' = [disk EXCEPT ![rrec.id] = [rec EXCEPT !.failed = errs]]
  BY DEF Keep
<1>3. [rec EXCEPT !.failed = errs].id = rrec.id /\ disk \in [Sessions -> Record]
  BY DEF Record, JournalInv, TypeOK, CopiesOK
<1>4. CASE disk' = disk
  BY <1>4, Returns
<1>5. CASE disk' = [disk EXCEPT ![rrec.id] = [rec EXCEPT !.failed = errs]]
  BY <1>1, <1>3, <1>5, Notes
<1> QED BY <1>2, <1>4, <1>5

-----------------------------------------------------------------------------
(* Which shape each step has. *)

\* Most steps leave the files alone and put nothing on the host.
LEMMA QuietSteps ==
  ASSUME \/ \E s \in Sessions, m \in Modes, b \in Backends : Request(s, m, b)
         \/ Settle \/ BeginRefused \/ Begin \/ SnapshotFails \/ ConfirmFails \/ StopOld
         \/ (\E r \in todo : TakeSkip(r) \/ MarkFails(r) \/ RestoreStep(r))
         \/ (\E f \in files : RecoverFile(f)) \/ RecoverDone \/ Recover \/ BackgroundRetry
         \/ Heartbeat \/ Lapse \/ HostReload \/ HostRemovesOutput \/ Crash \/ UNCHANGED vars
  PROVE  AbstractStep
<1>1. UNCHANGED disk
  BY DEF Request, Settle, BeginRefused, Begin, SnapshotFails, ConfirmFails, StopOld, TakeSkip,
         MarkFails, DiskRefuses, RestoreStep, RecoverFile, RecoverDone, Recover, BackgroundRetry,
         Heartbeat, Lapse, HostReload, HostRemovesOutput, Crash, vars
<1>2. CASE \E r \in todo : RestoreStep(r)
  BY <1>1, <1>2, RestoreStepFirm, Returns
<1>3. CASE ~\E r \in todo : RestoreStep(r)
  <2>1. standing' \subseteq standing
    BY <1>3 DEF Request, Settle, BeginRefused, Begin, SnapshotFails, ConfirmFails, StopOld, TakeSkip,
           MarkFails, RecoverFile, RecoverDone, Recover, BackgroundRetry,
           Heartbeat, Lapse, HostReload, HostRemovesOutput, Crash, vars
  <2> QED BY <1>1, <2>1, Returns
<1> QED BY <1>2, <1>3

\* So do, for the owner of a current record, those that write it once more.
LEMMA WriteSteps ==
  ASSUME JournalInv, StopFails \/ Ready \/ (\E b \in Backends : Resize(b))
  PROVE  AbstractStep
<1>1. Owning /\ op # "restore"
  BY DEF StopFails, Ready, Resize, Owning, Taken, Free, Recovering
<1>2. Advanced = disk
  BY <1>1, Owner
<1>3. UNCHANGED disk
  BY <1>2, HostRefusal DEF StopFails, Ready, Resize, ReapplyBegin, ReapplyStuck
<1>4. standing' \subseteq standing
  BY DEF StopFails, Ready, Resize
<1> QED BY <1>3, <1>4, Returns

LEMMA MarkSteps ==
  ASSUME JournalInv, Confirm \/ (\E r \in todo : TakeMark(r)) PROVE AbstractStep
<1>1. Owning /\ op # "restore" /\ UNCHANGED standing
  BY DEF Confirm, TakeMark, ToMark, Owning, Taken
<1>2. PICK m \in Marks : disk' = [disk EXCEPT ![sid] = Noted(m)]
  BY MarkType DEF Confirm, TakeMark, JournalInv, TypeOK, JobOK, Marks, Steps, OfTakeover
<1>3. Noted(m).id = sid
  BY <1>1, NotedCovers
<1>4. \A f \in Sessions : disk'[f].id = disk[f].id
  BY <1>1, <1>2, <1>3, Owner
<1> QED BY <1>1, <1>4, Returns

LEMMA TakeSteps ==
  ASSUME JournalInv, TypeControl', NEW r \in todo, TakeAct(r) \/ TakeShrugged(r) \/ TakeFails(r)
  PROVE  AbstractStep
<1>1. Owning /\ op = "take"
  BY TakeCovered DEF TakeAct, TakeShrugged, TakeFails
<1>2. UNCHANGED disk
  BY <1>1, Owner, HostRefusal DEF TakeAct, TakeShrugged, TakeFails
<1>3. standing \subseteq standing' /\ standing' \subseteq standing \cup Effect(r)
  BY DEF TakeAct, TakeShrugged, TakeFails
<1> QED BY <1>1, <1>2, <1>3, EffectOwn, Borrows

LEMMA ConfigureSteps ==
  ASSUME JournalInv, TypeControl', Configure \/ ConfigureFails PROVE AbstractStep
<1> DEFINE rec == [record EXCEPT !.backend = req.backend]
<1>1. op = "configure"
  BY DEF Configure, ConfigureFails
<1>2. rec.id = sid /\ Owning
  BY <1>1, ConfigureCovered
<1>3. disk' = disk \/ disk' = [disk EXCEPT ![sid] = rec]
  BY <1>1, <1>2, Owner, HostRefusal DEF Configure, ConfigureFails, DiskRefuses
<1>4. \A f \in Sessions : disk'[f].id = disk[f].id
  BY <1>1, <1>2, <1>3, Owner
<1>5. standing \subseteq standing' /\ standing' \subseteq standing \cup Effect("output")
  BY DEF Configure, ConfigureFails
<1> QED BY <1>1, <1>2, <1>4, <1>5, EffectOwn, Borrows

LEMMA ReconcileSteps == ASSUME JournalInv, TypeControl', Reconcile PROVE AbstractStep
<1>1. Owning /\ op = "none"
  BY DEF Reconcile, Owning, Free, Recovering
<1>2. UNCHANGED disk
  BY <1>1, Owner DEF Reconcile, ReapplyBegin
<1>3. standing \subseteq standing' /\ (\A p \in standing' : p \in standing \/ p[1] = sid)
  BY DEF Reconcile
<1> QED BY <1>1, <1>2, <1>3, Borrows

LEMMA SnapshotSteps == ASSUME JournalInv, Snapshot PROVE AbstractStep
<1>1. /\ op = "snapshot" /\ disk' = [disk EXCEPT ![sid] = FreshRecord] /\ UNCHANGED standing
  BY DEF Snapshot
<1>2. sid \in Sessions /\ disk[sid].id = None /\ disk \in [Sessions -> Record]
  BY <1>1 DEF JournalInv, Control, Live, TypeOK, SessionOK, CopiesOK, Places, Awaited, Fresh
<1> QED BY <1>1, <1>2, FreshFields, Notes

LEMMA ReleaseSteps == ASSUME JournalInv, Release \/ Expire \/ WatchShell PROVE AbstractStep
<1>1. sid \in Sessions /\ op = "none" /\ UNCHANGED standing
  BY DEF Release, Expire, WatchShell, IsLive, Free, JournalInv, Control, Live, TypeOK, SessionOK
<1>2. UNCHANGED disk \/ (disk' = Advanced /\ record.id # None)
  BY DEF Release, Expire, WatchShell, StopSession
<1>3. disk[sid].id \in {None, record.id} /\ record.id \in Sessions \cup {None}
  BY <1>1 DEF JournalInv, Places, Present, Recovering, TypeOK, CopiesOK, Record
<1>4. CASE disk' = Advanced /\ record.id # None
  BY <1>1, <1>3, <1>4, Notes DEF Advanced, JournalInv, TypeOK, CopiesOK
<1> QED BY <1>1, <1>2, <1>4, Returns

LEMMA DoneSteps ==
  ASSUME JournalInv, RestoreDone \/ ReapplyDone \/ RetryDone \/ RecoveredOne PROVE AbstractStep
<1>1. Restored /\ op = "restore" /\ UNCHANGED standing
  BY DEF RestoreDone, ReapplyDone, RetryDone, RecoveredOne, Restored
<1>2. CASE errs = {} /\ disk' = Unlinked
  BY <1>1, <1>2, Forgets
<1>3. CASE UNCHANGED disk
  BY <1>1, <1>3, Returns
<1>4. CASE RestoreDone /\ Keep(record)
  <2>1. rrec.id = record.id
    BY <1>1, <1>4 DEF RestoreDone, JournalInv, Places, Restoring, Ending
  <2> QED BY <1>1, <1>4, <2>1, Keeps DEF JournalInv, TypeOK, CopiesOK
<1>5. CASE Keep(rrec)
  BY <1>1, <1>5, Keeps DEF JournalInv, TypeOK, CopiesOK
<1> QED BY <1>2, <1>3, <1>4, <1>5 DEF RestoreDone, ReapplyDone, RetryDone, RecoveredOne

-----------------------------------------------------------------------------

LEMMA NextRefines == ASSUME JournalInv, [Next]_vars PROVE AbstractStep
<1>1. TypeControl'
  BY NextTypes DEF TypeControl, JournalInv
<1>2. CASE Job
  <2>1. CASE Taking
    BY <1>1, <2>1, QuietSteps, MarkSteps, TakeSteps DEF Taking
  <2> QED BY <1>1, <1>2, <2>1, QuietSteps, WriteSteps, MarkSteps, ConfigureSteps, SnapshotSteps,
             DoneSteps DEF Job
<1>3. CASE Clients
  BY <1>3, QuietSteps, WriteSteps, ReleaseSteps DEF Clients
<1>4. CASE Watchdog
  BY <1>1, <1>4, QuietSteps, ReleaseSteps, ReconcileSteps DEF Watchdog
<1>5. CASE Host
  BY <1>5, QuietSteps DEF Host
<1> QED BY <1>2, <1>3, <1>4, <1>5, QuietSteps DEF Next

LEMMA InitRefines == Init => Borrowed!Init
<1> SUFFICES ASSUME Init PROVE Lent = {} /\ Named = {}
  BY DEF Borrowed!Init
<1>1. NoRecord.id = None /\ \A f \in Sessions : disk[f] = NoRecord
  BY DEF Init, NoRecord
<1> QED BY <1>1 DEF Init, Lent, Named

\* The journal keeps the promise BorrowedHost states: what a session borrows is noted
\* before and until it is back, through crashes, failed restores and retries.
THEOREM SessionsBorrow == Spec => BorrowsUnderNotes
<1>1. JournalInv /\ [Next]_vars => [Borrowed!Next]_<<Lent, Named>>
  BY NextRefines DEF AbstractStep
<1> QED BY JournalInvariant, InitRefines, <1>1, PTL DEF Spec, BorrowsUnderNotes, Borrowed!Spec

=============================================================================
