------------------------ MODULE RemoteSessionProofs ------------------------
(***************************************************************************)
(* Proofs about RemoteSession for any number of sessions, failures,        *)
(* crashes and reloads.  Part one: its variables keep their types.         *)
(***************************************************************************)
EXTENDS RemoteSession, TLAPS

USE NoneAssumption, DeskAssumption, BoundsAssumption
USE DEF sessionVars, memoryVars, hostVars, jobVars, boundVars

-----------------------------------------------------------------------------
(* What the operators return. *)

LEMMA ConstantsType ==
  /\ NoRecord \in Record /\ Steps \subseteq Marks /\ Backends \subseteq Things
  /\ OfTakeover \subseteq Steps /\ AnyMode \subseteq Steps /\ "backend" \in Steps
  /\ Steps \ {"backend"} \subseteq Things /\ Reloadable \subseteq Things
  BY DEF NoRecord, Record, Steps, Marks, Backends, Things, OfTakeover, AnyMode, Reloadable

LEMMA NotedType == ASSUME record \in Record, NEW m \in Marks PROVE Noted(m) \in Record
  BY DEF Noted, Record

LEMMA FailedType == ASSUME NEW rec \in Record, NEW e \in SUBSET Steps
                    PROVE  [rec EXCEPT !.failed = e] \in Record
  BY DEF Record

LEMMA BackendType == ASSUME NEW rec \in Record, NEW b \in Backends
                     PROVE  [rec EXCEPT !.backend = b] \in Record
  BY DEF Record

LEMMA FreshType == ASSUME SessionOK PROVE FreshRecord \in Record
<1>1. {"output", "physical", "idle"} \subseteq Marks
  BY DEF Marks, Steps, AnyMode
<1> QED BY <1>1 DEF FreshRecord, Record, SessionOK

LEMMA WantedType == Wanted \in SUBSET Steps
<1>1. {"output", "idle", "backend", "device_output"} \subseteq Steps /\ DeskUses \subseteq Steps
  BY DEF Steps, AnyMode
<1>2. FreshRecord.marks \subseteq {"output", "physical", "idle"}
  BY DEF FreshRecord
<1> QED BY <1>1, <1>2 DEF Wanted

LEMMA OwedType == ASSUME NEW rec \in Record PROVE Owed(rec) \in SUBSET Steps
  BY DEF Owed, Record

LEMMA MarkType == ASSUME NEW r \in Steps PROVE MarkOf(r) \in Marks
  BY DEF MarkOf, Marks

LEMMA EffectType == ASSUME sid \in Sessions, req.backend \in Backends, NEW r \in Steps
                    PROVE  Effect(r) \subseteq Sessions \X Things
<1>1. Held(r, req.backend) \in Things
  BY ConstantsType DEF Held
<1>2. "physical" \in Things
  BY DEF Things, Steps, AnyMode
<1> QED BY <1>1, <1>2 DEF Effect

LEMMA ReadType == ASSUME CopiesOK, NEW s PROVE Read(s) \in Record
  BY ConstantsType DEF CopiesOK, Read

LEMMA FaultType == ASSUME CountsOK, NEW k, Fault(k) PROVE faults' \in Nat
  BY DEF CountsOK, Fault

LEMMA JobDoneType == ASSUME JobDone PROVE JobOK' /\ rrec' \in Record
  BY ConstantsType DEF JobDone, JobOK, NoReq, Modes, Backends

LEMMA StartRestoreType ==
  ASSUME JobOK, NEW rec \in Record, NEW only \in SUBSET Steps,
         NEW why \in {"create_failed", "resize_failed", "released", "retry", "settle", "recover"},
         StartRestore(rec, only, why)
  PROVE  JobOK' /\ rrec' \in Record
  BY DEF StartRestore, JobOK

LEMMA FailedJob == ASSUME TypeOK, NEW rec \in Record, Failed(rec)
                   PROVE  JobOK' /\ rrec' \in Record /\ state' \in States
<1> DEFINE why == IF cont = "created" THEN "create_failed" ELSE "resize_failed"
<1>1. why \in {"create_failed", "resize_failed", "released", "retry", "settle", "recover"}
  OBVIOUS
<1>2. StartRestore(rec, Owed(rec), why) /\ state' = "failed"
  BY DEF Failed
<1>3. "failed" \in States
  BY DEF States
<1> QED BY <1>1, <1>2, <1>3, OwedType, StartRestoreType DEF TypeOK

LEMMA MissedJob == ASSUME TypeOK, Missed
                   PROVE  JobOK' /\ rrec' \in Record /\ state' \in States /\ misses' \in Nat
<1>1. "failed" \in States /\ "ready" \in States
  BY DEF States, Live
<1>2. CASE JobDone
  BY <1>1, <1>2, JobDoneType DEF Missed, TypeOK, CountsOK
<1>3. CASE StartRestore(record, Owed(record), "resize_failed")
  BY <1>1, <1>3, OwedType, StartRestoreType DEF Missed, TypeOK, CountsOK, CopiesOK
<1> QED BY <1>2, <1>3 DEF Missed

LEMMA HostRefusesType ==
  ASSUME TypeOK, HostRefuses
  PROVE  /\ JobOK' /\ rrec' \in Record /\ state' \in States /\ misses' \in Nat
         /\ disk' \in [Sessions -> Record]
<1>1. CASE Missed /\ disk' = Advanced
  BY <1>1, MissedJob DEF Advanced, TypeOK, CopiesOK
<1>2. CASE Failed(record) /\ UNCHANGED <<misses, disk>>
  BY <1>2, FailedJob DEF TypeOK, CopiesOK, CountsOK
<1> QED BY <1>1, <1>2 DEF HostRefuses

LEMMA DiskRefusesType ==
  ASSUME TypeOK, NEW rec \in Record, DiskRefuses(rec)
  PROVE  /\ JobOK' /\ rrec' \in Record /\ record' \in Record /\ state' \in States
         /\ misses' \in Nat /\ disk' \in [Sessions -> Record]
  BY FailedJob DEF DiskRefuses, TypeOK, CopiesOK, CountsOK

LEMMA KeepType ==
  ASSUME TypeOK, NEW rec \in Record, Keep(rec)
  PROVE  /\ unfinished' \in [rec : Record, steps : SUBSET Steps, tries : Nat]
         /\ disk' \in [Sessions -> Record] /\ faults' \in Nat
         /\ dropped' \in SUBSET (Sessions \cup {None})
<1> DEFINE kept == [rec EXCEPT !.failed = errs]
<1>1. kept \in Record
  BY FailedType DEF TypeOK, JobOK
<1> HIDE DEF kept
<1>2. unfinished' = [rec |-> kept, steps |-> errs, tries |-> 0]
  BY DEF Keep, kept
<1>3. \/ disk' = [disk EXCEPT ![rec.id] = kept] /\ UNCHANGED faults
      \/ Fault("disk") /\ UNCHANGED disk
  BY DEF Keep, kept
<1>4. unfinished' \in [rec : Record, steps : SUBSET Steps, tries : Nat]
  BY <1>1, <1>2 DEF TypeOK, JobOK
<1>5. disk' \in [Sessions -> Record]
  BY <1>1, <1>3 DEF TypeOK, CopiesOK
<1>6. faults' \in Nat
  BY <1>3, FaultType DEF TypeOK, CountsOK
<1>7. dropped' \in SUBSET (Sessions \cup {None})
  BY DEF Keep, Replaced, TypeOK, CountsOK, CopiesOK, Record
<1> QED BY <1>4, <1>5, <1>6, <1>7

LEMMA StopSessionType ==
  ASSUME TypeOK, StopSession
  PROVE  /\ JobOK' /\ rrec' \in Record /\ state' \in States /\ faults' \in Nat
         /\ disk' \in [Sessions -> Record] /\ dropped' \in SUBSET (Sessions \cup {None})
<1>1. "stopping" \in States
  BY DEF States, Live
<1>2. disk' \in [Sessions -> Record] /\ faults' \in Nat
  BY FaultType DEF StopSession, TypeOK, CopiesOK, CountsOK, Advanced
<1>3. state' \in States
  BY <1>1 DEF StopSession
<1>4. JobDone \/ StartRestore(record, Owed(record), "released")
  BY DEF StopSession
<1>5. JobOK' /\ rrec' \in Record
  BY <1>4, OwedType, JobDoneType, StartRestoreType DEF TypeOK, CopiesOK
<1>6. dropped' \in SUBSET (Sessions \cup {None})
  BY DEF StopSession, TypeOK, CountsOK
<1> QED BY <1>2, <1>3, <1>5, <1>6

-----------------------------------------------------------------------------
(* Types and the control of the jobs are preserved together: only Control says *)
(* that a job which takes something has a session to take it for.              *)

TypeControl == TypeOK /\ Control

LEMMA InitTypeControl == Init => TypeControl
<1> SUFFICES ASSUME Init PROVE TypeOK /\ Control
  BY DEF TypeControl
<1>1. TypeOK
  BY ConstantsType DEF Init, TypeOK, SessionOK, FlagsOK, CopiesOK, HostOK, JobOK, CountsOK, States,
                       Modes, Backends, NoRetry, NoReq
<1>2. Control
  BY DEF Init, Control, Taken, Fresh, Ending, IsLive, Live
<1> QED BY <1>1, <1>2

LEMMA RequestTypes ==
  ASSUME TypeControl, NEW s \in Sessions, NEW m \in Modes, NEW b \in Backends, Request(s, m, b)
  PROVE  TypeControl'
<1> TypeOK /\ Control BY DEF TypeControl
<1>1. FlagsOK'
  BY Zenon DEF TypeOK, FlagsOK, Request
<1>2. SessionOK' /\ CountsOK' /\ CopiesOK' /\ HostOK' /\ JobOK'
  BY DEF TypeOK, SessionOK, Request, CountsOK, CopiesOK, HostOK, JobOK
<1>3. Control'
  BY DEF Control, IsLive, Live, Taken, Fresh, Ending, Request, Free
<1> QED BY <1>1, <1>2, <1>3 DEF TypeControl, TypeOK

LEMMA SettleTypes == ASSUME TypeControl, Settle PROVE TypeControl'
<1> TypeOK /\ Control BY DEF TypeControl
<1>1. FlagsOK'
  BY Zenon DEF TypeOK, FlagsOK, Settle
<1>2. SessionOK' /\ CountsOK' /\ HostOK'
  BY DEF TypeOK, SessionOK, Settle, CountsOK, HostOK
<1>3. CopiesOK'
  BY StartRestoreType DEF TypeOK, CopiesOK, Settle
<1>4. JobOK'
  BY StartRestoreType DEF TypeOK, JobOK, Settle, CopiesOK
<1>5. Control'
  BY DEF Control, IsLive, Live, Taken, Fresh, Ending, Settle, StartRestore
<1> QED BY <1>1, <1>2, <1>3, <1>4, <1>5 DEF TypeControl, TypeOK

LEMMA BeginRefusedTypes == ASSUME TypeControl, BeginRefused PROVE TypeControl'
<1> TypeOK /\ Control BY DEF TypeControl
<1>1. FlagsOK'
  BY Zenon DEF TypeOK, FlagsOK, BeginRefused
<1>2. SessionOK' /\ CountsOK' /\ HostOK'
  BY DEF TypeOK, SessionOK, BeginRefused, CountsOK, HostOK
<1>3. CopiesOK'
  BY JobDoneType DEF TypeOK, CopiesOK, BeginRefused
<1>4. JobOK'
  BY JobDoneType DEF TypeOK, JobOK, BeginRefused
<1>5. Control'
  BY DEF Control, IsLive, Live, Taken, Fresh, Ending, BeginRefused, JobDone
<1> QED BY <1>1, <1>2, <1>3, <1>4, <1>5 DEF TypeControl, TypeOK

LEMMA BeginTypes == ASSUME TypeControl, Begin PROVE TypeControl'
<1> TypeOK /\ Control BY DEF TypeControl
<1>1. FlagsOK'
  BY Zenon DEF TypeOK, FlagsOK, Begin
<1>2. SessionOK' /\ CountsOK' /\ CopiesOK' /\ HostOK' /\ JobOK'
  BY DEF TypeOK, SessionOK, Begin, States, Live, JobOK, CountsOK, CopiesOK, HostOK
<1>3. Control'
  BY DEF Control, IsLive, Live, Taken, Fresh, Ending, Begin, TypeOK, JobOK, CountsOK
<1> QED BY <1>1, <1>2, <1>3 DEF TypeControl, TypeOK

LEMMA SnapshotTypes == ASSUME TypeControl, Snapshot PROVE TypeControl'
<1> TypeOK /\ Control BY DEF TypeControl
<1>1. FlagsOK'
  BY Zenon DEF TypeOK, FlagsOK, Snapshot
<1>2. SessionOK' /\ CountsOK' /\ HostOK'
  BY DEF TypeOK, SessionOK, Snapshot, CountsOK, HostOK
<1>3. CopiesOK'
  BY FreshType DEF TypeOK, CopiesOK, Snapshot
<1>4. JobOK'
  BY WantedType DEF TypeOK, JobOK, Snapshot
<1>5. Control'
  <2>1. op = "snapshot" /\ op' = "take" /\ cont' = "created" /\ UNCHANGED <<sid, state, req, used>>
    BY DEF Snapshot
  <2>2. state = "creating" /\ sid # None /\ sid \in used /\ req.id = sid /\ req.backend \in Backends
    BY <2>1 DEF Control, Live, TypeOK, JobOK
  <2> QED BY <2>1, <2>2 DEF Control, IsLive, Live, Taken, Fresh, Ending
<1> QED BY <1>1, <1>2, <1>3, <1>4, <1>5 DEF TypeControl, TypeOK

LEMMA SnapshotFailsTypes == ASSUME TypeControl, SnapshotFails PROVE TypeControl'
<1> TypeOK /\ Control BY DEF TypeControl
<1>1. FlagsOK'
  BY Zenon DEF TypeOK, FlagsOK, SnapshotFails
<1>2. SessionOK' /\ HostOK'
  BY DEF TypeOK, SessionOK, SnapshotFails, HostOK
<1>3. CountsOK'
  BY FaultType DEF TypeOK, CountsOK, SnapshotFails
<1>4. CopiesOK'
  BY FreshType, JobDoneType DEF TypeOK, CopiesOK, SnapshotFails
<1>5. JobOK'
  BY JobDoneType DEF TypeOK, JobOK, SnapshotFails
<1>6. Control'
  BY DEF Control, IsLive, Live, Taken, Fresh, Ending, SnapshotFails, JobDone
<1> QED BY <1>1, <1>2, <1>3, <1>4, <1>5, <1>6 DEF TypeControl, TypeOK

LEMMA TakeSkipTypes == ASSUME TypeControl, NEW r \in todo, TakeSkip(r) PROVE TypeControl'
<1> TypeOK /\ Control BY DEF TypeControl
<1>1. FlagsOK'
  BY Zenon DEF TypeOK, FlagsOK, TakeSkip
<1>2. SessionOK' /\ CountsOK' /\ CopiesOK' /\ HostOK' /\ JobOK'
  BY DEF TypeOK, SessionOK, TakeSkip, CountsOK, CopiesOK, HostOK, JobOK
<1>3. Control'
  BY DEF Control, IsLive, Live, Taken, Fresh, Ending, TakeSkip
<1> QED BY <1>1, <1>2, <1>3 DEF TypeControl, TypeOK

LEMMA TakeMarkTypes == ASSUME TypeControl, NEW r \in todo, TakeMark(r) PROVE TypeControl'
<1> TypeOK /\ Control BY DEF TypeControl
<1> Noted(MarkOf(r)) \in Record
  BY NotedType, MarkType DEF TypeOK, CopiesOK, JobOK
<1>1. FlagsOK'
  BY Zenon DEF TypeOK, FlagsOK, TakeMark
<1>2. SessionOK' /\ CountsOK' /\ HostOK' /\ JobOK'
  BY DEF TypeOK, SessionOK, TakeMark, CountsOK, HostOK, JobOK
<1>3. CopiesOK'
  BY NotedType, MarkType DEF TypeOK, CopiesOK, TakeMark, JobOK
<1>4. Control'
  BY DEF Control, IsLive, Live, Taken, Fresh, Ending, TakeMark
<1> QED BY <1>1, <1>2, <1>3, <1>4 DEF TypeControl, TypeOK

LEMMA MarkFailsTypes == ASSUME TypeControl, NEW r \in todo, MarkFails(r) PROVE TypeControl'
<1> TypeOK /\ Control BY DEF TypeControl
<1> Noted(MarkOf(r)) \in Record
  BY NotedType, MarkType DEF TypeOK, CopiesOK, JobOK
<1>1. FlagsOK'
  BY Zenon DEF TypeOK, FlagsOK, MarkFails, DiskRefuses
<1>2. HostOK'
  BY DEF TypeOK, HostOK, MarkFails
<1>3. SessionOK'
  BY DiskRefusesType DEF TypeOK, SessionOK, MarkFails
<1>4. CountsOK'
  BY DiskRefusesType, FaultType DEF TypeOK, CountsOK, MarkFails
<1>5. CopiesOK'
  BY DiskRefusesType, ReadType DEF TypeOK, CopiesOK, MarkFails, DiskRefuses
<1>6. JobOK'
  BY DiskRefusesType DEF TypeOK, JobOK, MarkFails
<1>7. Control'
  BY DEF Control, IsLive, Live, Taken, Fresh, Ending, MarkFails, ToMark, DiskRefuses, Failed,
         StartRestore
<1> QED BY <1>1, <1>2, <1>3, <1>4, <1>5, <1>6, <1>7 DEF TypeControl, TypeOK

LEMMA TakeActTypes == ASSUME TypeControl, NEW r \in todo, TakeAct(r) PROVE TypeControl'
<1> TypeOK /\ Control BY DEF TypeControl
<1> sid \in Sessions /\ req.backend \in Backends
  BY DEF TypeOK, SessionOK, JobOK, Control, Taken, Live, TakeAct, ToTake
<1>1. FlagsOK'
  BY Zenon DEF TypeOK, FlagsOK, TakeAct
<1>2. SessionOK' /\ CountsOK' /\ CopiesOK' /\ JobOK'
  BY DEF TypeOK, SessionOK, TakeAct, CountsOK, CopiesOK, JobOK
<1>3. HostOK'
  BY EffectType DEF TypeOK, HostOK, TakeAct, JobOK
<1>4. Control'
  BY DEF Control, IsLive, Live, Taken, Fresh, Ending, TakeAct, ToTake
<1> QED BY <1>1, <1>2, <1>3, <1>4 DEF TypeControl, TypeOK

LEMMA ConfirmTypes == ASSUME TypeControl, Confirm PROVE TypeControl'
<1> TypeOK /\ Control BY DEF TypeControl
<1> Noted("dpms") \in Record
  BY NotedType DEF TypeOK, CopiesOK, Marks, Steps, OfTakeover
<1>1. FlagsOK'
  BY Zenon DEF TypeOK, FlagsOK, Confirm
<1>2. SessionOK' /\ CountsOK' /\ CopiesOK' /\ HostOK' /\ JobOK'
  BY DEF TypeOK, SessionOK, Confirm, CountsOK, CopiesOK, HostOK, JobOK
<1>3. Control'
  BY DEF Control, IsLive, Live, Taken, Fresh, Ending, Confirm
<1> QED BY <1>1, <1>2, <1>3 DEF TypeControl, TypeOK

LEMMA ConfirmFailsTypes == ASSUME TypeControl, ConfirmFails PROVE TypeControl'
<1> TypeOK /\ Control BY DEF TypeControl
<1> Noted("dpms") \in Record
  BY NotedType DEF TypeOK, CopiesOK, Marks, Steps, OfTakeover
<1>1. FlagsOK'
  BY Zenon DEF TypeOK, FlagsOK, ConfirmFails, DiskRefuses
<1>2. HostOK'
  BY DEF TypeOK, HostOK, ConfirmFails
<1>3. SessionOK'
  BY DiskRefusesType DEF TypeOK, SessionOK, ConfirmFails
<1>4. CountsOK'
  BY DiskRefusesType, FaultType DEF TypeOK, CountsOK, ConfirmFails
<1>5. CopiesOK'
  BY DiskRefusesType DEF TypeOK, CopiesOK, ConfirmFails
<1>6. JobOK'
  BY DiskRefusesType DEF TypeOK, JobOK, ConfirmFails
<1>7. Control'
  BY DEF Control, IsLive, Live, Taken, Fresh, Ending, ConfirmFails, DiskRefuses, Failed,
         StartRestore
<1> QED BY <1>1, <1>2, <1>3, <1>4, <1>5, <1>6, <1>7 DEF TypeControl, TypeOK

LEMMA TakeShruggedTypes ==
  ASSUME TypeControl, NEW r \in todo, TakeShrugged(r)
  PROVE  TypeControl'
<1> TypeOK /\ Control BY DEF TypeControl
<1> sid \in Sessions /\ req.backend \in Backends
  BY DEF TypeOK, SessionOK, JobOK, Control, Taken, Live, TakeShrugged, ToTake
<1>1. FlagsOK'
  BY Zenon DEF TypeOK, FlagsOK, TakeShrugged
<1>2. SessionOK' /\ CopiesOK' /\ JobOK'
  BY DEF TypeOK, SessionOK, TakeShrugged, CopiesOK, JobOK
<1>3. CountsOK'
  BY FaultType DEF TypeOK, CountsOK, TakeShrugged
<1>4. HostOK'
  BY EffectType DEF TypeOK, HostOK, TakeShrugged, JobOK
<1>5. Control'
  BY DEF Control, IsLive, Live, Taken, Fresh, Ending, TakeShrugged
<1> QED BY <1>1, <1>2, <1>3, <1>4, <1>5 DEF TypeControl, TypeOK

LEMMA TakeFailsTypes == ASSUME TypeControl, NEW r \in todo, TakeFails(r) PROVE TypeControl'
<1> TypeOK /\ Control BY DEF TypeControl
<1> sid \in Sessions /\ req.backend \in Backends
  BY DEF TypeOK, SessionOK, JobOK, Control, Taken, Live, TakeFails, ToTake
<1>1. FlagsOK'
  BY Zenon DEF TypeOK, FlagsOK, TakeFails
<1>2. SessionOK'
  BY HostRefusesType DEF TypeOK, SessionOK, TakeFails
<1>3. CountsOK'
  BY HostRefusesType, FaultType DEF TypeOK, CountsOK, TakeFails
<1>4. CopiesOK'
  BY HostRefusesType DEF TypeOK, CopiesOK, TakeFails
<1>5. HostOK'
  BY EffectType DEF TypeOK, HostOK, TakeFails, JobOK
<1>6. JobOK'
  BY HostRefusesType DEF TypeOK, JobOK, TakeFails
<1>7. Control'
  BY DEF Control, IsLive, Live, Taken, Fresh, Ending, TakeFails, ToTake, HostRefuses, Failed,
         Missed, StartRestore, JobDone
<1> QED BY <1>1, <1>2, <1>3, <1>4, <1>5, <1>6, <1>7 DEF TypeControl, TypeOK

LEMMA ReadyTypes == ASSUME TypeControl, Ready PROVE TypeControl'
<1> TypeOK /\ Control BY DEF TypeControl
<1>1. FlagsOK'
  BY Zenon DEF TypeOK, FlagsOK, Ready
<1>2. SessionOK' /\ HostOK'
  BY DEF TypeOK, SessionOK, Ready, States, Live, HostOK
<1>3. CountsOK'
  BY FaultType DEF TypeOK, CountsOK, Ready
<1>4. CopiesOK'
  BY JobDoneType DEF TypeOK, CopiesOK, Ready, Advanced
<1>5. JobOK'
  BY JobDoneType DEF TypeOK, JobOK, Ready
<1>6. Control'
  BY DEF Control, IsLive, Live, Taken, Fresh, Ending, Ready, JobDone
<1> QED BY <1>1, <1>2, <1>3, <1>4, <1>5, <1>6 DEF TypeControl, TypeOK

LEMMA ResizeTypes == ASSUME TypeControl, NEW b \in Backends, Resize(b) PROVE TypeControl'
<1> TypeOK /\ Control BY DEF TypeControl
<1>1. FlagsOK'
  BY Zenon DEF TypeOK, FlagsOK, Resize
<1>2. SessionOK' /\ HostOK'
  BY DEF TypeOK, SessionOK, Resize, ReapplyBegin, ReapplyStuck, States, Live, HostOK
<1>3. CountsOK'
  BY FaultType DEF TypeOK, CountsOK, Resize, ReapplyStuck
<1>4. CopiesOK'
  BY JobDoneType DEF TypeOK, CopiesOK, Resize, ReapplyBegin, ReapplyStuck, Advanced
<1>5. JobOK'
  <2>1. CASE ReapplyBegin(b, "resized")
    BY <2>1 DEF TypeOK, JobOK, ReapplyBegin, SessionOK
  <2>2. CASE ReapplyStuck
    BY <2>2, JobDoneType DEF ReapplyStuck
  <2> QED BY <2>1, <2>2 DEF Resize
<1>6. Control'
  <2>1. UNCHANGED <<sid, used>> /\ sid # None /\ op = "none"
    BY DEF Resize, Control, Free, Live
  <2>2. CASE ReapplyBegin(b, "resized")
    BY <2>1, <2>2 DEF Control, IsLive, Live, Taken, Fresh, Ending, ReapplyBegin
  <2>3. CASE ReapplyStuck
    BY <2>1, <2>3 DEF Control, IsLive, Live, Taken, Fresh, Ending, ReapplyStuck, JobDone
  <2> QED BY <2>2, <2>3 DEF Resize
<1> QED BY <1>1, <1>2, <1>3, <1>4, <1>5, <1>6 DEF TypeControl, TypeOK

LEMMA StopOldTypes == ASSUME TypeControl, StopOld PROVE TypeControl'
<1> TypeOK /\ Control BY DEF TypeControl
<1>1. FlagsOK'
  BY Zenon DEF TypeOK, FlagsOK, StopOld
<1>2. SessionOK' /\ CountsOK' /\ CopiesOK' /\ HostOK' /\ JobOK'
  BY DEF TypeOK, SessionOK, StopOld, CountsOK, CopiesOK, HostOK, JobOK
<1>3. Control'
  BY DEF Control, IsLive, Live, Taken, Fresh, Ending, StopOld
<1> QED BY <1>1, <1>2, <1>3 DEF TypeControl, TypeOK

LEMMA StopFailsTypes == ASSUME TypeControl, StopFails PROVE TypeControl'
<1> TypeOK /\ Control BY DEF TypeControl
<1>1. FlagsOK'
  BY Zenon DEF TypeOK, FlagsOK, StopFails
<1>2. HostOK'
  BY DEF TypeOK, HostOK, StopFails
<1>3. SessionOK'
  BY HostRefusesType DEF TypeOK, SessionOK, StopFails
<1>4. CountsOK'
  BY HostRefusesType, FaultType DEF TypeOK, CountsOK, StopFails
<1>5. CopiesOK'
  BY HostRefusesType DEF TypeOK, CopiesOK, StopFails
<1>6. JobOK'
  BY HostRefusesType DEF TypeOK, JobOK, StopFails
<1>7. Control'
  BY DEF Control, IsLive, Live, Taken, Fresh, Ending, StopFails, HostRefuses, Failed, Missed,
         StartRestore, JobDone
<1> QED BY <1>1, <1>2, <1>3, <1>4, <1>5, <1>6, <1>7 DEF TypeControl, TypeOK

LEMMA ConfigureTypes == ASSUME TypeControl, Configure PROVE TypeControl'
<1> TypeOK /\ Control BY DEF TypeControl
<1> sid \in Sessions /\ req.backend \in Backends
  BY DEF TypeOK, SessionOK, JobOK, Control, Taken, Live, Configure
<1> Effect("output") \subseteq Sessions \X Things
  BY EffectType DEF Steps, AnyMode
<1>1. FlagsOK'
  BY Zenon DEF TypeOK, FlagsOK, Configure
<1>2. SessionOK' /\ CountsOK' /\ HostOK'
  BY DEF TypeOK, SessionOK, Configure, JobOK, CountsOK, HostOK
<1>3. CopiesOK'
  BY BackendType DEF TypeOK, CopiesOK, Configure, JobOK
<1>4. JobOK'
  BY ConstantsType DEF TypeOK, JobOK, Configure, Steps, OfTakeover, AnyMode
<1>5. Control'
  BY DEF Control, IsLive, Live, Taken, Fresh, Ending, Configure
<1> QED BY <1>1, <1>2, <1>3, <1>4, <1>5 DEF TypeControl, TypeOK

LEMMA ConfigureFailsTypes == ASSUME TypeControl, ConfigureFails PROVE TypeControl'
<1> TypeOK /\ Control BY DEF TypeControl
<1> sid \in Sessions /\ req.backend \in Backends
  BY DEF TypeOK, SessionOK, JobOK, Control, Taken, Live, ConfigureFails
<1> [record EXCEPT !.backend = req.backend] \in Record
  BY BackendType DEF TypeOK, CopiesOK
<1> Effect("output") \subseteq Sessions \X Things
  BY EffectType DEF Steps, AnyMode
<1>1. FlagsOK'
  BY Zenon DEF TypeOK, FlagsOK, ConfigureFails, DiskRefuses
<1>2. HostOK'
  BY DEF TypeOK, HostOK, ConfigureFails
<1>3. SessionOK'
  BY HostRefusesType, DiskRefusesType DEF TypeOK, SessionOK, ConfigureFails
<1>4. CountsOK'
  BY HostRefusesType, DiskRefusesType, FaultType DEF TypeOK, CountsOK, ConfigureFails
<1>5. CopiesOK'
  BY HostRefusesType, DiskRefusesType DEF TypeOK, CopiesOK, ConfigureFails
<1>6. JobOK'
  BY HostRefusesType, DiskRefusesType DEF TypeOK, JobOK, ConfigureFails
<1>7. Control'
  BY DEF Control, IsLive, Live, Taken, Fresh, Ending, ConfigureFails, DiskRefuses, HostRefuses,
         Failed, Missed, StartRestore, JobDone
<1> QED BY <1>1, <1>2, <1>3, <1>4, <1>5, <1>6, <1>7 DEF TypeControl, TypeOK

LEMMA RestoreStepTypes == ASSUME TypeControl, NEW r \in todo, RestoreStep(r) PROVE TypeControl'
<1> TypeOK /\ Control BY DEF TypeControl
<1> r \in Steps
  BY DEF TypeOK, JobOK
<1>1. FlagsOK'
  BY Zenon DEF TypeOK, FlagsOK, RestoreStep
<1>2. SessionOK' /\ JobOK'
  BY DEF TypeOK, SessionOK, RestoreStep, JobOK
<1>6. HostOK'
  <2>1. Reclaimed(r) \subseteq Sessions \X Things
    BY DEF Reclaimed, Things, TypeOK, CopiesOK, Record
  <2> QED BY <2>1 DEF TypeOK, HostOK, RestoreStep
<1>3. CountsOK'
  BY FaultType DEF TypeOK, CountsOK, RestoreStep
<1>4. CopiesOK'
  BY ReadType DEF TypeOK, CopiesOK, RestoreStep
<1>5. Control'
  BY DEF Control, IsLive, Live, Taken, Fresh, Ending, RestoreStep
<1> QED BY <1>1, <1>2, <1>3, <1>4, <1>5, <1>6 DEF TypeControl, TypeOK

LEMMA RestoreDoneTypes == ASSUME TypeControl, RestoreDone PROVE TypeControl'
<1> TypeOK /\ Control BY DEF TypeControl
<1>1. FlagsOK'
  BY Zenon DEF TypeOK, FlagsOK, RestoreDone
<1>2. SessionOK' /\ HostOK'
  BY DEF TypeOK, SessionOK, RestoreDone, States, HostOK
<1>3. CountsOK'
  BY KeepType DEF TypeOK, CountsOK, RestoreDone, CopiesOK
<1>4. CopiesOK'
  <2>1. rrec' \in Record
    BY JobDoneType DEF RestoreDone
  <2>2. [record EXCEPT !.failed = errs] \in Record
    BY FailedType DEF TypeOK, CopiesOK, JobOK
  <2>3. CASE errs = {} /\ disk' = Unlinked /\ UNCHANGED <<memoryVars, faults, dropped>>
    BY <2>1, <2>3, ConstantsType DEF TypeOK, CopiesOK, Unlinked
  <2>4. CASE Keep(record) /\ record' = [record EXCEPT !.failed = errs]
    BY <2>1, <2>2, <2>4, KeepType DEF TypeOK, CopiesOK
  <2> QED BY <2>3, <2>4 DEF RestoreDone
<1>5. JobOK'
  BY JobDoneType DEF TypeOK, JobOK, RestoreDone
<1>6. Control'
  BY DEF Control, IsLive, Live, Taken, Fresh, Ending, RestoreDone, Restored, JobDone
<1> QED BY <1>1, <1>2, <1>3, <1>4, <1>5, <1>6 DEF TypeControl, TypeOK

LEMMA ReapplyDoneTypes == ASSUME TypeControl, ReapplyDone PROVE TypeControl'
<1> TypeOK /\ Control BY DEF TypeControl
<1>1. FlagsOK'
  BY Zenon DEF TypeOK, FlagsOK, ReapplyDone
<1>2. SessionOK' /\ CountsOK' /\ HostOK'
  <2>1. SessionOK' /\ HostOK'
    BY DEF TypeOK, SessionOK, ReapplyDone, HostOK
  <2>2. rrec.id \in Sessions \cup {None}
    BY DEF TypeOK, CopiesOK, Record
  <2>3. dropped' \in SUBSET (Sessions \cup {None})
    BY <2>2 DEF TypeOK, CountsOK, ReapplyDone
  <2>4. CountsOK'
    BY <2>3 DEF TypeOK, CountsOK, ReapplyDone
  <2> QED BY <2>1, <2>4
<1>3. CopiesOK'
  BY ConstantsType, JobDoneType DEF TypeOK, CopiesOK, ReapplyDone, Unlinked
<1>4. JobOK'
  BY JobDoneType DEF TypeOK, JobOK, ReapplyDone
<1>5. Control'
  BY DEF Control, IsLive, Live, Taken, Fresh, Ending, ReapplyDone, JobDone
<1> QED BY <1>1, <1>2, <1>3, <1>4, <1>5 DEF TypeControl, TypeOK

LEMMA RetryDoneTypes == ASSUME TypeControl, RetryDone PROVE TypeControl'
<1> TypeOK /\ Control BY DEF TypeControl
<1>1. FlagsOK'
  BY Zenon DEF TypeOK, FlagsOK, RetryDone
<1>2. SessionOK' /\ CountsOK' /\ HostOK'
  <2>1. SessionOK' /\ HostOK'
    BY DEF TypeOK, SessionOK, RetryDone, States, HostOK
  <2>2. rrec.id \in Sessions \cup {None}
    BY DEF TypeOK, CopiesOK, Record
  <2>3. dropped' \in SUBSET (Sessions \cup {None})
    BY <2>2 DEF TypeOK, CountsOK, RetryDone
  <2>4. CountsOK'
    BY <2>3 DEF TypeOK, CountsOK, RetryDone
  <2> QED BY <2>1, <2>4
<1>3. CopiesOK'
  <2>1. rrec' \in Record /\ record' \in Record
    BY ConstantsType, JobDoneType DEF RetryDone, TypeOK, CopiesOK
  <2>2. disk' \in [Sessions -> Record]
    BY ConstantsType DEF RetryDone, TypeOK, CopiesOK, Unlinked
  <2>3. NoRetry \in [rec : Record, steps : SUBSET Steps, tries : Nat]
    BY ConstantsType DEF NoRetry
  <2>4. [rec |-> rrec, steps |-> errs, tries |-> unfinished.tries + 1]
          \in [rec : Record, steps : SUBSET Steps, tries : Nat]
    <3>1. unfinished.tries + 1 \in Nat
      BY DEF TypeOK, CopiesOK
    <3>2. rrec \in Record /\ errs \in SUBSET Steps
      BY DEF TypeOK, CopiesOK, JobOK
    <3> QED BY <3>1, <3>2
  <2>5. unfinished' \in [rec : Record, steps : SUBSET Steps, tries : Nat]
    BY <2>3, <2>4 DEF RetryDone
  <2> QED BY <2>1, <2>2, <2>5 DEF CopiesOK
<1>4. JobOK'
  BY JobDoneType DEF TypeOK, JobOK, RetryDone
<1>5. Control'
  BY DEF Control, IsLive, Live, Taken, Fresh, Ending, RetryDone, Restored, JobDone
<1> QED BY <1>1, <1>2, <1>3, <1>4, <1>5 DEF TypeControl, TypeOK

LEMMA RecoveredOneTypes == ASSUME TypeControl, RecoveredOne PROVE TypeControl'
<1> TypeOK /\ Control BY DEF TypeControl
<1>1. FlagsOK'
  BY Zenon DEF TypeOK, FlagsOK, RecoveredOne
<1>2. SessionOK' /\ HostOK' /\ JobOK'
  BY DEF TypeOK, SessionOK, RecoveredOne, HostOK, JobOK
<1>3. CountsOK'
  BY KeepType DEF TypeOK, CountsOK, RecoveredOne, CopiesOK
<1>4. CopiesOK'
  BY KeepType, ConstantsType DEF TypeOK, CopiesOK, RecoveredOne, Unlinked
<1>5. Control'
  BY DEF Control, IsLive, Live, Taken, Fresh, Ending, RecoveredOne, Restored
<1> QED BY <1>1, <1>2, <1>3, <1>4, <1>5 DEF TypeControl, TypeOK

LEMMA ReleaseTypes == ASSUME TypeControl, Release PROVE TypeControl'
<1> TypeOK /\ Control BY DEF TypeControl
<1>1. FlagsOK'
  BY Zenon DEF TypeOK, FlagsOK, Release
<1>2. HostOK'
  BY DEF TypeOK, HostOK, Release
<1>3. SessionOK'
  BY StopSessionType DEF TypeOK, SessionOK, Release
<1>4. CountsOK'
  BY StopSessionType DEF TypeOK, CountsOK, Release
<1>5. CopiesOK'
  BY StopSessionType, StartRestoreType DEF TypeOK, CopiesOK, Release
<1>6. JobOK'
  BY StopSessionType, StartRestoreType DEF TypeOK, JobOK, Release, CopiesOK
<1>7. Control'
  BY DEF Control, IsLive, Live, Taken, Fresh, Ending, Release, Free, StopSession, StartRestore,
         JobDone
<1> QED BY <1>1, <1>2, <1>3, <1>4, <1>5, <1>6, <1>7 DEF TypeControl, TypeOK

LEMMA ExpireTypes == ASSUME TypeControl, Expire PROVE TypeControl'
<1> TypeOK /\ Control BY DEF TypeControl
<1>1. FlagsOK'
  BY Zenon DEF TypeOK, FlagsOK, Expire
<1>2. HostOK'
  BY DEF TypeOK, HostOK, Expire
<1>3. SessionOK'
  BY StopSessionType DEF TypeOK, SessionOK, Expire
<1>4. CountsOK'
  BY StopSessionType DEF TypeOK, CountsOK, Expire
<1>5. CopiesOK'
  BY StopSessionType DEF TypeOK, CopiesOK, Expire
<1>6. JobOK'
  BY StopSessionType DEF TypeOK, JobOK, Expire
<1>7. Control'
  BY DEF Control, IsLive, Live, Taken, Fresh, Ending, Expire, Free, StopSession, StartRestore,
         JobDone
<1> QED BY <1>1, <1>2, <1>3, <1>4, <1>5, <1>6, <1>7 DEF TypeControl, TypeOK

LEMMA BackgroundRetryTypes == ASSUME TypeControl, BackgroundRetry PROVE TypeControl'
<1> TypeOK /\ Control BY DEF TypeControl
<1>1. FlagsOK'
  BY Zenon DEF TypeOK, FlagsOK, BackgroundRetry
<1>2. SessionOK' /\ CountsOK' /\ HostOK'
  BY DEF TypeOK, SessionOK, BackgroundRetry, CountsOK, HostOK
<1>3. CopiesOK'
  BY StartRestoreType DEF TypeOK, CopiesOK, BackgroundRetry
<1>4. JobOK'
  BY StartRestoreType DEF TypeOK, JobOK, BackgroundRetry, CopiesOK
<1>5. Control'
  BY DEF Control, IsLive, Live, Taken, Fresh, Ending, BackgroundRetry, StartRestore
<1> QED BY <1>1, <1>2, <1>3, <1>4, <1>5 DEF TypeControl, TypeOK

LEMMA WatchShellTypes == ASSUME TypeControl, WatchShell PROVE TypeControl'
<1> TypeOK /\ Control BY DEF TypeControl
<1>1. FlagsOK'
  BY Zenon DEF TypeOK, FlagsOK, WatchShell
<1>2. SessionOK' /\ HostOK'
  BY DEF TypeOK, SessionOK, HostOK, WatchShell
<1>3. CountsOK' /\ JobOK'
  <2>1. faults' = faults \/ faults' = faults + 1
    BY DEF WatchShell, Fault
  <2>2. CountsOK'
    BY <2>1 DEF TypeOK, CountsOK, WatchShell
  <2>3. JobOK'
    BY DEF TypeOK, JobOK, WatchShell
  <2> QED BY <2>2, <2>3
<1>4. CopiesOK'
  BY DEF TypeOK, CopiesOK, WatchShell, Advanced
<1>5. Control'
  BY DEF Control, IsLive, Live, Taken, Fresh, Ending, WatchShell
<1> QED BY <1>1, <1>2, <1>3, <1>4, <1>5 DEF TypeControl, TypeOK

LEMMA RecoverTypes == ASSUME TypeControl, Recover PROVE TypeControl'
<1> TypeOK /\ Control BY DEF TypeControl
<1>1. FlagsOK'
  BY Zenon DEF TypeOK, FlagsOK, Recover
<1>2. SessionOK' /\ CountsOK' /\ CopiesOK' /\ HostOK' /\ JobOK'
  BY DEF TypeOK, SessionOK, Recover, CountsOK, CopiesOK, HostOK, JobOK
<1>3. Control'
  BY DEF Control, IsLive, Live, Taken, Fresh, Ending, Recover
<1> QED BY <1>1, <1>2, <1>3 DEF TypeControl, TypeOK

LEMMA RecoverFileTypes == ASSUME TypeControl, NEW f \in files, RecoverFile(f) PROVE TypeControl'
<1> TypeOK /\ Control BY DEF TypeControl
<1>1. FlagsOK'
  BY Zenon DEF TypeOK, FlagsOK, RecoverFile
<1>2. SessionOK' /\ CountsOK' /\ HostOK'
  BY DEF TypeOK, SessionOK, RecoverFile, CountsOK, HostOK
<1>3. CopiesOK'
  <2>1. f \in Sessions
    BY DEF TypeOK, JobOK
  <2>2. rrec' = rrec \/ rrec' = disk[f]
    BY DEF RecoverFile
  <2>3. UNCHANGED <<record, disk, unfinished>>
    BY DEF RecoverFile
  <2> QED BY <2>1, <2>2, <2>3 DEF TypeOK, CopiesOK
<1>4. JobOK'
  BY OwedType DEF TypeOK, JobOK, RecoverFile, CopiesOK
<1>5. Control'
  BY DEF Control, IsLive, Live, Taken, Fresh, Ending, RecoverFile
<1> QED BY <1>1, <1>2, <1>3, <1>4, <1>5 DEF TypeControl, TypeOK

LEMMA RecoverDoneTypes == ASSUME TypeControl, RecoverDone PROVE TypeControl'
<1> TypeOK /\ Control BY DEF TypeControl
<1>1. FlagsOK'
  BY Zenon DEF TypeOK, FlagsOK, RecoverDone
<1>2. SessionOK' /\ CountsOK' /\ HostOK'
  BY DEF TypeOK, SessionOK, RecoverDone, States, CountsOK, HostOK
<1>3. CopiesOK'
  BY JobDoneType DEF TypeOK, CopiesOK, RecoverDone
<1>4. JobOK'
  BY JobDoneType DEF TypeOK, JobOK, RecoverDone
<1>5. Control'
  BY DEF Control, IsLive, Live, Taken, Fresh, Ending, RecoverDone, JobDone
<1> QED BY <1>1, <1>2, <1>3, <1>4, <1>5 DEF TypeControl, TypeOK

LEMMA ReconcileTypes == ASSUME TypeControl, Reconcile PROVE TypeControl'
<1> TypeOK /\ Control BY DEF TypeControl
<1>1. FlagsOK'
  BY Zenon DEF TypeOK, FlagsOK, Reconcile
<1>2. /\ sid \in Sessions /\ sid \in used /\ op = "none" /\ state = "ready"
      /\ UNCHANGED <<sid, mode, backend, record, unfinished, used, crashes, reloads, dropped>>
  BY DEF TypeOK, SessionOK, Control, Live, Free, Reconcile
<1>3. HostOK'
  BY <1>2, ConstantsType DEF TypeOK, HostOK, Reconcile, Enforced
<1>4. faults' \in Nat
  BY FaultType DEF TypeOK, CountsOK, Reconcile
<1>5. \/ ReapplyBegin(backend, "rebuilt") /\ UNCHANGED <<misses, drifted>>
      \/ /\ state' \in {"ready", "resizing"} /\ misses' \in {0, misses}
         /\ UNCHANGED <<disk, jobVars>>
      \/ Missed /\ UNCHANGED <<drifted, disk>>
  BY DEF Reconcile
<1>6. CASE ReapplyBegin(backend, "rebuilt") /\ UNCHANGED <<misses, drifted>>
  <2>1. SessionOK' /\ CountsOK' /\ CopiesOK'
    BY <1>2, <1>4, <1>6 DEF TypeOK, SessionOK, CountsOK, CopiesOK, ReapplyBegin, States, Live,
                            Advanced
  <2>2. JobOK'
    BY <1>2, <1>6 DEF TypeOK, SessionOK, JobOK, ReapplyBegin
  <2>3. Control'
    BY <1>2, <1>6 DEF Control, IsLive, Live, Taken, Fresh, Ending, ReapplyBegin, TypeOK, SessionOK
  <2> QED BY <1>1, <1>3, <2>1, <2>2, <2>3 DEF TypeControl, TypeOK
<1>7. CASE /\ state' \in {"ready", "resizing"} /\ misses' \in {0, misses}
           /\ UNCHANGED <<disk, jobVars>>
  <2>1. SessionOK' /\ CountsOK'
    BY <1>2, <1>4, <1>7 DEF TypeOK, SessionOK, CountsOK, States, Live
  <2>2. CopiesOK' /\ JobOK'
    BY <1>2, <1>7 DEF TypeOK, CopiesOK, JobOK
  <2>3. Control'
    BY <1>2, <1>7 DEF Control, IsLive, Live, Taken, Fresh, Ending
  <2> QED BY <1>1, <1>3, <2>1, <2>2, <2>3 DEF TypeControl, TypeOK
<1>8. CASE Missed /\ UNCHANGED <<drifted, disk>>
  <2>1. SessionOK' /\ CountsOK' /\ CopiesOK' /\ JobOK'
    BY <1>2, <1>4, <1>8, MissedJob DEF TypeOK, SessionOK, CountsOK, CopiesOK
  <2>2. Control'
    BY <1>2, <1>8 DEF Control, IsLive, Live, Taken, Fresh, Ending, Missed, StartRestore, JobDone
  <2> QED BY <1>1, <1>3, <2>1, <2>2 DEF TypeControl, TypeOK
<1> QED BY <1>5, <1>6, <1>7, <1>8

LEMMA HeartbeatTypes == ASSUME TypeControl, Heartbeat PROVE TypeControl'
<1> TypeOK /\ Control BY DEF TypeControl
<1>1. FlagsOK'
  BY Zenon DEF TypeOK, FlagsOK, Heartbeat
<1>2. SessionOK' /\ CountsOK' /\ CopiesOK' /\ HostOK' /\ JobOK'
  BY DEF TypeOK, SessionOK, Heartbeat, CountsOK, CopiesOK, HostOK, JobOK
<1>3. Control'
  BY DEF Control, IsLive, Live, Taken, Fresh, Ending, Heartbeat
<1> QED BY <1>1, <1>2, <1>3 DEF TypeControl, TypeOK

LEMMA LapseTypes == ASSUME TypeControl, Lapse PROVE TypeControl'
<1> TypeOK /\ Control BY DEF TypeControl
<1>1. FlagsOK'
  BY Zenon DEF TypeOK, FlagsOK, Lapse
<1>2. SessionOK' /\ CountsOK' /\ CopiesOK' /\ HostOK' /\ JobOK'
  BY DEF TypeOK, SessionOK, Lapse, CountsOK, CopiesOK, HostOK, JobOK
<1>3. Control'
  BY DEF Control, IsLive, Live, Taken, Fresh, Ending, Lapse
<1> QED BY <1>1, <1>2, <1>3 DEF TypeControl, TypeOK

LEMMA HostReloadTypes == ASSUME TypeControl, HostReload PROVE TypeControl'
<1> TypeOK /\ Control BY DEF TypeControl
<1>1. FlagsOK'
  BY Zenon DEF TypeOK, FlagsOK, HostReload
<1>2. SessionOK' /\ CountsOK' /\ CopiesOK' /\ JobOK'
  <2>1. /\ reloads' = reloads + 1
        /\ UNCHANGED <<sessionVars, memoryVars, disk, jobVars, used, faults, crashes, dropped>>
    BY DEF HostReload
  <2>2. CountsOK'
    BY <2>1 DEF TypeOK, CountsOK
  <2> QED BY <2>1, <2>2 DEF TypeOK, SessionOK, CopiesOK, JobOK
<1>3. HostOK'
  BY DEF TypeOK, HostOK, HostReload
<1>4. Control'
  BY DEF Control, IsLive, Live, Taken, Fresh, Ending, HostReload
<1> QED BY <1>1, <1>2, <1>3, <1>4 DEF TypeControl, TypeOK

LEMMA HostRemovesOutputTypes == ASSUME TypeControl, HostRemovesOutput PROVE TypeControl'
<1> TypeOK /\ Control BY DEF TypeControl
<1>1. FlagsOK'
  BY Zenon DEF TypeOK, FlagsOK, HostRemovesOutput
<1>2. SessionOK' /\ CountsOK' /\ CopiesOK' /\ JobOK'
  <2>1. /\ reloads' = reloads + 1
        /\ UNCHANGED <<sessionVars, memoryVars, disk, jobVars, used, faults, crashes, dropped>>
    BY DEF HostRemovesOutput
  <2>2. CountsOK'
    BY <2>1 DEF TypeOK, CountsOK
  <2> QED BY <2>1, <2>2 DEF TypeOK, SessionOK, CopiesOK, JobOK
<1>3. HostOK'
  BY DEF TypeOK, HostOK, HostRemovesOutput
<1>4. Control'
  BY DEF Control, IsLive, Live, Taken, Fresh, Ending, HostRemovesOutput
<1> QED BY <1>1, <1>2, <1>3, <1>4 DEF TypeControl, TypeOK

LEMMA CrashTypes == ASSUME TypeControl, Crash PROVE TypeControl'
<1> TypeOK /\ Control BY DEF TypeControl
<1>1. FlagsOK'
  BY Zenon DEF TypeOK, FlagsOK, Crash
<1>2. SessionOK' /\ HostOK' /\ JobOK'
  BY DEF TypeOK, SessionOK, Crash, States, Modes, Backends, HostOK, JobOK, NoReq
<1>3. CountsOK'
  <2>1. crashes' = crashes + 1 /\ misses' = 0 /\ dropped' = {} /\ UNCHANGED <<used, faults, reloads>>
    BY DEF Crash
  <2> QED BY <2>1 DEF TypeOK, CountsOK
<1>4. CopiesOK'
  BY ConstantsType DEF TypeOK, CopiesOK, Crash, NoRetry
<1>5. Control'
  BY DEF Control, IsLive, Live, Taken, Fresh, Ending, Crash
<1> QED BY <1>1, <1>2, <1>3, <1>4, <1>5 DEF TypeControl, TypeOK

LEMMA StutterTypes == ASSUME TypeControl, UNCHANGED vars PROVE TypeControl'
<1> TypeOK /\ Control BY DEF TypeControl
<1>1. FlagsOK'
  BY Zenon DEF TypeOK, FlagsOK, vars
<1>2. SessionOK' /\ CountsOK' /\ CopiesOK' /\ HostOK' /\ JobOK'
  BY DEF TypeOK, SessionOK, CountsOK, CopiesOK, HostOK, JobOK, vars
<1>3. Control'
  BY DEF Control, IsLive, Taken, Fresh, Ending, vars
<1> QED BY <1>1, <1>2, <1>3 DEF TypeControl, TypeOK

LEMMA NextTypes == ASSUME TypeControl, [Next]_vars PROVE TypeControl'
<1>1. CASE Job
  <2>1. CASE Taking
    BY <2>1, TakeSkipTypes, TakeMarkTypes, MarkFailsTypes, TakeActTypes, TakeShruggedTypes,
       TakeFailsTypes DEF Taking
  <2> QED BY <1>1, <2>1, SettleTypes, BeginRefusedTypes, BeginTypes, SnapshotTypes,
             SnapshotFailsTypes, ConfirmTypes, ConfirmFailsTypes, ReadyTypes, StopOldTypes,
             StopFailsTypes, ConfigureTypes, ConfigureFailsTypes, RestoreStepTypes,
             RestoreDoneTypes, ReapplyDoneTypes, RetryDoneTypes, RecoveredOneTypes,
             RecoverFileTypes, RecoverDoneTypes DEF Job
<1>2. CASE Clients
  BY <1>2, RequestTypes, ResizeTypes, ReleaseTypes, RecoverTypes, HeartbeatTypes DEF Clients
<1>3. CASE Watchdog
  BY <1>3, ExpireTypes, BackgroundRetryTypes, ReconcileTypes, WatchShellTypes DEF Watchdog
<1>4. CASE Host
  BY <1>4, LapseTypes, HostReloadTypes, HostRemovesOutputTypes, CrashTypes DEF Host
<1> QED BY <1>1, <1>2, <1>3, <1>4, StutterTypes DEF Next

\* Every variable keeps its type in every behaviour, whatever fails and crashes.
THEOREM TypeCorrect == Spec => []TypeOK
<1>1. TypeControl /\ [Next]_vars => TypeControl'
  BY NextTypes
<1>2. TypeControl => TypeOK
  BY DEF TypeControl
<1> QED BY InitTypeControl, <1>1, <1>2, PTL DEF Spec

=============================================================================
