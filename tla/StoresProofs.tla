---------------------------- MODULE StoresProofs ----------------------------
(***************************************************************************)
(* Proofs about the parts of MCStores: for each, that an invariant of its  *)
(* module is inductive (StaleIsSettled of the toasts, CredInv of the       *)
(* credentials, WatchInv and PaneInv of Herdr's sessions and panes,        *)
(* MediaInv of certificates in the fork, ClipInv, UploadInv, AttachInv,    *)
(* PrefInv and TextInv of what is shared), one lemma for each step; then   *)
(* of every behaviour what the run checks, and the types. The parts share  *)
(* no state: a step of another one leaves part, and so the claim, alone.   *)
(***************************************************************************)
EXTENDS MCStores, Integers, FiniteSetTheorems, SequenceTheorems, WellFoundedInduction, TLAPS

-----------------------------------------------------------------------------
(* Notices: each step keeps StaleIsSettled. *)

\* The toasts of ours are toasts.
LEMMA ToastSets == Ours \subseteq Toast!Toasts
  BY DEF Toast!Toasts

LEMMA ToastAsk ==
  ASSUME Toast!StaleIsSettled, NEW r \in ToastIds, Toast!Ask(r)
  PROVE  Toast!StaleIsSettled'
  BY SMTT(20), ToastAssumption, ToastSets DEF Toast!Ask, Toast!files, Toast!mirror,
     Toast!StaleIsSettled, Toast!TypeOK, Toast!WatchOK, Toast!WaitingStays, Toast!StaleOK,
     Toast!PostedOK, Toast!Listed, Toast!Steps, Toast!Found

LEMMA ToastDecide ==
  ASSUME Toast!StaleIsSettled, NEW r \in ToastIds, Toast!Decide(r)
  PROVE  Toast!StaleIsSettled'
  BY SMTT(20), ToastAssumption, ToastSets DEF Toast!Decide, Toast!Settle, Toast!files,
     Toast!mirror, Toast!StaleIsSettled, Toast!TypeOK, Toast!WatchOK, Toast!WaitingStays,
     Toast!StaleOK, Toast!PostedOK, Toast!Listed, Toast!Steps, Toast!Found

LEMMA ToastPost ==
  ASSUME Toast!StaleIsSettled, NEW t \in Toast!Toasts, NEW r \in ToastIds \cup {NoRequest}, Toast!Post(t, r)
  PROVE  Toast!StaleIsSettled'
  BY SMTT(20), ToastAssumption, ToastSets DEF Toast!Post, Toast!Unused, Toast!mirror,
     Toast!Found, Toast!StaleIsSettled, Toast!TypeOK, Toast!WatchOK, Toast!WaitingStays,
     Toast!StaleOK, Toast!PostedOK, Toast!Listed, Toast!Steps

LEMMA ToastLeave ==
  ASSUME Toast!StaleIsSettled, NEW t \in Toast!Toasts, Toast!Leave(t)
  PROVE  Toast!StaleIsSettled'
  BY SMTT(20), ToastAssumption, ToastSets DEF Toast!Leave, Toast!asked, Toast!mirror,
     Toast!StaleIsSettled, Toast!TypeOK, Toast!WatchOK, Toast!WaitingStays, Toast!StaleOK,
     Toast!PostedOK, Toast!Listed, Toast!Steps, Toast!Found

LEMMA ToastEvict ==
  ASSUME Toast!StaleIsSettled, NEW t \in Toast!Toasts, Toast!Evict(t)
  PROVE  Toast!StaleIsSettled'
  BY SMTT(20), ToastAssumption, ToastSets DEF Toast!Evict, Toast!asked, Toast!mirror,
     Toast!StaleIsSettled, Toast!TypeOK, Toast!WatchOK, Toast!WaitingStays, Toast!StaleOK,
     Toast!PostedOK, Toast!Listed, Toast!Steps, Toast!Found

LEMMA ToastReadScreen ==
  ASSUME Toast!StaleIsSettled, Toast!ReadScreen
  PROVE  Toast!StaleIsSettled'
<1>1. Toast!TypeOK'
  BY SMTT(20), ToastAssumption, ToastSets DEF Toast!ReadScreen, Toast!Idle, Toast!files,
     Toast!asked, Toast!mirror, Toast!Quiet, Toast!StaleIsSettled, Toast!TypeOK, Toast!Listed
<1>2. Toast!WaitingStays'
  BY SMTT(20), ToastAssumption, ToastSets DEF Toast!ReadScreen, Toast!Idle, Toast!files,
     Toast!asked, Toast!mirror, Toast!Quiet, Toast!StaleIsSettled, Toast!WaitingStays,
     Toast!TypeOK, Toast!Listed
<1>3. Toast!StaleOK'
  BY SMTT(20), ToastAssumption, ToastSets DEF Toast!ReadScreen, Toast!Idle, Toast!files,
     Toast!asked, Toast!mirror, Toast!Quiet, Toast!StaleIsSettled, Toast!StaleOK, Toast!TypeOK,
     Toast!Listed
<1>4. Toast!WatchOK'
  <2>1. x3 \in SUBSET Toast!Toasts /\ x4 \in SUBSET Toast!Toasts /\ Toast!WatchOK
    BY DEF Toast!StaleIsSettled, Toast!TypeOK
  <2>2. Toast!Quiet \in [Toast!Toasts -> Toast!Listed]
    BY DEF Toast!Quiet, Toast!Listed
  <2> QED BY <2>1, <2>2 DEF Toast!ReadScreen, Toast!WatchOK, Toast!Steps, Toast!Idle, Toast!asked,
     Toast!mirror
<1>5. Toast!PostedOK'
  BY SMTT(20), ToastAssumption, ToastSets DEF Toast!ReadScreen, Toast!Idle, Toast!files,
     Toast!asked, Toast!mirror, Toast!Quiet, Toast!StaleIsSettled, Toast!PostedOK, Toast!Found,
     Toast!TypeOK, Toast!Listed
<1> QED BY <1>1, <1>2, <1>3, <1>4, <1>5 DEF Toast!StaleIsSettled

LEMMA ToastReadHistory ==
  ASSUME Toast!StaleIsSettled, Toast!ReadHistory
  PROVE  Toast!StaleIsSettled'
<1>1. Toast!TypeOK'
  BY SMTT(20), ToastAssumption, ToastSets DEF Toast!ReadHistory, Toast!files, Toast!asked,
     Toast!mirror, Toast!StaleIsSettled, Toast!TypeOK, Toast!Listed
<1>2. Toast!WaitingStays'
  BY SMTT(20), ToastAssumption, ToastSets DEF Toast!ReadHistory, Toast!files, Toast!asked,
     Toast!mirror, Toast!StaleIsSettled, Toast!WaitingStays, Toast!TypeOK, Toast!Listed
<1>3. Toast!StaleOK'
  BY SMTT(20), ToastAssumption, ToastSets DEF Toast!ReadHistory, Toast!files, Toast!asked,
     Toast!mirror, Toast!StaleIsSettled, Toast!StaleOK, Toast!TypeOK, Toast!Listed
<1>4. Toast!WatchOK'
  <2>1. x3 \in SUBSET Toast!Toasts /\ x4 \in SUBSET Toast!Toasts /\ Toast!WatchOK
    BY DEF Toast!StaleIsSettled, Toast!TypeOK
  <2> QED BY <2>1 DEF Toast!ReadHistory, Toast!WatchOK, Toast!Steps
<1>5. Toast!PostedOK'
  BY SMTT(20), ToastAssumption, ToastSets DEF Toast!ReadHistory, Toast!files, Toast!asked,
     Toast!mirror, Toast!StaleIsSettled, Toast!PostedOK, Toast!Found, Toast!TypeOK, Toast!Listed
<1> QED BY <1>1, <1>2, <1>3, <1>4, <1>5 DEF Toast!StaleIsSettled

LEMMA ToastReadPending ==
  ASSUME Toast!StaleIsSettled, Toast!ReadPending
  PROVE  Toast!StaleIsSettled'
<1>1. Toast!TypeOK'
  BY SMTT(20), ToastAssumption, ToastSets DEF Toast!ReadPending, Toast!Decided, Toast!Found,
     Toast!files, Toast!asked, Toast!mirror, Toast!StaleIsSettled, Toast!TypeOK, Toast!Listed
<1>2. Toast!WaitingStays'
  BY SMTT(20), ToastAssumption, ToastSets DEF Toast!ReadPending, Toast!Decided, Toast!Found,
     Toast!files, Toast!asked, Toast!mirror, Toast!StaleIsSettled, Toast!WaitingStays,
     Toast!TypeOK, Toast!Listed
<1>3. Toast!StaleOK'
  BY SMTT(20), ToastAssumption, ToastSets DEF Toast!ReadPending, Toast!Decided, Toast!Found,
     Toast!files, Toast!asked, Toast!mirror, Toast!StaleIsSettled, Toast!TypeOK, Toast!WatchOK,
     Toast!WaitingStays, Toast!StaleOK, Toast!PostedOK, Toast!Listed, Toast!Steps
<1>4. Toast!WatchOK'
  <2>1. x3 \in SUBSET Toast!Toasts /\ x4 \in SUBSET Toast!Toasts /\ Toast!WatchOK
    BY DEF Toast!StaleIsSettled, Toast!TypeOK
  <2>2. Toast!Decided(Toast!Found) \in SUBSET Toast!Toasts
    BY ToastSets DEF Toast!Decided
  <2> QED BY <2>1, <2>2 DEF Toast!ReadPending, Toast!WatchOK, Toast!Steps
<1>5. Toast!PostedOK'
  BY SMTT(20), ToastAssumption, ToastSets DEF Toast!ReadPending, Toast!Decided, Toast!Found,
     Toast!files, Toast!asked, Toast!mirror, Toast!StaleIsSettled, Toast!PostedOK, Toast!TypeOK,
     Toast!Listed
<1> QED BY <1>1, <1>2, <1>3, <1>4, <1>5 DEF Toast!StaleIsSettled

LEMMA ToastApply ==
  ASSUME Toast!StaleIsSettled, Toast!Apply
  PROVE  Toast!StaleIsSettled'
<1>1. Toast!TypeOK'
  BY SMTT(20), ToastAssumption, ToastSets DEF Toast!Apply, Toast!After, Toast!Found, Toast!Drop,
     Toast!files, Toast!asked, Toast!StaleIsSettled, Toast!TypeOK, Toast!Listed
<1>2. Toast!WaitingStays'
  BY SMTT(20), ToastAssumption, ToastSets DEF Toast!Apply, Toast!After, Toast!Found, Toast!Drop,
     Toast!files, Toast!asked, Toast!StaleIsSettled, Toast!TypeOK, Toast!WatchOK,
     Toast!WaitingStays, Toast!StaleOK, Toast!PostedOK, Toast!Listed, Toast!Steps
<1>3. Toast!StaleOK'
  BY SMTT(20), ToastAssumption, ToastSets DEF Toast!Apply, Toast!After, Toast!Found, Toast!Drop,
     Toast!files, Toast!asked, Toast!StaleIsSettled, Toast!StaleOK, Toast!TypeOK, Toast!Listed
<1>4. Toast!WatchOK'
  <2>1. x3 \in SUBSET Toast!Toasts /\ x4 \in SUBSET Toast!Toasts /\ Toast!WatchOK
    BY DEF Toast!StaleIsSettled, Toast!TypeOK
  <2>2. \A t \in Toast!Toasts : Toast!After(t) \in Toast!Listed
    BY DEF Toast!StaleIsSettled, Toast!TypeOK, Toast!After, Toast!Listed
  <2>3. [t \in Toast!Toasts |-> IF x6[t] = Toast!After(t) THEN "none"
           ELSE IF Toast!Drop(t) THEN "gone" ELSE Toast!After(t)] \in [Toast!Toasts -> Toast!Listed]
    BY <2>2 DEF Toast!Listed
  <2> QED BY <2>1, <2>3 DEF Toast!Apply, Toast!WatchOK, Toast!Steps
<1>5. Toast!PostedOK'
  BY SMTT(20), ToastAssumption, ToastSets DEF Toast!Apply, Toast!After, Toast!Found, Toast!Drop,
     Toast!files, Toast!asked, Toast!StaleIsSettled, Toast!PostedOK, Toast!TypeOK, Toast!Listed
<1> QED BY <1>1, <1>2, <1>3, <1>4, <1>5 DEF Toast!StaleIsSettled

LEMMA ToastEmit ==
  ASSUME Toast!StaleIsSettled, Toast!Emit
  PROVE  Toast!StaleIsSettled'
  BY SMTT(20), ToastAssumption, ToastSets DEF Toast!Emit, Toast!Idle, Toast!files, Toast!asked,
     Toast!mirror, Toast!Quiet, Toast!StaleIsSettled, Toast!TypeOK, Toast!WatchOK,
     Toast!WaitingStays, Toast!StaleOK, Toast!PostedOK, Toast!Listed, Toast!Steps, Toast!Found

LEMMA ToastTargets ==
  ASSUME Toast!StaleIsSettled, Toast!Targets
  PROVE  Toast!StaleIsSettled'
<1>1. Toast!TypeOK'
  BY SMTT(20), ToastAssumption, ToastSets DEF Toast!Targets, Toast!Idle, Toast!files,
     Toast!asked, Toast!mirror, Toast!Quiet, Toast!StaleIsSettled, Toast!TypeOK, Toast!Listed
<1>2. Toast!WaitingStays'
  BY SMTT(20), ToastAssumption, ToastSets DEF Toast!Targets, Toast!Idle, Toast!files,
     Toast!asked, Toast!mirror, Toast!Quiet, Toast!StaleIsSettled, Toast!WaitingStays,
     Toast!TypeOK, Toast!Listed
<1>3. Toast!StaleOK'
  BY SMTT(20), ToastAssumption, ToastSets DEF Toast!Targets, Toast!Idle, Toast!files,
     Toast!asked, Toast!mirror, Toast!Quiet, Toast!StaleIsSettled, Toast!TypeOK, Toast!WatchOK,
     Toast!WaitingStays, Toast!StaleOK, Toast!PostedOK, Toast!Listed, Toast!Steps, Toast!Found
<1>4. Toast!WatchOK'
  <2>1. x3 \in SUBSET Toast!Toasts /\ x4 \in SUBSET Toast!Toasts /\ Toast!WatchOK
    BY DEF Toast!StaleIsSettled, Toast!TypeOK
  <2>2. Toast!Quiet \in [Toast!Toasts -> Toast!Listed]
    BY DEF Toast!Quiet, Toast!Listed
  <2>3. {t \in Ours : x7[t] # "no"} \in SUBSET Toast!Toasts
    BY ToastSets
  <2> QED BY <2>1, <2>2, <2>3 DEF Toast!Targets, Toast!WatchOK, Toast!Steps, Toast!Idle
<1>5. Toast!PostedOK'
  BY SMTT(20), ToastAssumption, ToastSets DEF Toast!Targets, Toast!Idle, Toast!files,
     Toast!asked, Toast!mirror, Toast!Quiet, Toast!StaleIsSettled, Toast!PostedOK, Toast!Found,
     Toast!TypeOK, Toast!Listed
<1> QED BY <1>1, <1>2, <1>3, <1>4, <1>5 DEF Toast!StaleIsSettled

LEMMA ToastReread ==
  ASSUME Toast!StaleIsSettled, Toast!Reread
  PROVE  Toast!StaleIsSettled'
<1>1. Toast!TypeOK'
  BY SMTT(20), ToastAssumption, ToastSets DEF Toast!Reread, Toast!files, Toast!asked,
     Toast!mirror, Toast!StaleIsSettled, Toast!TypeOK, Toast!Listed
<1>2. Toast!WaitingStays'
  BY SMTT(20), ToastAssumption, ToastSets DEF Toast!Reread, Toast!files, Toast!asked,
     Toast!mirror, Toast!StaleIsSettled, Toast!WaitingStays, Toast!TypeOK, Toast!Listed
<1>3. Toast!StaleOK'
  BY SMTT(20), ToastAssumption, ToastSets DEF Toast!Reread, Toast!files, Toast!asked,
     Toast!mirror, Toast!StaleIsSettled, Toast!StaleOK, Toast!TypeOK, Toast!Listed
<1>4. Toast!WatchOK'
  <2>1. x3 \in SUBSET Toast!Toasts /\ x4 \in SUBSET Toast!Toasts /\ Toast!WatchOK
    BY DEF Toast!StaleIsSettled, Toast!TypeOK
  <2> QED BY <2>1 DEF Toast!Reread, Toast!WatchOK, Toast!Steps
<1>5. Toast!PostedOK'
  BY SMTT(20), ToastAssumption, ToastSets DEF Toast!Reread, Toast!files, Toast!asked,
     Toast!mirror, Toast!StaleIsSettled, Toast!PostedOK, Toast!Found, Toast!TypeOK, Toast!Listed
<1> QED BY <1>1, <1>2, <1>3, <1>4, <1>5 DEF Toast!StaleIsSettled

LEMMA ToastRemovePast ==
  ASSUME Toast!StaleIsSettled, Toast!RemovePast
  PROVE  Toast!StaleIsSettled'
  BY SMTT(20), ToastAssumption, ToastSets DEF Toast!RemovePast, Toast!Go, Toast!asked,
     Toast!mirror, Toast!StaleIsSettled, Toast!TypeOK, Toast!WatchOK, Toast!WaitingStays,
     Toast!StaleOK, Toast!PostedOK, Toast!Listed, Toast!Steps, Toast!Found

LEMMA ToastAskShell ==
  ASSUME Toast!StaleIsSettled, Toast!AskShell
  PROVE  Toast!StaleIsSettled'
  BY SMTT(20), ToastAssumption, ToastSets DEF Toast!AskShell, Toast!Mine, Toast!Sharing,
     Toast!Go, Toast!asked, Toast!mirror, Toast!StaleIsSettled, Toast!TypeOK, Toast!WatchOK,
     Toast!WaitingStays, Toast!StaleOK, Toast!PostedOK, Toast!Listed, Toast!Steps, Toast!Found

LEMMA ToastRemoveFiles ==
  ASSUME Toast!StaleIsSettled, Toast!RemoveFiles
  PROVE  Toast!StaleIsSettled'
  BY SMTT(20), ToastAssumption, ToastSets DEF Toast!RemoveFiles, Toast!Mine, Toast!Sharing,
     Toast!Idle, Toast!asked, Toast!mirror, Toast!Quiet, Toast!StaleIsSettled, Toast!TypeOK,
     Toast!WatchOK, Toast!WaitingStays, Toast!StaleOK, Toast!PostedOK, Toast!Listed,
     Toast!Steps, Toast!Found

LEMMA ToastLeaveThem ==
  ASSUME Toast!StaleIsSettled, Toast!LeaveThem
  PROVE  Toast!StaleIsSettled'
  BY SMTT(20), ToastAssumption, ToastSets DEF Toast!LeaveThem, Toast!Mine, Toast!Sharing,
     Toast!Idle, Toast!files, Toast!asked, Toast!mirror, Toast!Quiet, Toast!StaleIsSettled,
     Toast!TypeOK, Toast!WatchOK, Toast!WaitingStays, Toast!StaleOK, Toast!PostedOK,
     Toast!Listed, Toast!Steps, Toast!Found

LEMMA ToastDismissed ==
  ASSUME Toast!StaleIsSettled, Toast!Dismissed
  PROVE  Toast!StaleIsSettled'
  BY SMTT(20), ToastAssumption, ToastSets DEF Toast!Dismissed, Toast!Idle, Toast!Mine,
     Toast!files, Toast!asked, Toast!Quiet, Toast!StaleIsSettled, Toast!TypeOK, Toast!WatchOK,
     Toast!WaitingStays, Toast!StaleOK, Toast!PostedOK, Toast!Listed, Toast!Steps, Toast!Found

LEMMA ToastActBegin ==
  ASSUME Toast!StaleIsSettled, NEW t \in Toast!Toasts, Toast!ActBegin(t)
  PROVE  Toast!StaleIsSettled'
  BY SMTT(20), ToastAssumption, ToastSets DEF Toast!ActBegin, Toast!NoAct, Toast!files,
     Toast!asked, Toast!mirror, Toast!StaleIsSettled, Toast!TypeOK, Toast!WatchOK,
     Toast!WaitingStays, Toast!StaleOK, Toast!PostedOK, Toast!Listed, Toast!Steps, Toast!Found

LEMMA ToastActShell ==
  ASSUME Toast!StaleIsSettled, Toast!ActShell
  PROVE  Toast!StaleIsSettled'
<1>1. Toast!TypeOK'
  <2>1. /\ x3' \subseteq Toast!Toasts /\ x4' \subseteq Toast!Toasts
        /\ UNCHANGED <<x1, x2, x5, x6, x8, x7, x11, x9>>
    BY DEF Toast!ActShell, Toast!StaleIsSettled, Toast!TypeOK, Toast!files, Toast!asked,
       Toast!mirror
  <2>2. x10'.toast \in SUBSET Toast!Toasts
    BY DEF Toast!ActShell, Toast!StaleIsSettled, Toast!WatchOK, Toast!NoAct
  <2> QED BY <2>1, <2>2 DEF Toast!StaleIsSettled, Toast!TypeOK
<1>2. Toast!WaitingStays'
  BY SMTT(20), ToastAssumption, ToastSets DEF Toast!ActShell, Toast!files, Toast!NoAct,
     Toast!asked, Toast!mirror, Toast!StaleIsSettled, Toast!WaitingStays, Toast!TypeOK,
     Toast!Listed
<1>3. Toast!StaleOK'
  BY SMTT(20), ToastAssumption, ToastSets DEF Toast!ActShell, Toast!files, Toast!NoAct,
     Toast!asked, Toast!mirror, Toast!StaleIsSettled, Toast!StaleOK, Toast!TypeOK, Toast!Listed
<1>4. Toast!WatchOK'
  BY SMTT(20), ToastAssumption, ToastSets DEF Toast!ActShell, Toast!files, Toast!NoAct,
     Toast!asked, Toast!mirror, Toast!StaleIsSettled, Toast!WatchOK, Toast!Steps, Toast!Listed,
     Toast!TypeOK
<1>5. Toast!PostedOK'
  BY SMTT(20), ToastAssumption, ToastSets DEF Toast!ActShell, Toast!files, Toast!NoAct,
     Toast!asked, Toast!mirror, Toast!StaleIsSettled, Toast!PostedOK, Toast!Found, Toast!TypeOK,
     Toast!Listed
<1> QED BY <1>1, <1>2, <1>3, <1>4, <1>5 DEF Toast!StaleIsSettled

LEMMA ToastActRow ==
  ASSUME Toast!StaleIsSettled, Toast!ActRow
  PROVE  Toast!StaleIsSettled'
  BY SMTT(20), ToastAssumption, ToastSets DEF Toast!ActRow, Toast!NoAct, Toast!files,
     Toast!asked, Toast!StaleIsSettled, Toast!TypeOK, Toast!WatchOK, Toast!WaitingStays,
     Toast!StaleOK, Toast!PostedOK, Toast!Listed, Toast!Steps, Toast!Found

LEMMA ToastActTell ==
  ASSUME Toast!StaleIsSettled, Toast!ActTell
  PROVE  Toast!StaleIsSettled'
  BY SMTT(20), ToastAssumption, ToastSets DEF Toast!ActTell, Toast!NoAct, Toast!files,
     Toast!asked, Toast!mirror, Toast!StaleIsSettled, Toast!TypeOK, Toast!WatchOK,
     Toast!WaitingStays, Toast!StaleOK, Toast!PostedOK, Toast!Listed, Toast!Steps, Toast!Found

LEMMA ToastRestart ==
  ASSUME Toast!StaleIsSettled, Toast!Restart
  PROVE  Toast!StaleIsSettled'
  BY SMTT(20), ToastAssumption, ToastSets DEF Toast!Restart, Toast!Quiet, Toast!Idle,
     Toast!NoAct, Toast!files, Toast!StaleIsSettled, Toast!TypeOK, Toast!WatchOK,
     Toast!WaitingStays, Toast!StaleOK, Toast!PostedOK, Toast!Listed, Toast!Steps, Toast!Found

-----------------------------------------------------------------------------
(* Notices: every behaviour. *)

LEMMA ToastNext ==
  ASSUME Toast!StaleIsSettled, Toast!Next
  PROVE  Toast!StaleIsSettled'
<1>1. ASSUME NEW r \in ToastIds, Toast!Ask(r) \/ Toast!Decide(r) PROVE Toast!StaleIsSettled'
  BY <1>1, ToastAsk, ToastDecide
<1>2. ASSUME NEW t \in Toast!Toasts, Toast!Leave(t) \/ Toast!Evict(t) \/ Toast!ActBegin(t)
      PROVE  Toast!StaleIsSettled'
  BY <1>2, ToastLeave, ToastEvict, ToastActBegin
<1>3. ASSUME NEW t \in Toast!Toasts, NEW r \in ToastIds \cup {NoRequest}, Toast!Post(t, r)
      PROVE  Toast!StaleIsSettled'
  BY <1>3, ToastPost
<1>4. CASE Toast!Watch
  BY <1>4, ToastReadScreen, ToastReadHistory, ToastReadPending, ToastApply, ToastEmit, ToastTargets,
     ToastReread, ToastRemovePast, ToastAskShell, ToastRemoveFiles, ToastLeaveThem, ToastDismissed
     DEF Toast!Watch
<1>5. CASE Toast!ActShell \/ Toast!ActRow \/ Toast!ActTell \/ Toast!Restart
  BY <1>5, ToastActShell, ToastActRow, ToastActTell, ToastRestart
<1> QED BY <1>1, <1>2, <1>3, <1>4, <1>5 DEF Toast!Next, Toast!Outside

LEMMA ToastInit ==
  ASSUME Toast!Init
  PROVE  Toast!StaleIsSettled
  BY ToastAssumption, ToastSets DEF Toast!Init, Toast!StaleIsSettled, Toast!TypeOK, Toast!WatchOK,
     Toast!WaitingStays, Toast!StaleOK, Toast!PostedOK, Toast!Quiet, Toast!Idle, Toast!NoAct, Toast!Found,
     Toast!Steps, Toast!Listed

LEMMA ToastAlways == Spec => [](part = "toast" => Toast!StaleIsSettled)
<1> DEFINE Inv == part = "toast" => Toast!StaleIsSettled
<1>1. Init => Inv
  BY ToastInit DEF Init
<1>2. Inv /\ [Next]_all => Inv'
  <2> SUFFICES ASSUME Inv, [Next]_all, part' = "toast" PROVE Toast!StaleIsSettled'
    OBVIOUS
  <2>1. CASE UNCHANGED all
    BY <2>1 DEF all, Toast!StaleIsSettled, Toast!TypeOK, Toast!WatchOK, Toast!WaitingStays,
       Toast!StaleOK,
       Toast!PostedOK, Toast!Found
  <2>2. CASE Next
    <3>1. part = "toast" /\ Toast!Next
      BY <2>2 DEF Next
    <3> QED BY <3>1, ToastNext
  <2> QED BY <2>1, <2>2
<1> QED BY <1>1, <1>2, PTL DEF Spec

\* Whatever is posted, decided or asked again while notifications.py reads the shell's files,
\* and whatever phones dismiss meanwhile, a toast is taken from the lists only when its own
\* request was decided after it was posted, and no stranger's toast ever is.
THEOREM WaitingToastsStay == Spec => []WaitingStays
<1>1. (part = "toast" => Toast!StaleIsSettled) => WaitingStays
  BY DEF WaitingStays, Toast!StaleIsSettled
<1> QED BY <1>1, ToastAlways, PTL

-----------------------------------------------------------------------------
(* Credentials: the days, and the last of a set of them. *)

\* A set of days that is not empty and ends has a last one.
LEMMA Largest ==
  ASSUME NEW N \in Nat, NEW T, T \subseteq 0..N, T # {}
  PROVE  \E x \in T : \A y \in T : y <= x
<1> DEFINE U(x) == {z \in 0..N : z >= x}
           F == {U(x) : x \in T}
<1>1. IsWellFoundedOn(StrictSubsetOrdering(0..N), FiniteSubsetsOf(0..N))
  BY FS_StrictSubsetOrderingWellFounded
<1>2. IsFiniteSet(0..N)
  BY FS_Interval
<1>3. F \subseteq FiniteSubsetsOf(0..N) /\ F # {}
  <2>1. FiniteSubsetsOf(0..N) = SUBSET (0..N)
    BY <1>2, FS_FiniteSubsetsOfFinite
  <2>2. \A x \in T : U(x) \in SUBSET (0..N)
    OBVIOUS
  <2>3. F \subseteq SUBSET (0..N) /\ F # {}
    BY <2>2
  <2> HIDE DEF F
  <2> QED BY <2>1, <2>3
<1>4. PICK u \in F : \A v \in F : ~(<<v, u>> \in StrictSubsetOrdering(0..N))
  BY <1>1, <1>3, WFMin
<1>5. PICK x \in T : u = U(x)
  OBVIOUS
<1>6. SUFFICES ASSUME NEW y \in T, y > x PROVE FALSE
  BY <1>5
<1>7. U(y) \subseteq U(x) /\ x \in U(x) /\ x \notin U(y)
  BY <1>6
<1>8. <<U(y), U(x)>> \in StrictSubsetOrdering(0..N)
  <2>1. U(y) \in SUBSET (0..N) /\ U(x) \in SUBSET (0..N) /\ U(y) # U(x)
    BY <1>7
  <2> QED BY <2>1, <1>7 DEF StrictSubsetOrdering
<1> QED BY <1>4, <1>5, <1>8

\* The days, as the numbers they are.
LEMMA CredNums ==
  /\ Ttl \in Nat /\ Window \in Nat /\ Grace \in Nat /\ MaxTime \in Nat
  /\ 1 <= Grace /\ Grace <= Window /\ Window <= Ttl
  /\ MaxCreds \in Nat /\ 1 <= MaxCreds /\ MaxAsks \in Nat /\ MaxCrashes \in Nat
  BY CredAssumption DEF Cred!DaysOk

LEMMA CredTypes ==
  ASSUME Cred!CredInv
  PROVE  /\ x1 \in Nat /\ x1 <= MaxTime /\ x2 \in [Cred!Creds -> {-1} \cup Cred!Days]
         /\ x6 \in [Cred!Creds -> {-1} \cup Cred!Days]
         /\ x3 \subseteq Cred!Minted /\ x4 \subseteq x3 /\ x5 \subseteq x3
         /\ \A c \in Cred!Minted : c \in Cred!Creds /\ x2[c] \in Nat /\ x2[c] <= x1
         /\ \A c \in Cred!Creds : x6[c] <= x1 + Grace /\ (x2[c] = -1 => x6[c] = -1)
         /\ x10 \in {0} \cup Cred!Minted /\ x11 \in {-1} \cup Nat
         /\ x8 \in {-1} \cup Nat /\ x9 \in {-1} \cup Nat
         /\ Cred!Days \subseteq Nat
  BY CredNums DEF Cred!CredInv, Cred!TypeOK, Cred!DaysOK, Cred!Never, Cred!Days, Cred!Minted

LEMMA CredDay ==
  ASSUME NEW t \in Nat, t <= MaxTime, NEW k \in Nat, k <= t + Ttl + Grace
  PROVE  k \in Cred!Days /\ k \in {-1} \cup Cred!Days
  BY CredNums DEF Cred!Days

-----------------------------------------------------------------------------
(* Credentials: each step keeps CredInv. *)

\* What a new credential does to the registry and to the device that is told of it.
LEMMA CredIssue ==
  ASSUME Cred!CredInv, NEW O, O \in {x3, {}}, NEW M, M \subseteq x3, Cred!Issue(O, M), Cred!Reply
  PROVE  \E c \in Cred!Creds :
    /\ x2[c] = -1 /\ x2' = [x2 EXCEPT ![c] = x1]
    /\ c \in x3' /\ x3' \subseteq x3 \cup {c} /\ x4' = x4 /\ x4 \subseteq x3' /\ x5' \subseteq x3'
    /\ x6' \in [Cred!Creds -> {-1} \cup Cred!Days] /\ x6'[c] = -1
    /\ \A b \in Cred!Creds : x6'[b] <= x1 + Grace /\ (x2[b] = -1 => x6'[b] = -1)
    /\ \A b \in x3' \ {c} : \/ x6'[b] = x6[b]
                            \/ x6'[b] = x1 + Grace /\ (x6[b] = -1 \/ x6[b] > x1 + Grace)
    /\ ((x10 \in x3 \ x4) /\ x2[x10] + Ttl > x1 /\ (x6[x10] = -1 \/ x6[x10] > x1)) => x10 \in x3'
    /\ \/ x10' = c /\ x11' = -1
       \/ x10' = x10 /\ x11' = IF x11 = -1 THEN x1 ELSE x11
<1>1. PICK c \in Cred!Creds :
        /\ x2[c] = -1 /\ x2' = [x2 EXCEPT ![c] = x1] /\ x4' = x4
        /\ x3' = (x3 \ Cred!Dead(Cred!Retired(O), M)) \cup {c}
        /\ x5' = ((x5 \cup M) \ Cred!Dead(Cred!Retired(O), M)) \cup {c}
        /\ x6' = [b \in Cred!Creds |->
             IF b \in Cred!Dead(Cred!Retired(O), M) THEN -1 ELSE Cred!Retired(O)[b]]
  BY Zenon DEF Cred!Issue, Cred!Never
<1> DEFINE E == Cred!Retired(O)
           D == Cred!Dead(E, M)
<1>2. /\ x1 \in Nat /\ x1 <= MaxTime /\ x2 \in [Cred!Creds -> {-1} \cup Cred!Days]
      /\ x6 \in [Cred!Creds -> {-1} \cup Cred!Days] /\ Cred!Days \subseteq Nat
      /\ x3 \subseteq Cred!Creds /\ x4 \subseteq x3 /\ x5 \subseteq x3 /\ c \notin x3
      /\ \A b \in Cred!Creds : x6[b] <= x1 + Grace /\ (x2[b] = -1 => x6[b] = -1)
      /\ \A b \in x3 : x2[b] \in Nat /\ x2[b] <= x1
  BY <1>1, CredTypes DEF Cred!Minted, Cred!Never
<1>3. D \subseteq x3 \ x4
  BY DEF Cred!Dead
<1>4. \A b \in Cred!Creds :
        /\ \/ E[b] = x6[b]
           \/ (b \in x3 \ x4) /\ E[b] = x1 + Grace /\ (x6[b] = -1 \/ x6[b] > x1 + Grace)
        /\ E[b] \in {-1} \cup Cred!Days /\ E[b] <= x1 + Grace /\ (x2[b] = -1 => E[b] = -1)
  <2> TAKE b \in Cred!Creds
  <2>0. /\ x6[b] \in {-1} \cup Cred!Days /\ x6[b] \in {-1} \cup Nat
        /\ x6[b] <= x1 + Grace /\ (x2[b] = -1 => x6[b] = -1)
    BY <1>2
  <2>1. x1 + Grace \in Cred!Days /\ x1 + Grace \in Nat
    BY <1>2, CredNums, CredDay
  <2>2. CASE b \in O \ x4
    <3>1. E[b] = Cred!Least(x6[b], x1 + Grace) /\ b \in x3
      BY <2>2 DEF Cred!Retired
    <3>2. x2[b] \in Nat /\ x1 \in Nat
      BY <1>2, <3>1
    <3> HIDE DEF E
    <3> QED BY <2>0, <2>1, <2>2, <3>1, <3>2, CredNums DEF Cred!Least, Cred!Never
  <2>3. CASE b \notin O \ x4
    <3>1. E[b] = x6[b]
      BY <2>3 DEF Cred!Retired
    <3> HIDE DEF E
    <3> QED BY <3>1, <2>0
  <2> QED BY <2>2, <2>3
<1>5. \A b \in D : \/ x1 >= x2[b] + Ttl
                   \/ E[b] # -1 /\ x1 >= E[b]
  <2> TAKE b \in D
  <2>1. /\ b \in Cred!Creds /\ x2[b] \in Nat /\ E[b] \in {-1} \cup Nat
    BY <1>2, <1>3, <1>4
  <2> HIDE DEF E
  <2>2. /\ Cred!Least(IF b \in x5 \cup M THEN x2[b] + Ttl ELSE -1, E[b]) # -1
        /\ x1 >= Cred!Least(IF b \in x5 \cup M THEN x2[b] + Ttl ELSE -1, E[b])
    BY DEF Cred!Dead, Cred!Never
  <2> QED BY <2>1, <2>2, CredNums DEF Cred!Least, Cred!Never
<1>6. x6' \in [Cred!Creds -> {-1} \cup Cred!Days] /\ x6'[c] = -1
  BY <1>1, <1>4, <1>3, <1>2
<1>7. \A b \in Cred!Creds : x6'[b] <= x1 + Grace /\ (x2[b] = -1 => x6'[b] = -1)
  BY <1>1, <1>4, <1>2, CredNums
<1>8. \A b \in x3' \ {c} : \/ x6'[b] = x6[b]
                           \/ x6'[b] = x1 + Grace /\ (x6[b] = -1 \/ x6[b] > x1 + Grace)
  BY <1>1, <1>4, <1>2
<1>9. ((x10 \in x3 \ x4) /\ x2[x10] + Ttl > x1 /\ (x6[x10] = -1 \/ x6[x10] > x1)) => x10 \in x3'
  <2> SUFFICES ASSUME x10 \in x3 \ x4, x2[x10] + Ttl > x1, x6[x10] = -1 \/ x6[x10] > x1
               PROVE  x10 \notin D
    BY <1>1
  <2>1. x10 \in Cred!Creds /\ x2[x10] \in Nat /\ x6[x10] \in {-1} \cup Nat
    BY <1>2
  <2>2. E[x10] = -1 \/ E[x10] > x1
    BY <2>1, <1>4, <1>2, CredNums
  <2>3. E[x10] \in {-1} \cup Nat
    BY <2>1, <1>4, <1>2
  <2> HIDE DEF E, D
  <2> QED BY <1>2, <1>5, <2>1, <2>2, <2>3, CredNums
<1>10. \/ x10' = c /\ x11' = -1
       \/ x10' = x10 /\ x11' = IF x11 = -1 THEN x1 ELSE x11
  <2>1. {b \in Cred!Creds : x2[b] = -1 /\ x2'[b] # -1} = {c}
    BY <1>1, <1>2
  <2>2. (CHOOSE b \in Cred!Creds : x2[b] = -1 /\ x2'[b] # -1) = c
    BY <2>1
  <2> QED BY <2>2 DEF Cred!Reply, Cred!Never
<1>11. c \in x3' /\ x3' \subseteq x3 \cup {c} /\ x4' = x4 /\ x4 \subseteq x3' /\ x5' \subseteq x3'
  BY <1>1, <1>2, <1>3
<1> QED BY <1>1, <1>6, <1>7, <1>8, <1>9, <1>10, <1>11

\* And so types, days and the token in use are kept by whatever mints.
LEMMA CredMinting ==
  ASSUME Cred!CredInv, NEW O, O \in {x3, {}}, NEW M, M \subseteq x3, Cred!Issue(O, M), Cred!Reply,
         x1' = x1, x13' = x13, x14' = x14, x12' \in BOOLEAN,
         x8' \in {-1} \cup Cred!Days, x9' \in {-1} \cup Cred!Days,
         x7' \in [Cred!Requests -> [status : {"none", "pending", "approved", "claimed"}, already : BOOLEAN]]
  PROVE  /\ Cred!TypeOK' /\ Cred!DaysOK' /\ Cred!HeldOK'
         /\ \A b \in x3' \ x4' :
              \/ x2'[b] = x1 /\ x6'[b] = -1
              \/ /\ (b \in x3 \ x4) /\ x2'[b] = x2[b]
                 /\ x6'[b] = x6[b] \/ (x6'[b] = x1 + Grace /\ (x6[b] = -1 \/ x6[b] > x1 + Grace))
<1>1. PICK c \in Cred!Creds :
        /\ x2[c] = -1 /\ x2' = [x2 EXCEPT ![c] = x1]
        /\ c \in x3' /\ x3' \subseteq x3 \cup {c} /\ x4' = x4 /\ x4 \subseteq x3' /\ x5' \subseteq x3'
        /\ x6' \in [Cred!Creds -> {-1} \cup Cred!Days] /\ x6'[c] = -1
        /\ \A b \in Cred!Creds : x6'[b] <= x1 + Grace /\ (x2[b] = -1 => x6'[b] = -1)
        /\ \A b \in x3' \ {c} : \/ x6'[b] = x6[b]
                                \/ x6'[b] = x1 + Grace /\ (x6[b] = -1 \/ x6[b] > x1 + Grace)
        /\ ((x10 \in x3 \ x4) /\ x2[x10] + Ttl > x1 /\ (x6[x10] = -1 \/ x6[x10] > x1)) => x10 \in x3'
        /\ \/ x10' = c /\ x11' = -1
           \/ x10' = x10 /\ x11' = IF x11 = -1 THEN x1 ELSE x11
  BY CredIssue
<1>2. /\ x1 \in Nat /\ x1 <= MaxTime /\ x2 \in [Cred!Creds -> {-1} \cup Cred!Days]
      /\ x6 \in [Cred!Creds -> {-1} \cup Cred!Days] /\ Cred!Days \subseteq Nat
      /\ x3 \subseteq Cred!Minted /\ x4 \subseteq x3
      /\ \A b \in Cred!Minted : b \in Cred!Creds /\ x2[b] \in Nat /\ x2[b] <= x1
      /\ \A b \in Cred!Creds : x6[b] <= x1 + Grace /\ (x2[b] = -1 => x6[b] = -1)
      /\ x10 \in {0} \cup Cred!Minted /\ x11 \in {-1} \cup Nat
  BY CredTypes
<1>3. x1 \in Cred!Days /\ x1 \in 0..MaxTime
  BY <1>2, CredDay, CredNums
<1>4. /\ x2' \in [Cred!Creds -> {-1} \cup Cred!Days] /\ x2'[c] = x1
      /\ \A b \in Cred!Creds \ {c} : x2'[b] = x2[b]
  BY <1>1, <1>2, <1>3
<1>5. Cred!Minted' = Cred!Minted \cup {c} /\ c \notin Cred!Minted
  BY <1>1, <1>2, <1>3, <1>4 DEF Cred!Minted, Cred!Never
<1>6. x13 \subseteq Cred!Minted /\ x14 \in 0..MaxCrashes /\ x11 \in {-1} \cup Cred!Days /\ c # 0
  BY <1>1, CredNums DEF Cred!CredInv, Cred!TypeOK, Cred!Never, Cred!Creds
<1>7. x11' \in {-1} \cup Cred!Days /\ x10' \in {0} \cup Cred!Minted'
  BY <1>1, <1>2, <1>3, <1>5, <1>6
<1>8. Cred!TypeOK'
  <2>1. x3' \subseteq Cred!Minted' /\ x4' \subseteq x3' /\ x5' \subseteq x3' /\ x13' \subseteq Cred!Minted'
    BY <1>1, <1>2, <1>5, <1>6
  <2> QED BY <2>1, <1>1, <1>3, <1>4, <1>6, <1>7 DEF Cred!TypeOK, Cred!Never
<1>9. Cred!DaysOK'
  <2>1. \A b \in Cred!Minted' : x2'[b] \in 0..x1'
    BY <1>2, <1>4, <1>5
  <2>2. \A b \in Cred!Creds \ Cred!Minted' : x6'[b] = -1
    BY <1>1, <1>5, <1>2 DEF Cred!Minted, Cred!Never
  <2>3. \A b \in Cred!Creds : x6'[b] <= x1' + Grace
    BY <1>1
  <2> QED BY <2>1, <2>2, <2>3 DEF Cred!DaysOK, Cred!Never
<1>10. Cred!HeldOK'
  <2>1. CASE x10' = c /\ x11' = -1
    <3>1. x10' \in x3' /\ x2'[x10'] = x1 /\ x6'[x10'] = -1
      BY <2>1, <1>1, <1>4
    <3> QED BY <2>1, <3>1, <1>2, CredNums DEF Cred!HeldOK, Cred!Live, Cred!Never
  <2>2. CASE x10' = x10 /\ x11' = IF x11 = -1 THEN x1 ELSE x11
    <3>1. /\ x11 # -1 => x11 <= x1 /\ x1 < x11 + Grace
          /\ Cred!Live => /\ x10 \in x3
                          /\ x2[x10] + Ttl - Window >= (IF x11 = -1 THEN x1 ELSE x11)
                          /\ x6[x10] = -1 \/ (x11 # -1 /\ x6[x10] >= x11 + Grace)
      BY DEF Cred!CredInv, Cred!HeldOK, Cred!Never
    <3>0. x1 \in Nat /\ x11 \in {-1} \cup Nat
      BY <1>2
    <3>2. x11' \in Nat /\ x11' <= x1 /\ x1 < x11' + Grace
      BY <2>2, <3>1, <1>2, CredNums
    <3>3. ASSUME Cred!Live'
          PROVE  /\ x10' \in x3' /\ x2'[x10'] + Ttl - Window >= x11'
                 /\ x6'[x10'] = -1 \/ x6'[x10'] >= x11' + Grace
      <4>1. Cred!Live /\ x10 # 0 /\ x10 \notin x4
        BY <2>2, <3>3, <1>1 DEF Cred!Live
      <4>2. /\ x10 \in x3 /\ x10 \in Cred!Creds /\ x10 # c /\ x2[x10] \in Nat /\ x2[x10] <= x1
            /\ x6[x10] \in {-1} \cup Nat
        BY <4>1, <3>1, <1>2, <1>5
      <4>3. x2[x10] + Ttl - Window >= x11'
        BY <4>1, <3>1, <2>2
      <4>4. x6[x10] = -1 \/ (x11 # -1 /\ x6[x10] >= x11 + Grace)
        BY <4>1, <3>1
      <4>5. x2[x10] + Ttl > x1 /\ (x6[x10] = -1 \/ x6[x10] > x1)
        <5>1. PICK l \in Int : x1 < l + Grace /\ x2[x10] + Ttl - Window >= l
          BY <3>2, <4>3
        <5>2. x2[x10] + Ttl > x1
          <6>1. /\ x2[x10] \in Int /\ Ttl \in Int /\ Window \in Int /\ Grace \in Int
                /\ x1 \in Int /\ Grace <= Window
            BY <4>2, <3>0, CredNums
          <6> QED BY <6>1, <5>1
        <5>3. x6[x10] = -1 \/ x6[x10] > x1
          <6>1. CASE x6[x10] = -1
            BY <6>1
          <6>2. CASE x11 # -1 /\ x6[x10] >= x11 + Grace
            <7>1. x1 < x11 + Grace
              BY <6>2, <3>1
            <7>2. x6[x10] \in Int /\ x11 \in Int /\ x1 \in Int /\ Grace \in Int
              BY <4>2, <3>0, CredNums
            <7> QED BY <6>2, <7>1, <7>2
          <6> QED BY <6>1, <6>2, <4>4
        <5> QED BY <5>2, <5>3
      <4>6. x10 \in x3'
        <5>1. (x10 \in x3 \ x4) /\ x2[x10] + Ttl > x1 /\ (x6[x10] = -1 \/ x6[x10] > x1) => x10 \in x3'
          BY <1>1
        <5> QED BY <4>1, <4>2, <4>5, <5>1
      <4>7. \/ x6'[x10] = x6[x10]
            \/ x6'[x10] = x1 + Grace /\ (x6[x10] = -1 \/ x6[x10] > x1 + Grace)
        BY <4>2, <4>6, <1>1
      <4>8. x6'[x10] = -1 \/ x6'[x10] >= x11' + Grace
        BY <4>2, <4>4, <4>7, <3>2, <2>2, <1>2, CredNums
      <4>9. x2'[x10] = x2[x10]
        BY <4>2, <1>4
      <4> QED BY <2>2, <4>3, <4>6, <4>8, <4>9
    <3> QED BY <3>2, <3>3 DEF Cred!HeldOK, Cred!Never
  <2> QED BY <2>1, <2>2, <1>1
<1>11. ASSUME NEW b \in x3' \ x4'
       PROVE  \/ x2'[b] = x1 /\ x6'[b] = -1
              \/ /\ (b \in x3 \ x4) /\ x2'[b] = x2[b]
                 /\ x6'[b] = x6[b] \/ (x6'[b] = x1 + Grace /\ (x6[b] = -1 \/ x6[b] > x1 + Grace))
  <2>1. CASE b = c
    BY <2>1, <1>1, <1>4
  <2>2. CASE b # c
    <3>1. (b \in x3 \ x4) /\ x2'[b] = x2[b]
      BY <2>2, <1>1, <1>2, <1>4
    <3> QED BY <2>2, <3>1, <1>1
  <2> QED BY <2>1, <2>2
<1> QED BY <1>8, <1>9, <1>10, <1>11

\* A credential that verifies is in the registry, and none of its ends is passed.
LEMMA CredVerified ==
  ASSUME Cred!CredInv, NEW c, Cred!Verifies(c)
  PROVE  /\ c \in Cred!Minted /\ (c \in x3 \ x4) /\ x1 < x2[c] + Ttl
         /\ x6[c] = -1 \/ x1 < x6[c]
<1>1. c \in Cred!Minted /\ c \in x3 /\ c \notin x4 /\ ~Cred!TooOld(c) /\ ~(x6[c] # -1 /\ x1 >= x6[c])
  BY DEF Cred!Verifies, Cred!Reason, Cred!Never
<1>2. c \in Cred!Creds /\ x2[c] \in Nat /\ x6[c] \in {-1} \cup Nat /\ x1 \in Nat
  BY <1>1, CredTypes
<1> QED BY <1>1, <1>2, CredNums DEF Cred!TooOld

LEMMA CredAsk ==
  ASSUME Cred!CredInv, NEW r \in Cred!Requests, Cred!Ask(r)
  PROVE  Cred!CredInv'
<1>1. /\ UNCHANGED <<x1, x2, x3, x4, x5, x6, x8, x9, x10, x11, x12, x13, x14>>
      /\ x7' = [x7 EXCEPT ![r] = [status |-> "pending", already |-> Cred!Active # {}]]
  BY DEF Cred!Ask, Cred!registry
<1>2. Cred!TypeOK'
  BY <1>1 DEF Cred!CredInv, Cred!TypeOK, Cred!Minted
<1>3. Cred!DaysOK' /\ Cred!HeldOK'
  BY <1>1 DEF Cred!CredInv, Cred!DaysOK, Cred!HeldOK, Cred!Minted, Cred!Live
<1>4. Cred!Unclaimed' => Cred!Unclaimed
  BY <1>1 DEF Cred!Unclaimed, Cred!CredInv, Cred!TypeOK
<1>5. Cred!LineOK'
  BY <1>1, <1>4 DEF Cred!CredInv, Cred!LineOK, Cred!Reaches
<1> QED BY <1>2, <1>3, <1>5 DEF Cred!CredInv

LEMMA CredApprove ==
  ASSUME Cred!CredInv, NEW r \in Cred!Requests, Cred!Approve(r)
  PROVE  Cred!CredInv'
<1>1. /\ UNCHANGED <<x1, x2, x3, x4, x5, x6, x9, x10, x11, x13, x14>>
      /\ x7' = [x7 EXCEPT ![r].status = "approved"]
  BY DEF Cred!Approve, Cred!registry
<1>2. PICK l \in Nat : l = x1 + Ttl + Grace
  BY CredTypes, CredNums
<1>3. l \in Cred!Days
  BY <1>2, CredTypes, CredDay
<1>4. (x8' = l /\ x12' = FALSE) \/ (x8' = x8 /\ x12' = (x8 # -1))
  BY <1>2 DEF Cred!Approve, Cred!Never
<1>5. Cred!TypeOK'
  <2>1. x8 \in {Cred!Never} \cup Cred!Days
    BY DEF Cred!CredInv, Cred!TypeOK
  <2>2. x8' \in {Cred!Never} \cup Cred!Days
    BY <1>3, <1>4, <2>1
  <2>3. x12' \in BOOLEAN
    BY Zenon, <1>4
  <2> QED BY <1>1, <2>2, <2>3 DEF Cred!CredInv, Cred!TypeOK, Cred!Minted
<1>6. Cred!DaysOK' /\ Cred!HeldOK'
  BY <1>1 DEF Cred!CredInv, Cred!DaysOK, Cred!HeldOK, Cred!Minted, Cred!Live
<1>7. Cred!LineOK'
  <2>1. CASE x8' = l /\ x12' = FALSE
    <3>1. ASSUME NEW c \in x3
          PROVE  l >= x2[c] + Ttl
      <4>1. x2[c] \in Nat /\ x1 \in Nat /\ x2[c] <= x1
        BY CredTypes
      <4> QED BY <4>1, <1>2, CredNums
    <3>2. l >= x1 + Ttl
      BY <1>2, CredTypes, CredNums
    <3>3. x8' = l
      BY <2>1
    <3> QED BY <1>1, <3>1, <3>2, <3>3 DEF Cred!CredInv, Cred!LineOK, Cred!Reaches
  \* The line of an earlier approval is shut, or there is none.
  <2>2. CASE x8' = x8 /\ x12' = (x8 # -1)
    <3>1. ~(x8' # -1 /\ ~x12')
      BY <2>2
    <3> QED BY <1>1, <3>1 DEF Cred!CredInv, Cred!LineOK, Cred!Never
  <2> QED BY <1>4, <2>1, <2>2
<1> QED BY <1>5, <1>6, <1>7 DEF Cred!CredInv

LEMMA CredClaim ==
  ASSUME Cred!CredInv, NEW r \in Cred!Requests, Cred!Claim(r)
  PROVE  Cred!CredInv'
<1>1. PICK O \in {x3, {}} : Cred!Issue(O, {})
  BY DEF Cred!Claim
<1>2. /\ UNCHANGED <<x1, x8, x9, x12, x13, x14>> /\ Cred!Reply
      /\ x7[r].status = "approved" /\ x7' = [x7 EXCEPT ![r].status = "claimed"]
  BY DEF Cred!Claim
<1>3. /\ x8 \in {-1} \cup Cred!Days /\ x9 \in {-1} \cup Cred!Days /\ x12 \in BOOLEAN
      /\ x7' \in [Cred!Requests -> [status : {"none", "pending", "approved", "claimed"}, already : BOOLEAN]]
      /\ Cred!Unclaimed
  BY <1>2 DEF Cred!CredInv, Cred!TypeOK, Cred!Never, Cred!Unclaimed
<1>4. /\ Cred!TypeOK' /\ Cred!DaysOK' /\ Cred!HeldOK'
      /\ \A b \in x3' \ x4' :
           \/ x2'[b] = x1 /\ x6'[b] = -1
           \/ /\ (b \in x3 \ x4) /\ x2'[b] = x2[b]
              /\ x6'[b] = x6[b] \/ (x6'[b] = x1 + Grace /\ (x6[b] = -1 \/ x6[b] > x1 + Grace))
  BY <1>1, <1>2, <1>3, CredMinting
<1>5. ASSUME x8 # -1, ~x12, x9 = -1, NEW b \in x3' \ x4'
      PROVE  Cred!Reaches(b)'
  <2>1. x8 >= x1 + Ttl /\ \A c \in x3 \ x4 : Cred!Reaches(c)
    BY <1>3, <1>5 DEF Cred!CredInv, Cred!LineOK, Cred!Never
  <2>2. CASE x2'[b] = x1 /\ x6'[b] = -1
    BY <2>1, <2>2, <1>2 DEF Cred!Reaches
  <2>3. CASE /\ (b \in x3 \ x4) /\ x2'[b] = x2[b]
             /\ x6'[b] = x6[b] \/ (x6'[b] = x1 + Grace /\ (x6[b] = -1 \/ x6[b] > x1 + Grace))
    <3>1. /\ x1 \in Nat /\ x8 \in Nat /\ x2[b] \in Nat /\ x6[b] \in {-1} \cup Nat /\ x2[b] <= x1
      BY <2>3, <1>5, CredTypes
    <3>2. /\ x8 >= x2[b] + Ttl
      BY <2>1, <3>1, CredNums
    <3> QED BY <2>3, <3>2, <1>2 DEF Cred!Reaches
  <2> QED BY <2>2, <2>3, <1>4
<1>6. Cred!LineOK'
  BY <1>2, <1>3, <1>5 DEF Cred!CredInv, Cred!LineOK, Cred!Never
<1> QED BY <1>4, <1>6 DEF Cred!CredInv

LEMMA CredRenew ==
  ASSUME Cred!CredInv, Cred!Renew(x10)
  PROVE  Cred!CredInv'
<1>1. /\ UNCHANGED <<x1, x7, x8, x12, x13, x14>> /\ Cred!Reply /\ Cred!Issue(x3, {x10})
      /\ x9' = x1 + Ttl + Grace /\ Cred!Verifies(x10)
  BY DEF Cred!Renew, Cred!Renewable
<1>2. PICK l \in Nat : l = x1 + Ttl + Grace
  BY CredTypes, CredNums
<1>3. x9' = l /\ l \in Cred!Days
  BY <1>1, <1>2, CredTypes, CredDay
<1>4. /\ x8 \in {-1} \cup Cred!Days /\ x12 \in BOOLEAN /\ {x10} \subseteq x3
      /\ x7 \in [Cred!Requests -> [status : {"none", "pending", "approved", "claimed"}, already : BOOLEAN]]
  BY <1>1, CredVerified DEF Cred!CredInv, Cred!TypeOK, Cred!Never
<1>5. Cred!TypeOK' /\ Cred!DaysOK' /\ Cred!HeldOK'
  BY <1>1, <1>3, <1>4, CredMinting
<1>6. x8 # -1 /\ ~x12 /\ Cred!Unclaimed => x8 >= x1 + Ttl
  BY DEF Cred!CredInv, Cred!LineOK, Cred!Never
<1>7. Cred!Unclaimed' = Cred!Unclaimed
  BY <1>1 DEF Cred!Unclaimed
<1>8. Cred!LineOK'
  BY <1>1, <1>2, <1>3, <1>6, <1>7 DEF Cred!LineOK, Cred!Never
<1> QED BY <1>5, <1>8 DEF Cred!CredInv

LEMMA CredMeet ==
  ASSUME Cred!CredInv, NEW c \in Cred!Minted, Cred!Meet(c)
  PROVE  Cred!CredInv'
<1>1. /\ UNCHANGED <<x1, x2, x3, x4, x6, x7, x8, x9, x10, x11, x12, x13, x14>>
      /\ x5' = x5 \cup {c} /\ c \in x3
  BY CredVerified DEF Cred!Meet
<1>2. Cred!TypeOK'
  BY <1>1 DEF Cred!CredInv, Cred!TypeOK, Cred!Minted
<1>3. Cred!DaysOK' /\ Cred!HeldOK' /\ Cred!LineOK'
  BY <1>1 DEF Cred!CredInv, Cred!DaysOK, Cred!HeldOK, Cred!Minted, Cred!Live, Cred!LineOK,
     Cred!Reaches, Cred!Unclaimed
<1> QED BY <1>2, <1>3 DEF Cred!CredInv

LEMMA CredExtend ==
  ASSUME Cred!CredInv, Cred!Extend
  PROVE  Cred!CredInv'
<1>1. /\ UNCHANGED <<x1, x2, x3, x4, x5, x6, x7, x10, x11, x13, x14>>
      /\ x9 # -1 /\ x9' = -1
      /\ IF x8 = -1 THEN UNCHANGED <<x8, x12>> ELSE x8' = x9 /\ x12' = FALSE
  BY DEF Cred!Extend, Cred!registry, Cred!Never
<1>2. Cred!TypeOK'
  BY <1>1 DEF Cred!CredInv, Cred!TypeOK, Cred!Minted, Cred!Never
<1>3. Cred!DaysOK' /\ Cred!HeldOK'
  BY <1>1 DEF Cred!CredInv, Cred!DaysOK, Cred!HeldOK, Cred!Minted, Cred!Live
<1>4. PICK l \in Nat : l = x9 /\ l = x1 + Ttl + Grace
  BY <1>1, CredTypes DEF Cred!CredInv, Cred!LineOK, Cred!Never
<1>5. ASSUME NEW c \in x3
      PROVE  l >= x2[c] + Ttl
  <2>1. x2[c] \in Nat /\ x1 \in Nat /\ x2[c] <= x1
    BY CredTypes
  <2> QED BY <2>1, <1>4, CredNums
<1>6. l >= x1 + Ttl
  BY <1>4, CredTypes, CredNums
<1>7. Cred!LineOK'
  <2>1. CASE x8 = -1
    BY <2>1, <1>1 DEF Cred!LineOK, Cred!Never
  <2>2. CASE x8 # -1
    <3>1. x8' = l /\ x9' = -1 /\ x12' = FALSE /\ UNCHANGED <<x1, x2, x3, x4, x6>>
      BY <2>2, <1>1, <1>4
    <3> QED BY <3>1, <1>5, <1>6 DEF Cred!LineOK, Cred!Never, Cred!Reaches
  <2> QED BY <2>1, <2>2
<1> QED BY <1>2, <1>3, <1>7 DEF Cred!CredInv

\* The last end of the credentials there are is the end of one, and no other is later.
LEMMA CredLatest ==
  ASSUME Cred!CredInv
  PROVE  /\ \A c \in Cred!Active : Cred!Ends(c) \in {-1} \cup (0..(x1 + Ttl))
         /\ \A c \in x3 \ x4 : \/ c \in Cred!Active
                               \/ x1 >= x2[c] + Ttl
                               \/ x6[c] # -1 /\ x1 >= x6[c]
         /\ \A c \in Cred!Active : Cred!Ends(c) # -1 =>
              (c \in x3) /\ (Cred!Ends(c) = x2[c] + Ttl \/ (x6[c] # -1 /\ Cred!Ends(c) = x6[c]))
         /\ Cred!Latest # -1 /\ Cred!Active # {} =>
              /\ Cred!Latest \in 0..(x1 + Ttl)
              /\ \A c \in Cred!Active : Cred!Ends(c) # -1 /\ Cred!Ends(c) <= Cred!Latest
<1>1. ASSUME NEW c \in x3
      PROVE  /\ Cred!Ends(c) \in {-1} \cup (0..(x1 + Ttl))
             /\ Cred!Ends(c) # -1 => Cred!Ends(c) = x2[c] + Ttl \/ (x6[c] # -1 /\ Cred!Ends(c) = x6[c])
  <2>1. /\ x1 \in Nat /\ x2[c] \in Nat /\ x2[c] <= x1 /\ x6[c] \in {-1} \cup Nat /\ x6[c] <= x1 + Grace
    BY CredTypes
  <2> QED BY <2>1, CredNums DEF Cred!Ends, Cred!Least, Cred!Never
<1>2. Cred!Active \subseteq x3 \ x4
  BY DEF Cred!Active
<1>3. \A c \in x3 \ x4 : c \in Cred!Active \/ (Cred!Ends(c) # -1 /\ ~(x1 < Cred!Ends(c)))
  BY DEF Cred!Active, Cred!Never
<1>4. ASSUME NEW c \in x3 \ x4, c \notin Cred!Active
      PROVE  x1 >= x2[c] + Ttl \/ (x6[c] # -1 /\ x1 >= x6[c])
  <2>1. /\ x1 \in Nat /\ Cred!Ends(c) \in {-1} \cup (0..(x1 + Ttl)) /\ Cred!Ends(c) # -1
        /\ ~(x1 < Cred!Ends(c))
    BY <1>1, <1>3, <1>4, CredTypes
  <2>2. x1 >= Cred!Ends(c)
    BY <2>1
  <2> QED BY <1>1, <2>1, <2>2
<1>5. ASSUME Cred!Latest # -1, Cred!Active # {}
      PROVE  /\ Cred!Latest \in 0..(x1 + Ttl)
             /\ \A c \in Cred!Active : Cred!Ends(c) # -1 /\ Cred!Ends(c) <= Cred!Latest
  <2> DEFINE T == {Cred!Ends(c) : c \in Cred!Active}
  <2>1. \A c \in Cred!Active : Cred!Ends(c) # -1
    BY <1>5 DEF Cred!Latest, Cred!Never
  <2>2. T \subseteq 0..(x1 + Ttl) /\ T # {} /\ x1 + Ttl \in Nat
    BY <1>1, <1>2, <1>5, <2>1, CredTypes, CredNums
  <2>3. \E e \in T : \A y \in T : y <= e
    <3> HIDE DEF T
    <3> QED BY <2>2, Largest
  <2>4. \E e \in T : \A c \in Cred!Active : Cred!Ends(c) <= e
    BY <2>3
  <2>5. Cred!Latest = CHOOSE e \in T : \A c \in Cred!Active : Cred!Ends(c) <= e
    BY <2>1 DEF Cred!Latest, Cred!Never
  <2>6. Cred!Latest \in T /\ \A c \in Cred!Active : Cred!Ends(c) <= Cred!Latest
    BY <2>4, <2>5
  <2> QED BY <2>1, <2>2, <2>6
<1> QED BY <1>1, <1>2, <1>4, <1>5

\* A line that ends no earlier than the last of them reaches as far as each.
LEMMA CredReached ==
  ASSUME Cred!CredInv, Cred!Active # {} => Cred!Latest # -1, NEW l \in Nat,
         Cred!Active # {} => l >= Cred!Latest, NEW b \in x3 \ x4
  PROVE  \/ l >= x2[b] + Ttl \/ x1 >= x2[b] + Ttl
         \/ x6[b] # -1 /\ (l >= x6[b] \/ x1 >= x6[b])
<1>1. CASE b \in Cred!Active
  <2>1. /\ Cred!Latest \in 0..(x1 + Ttl) /\ Cred!Ends(b) # -1 /\ Cred!Ends(b) <= Cred!Latest
        /\ Cred!Ends(b) \in {-1} \cup (0..(x1 + Ttl))
        /\ Cred!Ends(b) = x2[b] + Ttl \/ (x6[b] # -1 /\ Cred!Ends(b) = x6[b])
    BY <1>1, CredLatest
  <2>2. l >= Cred!Latest
    BY <1>1
  <2>3. Cred!Ends(b) \in Int /\ Cred!Latest \in Int
    BY <2>1
  <2>4. l >= Cred!Ends(b)
    BY <2>1, <2>2, <2>3
  <2> QED BY <2>1, <2>4
<1>2. CASE b \notin Cred!Active
  BY <1>2, CredLatest
<1> QED BY <1>1, <1>2

LEMMA CredOfferKey ==
  ASSUME Cred!CredInv, Cred!OfferKey(x10)
  PROVE  Cred!CredInv'
<1>1. /\ UNCHANGED <<x1, x2, x3, x4, x5, x6, x7, x9, x10, x11, x13, x14>>
      /\ x8' = (IF Cred!Latest = -1 THEN x1 + Ttl ELSE Cred!Latest) + Grace
      /\ x12' = Cred!Unclaimed /\ x10 \in x5 /\ Cred!Verifies(x10)
  BY DEF Cred!OfferKey, Cred!registry, Cred!Never
<1>2. x10 \in Cred!Active
  <2>1. (x10 \in x3 \ x4) /\ x1 < x2[x10] + Ttl /\ (x6[x10] = -1 \/ x1 < x6[x10])
    BY <1>1, CredVerified
  <2>2. x1 \in Nat /\ x2[x10] \in Nat /\ x6[x10] \in {-1} \cup Nat
    BY <2>1, CredTypes
  <2> QED BY <2>1, <2>2, CredNums DEF Cred!Active, Cred!Ends, Cred!Least, Cred!Never
<1>3. PICK l \in Nat : l = (IF Cred!Latest = -1 THEN x1 + Ttl ELSE Cred!Latest) + Grace
  BY <1>2, CredLatest, CredTypes, CredNums
<1>4. l <= x1 + Ttl + Grace
  <2>1. Cred!Latest # -1 => Cred!Latest \in 0..(x1 + Ttl)
    BY <1>2, CredLatest
  <2> QED BY <1>3, <2>1, CredTypes, CredNums
<1>5. x8' = l /\ l \in Cred!Days
  BY <1>1, <1>3, <1>4, CredTypes, CredDay
<1>6. Cred!TypeOK'
  BY <1>1, <1>5 DEF Cred!CredInv, Cred!TypeOK, Cred!Minted, Cred!Unclaimed
<1>7. Cred!DaysOK' /\ Cred!HeldOK'
  BY <1>1 DEF Cred!CredInv, Cred!DaysOK, Cred!HeldOK, Cred!Minted, Cred!Live
<1>8. ASSUME NEW b \in x3 \ x4
      PROVE  \/ l >= x2[b] + Ttl \/ x1 >= x2[b] + Ttl
             \/ x6[b] # -1 /\ (l >= x6[b] \/ x1 >= x6[b])
  <2>1. CASE Cred!Latest = -1
    <3>1. x1 \in Nat /\ x2[b] \in Nat /\ x2[b] <= x1
      BY CredTypes
    <3> QED BY <2>1, <3>1, <1>3, CredNums
  <2>2. CASE Cred!Latest # -1
    <3>1. l >= Cred!Latest
      <4>1. Cred!Latest \in 0..(x1 + Ttl)
        BY <1>2, <2>2, CredLatest
      <4>2. Cred!Latest \in Int
        BY <4>1
      <4> QED BY <2>2, <4>2, <1>3, CredNums
    <3> QED BY <2>2, <3>1, CredReached
  <2> QED BY <2>1, <2>2
<1>9. Cred!Unclaimed' = Cred!Unclaimed
  BY <1>1 DEF Cred!Unclaimed
<1>10. Cred!LineOK'
  <2>1. x9' # -1 => x9' = x1' + Ttl + Grace
    BY <1>1 DEF Cred!CredInv, Cred!LineOK, Cred!Never
  <2>2. \A b \in x3' \ x4' : Cred!Reaches(b)'
    BY <1>1, <1>5, <1>8 DEF Cred!Reaches, Cred!Never
  <2> QED BY <1>1, <1>9, <2>1, <2>2 DEF Cred!LineOK, Cred!Never
<1> QED BY <1>6, <1>7, <1>10 DEF Cred!CredInv

LEMMA CredRestart ==
  ASSUME Cred!CredInv, Cred!Restart
  PROVE  Cred!CredInv'
<1> DEFINE ends == Cred!Active # {} /\ Cred!Latest # -1
<1>1. /\ UNCHANGED <<x1, x2, x3, x4, x5, x6, x7, x10, x11, x13>>
      /\ x14 < MaxCrashes /\ x14' = x14 + 1 /\ x9' = -1
      /\ x8' = IF x8 = -1 THEN -1 ELSE IF ends THEN Cred!Latest + Grace ELSE Cred!Least(x8, x1)
      /\ x12' = (x8 # -1 /\ (~ends \/ Cred!Unclaimed))
  BY DEF Cred!Restart, Cred!registry, Cred!Never
<1>2. x8' \in {-1} \cup Cred!Days
  <2>1. CASE x8 # -1 /\ ends
    <3>1. Cred!Latest \in Nat /\ Cred!Latest <= x1 + Ttl
      BY <2>1, CredLatest, CredTypes, CredNums
    <3>2. PICK l \in Nat : l = Cred!Latest + Grace /\ l <= x1 + Ttl + Grace
      BY <3>1, CredTypes, CredNums
    <3> QED BY <1>1, <2>1, <3>2, CredTypes, CredDay
  <2>2. CASE x8 # -1 /\ ~ends
    <3>1. x1 \in Cred!Days /\ x8 \in Cred!Days
      BY <2>2, CredTypes, CredDay, CredNums DEF Cred!CredInv, Cred!TypeOK, Cred!Never
    <3> QED BY <1>1, <2>2, <3>1 DEF Cred!Least
  <2> QED BY <1>1, <2>1, <2>2
<1>3. Cred!TypeOK'
  <2>1. x14' \in 0..MaxCrashes
    BY <1>1, CredNums DEF Cred!CredInv, Cred!TypeOK
  <2>2. x12' \in BOOLEAN
    BY <1>1
  <2> HIDE DEF ends
  <2> QED BY <1>1, <1>2, <2>1, <2>2 DEF Cred!CredInv, Cred!TypeOK, Cred!Minted, Cred!Never
<1>4. Cred!DaysOK' /\ Cred!HeldOK'
  BY <1>1 DEF Cred!CredInv, Cred!DaysOK, Cred!HeldOK, Cred!Minted, Cred!Live
<1>5. ASSUME x8' # -1, ~x12'
      PROVE  /\ ~Cred!Unclaimed /\ x8 # -1 /\ ends /\ x8' = Cred!Latest + Grace
  BY <1>1, <1>5
<1>6. ASSUME x8' # -1, ~x12', NEW b \in x3 \ x4
      PROVE  Cred!Reaches(b)'
  <2>1. Cred!Latest \in Nat
    BY <1>5, <1>6, CredLatest, CredTypes, CredNums
  <2>2. PICK l \in Nat : l = Cred!Latest + Grace
    BY <2>1, CredNums
  <2>3. l >= Cred!Latest
    BY <2>1, <2>2, CredNums
  <2>4. \/ l >= x2[b] + Ttl \/ x1 >= x2[b] + Ttl
        \/ x6[b] # -1 /\ (l >= x6[b] \/ x1 >= x6[b])
    BY <1>5, <1>6, <2>3, CredReached
  <2>5. x8' = l
    BY <1>5, <1>6, <2>2
  <2> QED BY <1>1, <2>4, <2>5 DEF Cred!Reaches, Cred!Never
<1>7. Cred!Unclaimed' = Cred!Unclaimed
  BY <1>1 DEF Cred!Unclaimed
<1>8. Cred!LineOK'
  BY <1>1, <1>5, <1>6, <1>7 DEF Cred!LineOK, Cred!Never
<1> QED BY <1>3, <1>4, <1>8 DEF Cred!CredInv

LEMMA CredRevoke ==
  ASSUME Cred!CredInv, Cred!Revoke
  PROVE  Cred!CredInv'
<1>1. /\ UNCHANGED <<x1, x2, x3, x5, x6, x9, x10, x11, x13, x14>>
      /\ x4' = x4 \cup x3 /\ x8' = -1 /\ x12' = FALSE
      /\ x7' = [r \in Cred!Requests |-> [status |-> "none", already |-> FALSE]]
  BY DEF Cred!Revoke, Cred!Never, Cred!NoAsk
<1>2. Cred!TypeOK'
  BY <1>1 DEF Cred!CredInv, Cred!TypeOK, Cred!Minted, Cred!Never
<1>3. Cred!DaysOK' /\ Cred!HeldOK'
  BY <1>1 DEF Cred!CredInv, Cred!DaysOK, Cred!HeldOK, Cred!Minted, Cred!Live
<1>4. Cred!LineOK'
  BY <1>1 DEF Cred!CredInv, Cred!LineOK, Cred!Never
<1> QED BY <1>2, <1>3, <1>4 DEF Cred!CredInv

LEMMA CredPurge ==
  ASSUME Cred!CredInv, Cred!Purge
  PROVE  Cred!CredInv'
<1>1. /\ UNCHANGED <<x1, x2, x8, x9, x10, x11, x12, x14>>
      /\ x3 \subseteq x4 /\ x13' = x13 \cup x3 /\ x3' = {} /\ x4' = x4 \ x3 /\ x5' = x5 \ x3
      /\ x6' = [c \in Cred!Creds |-> IF c \in x3 THEN -1 ELSE x6[c]]
      /\ x7' = [r \in Cred!Requests |-> [status |-> "none", already |-> FALSE]]
  BY DEF Cred!Purge, Cred!Never, Cred!NoAsk
<1>2. /\ x3 \subseteq Cred!Minted /\ x4 \subseteq x3 /\ x5 \subseteq x3 /\ x1 \in Nat
      /\ x6 \in [Cred!Creds -> {-1} \cup Cred!Days]
      /\ \A c \in Cred!Creds : x6[c] <= x1 + Grace
  BY CredTypes
<1>3. Cred!Minted' = Cred!Minted
  BY <1>1 DEF Cred!Minted
<1>4. Cred!TypeOK'
  BY <1>1, <1>2, <1>3 DEF Cred!CredInv, Cred!TypeOK, Cred!Never
<1>5. Cred!DaysOK'
  <2>1. \A c \in Cred!Creds : x6'[c] <= x1 + Grace /\ (x6[c] = -1 => x6'[c] = -1)
    BY <1>1, <1>2, CredNums
  <2> QED BY <1>1, <1>3, <2>1 DEF Cred!CredInv, Cred!DaysOK, Cred!Never
<1>6. Cred!HeldOK'
  <2>1. Cred!Live' => Cred!Live /\ x10 \notin x3
    BY <1>1 DEF Cred!Live
  <2>2. Cred!Live => x10 \in x3
    BY DEF Cred!CredInv, Cred!HeldOK
  <2> QED BY <1>1, <2>1, <2>2 DEF Cred!CredInv, Cred!HeldOK
<1>7. ~Cred!Unclaimed'
  BY <1>1 DEF Cred!Unclaimed
<1>8. Cred!LineOK'
  BY <1>1, <1>7 DEF Cred!CredInv, Cred!LineOK
<1> QED BY <1>4, <1>5, <1>6, <1>8 DEF Cred!CredInv

\* The day ends, and what was due in it is done: the device renewed, or it lost a reply and
\* the grace of the credential it holds has another day.
LEMMA CredTick ==
  ASSUME Cred!CredInv, Cred!Tick
  PROVE  Cred!CredInv'
<1>1. /\ UNCHANGED <<x2, x3, x4, x5, x6, x8, x9, x10, x11, x12, x13, x14>>
      /\ x1 < MaxTime /\ x9 = -1 /\ x1' = x1 + 1 /\ Cred!Attended
      /\ x7' = [r \in Cred!Requests |-> IF x7[r].status = "claimed" THEN x7[r]
                                        ELSE [status |-> "none", already |-> FALSE]]
  BY DEF Cred!Tick, Cred!Never, Cred!NoAsk, Cred!registry
<1>2. /\ x1 \in Nat /\ x11 \in {-1} \cup Nat
      /\ x6 \in [Cred!Creds -> {-1} \cup Cred!Days] /\ Cred!Days \subseteq Nat
      /\ x3 \subseteq Cred!Minted
      /\ \A c \in Cred!Minted : c \in Cred!Creds /\ x2[c] \in Nat /\ x2[c] <= x1
      /\ \A c \in Cred!Creds : x6[c] <= x1 + Grace
  BY CredTypes
<1>3. PICK n \in Nat : n = x1 + 1
  BY <1>2
<1>4. x1' = n /\ n <= MaxTime
  BY <1>1, <1>2, <1>3, CredNums
<1>5. Cred!TypeOK'
  <2>1. x1' \in 0..MaxTime
    BY <1>4, CredNums
  <2>2. x7' \in [Cred!Requests -> [status : {"none", "pending", "approved", "claimed"}, already : BOOLEAN]]
    BY <1>1 DEF Cred!CredInv, Cred!TypeOK
  <2> QED BY <1>1, <2>1, <2>2 DEF Cred!CredInv, Cred!TypeOK, Cred!Minted
<1>6. Cred!DaysOK'
  <2>1. \A c \in Cred!Minted : x2[c] \in 0..n
    BY <1>2, <1>3
  <2>2. \A c \in Cred!Creds : x6[c] <= n + Grace
    <3> TAKE c \in Cred!Creds
    <3>1. x6[c] \in {-1} \cup Nat /\ x6[c] <= x1 + Grace
      BY <1>2
    <3> QED BY <3>1, <1>2, <1>3, CredNums
  <2> QED BY <1>1, <1>4, <2>1, <2>2 DEF Cred!CredInv, Cred!DaysOK, Cred!Minted
<1>7. /\ x11 # -1 => x11 <= x1 /\ x1 < x11 + Grace
      /\ Cred!Live => /\ x10 \in x3
                      /\ x2[x10] + Ttl - Window >= (IF x11 = -1 THEN x1 ELSE x11)
                      /\ x6[x10] = -1 \/ (x11 # -1 /\ x6[x10] >= x11 + Grace)
  BY DEF Cred!CredInv, Cred!HeldOK, Cred!Never
<1>8. x11 # -1 => x11 <= n /\ n < x11 + Grace
  BY <1>1, <1>2, <1>3, <1>7 DEF Cred!Attended, Cred!Never
<1>9. ASSUME Cred!Live, x11 = -1
      PROVE  x2[x10] + Ttl - Window >= n
  <2>1. /\ (x10 \in x3) /\ x6[x10] = -1 /\ x2[x10] + Ttl - Window >= x1 /\ x10 # 0 /\ x10 \notin x4
    BY <1>7, <1>9 DEF Cred!Live
  <2>2. x10 \in Cred!Minted /\ x2[x10] \in Nat
    BY <2>1, <1>2
  <2>3. ~Cred!TooOld(x10)
    BY <2>1, <2>2, <1>2, CredNums DEF Cred!TooOld
  <2>4. Cred!Verifies(x10)
    BY <2>1, <2>2, <2>3 DEF Cred!Verifies, Cred!Reason, Cred!Never
  <2>5. ~Cred!Renewable(x10)
    BY <2>1, <1>1, <1>9 DEF Cred!Attended, Cred!Never
  <2>6. ~(x1 >= x2[x10] + Ttl - Window)
    <3>1. Cred!Least(x2[x10] + Ttl, x6[x10]) = x2[x10] + Ttl
      BY <2>1, <2>2, CredNums DEF Cred!Least, Cred!Never
    <3> QED BY <2>2, <2>4, <2>5, <3>1, <1>2, CredNums DEF Cred!Renewable
  <2> QED BY <2>2, <2>6, <1>2, <1>3, CredNums
<1>10. Cred!HeldOK'
  <2>1. Cred!Live' = Cred!Live
    BY <1>1 DEF Cred!Live
  <2>2. Cred!Live => x2[x10] + Ttl - Window >= (IF x11 = -1 THEN n ELSE x11)
    BY <1>7, <1>9
  <2> QED BY <1>1, <1>4, <1>7, <1>8, <2>1, <2>2 DEF Cred!HeldOK, Cred!Never
<1>11. ~Cred!Unclaimed'
  BY <1>1 DEF Cred!Unclaimed
<1>12. ASSUME NEW b \in x3 \ x4, Cred!Reaches(b)
       PROVE  Cred!Reaches(b)'
  <2>1. /\ x1 \in Nat /\ x2[b] \in Nat /\ x6[b] \in {-1} \cup Nat
    BY <1>2
  <2>2. \/ x8 >= x2[b] + Ttl \/ x1 >= x2[b] + Ttl
        \/ x6[b] # -1 /\ (x8 >= x6[b] \/ x1 >= x6[b])
    BY <1>12 DEF Cred!Reaches, Cred!Never
  <2>3. \/ x8 >= x2[b] + Ttl \/ n >= x2[b] + Ttl
        \/ x6[b] # -1 /\ (x8 >= x6[b] \/ n >= x6[b])
    BY <2>1, <2>2, <1>3, CredNums
  <2> QED BY <1>1, <1>4, <2>3 DEF Cred!Reaches, Cred!Never
<1>13. Cred!LineOK'
  <2>1. x8 # -1 /\ ~x12 => \A c \in x3 \ x4 : Cred!Reaches(c)
    BY <1>1 DEF Cred!CredInv, Cred!LineOK, Cred!Never
  <2> QED BY <1>1, <1>11, <1>12, <2>1 DEF Cred!LineOK, Cred!Never
<1> QED BY <1>5, <1>6, <1>10, <1>13 DEF Cred!CredInv

LEMMA CredNext ==
  ASSUME Cred!CredInv, Cred!Next
  PROVE  Cred!CredInv'
<1>1. CASE \E r \in Cred!Requests : Cred!Ask(r) \/ Cred!Approve(r) \/ Cred!Claim(r)
  BY <1>1, CredAsk, CredApprove, CredClaim
<1>2. CASE \E c \in Cred!Minted : Cred!Meet(c)
  BY <1>2, CredMeet
<1>3. CASE x10 # 0 /\ (Cred!Renew(x10) \/ Cred!OfferKey(x10))
  BY <1>3, CredRenew, CredOfferKey
<1>4. CASE Cred!Extend \/ Cred!Revoke \/ Cred!Purge \/ Cred!Restart \/ Cred!Tick
  BY <1>4, CredExtend, CredRevoke, CredPurge, CredRestart, CredTick
<1> QED BY <1>1, <1>2, <1>3, <1>4 DEF Cred!Next

-----------------------------------------------------------------------------
(* Credentials: every behaviour. *)

LEMMA CredInit ==
  ASSUME Cred!Init
  PROVE  Cred!CredInv
<1>1. PICK old \in BOOLEAN :
        /\ x2 = [c \in Cred!Creds |-> IF old /\ c = 1 THEN 0 ELSE -1]
        /\ x3 = IF old THEN {1} ELSE {}
        /\ x10 = IF old THEN 1 ELSE 0
        /\ x8 = IF old THEN Ttl + Grace ELSE -1
  BY DEF Cred!Init, Cred!Never
<1>2. /\ x1 = 0 /\ x4 = {} /\ x5 = {} /\ x6 = [c \in Cred!Creds |-> -1]
      /\ x7 = [r \in Cred!Requests |-> [status |-> "none", already |-> FALSE]]
      /\ x9 = -1 /\ x11 = -1 /\ x12 = FALSE /\ x13 = {} /\ x14 = 0
  BY DEF Cred!Init, Cred!Never, Cred!NoAsk
<1>3. 1 \in Cred!Creds /\ 0 \in Cred!Days /\ Ttl + Grace \in Cred!Days /\ Ttl + Grace \in Nat
  BY CredNums DEF Cred!Creds, Cred!Days
<1>4. Cred!Minted = x3 /\ (x3 = {1} \/ x3 = {})
  BY <1>1, <1>3 DEF Cred!Minted, Cred!Never
<1>5. ~Cred!Unclaimed
  BY <1>2 DEF Cred!Unclaimed
<1>6. Cred!TypeOK
  <2>1. x2 \in [Cred!Creds -> {-1} \cup Cred!Days] /\ x6 \in [Cred!Creds -> {-1} \cup Cred!Days]
    BY <1>1, <1>2, <1>3
  <2>2. x8 \in {-1} \cup Cred!Days /\ x10 \in {0} \cup Cred!Minted
    BY <1>1, <1>3, <1>4
  <2>3. x1 \in 0..MaxTime /\ x14 \in 0..MaxCrashes
    BY <1>2, CredNums
  <2>4. x7 \in [Cred!Requests -> [status : {"none", "pending", "approved", "claimed"}, already : BOOLEAN]]
    BY <1>2
  <2> QED BY <1>2, <1>4, <2>1, <2>2, <2>3, <2>4 DEF Cred!TypeOK, Cred!Never
<1>7. \A c \in Cred!Minted : x2[c] = 0
  BY <1>1, <1>3, <1>4
<1>8. Cred!DaysOK
  BY <1>2, <1>7, CredNums DEF Cred!DaysOK, Cred!Never
<1>9. Cred!HeldOK
  <2>1. Cred!Live => (x10 \in x3) /\ x2[x10] = 0 /\ x6[x10] = -1
    BY <1>1, <1>2, <1>3 DEF Cred!Live
  <2> QED BY <1>2, <2>1, CredNums DEF Cred!HeldOK, Cred!Never
<1>10. Cred!LineOK
  <2>1. ASSUME x8 # -1, NEW c \in x3
        PROVE  x8 >= x2[c] + Ttl
    BY <1>1, <1>4, <1>7, <2>1, CredNums
  <2> QED BY <1>2, <1>5, <2>1 DEF Cred!LineOK, Cred!Reaches, Cred!Never
<1> QED BY <1>6, <1>8, <1>9, <1>10 DEF Cred!CredInv

\* What the invariant is for: the token of a device is in the registry and within its days,
\* and a line that reaches as far as every credential is open while one of them works.
LEMMA CredHolds ==
  ASSUME Cred!CredInv
  PROVE  Cred!NeverStranded /\ Cred!LineCovers
<1>1. Cred!NeverStranded
  <2> SUFFICES ASSUME x10 # 0, x10 \notin x4 \cup x13
               PROVE  Cred!Verifies(x10)
    BY DEF Cred!NeverStranded
  <2>1. /\ (x10 \in x3) /\ x2[x10] + Ttl - Window >= (IF x11 = -1 THEN x1 ELSE x11)
        /\ x6[x10] = -1 \/ (x11 # -1 /\ x6[x10] >= x11 + Grace)
        /\ x11 # -1 => x11 <= x1 /\ x1 < x11 + Grace
    BY DEF Cred!CredInv, Cred!HeldOK, Cred!Live, Cred!Never
  <2>2. /\ x10 \in Cred!Minted /\ x2[x10] \in Nat /\ x1 \in Nat /\ x6[x10] \in {-1} \cup Nat
        /\ x11 \in {-1} \cup Nat
    BY <2>1, CredTypes
  <2>3. x2[x10] + Ttl > x1 /\ (x6[x10] = -1 \/ x6[x10] > x1)
    BY <2>1, <2>2, CredNums
  <2>4. ~Cred!TooOld(x10) /\ ~(x6[x10] # -1 /\ x1 >= x6[x10])
    BY <2>2, <2>3, CredNums DEF Cred!TooOld
  <2> QED BY <2>1, <2>2, <2>4 DEF Cred!Verifies, Cred!Reason, Cred!Never
<1>2. Cred!LineCovers
  <2> SUFFICES ASSUME NEW c \in Cred!Minted, Cred!Verifies(c), x8 # -1, x9 = -1, ~x12
               PROVE  x1 < x8
    BY DEF Cred!LineCovers, Cred!Never
  <2>1. /\ (c \in x3 \ x4) /\ x1 < x2[c] + Ttl /\ (x6[c] = -1 \/ x1 < x6[c])
    BY CredVerified
  <2>2. Cred!Reaches(c)
    BY <2>1 DEF Cred!CredInv, Cred!LineOK, Cred!Never
  <2>3. x1 \in Nat /\ x8 \in Nat /\ x2[c] \in Nat /\ x6[c] \in {-1} \cup Nat
    BY <2>1, CredTypes
  <2> QED BY <2>1, <2>2, <2>3, CredNums DEF Cred!Reaches, Cred!Never
<1> QED BY <1>1, <1>2

LEMMA CredAlways == Spec => [](part = "cred" => Cred!CredInv)
<1> DEFINE Inv == part = "cred" => Cred!CredInv
<1>1. Init => Inv
  BY CredInit DEF Init
<1>2. Inv /\ [Next]_all => Inv'
  <2> SUFFICES ASSUME Inv, [Next]_all, part' = "cred" PROVE Cred!CredInv'
    OBVIOUS
  <2>1. CASE UNCHANGED all
    BY <2>1 DEF all, Cred!CredInv, Cred!TypeOK, Cred!DaysOK, Cred!HeldOK, Cred!LineOK, Cred!Live,
       Cred!Reaches, Cred!Unclaimed, Cred!Minted
  <2>2. CASE Next
    <3>1. part = "cred" /\ Cred!Next
      BY <2>2 DEF Next
    <3> QED BY <3>1, CredNext
  <2> QED BY <2>1, <2>2
<1> QED BY <1>1, <1>2, PTL DEF Spec

\* Of auth.py, pairing.py, network.py and ssh_keys.py: a device that renews when it may and
\* hears within the grace of the first answer that was lost works until the host takes it
\* back, through lost replies, pairing again, purges and restarts, and the line that goes with
\* it is open meanwhile unless a start shut it or it was cut between an approval and its claim.
THEOREM CredentialsWork == Spec => []CredentialWorks
<1>1. (part = "cred" => Cred!CredInv) => CredentialWorks
  BY CredHolds DEF CredentialWorks
<1> QED BY <1>1, CredAlways, PTL

-----------------------------------------------------------------------------
(* Herdr's session: each step keeps WatchInv. *)

LEMMA HerdrMove ==
  ASSUME Herdr!WatchInv, Herdr!Move
  PROVE  Herdr!WatchInv'
  BY SMTT(20), HerdrAssumption DEF Herdr!Move, Herdr!loopVars, Herdr!watch, Herdr!WatchInv,
     Herdr!TypeOK, Herdr!ShapesOK, Herdr!PokeNotLost, Herdr!SubscribesOK,
     Herdr!SubscribedToThePanes, Herdr!Versions, Herdr!Polls

LEMMA HerdrOtherReads ==
  ASSUME Herdr!WatchInv, Herdr!OtherReads
  PROVE  Herdr!WatchInv'
  BY SMTT(20), HerdrAssumption DEF Herdr!OtherReads, Herdr!herdr, Herdr!loopVars, Herdr!watch,
     Herdr!WatchInv, Herdr!TypeOK, Herdr!ShapesOK, Herdr!PokeNotLost, Herdr!SubscribesOK,
     Herdr!SubscribedToThePanes, Herdr!Versions, Herdr!Polls

LEMMA HerdrTick ==
  ASSUME Herdr!WatchInv, Herdr!Tick
  PROVE  Herdr!WatchInv'
  BY SMTT(20), HerdrAssumption DEF Herdr!Tick, Herdr!Scheduled, Herdr!herdr, Herdr!loopVars,
     Herdr!watch, Herdr!NoPoll, Herdr!WatchInv, Herdr!TypeOK, Herdr!ShapesOK, Herdr!PokeNotLost,
     Herdr!SubscribesOK, Herdr!SubscribedToThePanes, Herdr!Versions, Herdr!Polls

LEMMA HerdrTake ==
  ASSUME Herdr!WatchInv, Herdr!Take
  PROVE  Herdr!WatchInv'
<1>1. Herdr!ShapesOK'
  <2>1. x10 \in Herdr!Polls
        /\ x3 \in Herdr!Versions /\ x14' = x14
    BY DEF Herdr!Take, Herdr!watch, Herdr!WatchInv, Herdr!TypeOK, Herdr!ShapesOK
  <2>2. PICK p : p = [x10 EXCEPT !.at = "reading"]
    OBVIOUS
  <2>3. x10' = [p EXCEPT !.before = x3] \/ x10' = [x10 EXCEPT !.at = "done"]
    BY <2>2 DEF Herdr!Take, Herdr!Poll
  <2> QED BY <2>1, <2>2, <2>3 DEF Herdr!WatchInv, Herdr!ShapesOK, Herdr!Polls
<1>2. Herdr!TypeOK'
  <2>1. x6' \in BOOLEAN
    BY DEF Herdr!Take, Herdr!Poll, Herdr!herdr, Herdr!loopVars, Herdr!watch, Herdr!WatchInv,
       Herdr!TypeOK
  <2>2. UNCHANGED <<x2, x7, x8, x9, x12>>
    BY DEF Herdr!Take, Herdr!Poll, Herdr!herdr, Herdr!loopVars, Herdr!watch
  <2>3. /\ x1' \in Herdr!Versions /\ x3' \in Herdr!Versions /\ x4' \in Herdr!Versions
        /\ x5' \in Herdr!Versions /\ x11' \in Herdr!Versions /\ x13' \in {"none", "open", "shut"}
        /\ x15' \in 0..MaxFaults
    BY HerdrAssumption DEF Herdr!Take, Herdr!Poll, Herdr!herdr, Herdr!loopVars, Herdr!watch,
       Herdr!WatchInv, Herdr!TypeOK
  <2> QED BY <1>1, <2>1, <2>2, <2>3 DEF Herdr!WatchInv, Herdr!TypeOK, Herdr!ShapesOK, Herdr!Polls
<1>3. Herdr!PokeNotLost'
  BY SMTT(20), HerdrAssumption DEF Herdr!Take, Herdr!Poll, Herdr!herdr, Herdr!loopVars,
     Herdr!watch, Herdr!WatchInv, Herdr!PokeNotLost, Herdr!TypeOK, Herdr!ShapesOK,
     Herdr!Versions, Herdr!Polls
<1>4. Herdr!SubscribesOK'
  BY SMTT(20), HerdrAssumption DEF Herdr!Take, Herdr!Poll, Herdr!herdr, Herdr!loopVars,
     Herdr!watch, Herdr!WatchInv, Herdr!SubscribesOK, Herdr!TypeOK, Herdr!ShapesOK,
     Herdr!Versions, Herdr!Polls
<1>5. Herdr!SubscribedToThePanes'
  BY SMTT(20), HerdrAssumption DEF Herdr!Take, Herdr!Poll, Herdr!herdr, Herdr!loopVars,
     Herdr!watch, Herdr!WatchInv, Herdr!SubscribedToThePanes, Herdr!TypeOK, Herdr!ShapesOK,
     Herdr!Versions, Herdr!Polls
<1> QED BY <1>1, <1>2, <1>3, <1>4, <1>5 DEF Herdr!WatchInv

LEMMA HerdrRead ==
  ASSUME Herdr!WatchInv, Herdr!Read
  PROVE  Herdr!WatchInv'
<1>1. Herdr!ShapesOK'
  <2>1. x10 \in Herdr!Polls
        /\ x1 \in Herdr!Versions /\ x14' = x14
    BY DEF Herdr!Read, Herdr!watch, Herdr!WatchInv, Herdr!TypeOK, Herdr!ShapesOK
  <2>2. PICK p : p = [x10 EXCEPT !.at = "subscribe"]
    OBVIOUS
  <2>3. x10' = [p EXCEPT !.got = x1]
    BY <2>2 DEF Herdr!Read
  <2> QED BY <2>1, <2>2, <2>3 DEF Herdr!WatchInv, Herdr!ShapesOK, Herdr!Polls
<1>2. Herdr!TypeOK'
  BY SMTT(20), HerdrAssumption DEF Herdr!Read, Herdr!herdr, Herdr!loopVars, Herdr!watch,
     Herdr!WatchInv, Herdr!TypeOK, Herdr!Versions, Herdr!ShapesOK, Herdr!Polls
<1>3. Herdr!PokeNotLost'
  BY SMTT(20), HerdrAssumption DEF Herdr!Read, Herdr!herdr, Herdr!loopVars, Herdr!watch,
     Herdr!WatchInv, Herdr!PokeNotLost, Herdr!TypeOK, Herdr!ShapesOK, Herdr!Versions,
     Herdr!Polls
<1>4. Herdr!SubscribesOK'
  BY SMTT(20), HerdrAssumption DEF Herdr!Read, Herdr!herdr, Herdr!loopVars, Herdr!watch,
     Herdr!WatchInv, Herdr!SubscribesOK, Herdr!TypeOK, Herdr!ShapesOK, Herdr!Versions,
     Herdr!Polls
<1>5. Herdr!SubscribedToThePanes'
  BY SMTT(20), HerdrAssumption DEF Herdr!Read, Herdr!herdr, Herdr!loopVars, Herdr!watch,
     Herdr!WatchInv, Herdr!SubscribedToThePanes, Herdr!TypeOK, Herdr!ShapesOK, Herdr!Versions,
     Herdr!Polls
<1> QED BY <1>1, <1>2, <1>3, <1>4, <1>5 DEF Herdr!WatchInv

LEMMA HerdrReadFails ==
  ASSUME Herdr!WatchInv, Herdr!ReadFails
  PROVE  Herdr!WatchInv'
  BY SMTT(20), HerdrAssumption DEF Herdr!ReadFails, Herdr!Poll, Herdr!herdr, Herdr!loopVars,
     Herdr!watch, Herdr!WatchInv, Herdr!TypeOK, Herdr!ShapesOK, Herdr!PokeNotLost,
     Herdr!SubscribesOK, Herdr!SubscribedToThePanes, Herdr!Versions, Herdr!Polls

LEMMA HerdrEnsure ==
  ASSUME Herdr!WatchInv, Herdr!Ensure
  PROVE  Herdr!WatchInv'
  BY SMTT(20), HerdrAssumption DEF Herdr!Ensure, Herdr!Poll, Herdr!herdr, Herdr!loopVars,
     Herdr!WatchInv, Herdr!TypeOK, Herdr!ShapesOK, Herdr!PokeNotLost, Herdr!SubscribesOK,
     Herdr!SubscribedToThePanes, Herdr!Versions, Herdr!Polls

LEMMA HerdrFlag ==
  ASSUME Herdr!WatchInv, Herdr!Flag
  PROVE  Herdr!WatchInv'
  BY SMTT(20), HerdrAssumption DEF Herdr!Flag, Herdr!Poll, Herdr!herdr, Herdr!loopVars,
     Herdr!WatchInv, Herdr!TypeOK, Herdr!ShapesOK, Herdr!PokeNotLost, Herdr!SubscribesOK,
     Herdr!SubscribedToThePanes, Herdr!Versions, Herdr!Polls

LEMMA HerdrDrop ==
  ASSUME Herdr!WatchInv, Herdr!Drop
  PROVE  Herdr!WatchInv'
  BY SMTT(20), HerdrAssumption DEF Herdr!Drop, Herdr!Poll, Herdr!herdr, Herdr!loopVars,
     Herdr!WatchInv, Herdr!TypeOK, Herdr!ShapesOK, Herdr!PokeNotLost, Herdr!SubscribesOK,
     Herdr!SubscribedToThePanes, Herdr!Versions, Herdr!Polls

LEMMA HerdrPublish ==
  ASSUME Herdr!WatchInv, Herdr!Publish
  PROVE  Herdr!WatchInv'
  BY SMTT(20), HerdrAssumption DEF Herdr!Publish, Herdr!Poll, Herdr!herdr, Herdr!loopVars,
     Herdr!watch, Herdr!WatchInv, Herdr!TypeOK, Herdr!ShapesOK, Herdr!PokeNotLost,
     Herdr!SubscribesOK, Herdr!SubscribedToThePanes, Herdr!Versions, Herdr!Polls

LEMMA HerdrEnd ==
  ASSUME Herdr!WatchInv, Herdr!End
  PROVE  Herdr!WatchInv'
<1>1. Herdr!ShapesOK'
  BY SMTT(20), HerdrAssumption DEF Herdr!End, Herdr!Scheduled, Herdr!NoPoll, Herdr!herdr,
     Herdr!watch, Herdr!WatchInv, Herdr!ShapesOK, Herdr!Polls, Herdr!Versions, Herdr!TypeOK
<1>2. Herdr!TypeOK'
  <2>1. x9' \in BOOLEAN
    BY DEF Herdr!End, Herdr!Scheduled, Herdr!NoPoll, Herdr!herdr, Herdr!watch, Herdr!WatchInv,
       Herdr!TypeOK
  <2>2. UNCHANGED <<x2, x6, x7, x8, x12>>
    BY DEF Herdr!End, Herdr!Scheduled, Herdr!NoPoll, Herdr!herdr, Herdr!watch
  <2>3. /\ x1' \in Herdr!Versions /\ x3' \in Herdr!Versions /\ x4' \in Herdr!Versions
        /\ x5' \in Herdr!Versions /\ x11' \in Herdr!Versions /\ x13' \in {"none", "open", "shut"}
        /\ x15' \in 0..MaxFaults
    BY HerdrAssumption DEF Herdr!End, Herdr!Scheduled, Herdr!NoPoll, Herdr!herdr, Herdr!watch,
       Herdr!WatchInv, Herdr!TypeOK
  <2> QED BY <1>1, <2>1, <2>2, <2>3 DEF Herdr!WatchInv, Herdr!TypeOK, Herdr!ShapesOK, Herdr!Polls
<1>3. Herdr!PokeNotLost'
  BY SMTT(20), HerdrAssumption DEF Herdr!End, Herdr!Scheduled, Herdr!NoPoll, Herdr!herdr,
     Herdr!watch, Herdr!WatchInv, Herdr!PokeNotLost, Herdr!TypeOK, Herdr!ShapesOK,
     Herdr!Versions, Herdr!Polls
<1>4. Herdr!SubscribesOK'
  BY SMTT(20), HerdrAssumption DEF Herdr!End, Herdr!Scheduled, Herdr!NoPoll, Herdr!herdr,
     Herdr!watch, Herdr!WatchInv, Herdr!SubscribesOK, Herdr!TypeOK, Herdr!ShapesOK,
     Herdr!Versions, Herdr!Polls
<1>5. Herdr!SubscribedToThePanes'
  BY SMTT(20), HerdrAssumption DEF Herdr!End, Herdr!Scheduled, Herdr!NoPoll, Herdr!herdr,
     Herdr!watch, Herdr!WatchInv, Herdr!SubscribedToThePanes, Herdr!TypeOK, Herdr!ShapesOK,
     Herdr!Versions, Herdr!Polls
<1> QED BY <1>1, <1>2, <1>3, <1>4, <1>5 DEF Herdr!WatchInv

LEMMA HerdrPokeSoon ==
  ASSUME Herdr!WatchInv, Herdr!PokeSoon
  PROVE  Herdr!WatchInv'
<1>1. Herdr!ShapesOK'
  BY SMTT(20), HerdrAssumption DEF Herdr!PokeSoon, Herdr!herdr, Herdr!watch, Herdr!WatchInv,
     Herdr!ShapesOK, Herdr!Polls, Herdr!Versions, Herdr!TypeOK
<1>2. Herdr!TypeOK'
  <2>1. x7' \in BOOLEAN /\ x8' \in BOOLEAN
    BY DEF Herdr!PokeSoon, Herdr!herdr, Herdr!watch, Herdr!WatchInv, Herdr!TypeOK
  <2>2. UNCHANGED <<x2, x6, x9, x12>>
    BY DEF Herdr!PokeSoon, Herdr!herdr, Herdr!watch
  <2>3. /\ x1' \in Herdr!Versions /\ x3' \in Herdr!Versions /\ x4' \in Herdr!Versions
        /\ x5' \in Herdr!Versions /\ x11' \in Herdr!Versions /\ x13' \in {"none", "open", "shut"}
        /\ x15' \in 0..MaxFaults
    BY HerdrAssumption DEF Herdr!PokeSoon, Herdr!herdr, Herdr!watch, Herdr!WatchInv, Herdr!TypeOK
  <2> QED BY <1>1, <2>1, <2>2, <2>3 DEF Herdr!WatchInv, Herdr!TypeOK, Herdr!ShapesOK, Herdr!Polls
<1>3. Herdr!PokeNotLost'
  BY SMTT(20), HerdrAssumption DEF Herdr!PokeSoon, Herdr!herdr, Herdr!watch, Herdr!WatchInv,
     Herdr!PokeNotLost, Herdr!TypeOK, Herdr!ShapesOK, Herdr!Versions, Herdr!Polls
<1>4. Herdr!SubscribesOK'
  BY SMTT(20), HerdrAssumption DEF Herdr!PokeSoon, Herdr!herdr, Herdr!watch, Herdr!WatchInv,
     Herdr!SubscribesOK, Herdr!TypeOK, Herdr!ShapesOK, Herdr!Versions, Herdr!Polls
<1>5. Herdr!SubscribedToThePanes'
  BY SMTT(20), HerdrAssumption DEF Herdr!PokeSoon, Herdr!herdr, Herdr!watch, Herdr!WatchInv,
     Herdr!SubscribedToThePanes, Herdr!TypeOK, Herdr!ShapesOK, Herdr!Versions, Herdr!Polls
<1> QED BY <1>1, <1>2, <1>3, <1>4, <1>5 DEF Herdr!WatchInv

LEMMA HerdrPokeFire ==
  ASSUME Herdr!WatchInv, Herdr!PokeFire
  PROVE  Herdr!WatchInv'
<1>1. Herdr!ShapesOK'
  BY SMTT(20), HerdrAssumption DEF Herdr!PokeFire, Herdr!Scheduled, Herdr!herdr, Herdr!watch,
     Herdr!NoPoll, Herdr!WatchInv, Herdr!ShapesOK, Herdr!Polls, Herdr!Versions, Herdr!TypeOK
<1>2. Herdr!TypeOK'
  <2>1. x8' \in BOOLEAN /\ x9' \in BOOLEAN
    BY DEF Herdr!PokeFire, Herdr!Scheduled, Herdr!herdr, Herdr!watch, Herdr!NoPoll, Herdr!WatchInv,
       Herdr!TypeOK
  <2>2. UNCHANGED <<x2, x6, x7, x12>>
    BY DEF Herdr!PokeFire, Herdr!Scheduled, Herdr!herdr, Herdr!watch, Herdr!NoPoll
  <2>3. /\ x1' \in Herdr!Versions /\ x3' \in Herdr!Versions /\ x4' \in Herdr!Versions
        /\ x5' \in Herdr!Versions /\ x11' \in Herdr!Versions /\ x13' \in {"none", "open", "shut"}
        /\ x15' \in 0..MaxFaults
    BY HerdrAssumption DEF Herdr!PokeFire, Herdr!Scheduled, Herdr!herdr, Herdr!watch, Herdr!NoPoll,
       Herdr!WatchInv, Herdr!TypeOK
  <2> QED BY <1>1, <2>1, <2>2, <2>3 DEF Herdr!WatchInv, Herdr!TypeOK, Herdr!ShapesOK, Herdr!Polls
<1>3. Herdr!PokeNotLost'
  BY SMTT(20), HerdrAssumption DEF Herdr!PokeFire, Herdr!Scheduled, Herdr!herdr, Herdr!watch,
     Herdr!NoPoll, Herdr!WatchInv, Herdr!PokeNotLost, Herdr!TypeOK, Herdr!ShapesOK,
     Herdr!Versions, Herdr!Polls
<1>4. Herdr!SubscribesOK'
  BY SMTT(20), HerdrAssumption DEF Herdr!PokeFire, Herdr!Scheduled, Herdr!herdr, Herdr!watch,
     Herdr!NoPoll, Herdr!WatchInv, Herdr!SubscribesOK, Herdr!TypeOK, Herdr!ShapesOK,
     Herdr!Versions, Herdr!Polls
<1>5. Herdr!SubscribedToThePanes'
  BY SMTT(20), HerdrAssumption DEF Herdr!PokeFire, Herdr!Scheduled, Herdr!herdr, Herdr!watch,
     Herdr!NoPoll, Herdr!WatchInv, Herdr!SubscribedToThePanes, Herdr!TypeOK, Herdr!ShapesOK,
     Herdr!Versions, Herdr!Polls
<1> QED BY <1>1, <1>2, <1>3, <1>4, <1>5 DEF Herdr!WatchInv

LEMMA HerdrServe ==
  ASSUME Herdr!WatchInv, Herdr!Serve
  PROVE  Herdr!WatchInv'
<1>1. Herdr!ShapesOK'
  BY SMTT(20), HerdrAssumption DEF Herdr!Serve, Herdr!Events, Herdr!herdr, Herdr!loopVars,
     Herdr!WatchInv, Herdr!ShapesOK, Herdr!Polls, Herdr!Versions, Herdr!TypeOK
<1>2. Herdr!TypeOK'
  <2>1. x12' \in BOOLEAN
    BY DEF Herdr!Serve, Herdr!Events, Herdr!herdr, Herdr!loopVars, Herdr!WatchInv, Herdr!TypeOK
  <2>2. UNCHANGED <<x2, x6, x7, x8, x9>>
    BY DEF Herdr!Serve, Herdr!Events, Herdr!herdr, Herdr!loopVars
  <2>3. /\ x1' \in Herdr!Versions /\ x3' \in Herdr!Versions /\ x4' \in Herdr!Versions
        /\ x5' \in Herdr!Versions /\ x11' \in Herdr!Versions /\ x13' \in {"none", "open", "shut"}
        /\ x15' \in 0..MaxFaults
    BY HerdrAssumption DEF Herdr!Serve, Herdr!Events, Herdr!herdr, Herdr!loopVars, Herdr!WatchInv,
       Herdr!TypeOK
  <2> QED BY <1>1, <2>1, <2>2, <2>3 DEF Herdr!WatchInv, Herdr!TypeOK, Herdr!ShapesOK, Herdr!Polls
<1>3. Herdr!PokeNotLost'
  BY SMTT(20), HerdrAssumption DEF Herdr!Serve, Herdr!Events, Herdr!herdr, Herdr!loopVars,
     Herdr!WatchInv, Herdr!PokeNotLost, Herdr!TypeOK, Herdr!ShapesOK, Herdr!Versions,
     Herdr!Polls
<1>4. Herdr!SubscribesOK'
  BY SMTT(20), HerdrAssumption DEF Herdr!Serve, Herdr!Events, Herdr!herdr, Herdr!loopVars,
     Herdr!WatchInv, Herdr!SubscribesOK, Herdr!TypeOK, Herdr!ShapesOK, Herdr!Versions,
     Herdr!Polls
<1>5. Herdr!SubscribedToThePanes'
  BY SMTT(20), HerdrAssumption DEF Herdr!Serve, Herdr!Events, Herdr!herdr, Herdr!loopVars,
     Herdr!WatchInv, Herdr!SubscribedToThePanes, Herdr!TypeOK, Herdr!ShapesOK, Herdr!Versions,
     Herdr!Polls
<1> QED BY <1>1, <1>2, <1>3, <1>4, <1>5 DEF Herdr!WatchInv

LEMMA HerdrReadPanes ==
  ASSUME Herdr!WatchInv, Herdr!ReadPanes
  PROVE  Herdr!WatchInv'
  BY SMTT(20), HerdrAssumption DEF Herdr!ReadPanes, Herdr!herdr, Herdr!loopVars, Herdr!WatchInv,
     Herdr!TypeOK, Herdr!ShapesOK, Herdr!PokeNotLost, Herdr!SubscribesOK,
     Herdr!SubscribedToThePanes, Herdr!Versions, Herdr!Polls

LEMMA HerdrConnect ==
  ASSUME Herdr!WatchInv, Herdr!Connect
  PROVE  Herdr!WatchInv'
<1>1. Herdr!ShapesOK'
  BY SMTT(20), HerdrAssumption DEF Herdr!Connect, Herdr!Events, Herdr!loopVars, Herdr!WatchInv,
     Herdr!ShapesOK, Herdr!Polls, Herdr!Versions, Herdr!TypeOK
<1>2. Herdr!TypeOK'
  <2>1. x2' \in BOOLEAN
    BY DEF Herdr!Connect, Herdr!Events, Herdr!loopVars, Herdr!WatchInv, Herdr!TypeOK
  <2>2. UNCHANGED <<x6, x7, x8, x9, x12>>
    BY DEF Herdr!Connect, Herdr!Events, Herdr!loopVars
  <2>3. /\ x1' \in Herdr!Versions /\ x3' \in Herdr!Versions /\ x4' \in Herdr!Versions
        /\ x5' \in Herdr!Versions /\ x11' \in Herdr!Versions /\ x13' \in {"none", "open", "shut"}
        /\ x15' \in 0..MaxFaults
    BY HerdrAssumption DEF Herdr!Connect, Herdr!Events, Herdr!loopVars, Herdr!WatchInv, Herdr!TypeOK
  <2> QED BY <1>1, <2>1, <2>2, <2>3 DEF Herdr!WatchInv, Herdr!TypeOK, Herdr!ShapesOK, Herdr!Polls
<1>3. Herdr!PokeNotLost'
  BY SMTT(20), HerdrAssumption DEF Herdr!Connect, Herdr!Events, Herdr!loopVars, Herdr!WatchInv,
     Herdr!PokeNotLost, Herdr!TypeOK, Herdr!ShapesOK, Herdr!Versions, Herdr!Polls
<1>4. Herdr!SubscribesOK'
  BY SMTT(20), HerdrAssumption DEF Herdr!Connect, Herdr!Events, Herdr!loopVars, Herdr!WatchInv,
     Herdr!SubscribesOK, Herdr!TypeOK, Herdr!ShapesOK, Herdr!Versions, Herdr!Polls
<1>5. Herdr!SubscribedToThePanes'
  BY SMTT(20), HerdrAssumption DEF Herdr!Connect, Herdr!Events, Herdr!loopVars, Herdr!WatchInv,
     Herdr!SubscribedToThePanes, Herdr!TypeOK, Herdr!ShapesOK, Herdr!Versions, Herdr!Polls
<1> QED BY <1>1, <1>2, <1>3, <1>4, <1>5 DEF Herdr!WatchInv

LEMMA HerdrConnectFails ==
  ASSUME Herdr!WatchInv, Herdr!ConnectFails
  PROVE  Herdr!WatchInv'
  BY SMTT(20), HerdrAssumption DEF Herdr!ConnectFails, Herdr!Events, Herdr!herdr,
     Herdr!loopVars, Herdr!WatchInv, Herdr!TypeOK, Herdr!ShapesOK, Herdr!PokeNotLost,
     Herdr!SubscribesOK, Herdr!SubscribedToThePanes, Herdr!Versions, Herdr!Polls

LEMMA HerdrSubscribe ==
  ASSUME Herdr!WatchInv, Herdr!Subscribe
  PROVE  Herdr!WatchInv'
  BY SMTT(20), HerdrAssumption DEF Herdr!Subscribe, Herdr!Events, Herdr!herdr, Herdr!loopVars,
     Herdr!WatchInv, Herdr!TypeOK, Herdr!ShapesOK, Herdr!PokeNotLost, Herdr!SubscribesOK,
     Herdr!SubscribedToThePanes, Herdr!Versions, Herdr!Polls

LEMMA HerdrEvent ==
  ASSUME Herdr!WatchInv, Herdr!Event
  PROVE  Herdr!WatchInv'
<1>1. Herdr!ShapesOK'
  BY SMTT(20), HerdrAssumption DEF Herdr!Event, Herdr!Events, Herdr!loopVars, Herdr!WatchInv,
     Herdr!ShapesOK, Herdr!Polls, Herdr!Versions, Herdr!TypeOK
<1>2. Herdr!TypeOK'
  <2>1. x2' \in BOOLEAN /\ x6' \in BOOLEAN
    BY DEF Herdr!Event, Herdr!Events, Herdr!loopVars, Herdr!WatchInv, Herdr!TypeOK
  <2>2. UNCHANGED <<x7, x8, x9, x12>>
    BY DEF Herdr!Event, Herdr!Events, Herdr!loopVars
  <2>3. /\ x1' \in Herdr!Versions /\ x3' \in Herdr!Versions /\ x4' \in Herdr!Versions
        /\ x5' \in Herdr!Versions /\ x11' \in Herdr!Versions /\ x13' \in {"none", "open", "shut"}
        /\ x15' \in 0..MaxFaults
    BY HerdrAssumption DEF Herdr!Event, Herdr!Events, Herdr!loopVars, Herdr!WatchInv, Herdr!TypeOK
  <2> QED BY <1>1, <2>1, <2>2, <2>3 DEF Herdr!WatchInv, Herdr!TypeOK, Herdr!ShapesOK, Herdr!Polls
<1>3. Herdr!PokeNotLost'
  BY SMTT(20), HerdrAssumption DEF Herdr!Event, Herdr!Events, Herdr!loopVars, Herdr!WatchInv,
     Herdr!PokeNotLost, Herdr!TypeOK, Herdr!ShapesOK, Herdr!Versions, Herdr!Polls
<1>4. Herdr!SubscribesOK'
  BY SMTT(20), HerdrAssumption DEF Herdr!Event, Herdr!Events, Herdr!loopVars, Herdr!WatchInv,
     Herdr!SubscribesOK, Herdr!TypeOK, Herdr!ShapesOK, Herdr!Versions, Herdr!Polls
<1>5. Herdr!SubscribedToThePanes'
  BY SMTT(20), HerdrAssumption DEF Herdr!Event, Herdr!Events, Herdr!loopVars, Herdr!WatchInv,
     Herdr!SubscribedToThePanes, Herdr!TypeOK, Herdr!ShapesOK, Herdr!Versions, Herdr!Polls
<1> QED BY <1>1, <1>2, <1>3, <1>4, <1>5 DEF Herdr!WatchInv

LEMMA HerdrPoke ==
  ASSUME Herdr!WatchInv, Herdr!Poke
  PROVE  Herdr!WatchInv'
  BY SMTT(20), HerdrAssumption DEF Herdr!Poke, Herdr!Events, Herdr!herdr, Herdr!WatchInv,
     Herdr!TypeOK, Herdr!ShapesOK, Herdr!PokeNotLost, Herdr!SubscribesOK,
     Herdr!SubscribedToThePanes, Herdr!Versions, Herdr!Polls

LEMMA HerdrEnded ==
  ASSUME Herdr!WatchInv, Herdr!Ended
  PROVE  Herdr!WatchInv'
<1>1. Herdr!ShapesOK'
  BY SMTT(20), HerdrAssumption DEF Herdr!Ended, Herdr!Events, Herdr!loopVars, Herdr!WatchInv,
     Herdr!ShapesOK, Herdr!Polls, Herdr!Versions, Herdr!TypeOK
<1>2. Herdr!TypeOK'
  <2>1. x2' \in BOOLEAN
    BY DEF Herdr!Ended, Herdr!Events, Herdr!loopVars, Herdr!WatchInv, Herdr!TypeOK
  <2>2. UNCHANGED <<x6, x7, x8, x9, x12>>
    BY DEF Herdr!Ended, Herdr!Events, Herdr!loopVars
  <2>3. /\ x1' \in Herdr!Versions /\ x3' \in Herdr!Versions /\ x4' \in Herdr!Versions
        /\ x5' \in Herdr!Versions /\ x11' \in Herdr!Versions /\ x13' \in {"none", "open", "shut"}
        /\ x15' \in 0..MaxFaults
    BY HerdrAssumption DEF Herdr!Ended, Herdr!Events, Herdr!loopVars, Herdr!WatchInv, Herdr!TypeOK
  <2> QED BY <1>1, <2>1, <2>2, <2>3 DEF Herdr!WatchInv, Herdr!TypeOK, Herdr!ShapesOK, Herdr!Polls
<1>3. Herdr!PokeNotLost'
  BY SMTT(20), HerdrAssumption DEF Herdr!Ended, Herdr!Events, Herdr!loopVars, Herdr!WatchInv,
     Herdr!PokeNotLost, Herdr!TypeOK, Herdr!ShapesOK, Herdr!Versions, Herdr!Polls
<1>4. Herdr!SubscribesOK'
  BY SMTT(20), HerdrAssumption DEF Herdr!Ended, Herdr!Events, Herdr!loopVars, Herdr!WatchInv,
     Herdr!SubscribesOK, Herdr!TypeOK, Herdr!ShapesOK, Herdr!Versions, Herdr!Polls
<1>5. Herdr!SubscribedToThePanes'
  BY SMTT(20), HerdrAssumption DEF Herdr!Ended, Herdr!Events, Herdr!loopVars, Herdr!WatchInv,
     Herdr!SubscribedToThePanes, Herdr!TypeOK, Herdr!ShapesOK, Herdr!Versions, Herdr!Polls
<1> QED BY <1>1, <1>2, <1>3, <1>4, <1>5 DEF Herdr!WatchInv

LEMMA HerdrRetry ==
  ASSUME Herdr!WatchInv, Herdr!Retry
  PROVE  Herdr!WatchInv'
<1>1. Herdr!ShapesOK'
  BY SMTT(20), HerdrAssumption DEF Herdr!Retry, Herdr!Events, Herdr!herdr, Herdr!loopVars,
     Herdr!WatchInv, Herdr!ShapesOK, Herdr!Polls, Herdr!Versions, Herdr!TypeOK
<1>2. Herdr!TypeOK'
  <2>1. x12' \in BOOLEAN
    BY DEF Herdr!Retry, Herdr!Events, Herdr!herdr, Herdr!loopVars, Herdr!WatchInv, Herdr!TypeOK
  <2>2. UNCHANGED <<x2, x6, x7, x8, x9>>
    BY DEF Herdr!Retry, Herdr!Events, Herdr!herdr, Herdr!loopVars
  <2>3. /\ x1' \in Herdr!Versions /\ x3' \in Herdr!Versions /\ x4' \in Herdr!Versions
        /\ x5' \in Herdr!Versions /\ x11' \in Herdr!Versions /\ x13' \in {"none", "open", "shut"}
        /\ x15' \in 0..MaxFaults
    BY HerdrAssumption DEF Herdr!Retry, Herdr!Events, Herdr!herdr, Herdr!loopVars, Herdr!WatchInv,
       Herdr!TypeOK
  <2> QED BY <1>1, <2>1, <2>2, <2>3 DEF Herdr!WatchInv, Herdr!TypeOK, Herdr!ShapesOK, Herdr!Polls
<1>3. Herdr!PokeNotLost'
  BY SMTT(20), HerdrAssumption DEF Herdr!Retry, Herdr!Events, Herdr!herdr, Herdr!loopVars,
     Herdr!WatchInv, Herdr!PokeNotLost, Herdr!TypeOK, Herdr!ShapesOK, Herdr!Versions,
     Herdr!Polls
<1>4. Herdr!SubscribesOK'
  BY SMTT(20), HerdrAssumption DEF Herdr!Retry, Herdr!Events, Herdr!herdr, Herdr!loopVars,
     Herdr!WatchInv, Herdr!SubscribesOK, Herdr!TypeOK, Herdr!ShapesOK, Herdr!Versions,
     Herdr!Polls
<1>5. Herdr!SubscribedToThePanes'
  BY SMTT(20), HerdrAssumption DEF Herdr!Retry, Herdr!Events, Herdr!herdr, Herdr!loopVars,
     Herdr!WatchInv, Herdr!SubscribedToThePanes, Herdr!TypeOK, Herdr!ShapesOK, Herdr!Versions,
     Herdr!Polls
<1> QED BY <1>1, <1>2, <1>3, <1>4, <1>5 DEF Herdr!WatchInv

LEMMA HerdrRefused ==
  ASSUME Herdr!WatchInv, Herdr!Refused
  PROVE  Herdr!WatchInv'
  BY SMTT(20), HerdrAssumption DEF Herdr!Refused, Herdr!Events, Herdr!herdr, Herdr!loopVars,
     Herdr!WatchInv, Herdr!TypeOK, Herdr!ShapesOK, Herdr!PokeNotLost, Herdr!SubscribesOK,
     Herdr!SubscribedToThePanes, Herdr!Versions, Herdr!Polls

LEMMA HerdrNext ==
  ASSUME Herdr!WatchInv, Herdr!Next
  PROVE  Herdr!WatchInv'
<1>1. CASE Herdr!Move \/ Herdr!OtherReads \/ Herdr!Tick \/ Herdr!Take \/ Herdr!Read \/ Herdr!ReadFails
  BY <1>1, HerdrMove, HerdrOtherReads, HerdrTick, HerdrTake, HerdrRead, HerdrReadFails
<1>2. CASE Herdr!Ensure \/ Herdr!Flag \/ Herdr!Drop \/ Herdr!Publish \/ Herdr!End \/ Herdr!PokeSoon \/ Herdr!PokeFire
  BY <1>2, HerdrEnsure, HerdrFlag, HerdrDrop, HerdrPublish, HerdrEnd, HerdrPokeSoon, HerdrPokeFire
<1>3. CASE Herdr!Serve \/ Herdr!ReadPanes \/ Herdr!Connect \/ Herdr!ConnectFails \/ Herdr!Subscribe
  BY <1>3, HerdrServe, HerdrReadPanes, HerdrConnect, HerdrConnectFails, HerdrSubscribe
<1>4. CASE Herdr!Event \/ Herdr!Poke \/ Herdr!Ended \/ Herdr!Retry \/ Herdr!Refused
  BY <1>4, HerdrEvent, HerdrPoke, HerdrEnded, HerdrRetry, HerdrRefused
<1> QED BY <1>1, <1>2, <1>3, <1>4 DEF Herdr!Next

LEMMA HerdrInit ==
  ASSUME Herdr!Init
  PROVE  Herdr!WatchInv
<1>1. 0 \in Herdr!Versions /\ 0 \in 0..MaxFaults
  BY HerdrAssumption DEF Herdr!Versions
<1>2. x10 \in Herdr!Polls /\ x10.at = "none" /\ x10.before = 0 /\ x10.got = 0
  BY <1>1 DEF Herdr!Init, Herdr!NoPoll, Herdr!Polls
<1>3. x14.at = "off" /\ x14.panes = 0
  BY DEF Herdr!Init
<1>4. Herdr!ShapesOK
  BY <1>1, <1>2 DEF Herdr!Init, Herdr!ShapesOK
<1>5. Herdr!TypeOK
  BY <1>1, <1>2, <1>3 DEF Herdr!Init, Herdr!TypeOK
<1>6. Herdr!PokeNotLost /\ Herdr!SubscribesOK /\ Herdr!SubscribedToThePanes
  BY <1>3 DEF Herdr!Init, Herdr!PokeNotLost, Herdr!SubscribesOK, Herdr!SubscribedToThePanes
<1> QED BY <1>4, <1>5, <1>6 DEF Herdr!WatchInv

-----------------------------------------------------------------------------
(* Herdr's panes: each step keeps PaneInv. *)

LEMMA PaneClaim ==
  ASSUME Pane!PaneInv, NEW s \in Streams, NEW takeover \in BOOLEAN, Pane!Claim(s, takeover)
  PROVE  Pane!PaneInv'
<1>1. Pane!ShapesOK'
  BY SMTT(20), PaneAssumption DEF Pane!Claim, Pane!At, Pane!looking, Pane!typing, Pane!outside,
     Pane!PaneInv, Pane!ShapesOK, Pane!Sizes, Pane!Turns, Pane!TypeOK
<1>2. Pane!TypeOK'
  <2>1. /\ UNCHANGED <<x3, x4, x5, x6, x8, x9, x11>> /\ x1' \in Streams /\ x13' \in 0..MaxRuns
    BY PaneAssumption DEF Pane!Claim, Pane!looking, Pane!typing, Pane!outside, Pane!PaneInv,
       Pane!TypeOK
  <2>2. x2 \in [Streams -> [at : {"idle", "upgrade", "open", "ending"}, evicted : BOOLEAN]]
    BY DEF Pane!PaneInv, Pane!TypeOK
  <2>3. x2' \in [Streams -> [at : {"idle", "upgrade", "open", "ending"}, evicted : BOOLEAN]]
    <3>1. \A c \in Streams : [x2[c] EXCEPT !.evicted = TRUE] \in [at : {"idle", "upgrade", "open", "ending"}, evicted : BOOLEAN]
      BY <2>2
    <3> QED BY <2>2, <3>1 DEF Pane!Claim
  <2> QED BY <2>1, <2>2, <2>3 DEF Pane!PaneInv, Pane!TypeOK
<1>3. Pane!TypistOK'
  BY SMTT(20), PaneAssumption DEF Pane!Claim, Pane!At, Pane!looking, Pane!typing, Pane!outside,
     Pane!PaneInv, Pane!TypistOK, Pane!W, Pane!TypeOK, Pane!ShapesOK, Pane!Sizes, Pane!Turns
<1>4. Pane!HolderStays'
  BY SMTT(20), PaneAssumption DEF Pane!Claim, Pane!At, Pane!looking, Pane!typing, Pane!outside,
     Pane!PaneInv, Pane!HolderStays, Pane!TypeOK, Pane!ShapesOK, Pane!Sizes, Pane!Turns
<1>5. Pane!EnterIsProved'
  BY SMTT(20), PaneAssumption DEF Pane!Claim, Pane!At, Pane!looking, Pane!typing, Pane!outside,
     Pane!PaneInv, Pane!EnterIsProved, Pane!TypistOK, Pane!W, Pane!TypeOK, Pane!ShapesOK,
     Pane!Sizes, Pane!Turns
<1> QED BY <1>1, <1>2, <1>3, <1>4, <1>5 DEF Pane!PaneInv

LEMMA PaneUpgrade ==
  ASSUME Pane!PaneInv, NEW s \in Streams, Pane!Upgrade(s)
  PROVE  Pane!PaneInv'
<1>1. Pane!ShapesOK'
  BY SMTT(20), PaneAssumption DEF Pane!Upgrade, Pane!At, Pane!Set, Pane!Released, Pane!NoClaim,
     Pane!looking, Pane!typing, Pane!outside, Pane!PaneInv, Pane!ShapesOK, Pane!Sizes,
     Pane!Turns, Pane!TypeOK
<1>2. Pane!TypeOK'
  <2>1. /\ UNCHANGED <<x3, x4, x5, x6, x8, x9, x11, x13>> /\ x1' \in Streams \cup {NoStream}
    BY DEF Pane!Upgrade, Pane!Released, Pane!Set, Pane!looking, Pane!typing, Pane!outside,
       Pane!PaneInv, Pane!TypeOK
  <2>2. x2 \in [Streams -> [at : {"idle", "upgrade", "open", "ending"}, evicted : BOOLEAN]]
    BY DEF Pane!PaneInv, Pane!TypeOK
  <2>3. x2' \in [Streams -> [at : {"idle", "upgrade", "open", "ending"}, evicted : BOOLEAN]]
    <3>1. [x2[s] EXCEPT !.at = "open"] \in [at : {"idle", "upgrade", "open", "ending"}, evicted : BOOLEAN]
      BY <2>2
    <3>2. x2' = [x2 EXCEPT ![s] = [x2[s] EXCEPT !.at = "open"]]
          \/ x2' = [x2 EXCEPT ![s] = [at |-> "idle", evicted |-> FALSE]]
      BY DEF Pane!Upgrade, Pane!Set, Pane!NoClaim
    <3>3. [at |-> "idle", evicted |-> FALSE] \in [at : {"idle", "upgrade", "open", "ending"}, evicted : BOOLEAN]
      OBVIOUS
    <3>4. \E r \in [at : {"idle", "upgrade", "open", "ending"}, evicted : BOOLEAN] : x2' = [x2 EXCEPT ![s] = r]
      BY <3>1, <3>2, <3>3
    <3> QED BY <2>2, <3>4
  <2> QED BY <2>1, <2>2, <2>3 DEF Pane!PaneInv, Pane!TypeOK
<1>3. Pane!TypistOK'
  BY SMTT(20), PaneAssumption DEF Pane!Upgrade, Pane!At, Pane!Set, Pane!Released, Pane!NoClaim,
     Pane!looking, Pane!typing, Pane!outside, Pane!PaneInv, Pane!TypistOK, Pane!W, Pane!TypeOK,
     Pane!ShapesOK, Pane!Sizes, Pane!Turns
<1>4. Pane!HolderStays'
  BY SMTT(20), PaneAssumption DEF Pane!Upgrade, Pane!At, Pane!Set, Pane!Released, Pane!NoClaim,
     Pane!looking, Pane!typing, Pane!outside, Pane!PaneInv, Pane!HolderStays, Pane!TypeOK,
     Pane!ShapesOK, Pane!Sizes, Pane!Turns
<1>5. Pane!EnterIsProved'
  BY SMTT(20), PaneAssumption DEF Pane!Upgrade, Pane!At, Pane!Set, Pane!Released, Pane!NoClaim,
     Pane!looking, Pane!typing, Pane!outside, Pane!PaneInv, Pane!EnterIsProved, Pane!TypistOK,
     Pane!W, Pane!TypeOK, Pane!ShapesOK, Pane!Sizes, Pane!Turns
<1> QED BY <1>1, <1>2, <1>3, <1>4, <1>5 DEF Pane!PaneInv

LEMMA PaneUpgradeRefused ==
  ASSUME Pane!PaneInv, NEW s \in Streams, Pane!UpgradeRefused(s)
  PROVE  Pane!PaneInv'
  BY SMTT(20), PaneAssumption DEF Pane!UpgradeRefused, Pane!At, Pane!NoClaim, Pane!looking,
     Pane!typing, Pane!outside, Pane!PaneInv, Pane!TypeOK, Pane!ShapesOK, Pane!TypistOK,
     Pane!HolderStays, Pane!EnterIsProved, Pane!Sizes, Pane!Turns, Pane!W

LEMMA PaneEnding ==
  ASSUME Pane!PaneInv, NEW s \in Streams, Pane!Ending(s)
  PROVE  Pane!PaneInv'
  BY SMTT(20), PaneAssumption DEF Pane!Ending, Pane!At, Pane!Set, Pane!looking, Pane!typing,
     Pane!outside, Pane!PaneInv, Pane!TypeOK, Pane!ShapesOK, Pane!TypistOK, Pane!HolderStays,
     Pane!EnterIsProved, Pane!Sizes, Pane!Turns, Pane!W

LEMMA PaneEnded ==
  ASSUME Pane!PaneInv, NEW s \in Streams, Pane!Ended(s)
  PROVE  Pane!PaneInv'
  BY SMTT(20), PaneAssumption DEF Pane!Ended, Pane!At, Pane!Released, Pane!NoClaim,
     Pane!looking, Pane!typing, Pane!outside, Pane!PaneInv, Pane!TypeOK, Pane!ShapesOK,
     Pane!TypistOK, Pane!HolderStays, Pane!EnterIsProved, Pane!Sizes, Pane!Turns, Pane!W

LEMMA PaneResize ==
  ASSUME Pane!PaneInv, Pane!Resize
  PROVE  Pane!PaneInv'
  BY SMTT(20), PaneAssumption DEF Pane!Resize, Pane!control, Pane!typing, Pane!outside,
     Pane!PaneInv, Pane!TypeOK, Pane!ShapesOK, Pane!TypistOK, Pane!HolderStays,
     Pane!EnterIsProved, Pane!Sizes, Pane!Turns, Pane!W

LEMMA PaneStopped ==
  ASSUME Pane!PaneInv, Pane!Stopped
  PROVE  Pane!PaneInv'
  BY SMTT(20), PaneAssumption DEF Pane!Stopped, Pane!control, Pane!typing, Pane!outside,
     Pane!PaneInv, Pane!TypeOK, Pane!ShapesOK, Pane!TypistOK, Pane!HolderStays,
     Pane!EnterIsProved, Pane!Sizes, Pane!Turns, Pane!W

LEMMA PaneEndOfFile ==
  ASSUME Pane!PaneInv, Pane!EndOfFile
  PROVE  Pane!PaneInv'
<1>1. Pane!ShapesOK'
  BY SMTT(20), PaneAssumption DEF Pane!EndOfFile, Pane!control, Pane!typing, Pane!outside,
     Pane!PaneInv, Pane!ShapesOK, Pane!Sizes, Pane!Turns, Pane!TypeOK
<1>2. Pane!TypeOK'
  <2>1. /\ UNCHANGED <<x1, x2, x3, x4, x8, x9, x11, x13>> /\ x5' \in BOOLEAN
    BY DEF Pane!EndOfFile, Pane!control, Pane!typing, Pane!outside
  <2>2. x6'.size \in Pane!Sizes
    BY <1>1 DEF Pane!ShapesOK
  <2> QED BY <2>1, <2>2 DEF Pane!PaneInv, Pane!TypeOK
<1>3. Pane!TypistOK'
  BY SMTT(20), PaneAssumption DEF Pane!EndOfFile, Pane!control, Pane!typing, Pane!outside,
     Pane!PaneInv, Pane!TypistOK, Pane!W, Pane!TypeOK, Pane!ShapesOK, Pane!Sizes, Pane!Turns
<1>4. Pane!HolderStays'
  BY SMTT(20), PaneAssumption DEF Pane!EndOfFile, Pane!control, Pane!typing, Pane!outside,
     Pane!PaneInv, Pane!HolderStays, Pane!TypeOK, Pane!ShapesOK, Pane!Sizes, Pane!Turns
<1>5. Pane!EnterIsProved'
  BY SMTT(20), PaneAssumption DEF Pane!EndOfFile, Pane!control, Pane!typing, Pane!outside,
     Pane!PaneInv, Pane!EnterIsProved, Pane!TypistOK, Pane!W, Pane!TypeOK, Pane!ShapesOK,
     Pane!Sizes, Pane!Turns
<1> QED BY <1>1, <1>2, <1>3, <1>4, <1>5 DEF Pane!PaneInv

LEMMA PaneSpawn ==
  ASSUME Pane!PaneInv, Pane!Spawn
  PROVE  Pane!PaneInv'
<1>1. Pane!ShapesOK'
  <2>1. /\ x6 \in [host : {"read", "stop"}, client : {"read", "stop", "spawn", "closed"}, size : Pane!Sizes]
        /\ x3 \in Pane!Sizes /\ UNCHANGED <<x7, x12>>
    BY DEF Pane!Spawn, Pane!typing, Pane!PaneInv, Pane!TypeOK, Pane!ShapesOK
  <2>2. PICK p : p = [x6 EXCEPT !.client = "spawn"]
    OBVIOUS
  <2>3. x6' = [p EXCEPT !.size = x3]
    BY <2>2 DEF Pane!Spawn
  <2> QED BY <2>1, <2>2, <2>3 DEF Pane!PaneInv, Pane!ShapesOK
<1>2. Pane!TypeOK'
  BY SMTT(20), PaneAssumption DEF Pane!Spawn, Pane!control, Pane!typing, Pane!outside,
     Pane!PaneInv, Pane!TypeOK, Pane!Sizes, Pane!ShapesOK, Pane!Turns
<1>3. Pane!TypistOK'
  BY SMTT(20), PaneAssumption DEF Pane!Spawn, Pane!control, Pane!typing, Pane!outside,
     Pane!PaneInv, Pane!TypistOK, Pane!W, Pane!TypeOK, Pane!ShapesOK, Pane!Sizes, Pane!Turns
<1>4. Pane!HolderStays'
  BY SMTT(20), PaneAssumption DEF Pane!Spawn, Pane!control, Pane!typing, Pane!outside,
     Pane!PaneInv, Pane!HolderStays, Pane!TypeOK, Pane!ShapesOK, Pane!Sizes, Pane!Turns
<1>5. Pane!EnterIsProved'
  BY SMTT(20), PaneAssumption DEF Pane!Spawn, Pane!control, Pane!typing, Pane!outside,
     Pane!PaneInv, Pane!EnterIsProved, Pane!TypistOK, Pane!W, Pane!TypeOK, Pane!ShapesOK,
     Pane!Sizes, Pane!Turns
<1> QED BY <1>1, <1>2, <1>3, <1>4, <1>5 DEF Pane!PaneInv

LEMMA PaneSpawned ==
  ASSUME Pane!PaneInv, Pane!Spawned
  PROVE  Pane!PaneInv'
  BY SMTT(20), PaneAssumption DEF Pane!Spawned, Pane!control, Pane!typing, Pane!outside,
     Pane!PaneInv, Pane!TypeOK, Pane!ShapesOK, Pane!TypistOK, Pane!HolderStays,
     Pane!EnterIsProved, Pane!Sizes, Pane!Turns, Pane!W

LEMMA PaneBegin ==
  ASSUME Pane!PaneInv, NEW w \in Writers, NEW kind \in {"keys", "text", "submit", "launch"}, Pane!Begin(w, kind)
  PROVE  Pane!PaneInv'
<1>1. Pane!ShapesOK'
  <2>0. /\ x6' = x6 /\ x12' \in {x12, w, NoWriter}
    BY DEF Pane!Begin, Pane!W, Pane!Idle, Pane!control, Pane!looking, Pane!outside
  <2>1. \A v \in Writers : x7[v] \in Pane!Turns
    BY DEF Pane!PaneInv, Pane!ShapesOK
  <2>2. x7 \in [Writers -> Pane!Turns]
    BY DEF Pane!PaneInv, Pane!ShapesOK
  <2>3. [at |-> "idle", kind |-> "keys", before |-> FALSE, tries |-> 0] \in Pane!Turns
    BY DEF Pane!Turns
  <2>4. PICK q \in Pane!Turns : q = [[at |-> "idle", kind |-> "keys", before |-> FALSE, tries |-> 0] EXCEPT !.at = "lock"]
    BY <2>3 DEF Pane!Turns
  <2>5. PICK r \in Pane!Turns : r = [q EXCEPT !.kind = kind]
    BY DEF Pane!Turns
  <2>6. x7' = [x7 EXCEPT ![w] = r]
    BY <2>4, <2>5 DEF Pane!Begin, Pane!Idle
  <2>8. \E z \in Pane!Turns :
          x7' = [x7 EXCEPT ![w] = z]
    BY <2>6
  <2>9. x7' \in [Writers -> Pane!Turns]
    BY <2>2, <2>8
  <2> QED BY <2>0, <2>9 DEF Pane!PaneInv, Pane!ShapesOK
<1>2. Pane!TypeOK'
  BY SMTT(20), PaneAssumption DEF Pane!Begin, Pane!W, Pane!Idle, Pane!control, Pane!looking,
     Pane!outside, Pane!PaneInv, Pane!TypeOK, Pane!Sizes, Pane!ShapesOK, Pane!Turns
<1>3. Pane!TypistOK'
  BY SMTT(20), PaneAssumption DEF Pane!Begin, Pane!W, Pane!Idle, Pane!control, Pane!looking,
     Pane!outside, Pane!PaneInv, Pane!TypistOK, Pane!TypeOK, Pane!ShapesOK, Pane!Sizes,
     Pane!Turns
<1>4. Pane!HolderStays'
  BY SMTT(20), PaneAssumption DEF Pane!Begin, Pane!W, Pane!Idle, Pane!control, Pane!looking,
     Pane!outside, Pane!PaneInv, Pane!HolderStays, Pane!TypeOK, Pane!ShapesOK, Pane!Sizes,
     Pane!Turns
<1>5. Pane!EnterIsProved'
  BY SMTT(20), PaneAssumption DEF Pane!Begin, Pane!W, Pane!Idle, Pane!control, Pane!looking,
     Pane!outside, Pane!PaneInv, Pane!EnterIsProved, Pane!TypistOK, Pane!TypeOK, Pane!ShapesOK,
     Pane!Sizes, Pane!Turns
<1> QED BY <1>1, <1>2, <1>3, <1>4, <1>5 DEF Pane!PaneInv

LEMMA PaneLock ==
  ASSUME Pane!PaneInv, NEW w \in Writers, Pane!Lock(w)
  PROVE  Pane!PaneInv'
  BY SMTT(20), PaneAssumption DEF Pane!Lock, Pane!W, Pane!Step, Pane!control, Pane!looking,
     Pane!outside, Pane!PaneInv, Pane!TypeOK, Pane!ShapesOK, Pane!TypistOK, Pane!HolderStays,
     Pane!EnterIsProved, Pane!Sizes, Pane!Turns

LEMMA PaneBlocked ==
  ASSUME Pane!PaneInv, NEW w \in Writers, Pane!Blocked(w)
  PROVE  Pane!PaneInv'
<1>1. Pane!ShapesOK'
  <2>0. /\ x6' = x6 /\ x12' \in {x12, w, NoWriter}
    BY DEF Pane!Blocked, Pane!W, Pane!Done, Pane!Step, Pane!control, Pane!looking, Pane!outside,
       Pane!Idle
  <2>1. \A v \in Writers : x7[v] \in Pane!Turns
    BY DEF Pane!PaneInv, Pane!ShapesOK
  <2>2. x7 \in [Writers -> Pane!Turns]
    BY DEF Pane!PaneInv, Pane!ShapesOK
  <2>3. [x7[w] EXCEPT !.at = "before"] \in Pane!Turns
    BY <2>1 DEF Pane!Turns
  <2>4. \E r \in {[x7[w] EXCEPT !.at = "before"], [at |-> "idle", kind |-> "keys", before |-> FALSE, tries |-> 0]} :
         x7' = [x7 EXCEPT ![w] = r]
    BY DEF Pane!Blocked, Pane!W, Pane!Done, Pane!Step, Pane!control, Pane!looking, Pane!outside,
       Pane!Idle
  <2>5. [at |-> "idle", kind |-> "keys", before |-> FALSE, tries |-> 0] \in Pane!Turns
    BY DEF Pane!Turns
  <2>6. x7' \in [Writers -> Pane!Turns]
    BY <2>2, <2>3, <2>4, <2>5
  <2> QED BY <2>0, <2>6 DEF Pane!PaneInv, Pane!ShapesOK
<1>2. Pane!TypeOK'
  BY SMTT(20), PaneAssumption DEF Pane!Blocked, Pane!W, Pane!Done, Pane!Step, Pane!control,
     Pane!looking, Pane!outside, Pane!Idle, Pane!PaneInv, Pane!TypeOK, Pane!Sizes,
     Pane!ShapesOK, Pane!Turns
<1>3. Pane!TypistOK'
  BY SMTT(20), PaneAssumption DEF Pane!Blocked, Pane!W, Pane!Done, Pane!Step, Pane!control,
     Pane!looking, Pane!outside, Pane!Idle, Pane!PaneInv, Pane!TypistOK, Pane!TypeOK,
     Pane!ShapesOK, Pane!Sizes, Pane!Turns
<1>4. Pane!HolderStays'
  BY SMTT(20), PaneAssumption DEF Pane!Blocked, Pane!W, Pane!Done, Pane!Step, Pane!control,
     Pane!looking, Pane!outside, Pane!Idle, Pane!PaneInv, Pane!HolderStays, Pane!TypeOK,
     Pane!ShapesOK, Pane!Sizes, Pane!Turns
<1>5. Pane!EnterIsProved'
  BY SMTT(20), PaneAssumption DEF Pane!Blocked, Pane!W, Pane!Done, Pane!Step, Pane!control,
     Pane!looking, Pane!outside, Pane!Idle, Pane!PaneInv, Pane!EnterIsProved, Pane!TypistOK,
     Pane!TypeOK, Pane!ShapesOK, Pane!Sizes, Pane!Turns
<1> QED BY <1>1, <1>2, <1>3, <1>4, <1>5 DEF Pane!PaneInv

LEMMA PaneBefore ==
  ASSUME Pane!PaneInv, NEW w \in Writers, Pane!Before(w)
  PROVE  Pane!PaneInv'
<1>1. Pane!ShapesOK'
  <2>0. /\ x6' = x6 /\ x12' \in {x12, w, NoWriter}
    BY DEF Pane!Before, Pane!W, Pane!control, Pane!looking, Pane!outside
  <2>1. \A v \in Writers : x7[v] \in Pane!Turns
    BY DEF Pane!PaneInv, Pane!ShapesOK
  <2>2. x7 \in [Writers -> Pane!Turns]
    BY DEF Pane!PaneInv, Pane!ShapesOK
  <2>3. \E b \in BOOLEAN : b = (w \in x9)
    <3>1. CASE w \in x9
      <4>1. TRUE \in BOOLEAN /\ TRUE = (w \in x9)
        BY <3>1
      <4> QED BY <4>1, Zenon
    <3>2. CASE w \notin x9
      <4>1. FALSE \in BOOLEAN /\ FALSE = (w \in x9)
        BY <3>2
      <4> QED BY <4>1, Zenon
    <3> QED BY <3>1, <3>2
  <2>b. PICK b \in BOOLEAN : b = (w \in x9)
    BY <2>3, Zenon
  <2>4. PICK p \in Pane!Turns : p = [x7[w] EXCEPT !.at = "send"]
    BY <2>1 DEF Pane!Turns
  <2>5. PICK r \in Pane!Turns : r = [p EXCEPT !.before = b]
    BY DEF Pane!Turns
  <2>6. x7' = [x7 EXCEPT ![w] = [[x7[w] EXCEPT !.at = "send"] EXCEPT !.before = (w \in x9)]]
    BY DEF Pane!Before
  <2>7. x7' = [x7 EXCEPT ![w] = r]
    BY <2>b, <2>4, <2>5, <2>6
  <2>8. \E z \in Pane!Turns :
          x7' = [x7 EXCEPT ![w] = z]
    BY <2>7
  <2>9. x7' \in [Writers -> Pane!Turns]
    BY <2>2, <2>8
  <2> QED BY <2>0, <2>9 DEF Pane!PaneInv, Pane!ShapesOK
<1>2. Pane!TypeOK'
  BY SMTT(20), PaneAssumption DEF Pane!Before, Pane!W, Pane!control, Pane!looking, Pane!outside,
     Pane!PaneInv, Pane!TypeOK, Pane!Sizes, Pane!ShapesOK, Pane!Turns
<1>3. Pane!TypistOK'
  BY SMTT(20), PaneAssumption DEF Pane!Before, Pane!W, Pane!control, Pane!looking, Pane!outside,
     Pane!PaneInv, Pane!TypistOK, Pane!TypeOK, Pane!ShapesOK, Pane!Sizes, Pane!Turns
<1>4. Pane!HolderStays'
  BY SMTT(20), PaneAssumption DEF Pane!Before, Pane!W, Pane!control, Pane!looking, Pane!outside,
     Pane!PaneInv, Pane!HolderStays, Pane!TypeOK, Pane!ShapesOK, Pane!Sizes, Pane!Turns
<1>5. Pane!EnterIsProved'
  BY SMTT(20), PaneAssumption DEF Pane!Before, Pane!W, Pane!control, Pane!looking, Pane!outside,
     Pane!PaneInv, Pane!EnterIsProved, Pane!TypistOK, Pane!TypeOK, Pane!ShapesOK, Pane!Sizes,
     Pane!Turns
<1> QED BY <1>1, <1>2, <1>3, <1>4, <1>5 DEF Pane!PaneInv

LEMMA PaneSend ==
  ASSUME Pane!PaneInv, NEW w \in Writers, Pane!Send(w)
  PROVE  Pane!PaneInv'
<1>1. Pane!ShapesOK'
  <2>0. /\ x6' = x6 /\ x12' \in {x12, w, NoWriter}
    BY DEF Pane!Send, Pane!W, Pane!Typed, Pane!Step, Pane!Done, Pane!control, Pane!looking,
       Pane!Idle
  <2>1. \A v \in Writers : x7[v] \in Pane!Turns
    BY DEF Pane!PaneInv, Pane!ShapesOK
  <2>2. x7 \in [Writers -> Pane!Turns]
    BY DEF Pane!PaneInv, Pane!ShapesOK
  <2>3. [x7[w] EXCEPT !.at = "look"] \in Pane!Turns
    BY <2>1 DEF Pane!Turns
  <2>4. [x7[w] EXCEPT !.at = "enter"] \in Pane!Turns
    BY <2>1 DEF Pane!Turns
  <2>5. \E r \in {[x7[w] EXCEPT !.at = "look"], [x7[w] EXCEPT !.at = "enter"], [at |-> "idle", kind |-> "keys", before |-> FALSE, tries |-> 0]} :
         x7' = [x7 EXCEPT ![w] = r]
    BY DEF Pane!Send, Pane!W, Pane!Typed, Pane!Step, Pane!Done, Pane!control, Pane!looking,
       Pane!Idle
  <2>6. [at |-> "idle", kind |-> "keys", before |-> FALSE, tries |-> 0] \in Pane!Turns
    BY DEF Pane!Turns
  <2>7. x7' \in [Writers -> Pane!Turns]
    BY <2>2, <2>3, <2>4, <2>5, <2>6
  <2> QED BY <2>0, <2>7 DEF Pane!PaneInv, Pane!ShapesOK
<1>2. Pane!TypeOK'
  BY SMTT(20), PaneAssumption DEF Pane!Send, Pane!W, Pane!Typed, Pane!Step, Pane!Done,
     Pane!control, Pane!looking, Pane!Idle, Pane!PaneInv, Pane!TypeOK, Pane!Sizes,
     Pane!ShapesOK, Pane!Turns
<1>3. Pane!TypistOK'
  BY SMTT(20), PaneAssumption DEF Pane!Send, Pane!W, Pane!Typed, Pane!Step, Pane!Done,
     Pane!control, Pane!looking, Pane!Idle, Pane!PaneInv, Pane!TypistOK, Pane!TypeOK,
     Pane!ShapesOK, Pane!Sizes, Pane!Turns
<1>4. Pane!HolderStays'
  BY SMTT(20), PaneAssumption DEF Pane!Send, Pane!W, Pane!Typed, Pane!Step, Pane!Done,
     Pane!control, Pane!looking, Pane!Idle, Pane!PaneInv, Pane!HolderStays, Pane!TypeOK,
     Pane!ShapesOK, Pane!Sizes, Pane!Turns
<1>5. Pane!EnterIsProved'
  BY SMTT(20), PaneAssumption DEF Pane!Send, Pane!W, Pane!Typed, Pane!Step, Pane!Done,
     Pane!control, Pane!looking, Pane!Idle, Pane!PaneInv, Pane!EnterIsProved, Pane!TypistOK,
     Pane!TypeOK, Pane!ShapesOK, Pane!Sizes, Pane!Turns
<1> QED BY <1>1, <1>2, <1>3, <1>4, <1>5 DEF Pane!PaneInv

LEMMA PaneSendFails ==
  ASSUME Pane!PaneInv, NEW w \in Writers, Pane!SendFails(w)
  PROVE  Pane!PaneInv'
  BY SMTT(20), PaneAssumption DEF Pane!SendFails, Pane!Done, Pane!control, Pane!looking,
     Pane!outside, Pane!Idle, Pane!PaneInv, Pane!TypeOK, Pane!ShapesOK, Pane!TypistOK,
     Pane!HolderStays, Pane!EnterIsProved, Pane!Sizes, Pane!Turns, Pane!W

LEMMA PaneLook ==
  ASSUME Pane!PaneInv, NEW w \in Writers, Pane!Look(w)
  PROVE  Pane!PaneInv'
<1>1. Pane!ShapesOK'
  <2>0. /\ x6' = x6 /\ x12' \in {x12, w, NoWriter}
    BY DEF Pane!Look, Pane!W, Pane!Proof, Pane!Step, Pane!Done, Pane!control, Pane!looking,
       Pane!outside, Pane!Idle
  <2>1. \A v \in Writers : x7[v] \in Pane!Turns
    BY DEF Pane!PaneInv, Pane!ShapesOK
  <2>2. x7 \in [Writers -> Pane!Turns]
    BY DEF Pane!PaneInv, Pane!ShapesOK
  <2>3. \/ x7' = [x7 EXCEPT ![w].at = "enter"]
        \/ x7[w].tries < 1 /\ x7' = [x7 EXCEPT ![w].tries = @ + 1]
        \/ x7' = [x7 EXCEPT ![w] = [at |-> "idle", kind |-> "keys", before |-> FALSE, tries |-> 0]]
    BY DEF Pane!Look, Pane!Step, Pane!Done, Pane!Idle
  <2>4. [x7[w] EXCEPT !.at = "enter"] \in Pane!Turns
    BY <2>1 DEF Pane!Turns
  <2>5. x7[w].tries < 1 => [x7[w] EXCEPT !.tries = @ + 1] \in Pane!Turns
    <3>1. x7[w].tries < 1 => x7[w].tries + 1 \in 0..1
      BY <2>1 DEF Pane!Turns
    <3> QED BY <2>1, <3>1 DEF Pane!Turns
  <2>6. [at |-> "idle", kind |-> "keys", before |-> FALSE, tries |-> 0] \in Pane!Turns
    BY DEF Pane!Turns
  <2>8. \E z \in Pane!Turns :
          x7' = [x7 EXCEPT ![w] = z]
    BY <2>3, <2>4, <2>5, <2>6
  <2>9. x7' \in [Writers -> Pane!Turns]
    BY <2>2, <2>8
  <2> QED BY <2>0, <2>9 DEF Pane!PaneInv, Pane!ShapesOK
<1>2. Pane!TypeOK'
  BY SMTT(20), PaneAssumption DEF Pane!Look, Pane!W, Pane!Proof, Pane!Step, Pane!Done,
     Pane!control, Pane!looking, Pane!outside, Pane!Idle, Pane!PaneInv, Pane!TypeOK, Pane!Sizes,
     Pane!ShapesOK, Pane!Turns
<1>3. Pane!TypistOK'
  BY SMTT(20), PaneAssumption DEF Pane!Look, Pane!W, Pane!Proof, Pane!Step, Pane!Done,
     Pane!control, Pane!looking, Pane!outside, Pane!Idle, Pane!PaneInv, Pane!TypistOK,
     Pane!TypeOK, Pane!ShapesOK, Pane!Sizes, Pane!Turns
<1>4. Pane!HolderStays'
  BY SMTT(20), PaneAssumption DEF Pane!Look, Pane!W, Pane!Proof, Pane!Step, Pane!Done,
     Pane!control, Pane!looking, Pane!outside, Pane!Idle, Pane!PaneInv, Pane!HolderStays,
     Pane!TypeOK, Pane!ShapesOK, Pane!Sizes, Pane!Turns
<1>5. Pane!EnterIsProved'
  BY SMTT(20), PaneAssumption DEF Pane!Look, Pane!W, Pane!Proof, Pane!Step, Pane!Done,
     Pane!control, Pane!looking, Pane!outside, Pane!Idle, Pane!PaneInv, Pane!EnterIsProved,
     Pane!TypistOK, Pane!TypeOK, Pane!ShapesOK, Pane!Sizes, Pane!Turns
<1> QED BY <1>1, <1>2, <1>3, <1>4, <1>5 DEF Pane!PaneInv

LEMMA PaneEnter ==
  ASSUME Pane!PaneInv, NEW w \in Writers, Pane!Enter(w)
  PROVE  Pane!PaneInv'
  BY SMTT(20), PaneAssumption DEF Pane!Enter, Pane!W, Pane!Typed, Pane!Done, Pane!control,
     Pane!looking, Pane!Idle, Pane!PaneInv, Pane!TypeOK, Pane!ShapesOK, Pane!TypistOK,
     Pane!HolderStays, Pane!EnterIsProved, Pane!Sizes, Pane!Turns

LEMMA PaneShows ==
  ASSUME Pane!PaneInv, NEW w \in Writers, Pane!Shows(w)
  PROVE  Pane!PaneInv'
  BY SMTT(20), PaneAssumption DEF Pane!Shows, Pane!control, Pane!looking, Pane!typing,
     Pane!PaneInv, Pane!TypeOK, Pane!ShapesOK, Pane!TypistOK, Pane!HolderStays,
     Pane!EnterIsProved, Pane!Sizes, Pane!Turns, Pane!W

LEMMA PaneAsks ==
  ASSUME Pane!PaneInv, Pane!Asks
  PROVE  Pane!PaneInv'
  BY SMTT(20), PaneAssumption DEF Pane!Asks, Pane!control, Pane!looking, Pane!typing,
     Pane!PaneInv, Pane!TypeOK, Pane!ShapesOK, Pane!TypistOK, Pane!HolderStays,
     Pane!EnterIsProved, Pane!Sizes, Pane!Turns, Pane!W

LEMMA PaneNext ==
  ASSUME Pane!PaneInv, Pane!Next
  PROVE  Pane!PaneInv'
<1>1. CASE \E s \in Streams : \/ \E takeover \in BOOLEAN : Pane!Claim(s, takeover)
                              \/ Pane!Upgrade(s) \/ Pane!UpgradeRefused(s) \/ Pane!Ending(s) \/ Pane!Ended(s)
  BY <1>1, PaneClaim, PaneUpgrade, PaneUpgradeRefused, PaneEnding, PaneEnded
<1>2. CASE Pane!Resize \/ Pane!Stopped \/ Pane!EndOfFile \/ Pane!Spawn \/ Pane!Spawned \/ Pane!Asks
  BY <1>2, PaneResize, PaneStopped, PaneEndOfFile, PaneSpawn, PaneSpawned, PaneAsks
<1>3. CASE \E w \in Writers : \/ \E kind \in {"keys", "text", "submit", "launch"} : Pane!Begin(w, kind)
                              \/ Pane!Lock(w) \/ Pane!Blocked(w) \/ Pane!Before(w) \/ Pane!Send(w)
                              \/ Pane!SendFails(w) \/ Pane!Look(w) \/ Pane!Enter(w) \/ Pane!Shows(w)
  BY <1>3, PaneBegin, PaneLock, PaneBlocked, PaneBefore, PaneSend, PaneSendFails, PaneLook,
     PaneEnter, PaneShows
<1> QED BY <1>1, <1>2, <1>3 DEF Pane!Next

LEMMA PaneInit ==
  ASSUME Pane!Init
  PROVE  Pane!PaneInv
<1>1. 0 \in Pane!Sizes /\ 1 \in Pane!Sizes /\ 0 \in 0..MaxRuns
  BY PaneAssumption DEF Pane!Sizes
<1>2. x6 \in [host : {"read", "stop"}, client : {"read", "stop", "spawn", "closed"}, size : Pane!Sizes]
  BY <1>1 DEF Pane!Init
<1>3. x7 \in [Writers -> Pane!Turns] /\ \A w \in Writers : x7[w].at = "idle"
  BY DEF Pane!Init, Pane!Idle, Pane!Turns
<1>4. /\ x2 \in [Streams -> [at : {"idle", "upgrade", "open", "ending"}, evicted : BOOLEAN]]
      /\ \A s \in Streams : x2[s].at = "idle"
  BY DEF Pane!Init, Pane!NoClaim
<1>5. Pane!ShapesOK
  BY <1>2, <1>3 DEF Pane!Init, Pane!ShapesOK
<1>6. Pane!TypeOK
  BY <1>1, <1>2, <1>4 DEF Pane!Init, Pane!TypeOK
<1>7. Pane!TypistOK /\ Pane!HolderStays /\ Pane!EnterIsProved
  BY <1>3, <1>4 DEF Pane!TypistOK, Pane!W, Pane!HolderStays, Pane!EnterIsProved
<1> QED BY <1>5, <1>6, <1>7 DEF Pane!PaneInv

-----------------------------------------------------------------------------
(* Herdr: every behaviour. *)

HeldInv == (part = "herdr" => Herdr!WatchInv) /\ (part = "pane" => Pane!PaneInv)
LEMMA HeldAlways == Spec => []HeldInv
<1>1. Init => HeldInv
  BY HerdrInit, PaneInit DEF Init, HeldInv
<1>2. HeldInv /\ [Next]_all => HeldInv'
  <2> SUFFICES ASSUME HeldInv, [Next]_all PROVE HeldInv'
    BY DEF HeldInv
  <2>1. CASE UNCHANGED all
    <3>1. part' = "herdr" => Herdr!WatchInv'
      BY <2>1 DEF all, HeldInv, Herdr!WatchInv, Herdr!TypeOK, Herdr!ShapesOK, Herdr!PokeNotLost,
         Herdr!SubscribesOK, Herdr!SubscribedToThePanes
    <3>2. part' = "pane" => Pane!PaneInv'
      BY <2>1 DEF all, HeldInv, Pane!PaneInv, Pane!TypeOK, Pane!ShapesOK, Pane!TypistOK, Pane!W,
         Pane!HolderStays, Pane!EnterIsProved
    <3> QED BY <3>1, <3>2 DEF HeldInv
  <2>2. CASE Next
    <3>1. part' = "herdr" => part = "herdr" /\ Herdr!Next
      BY <2>2 DEF Next
    <3>2. part' = "pane" => part = "pane" /\ Pane!Next
      BY <2>2 DEF Next
    <3> QED BY <3>1, <3>2, HerdrNext, PaneNext DEF HeldInv
  <2> QED BY <2>1, <2>2
<1> QED BY <1>1, <1>2, PTL DEF Spec

\* Of herdr_events.py and service.py's poll, that a session whose events say it moved is read
\* for it and its panes are the ones listened to; and of herdr_bridge.py and network.py, that a
\* stream nobody took the pane from holds it, and Enter submits what was seen to arrive.
THEOREM HerdrStaysHeld == Spec => []HerdrIsHeld
<1>1. HeldInv => HerdrIsHeld
  BY DEF HeldInv, HerdrIsHeld, Herdr!WatchInv, Pane!PaneInv
<1> QED BY <1>1, HeldAlways, PTL
-----------------------------------------------------------------------------
(* The certificate in the fork: each step keeps MediaInv, and undoes no revoke. *)

LEMMA MediaCerts == \A r \in Media!Requests : r[1] \in Certs
  BY DEF Media!Requests

\* Steps of core that ask the fork for nothing new: an attempt stays as it is, is to be
\* cancelled, or ends with its request.
LEMMA MediaSettles ==
  ASSUME Media!MediaInv, Media!ShapesOK', Media!BoundOK', UNCHANGED <<x8, x11>>, x6' = Media!Nobody,
         x12 \subseteq x12', x9' \subseteq x9,
         \A q \in Media!Requests :
           \/ x2'[q].st = x2[q].st
           \/ Media!Live(x2, q) /\ x2'[q].st = "cancellation_pending"
           \/ x8[q] \in {"paired", "over", "gone"} /\ x2'[q].st \in Media!Terminal \cup {"none"}
           \/ q \in x12' /\ x2'[q].st = "none",
         \A q \in x9' \ x12' : x3'[q[1]].st # "none" \/ Media!Live(x2', q)
  PROVE  Media!MediaInv'
<1>1. Media!PinSentOnce' /\ Media!BarrierOK'
  BY DEF Media!PinSentOnce, Media!BarrierOK, Media!MediaInv
<1>2. Media!UnsentOK'
  BY DEF Media!UnsentOK, Media!MediaInv, Media!Terminal, Media!Live, Media!ShapesOK, Media!Answers
<1>3. Media!EndedOK'
  BY DEF Media!EndedOK, Media!MediaInv, Media!Terminal, Media!Live, Media!ShapesOK, Media!Answers
<1>4. Media!ProofOK'
  BY DEF Media!ProofOK, Media!MediaInv, Media!Terminal, Media!Live, Media!ShapesOK, Media!Answers
<1>5. Media!TrustIsOnRecord'
  BY DEF Media!TrustIsOnRecord
<1> QED BY <1>1, <1>2, <1>3, <1>4, <1>5 DEF Media!MediaInv

\* What the fork gave up it does not trust.
LEMMA MediaTaken ==
  ASSUME NEW cs \in SUBSET Certs, NEW gone \in SUBSET cs, Media!TakeBack(cs, gone)
  PROVE  x9' \subseteq x9 /\ \A q \in x9' : q[1] \notin gone
  BY DEF Media!TakeBack

\* _mark_revocation() of one attempt whose request the fork is through with.
LEMMA MediaMarked ==
  ASSUME Media!MediaInv, NEW r \in Media!Requests, x2[r].st # "none",
         x8[r] \in {"paired", "over", "gone"},
         NEW gone \in SUBSET {r[1]}, Media!TakeBack({r[1]}, gone), Media!Marked(x2, x3, {r}, gone),
         UNCHANGED <<x8, x11>>, x6' = Media!Nobody, x12 \subseteq x12'
  PROVE  Media!MediaInv' /\ Media!NotUndone
<1>1. r[1] \in Certs
  BY MediaCerts
<1>2. /\ x2' \in [Media!Requests -> Media!Attempts]
      /\ \A q \in Media!Requests \ {r} : x2'[q] = x2[q]
      /\ r[1] \in gone => x2'[r] = Media!Nil
      /\ r[1] \notin gone => x2'[r].st = "revocation_pending" /\ x2'[r].dev = x2[r].dev
  BY DEF Media!Marked, Media!MediaInv, Media!ShapesOK, Media!Answers, Media!Attempts,
     Media!Statuses, Media!Terminal, Media!Nil
<1>3. (CHOOSE q \in {r} : q[1] = r[1]) = r
  OBVIOUS
<1>4. x2[r].dev \in Devices
  BY DEF Media!MediaInv, Media!ShapesOK, Media!Answers, Media!Attempts, Media!BoundOK
<1>5. \A c \in Certs : c # r[1] => x3'[c] = x3[c]
  BY DEF Media!Marked
<1>6. r[1] \in gone => x3'[r[1]] = Media!Nil
  BY <1>1 DEF Media!Marked
<1>7. r[1] \notin gone /\ x3[r[1]].dev \in {"none", x2[r].dev}
      => x3'[r[1]] = [st |-> "revocation_pending", dev |-> x2[r].dev]
  BY <1>1, <1>3 DEF Media!Marked
<1>8. r[1] \notin gone /\ x3[r[1]].dev \notin {"none", x2[r].dev} => x3'[r[1]] = x3[r[1]]
  BY <1>1 DEF Media!Marked
<1>9. x3' = [c \in Certs |-> x3'[c]]
  BY DEF Media!Marked
<1>10. x3' \in [Certs -> Media!Bindings]
  <2>1. \A c \in Certs : x3'[c] \in Media!Bindings
    BY <1>4, <1>5, <1>6, <1>7, <1>8 DEF Media!MediaInv, Media!ShapesOK, Media!Answers,
       Media!Bindings, Media!Nil
  <2> QED BY <1>9, <2>1
<1>11. x9' \subseteq x9 /\ \A q \in x9' : q[1] \notin gone
  BY <1>1, MediaTaken
<1>12. Media!ShapesOK'
  BY <1>2, <1>10, <1>11 DEF Media!MediaInv, Media!ShapesOK, Media!Answers
<1>13. Media!BoundOK'
  <2>1. \A q \in Media!Requests : (x2'[q].st = "none") <=> (x2'[q].dev = "none")
    BY <1>2, <1>4, MediaAssumption DEF Media!MediaInv, Media!BoundOK, Media!Nil
  <2>2. \A c \in Certs : (x3'[c].st = "none") <=> (x3'[c].dev = "none")
    BY <1>4, <1>5, <1>6, <1>7, <1>8, MediaAssumption DEF Media!MediaInv, Media!BoundOK, Media!Nil
  <2> QED BY <2>1, <2>2 DEF Media!BoundOK
<1>14. \A q \in x9' \ x12' : x3'[q[1]].st # "none" \/ Media!Live(x2', q)
  <2> SUFFICES ASSUME NEW q \in x9' \ x12', x3'[q[1]].st = "none" PROVE Media!Live(x2', q)
    OBVIOUS
  <2>1. q \in Media!Requests /\ q[1] \notin gone /\ q[1] \in Certs /\ q \in x9 \ x12
    BY <1>11, MediaCerts DEF Media!MediaInv, Media!ShapesOK, Media!Answers
  <2>2. x3[q[1]].st = "none" => q[1] # r[1]
    BY <2>1, <1>7, <1>1 DEF Media!MediaInv, Media!BoundOK
  <2>3. x3[q[1]].st = "none"
    BY <2>1, <1>5, <1>7, <1>8
  <2> QED BY <2>1, <2>2, <2>3, <1>2 DEF Media!MediaInv, Media!TrustIsOnRecord, Media!Live
<1>15. \A q \in Media!Requests :
           \/ x2'[q].st = x2[q].st
           \/ x8[q] \in {"paired", "over", "gone"} /\ x2'[q].st \in Media!Terminal \cup {"none"}
  BY <1>2 DEF Media!Terminal, Media!Nil
<1>16. Media!NotUndone
  BY <1>5, <1>6, <1>7, <1>8, <1>4 DEF Media!NotUndone, Media!Nil, Media!MediaInv, Media!BoundOK
<1> QED BY <1>11, <1>12, <1>13, <1>14, <1>15, <1>16, MediaSettles

\* An attempt is over, or is to be cancelled: nothing else of the record changes.
LEMMA MediaOver ==
  ASSUME Media!MediaInv, NEW r \in Media!Requests, x2[r].st # "none",
         NEW st \in {"over", "cancellation_pending"},
         x2' = [x2 EXCEPT ![r].st = st], UNCHANGED <<x3, x9, x11>>, x6' = Media!Nobody,
         x12 \subseteq x12',
         x8' \in [Media!Requests -> Media!Answers],
         \A q \in Media!Requests \ {r} : x8'[q] = x8[q],
         x8'[r] = x8[r] \/ (x8[r] \in {"pending", "proof", "over"} /\ x8'[r] = "over"),
         st = "over" => x8'[r] = "over",
         st # "over" => Media!Live(x2, r)
  PROVE  Media!MediaInv' /\ Media!NotUndone
<1>1. /\ x2' \in [Media!Requests -> Media!Attempts] /\ x2'[r].st = st /\ x2'[r].dev = x2[r].dev
      /\ \A q \in Media!Requests \ {r} : x2'[q] = x2[q]
  BY DEF Media!MediaInv, Media!ShapesOK, Media!Answers, Media!Attempts, Media!Statuses,
     Media!Terminal
<1>2. Media!ShapesOK'
  BY <1>1 DEF Media!MediaInv, Media!ShapesOK, Media!Answers
<1>3. Media!PinSentOnce' /\ Media!BarrierOK'
  BY DEF Media!PinSentOnce, Media!BarrierOK, Media!MediaInv
<1>4. Media!UnsentOK'
  BY <1>1 DEF Media!UnsentOK, Media!EndedOK, Media!MediaInv
<1>5. Media!EndedOK'
  BY <1>1 DEF Media!EndedOK, Media!MediaInv, Media!ShapesOK, Media!Answers, Media!Terminal
<1>6. Media!ProofOK'
  BY <1>1 DEF Media!ProofOK, Media!MediaInv, Media!Live, Media!Terminal
<1>7. Media!TrustIsOnRecord'
  BY <1>1 DEF Media!TrustIsOnRecord, Media!EndedOK, Media!MediaInv, Media!Live,
     Media!Terminal, Media!ShapesOK, Media!Answers
<1>8. Media!BoundOK'
  BY <1>1 DEF Media!BoundOK, Media!MediaInv
<1>9. Media!NotUndone
  BY DEF Media!NotUndone
<1> QED BY <1>2, <1>3, <1>4, <1>5, <1>6, <1>7, <1>8, <1>9 DEF Media!MediaInv

\* _cancel(), whatever the attempt has come to.
LEMMA MediaCancel ==
  ASSUME Media!MediaInv, Media!Locked, NEW r \in Media!Requests, x2[r].st # "none",
         Media!Cancel(r, x2),
         x12 \subseteq x12'
  PROVE  Media!MediaInv' /\ Media!NotUndone
<1>0. x6' = Media!Nobody /\ UNCHANGED x11
  BY DEF Media!Cancel, Media!Locked
<1>1. CASE x2[r].st = "paired"
  <2>1. x8[r] \in {"paired", "over", "gone"}
    BY <1>1 DEF Media!MediaInv, Media!EndedOK, Media!Terminal
  <2>2. PICK gone \in SUBSET {r[1]} :
        Media!TakeBack({r[1]}, gone) /\ Media!Marked(x2, x3, {r}, gone)
    BY <1>1 DEF Media!Cancel
  <2> QED BY <1>0, <1>1, <2>1, <2>2, MediaMarked DEF Media!Cancel
<1>2. CASE x2[r].st \in Media!Terminal /\ x2[r].st # "paired"
  <2>1. x2' = x2 /\ UNCHANGED <<x3, x8, x9>>
    BY <1>2 DEF Media!Cancel
  <2>2. Media!ShapesOK' /\ Media!BoundOK' /\ Media!NotUndone
    BY <1>0, <2>1 DEF Media!MediaInv, Media!ShapesOK, Media!Answers, Media!BoundOK,
       Media!NotUndone
  <2> QED BY <1>0, <2>1, <2>2, MediaSettles DEF Media!MediaInv, Media!TrustIsOnRecord, Media!Live
<1>3. CASE x2[r].st \notin Media!Terminal
  <2>1. Media!Cancelled(r, x2)
    BY <1>3 DEF Media!Cancel, Media!Terminal
  <2>2. Media!Live(x2, r)
    BY <1>3 DEF Media!Live
  <2>3. CASE x8[r] \in {"pending", "proof", "over"} /\ x8' = [x8 EXCEPT ![r] = "over"]
             /\ x2' = [x2 EXCEPT ![r].st = "over"] /\ UNCHANGED <<x3, x9, x13>>
    BY <1>0, <2>3, MediaOver DEF Media!MediaInv, Media!ShapesOK, Media!Answers, Media!EndedOK
  <2>4. CASE /\ IF x8[r] = "gone" THEN UNCHANGED <<x8, x13>>
                ELSE /\ Media!Trouble
                     /\ x8' \in {x8} \cup (IF x8[r] \in {"pending", "proof"} THEN {[x8 EXCEPT ![r] = "over"]} ELSE {})
             /\ x2' = [x2 EXCEPT ![r].st = "cancellation_pending"] /\ UNCHANGED <<x3, x9>>
    <3>1. /\ x8' \in [Media!Requests -> Media!Answers]
          /\ \A q \in Media!Requests \ {r} : x8'[q] = x8[q]
          /\ x8'[r] = x8[r] \/ (x8[r] \in {"pending", "proof", "over"} /\ x8'[r] = "over")
      BY <2>4 DEF Media!MediaInv, Media!ShapesOK, Media!Answers
    <3> QED BY <1>0, <2>2, <2>4, <3>1, MediaOver
  <2>5. CASE x8[r] = "paired" /\ UNCHANGED x8
             /\ \E gone \in SUBSET {r[1]} :
                  Media!TakeBack({r[1]}, gone) /\ Media!Marked(x2, x3, {r}, gone)
    BY <1>0, <2>5, MediaMarked
  <2> QED BY <2>1, <2>3, <2>4, <2>5 DEF Media!Cancelled
<1> QED BY <1>1, <1>2, <1>3

\* _approve(): the barrier, an approval asked for again, or what was begun is cancelled.
LEMMA MediaBarrier ==
  ASSUME Media!MediaInv, Media!Locked, NEW r \in Media!Requests, NEW p, Media!Barrier(r, x2, p),
         x12 \subseteq x12', x2[r].st = "awaiting_local_approval"
  PROVE  Media!MediaInv' /\ Media!NotUndone
<1>1. CASE ~(x8[r] = "pending" /\ r \notin x7)
  BY <1>1, MediaCancel DEF Media!Barrier
<1>2. CASE UNCHANGED <<x2, x3, x6, x8, x9, x11>>
  <2>1. Media!ShapesOK' /\ Media!BoundOK' /\ Media!NotUndone
    BY <1>2 DEF Media!MediaInv, Media!ShapesOK, Media!Answers, Media!BoundOK, Media!NotUndone
  <2> QED BY <1>2, <2>1, MediaSettles DEF Media!MediaInv, Media!TrustIsOnRecord, Media!Live,
     Media!Locked
<1>3. CASE /\ x2' = [x2 EXCEPT ![r].st = "awaiting_local_approval"]
           /\ UNCHANGED <<x3, x6, x8, x9, x11>>
  <2>1. x2' = x2
    BY <1>3 DEF Media!MediaInv, Media!ShapesOK, Media!Answers, Media!Attempts
  <2> QED BY <1>2, <1>3, <2>1
<1>4. CASE /\ x8[r] = "pending" /\ x2' = [x2 EXCEPT ![r].st = "submitting"] /\ x6' = r
           /\ UNCHANGED <<x3, x8, x9, x11>>
  <2>1. /\ x2' \in [Media!Requests -> Media!Attempts] /\ x2'[r].st = "submitting"
        /\ x2'[r].dev = x2[r].dev
        /\ \A q \in Media!Requests \ {r} : x2'[q] = x2[q]
    BY <1>4 DEF Media!MediaInv, Media!ShapesOK, Media!Answers, Media!Attempts, Media!Statuses
  <2>2. Media!ShapesOK'
    BY <1>4, <2>1 DEF Media!MediaInv, Media!ShapesOK, Media!Answers
  <2>3. Media!BarrierOK'
    BY <1>4, <2>1 DEF Media!BarrierOK, Media!MediaInv, Media!UnsentOK
  <2>4. Media!UnsentOK' /\ Media!PinSentOnce'
    BY <1>4, <2>1 DEF Media!UnsentOK, Media!PinSentOnce, Media!MediaInv
  <2>5. Media!EndedOK'
    BY <1>4, <2>1 DEF Media!EndedOK, Media!MediaInv, Media!Terminal
  <2>6. Media!ProofOK' /\ Media!TrustIsOnRecord'
    BY <1>4, <2>1 DEF Media!ProofOK, Media!TrustIsOnRecord, Media!MediaInv, Media!ShapesOK,
       Media!Answers, Media!Live, Media!Terminal
  <2>7. Media!BoundOK' /\ Media!NotUndone
    BY <1>4, <2>1 DEF Media!BoundOK, Media!NotUndone, Media!MediaInv
  <2> QED BY <2>2, <2>3, <2>4, <2>5, <2>6, <2>7 DEF Media!MediaInv
<1> QED BY <1>1, <1>2, <1>3, <1>4 DEF Media!Barrier

LEMMA MediaGrantRemote ==
  ASSUME Media!MediaInv, NEW d \in Devices, Media!GrantRemote(d)
  PROVE  Media!MediaInv' /\ Media!NotUndone
<1>1. UNCHANGED <<x2, x3, x6, x8, x9, x11, x12>>
  BY DEF Media!GrantRemote, Media!memory, Media!env
<1>2. Media!ShapesOK' /\ Media!BoundOK' /\ Media!NotUndone
  BY <1>1 DEF Media!MediaInv, Media!ShapesOK, Media!Answers, Media!BoundOK, Media!NotUndone
<1> QED BY <1>1, <1>2, MediaSettles DEF Media!MediaInv, Media!TrustIsOnRecord, Media!Live,
   Media!Locked, Media!GrantRemote

LEMMA MediaResubmit ==
  ASSUME Media!MediaInv, NEW d \in Devices, NEW r \in Media!Requests, Media!Resubmit(d, r)
  PROVE  Media!MediaInv' /\ Media!NotUndone
<1>1. x2[r].st = "awaiting_local_approval" /\ UNCHANGED x12 /\ Media!Locked
  BY DEF Media!Resubmit, Media!env
<1>2. CASE Media!Allowed(d)
  BY <1>1, <1>2, MediaBarrier DEF Media!Resubmit
<1>3. CASE ~Media!Allowed(d)
  <2>1. UNCHANGED <<x2, x3, x6, x8, x9, x11, x12>>
    BY <1>3, <1>1 DEF Media!Resubmit
  <2>2. Media!ShapesOK' /\ Media!BoundOK' /\ Media!NotUndone
    BY <2>1 DEF Media!MediaInv, Media!ShapesOK, Media!Answers, Media!BoundOK, Media!NotUndone
  <2> QED BY <1>1, <2>1, <2>2, MediaSettles DEF Media!MediaInv, Media!TrustIsOnRecord,
     Media!Live, Media!Locked
<1> QED BY <1>2, <1>3

LEMMA MediaApproveLocal ==
  ASSUME Media!MediaInv, NEW r \in Media!Requests, Media!ApproveLocal(r)
  PROVE  Media!MediaInv' /\ Media!NotUndone
  BY MediaBarrier DEF Media!ApproveLocal, Media!env

LEMMA MediaCancelCall ==
  ASSUME Media!MediaInv, NEW r \in Media!Requests, Media!CancelCall(r)
  PROVE  Media!MediaInv' /\ Media!NotUndone
  BY MediaCancel DEF Media!CancelCall, Media!env

LEMMA MediaSend ==
  ASSUME Media!MediaInv, Media!Send
  PROVE  Media!MediaInv' /\ Media!NotUndone
<1> DEFINE h == x6
<1>1. /\ h \in Media!Requests /\ x6' = Media!Nobody /\ x2[h].st = "submitting"
      /\ (h \in x12 \/ x11[h] = 0)
  BY DEF Media!Send, Media!Locked, Media!MediaInv, Media!ShapesOK, Media!Answers, Media!BarrierOK
<1>2. UNCHANGED <<x3, x9, x12>>
  BY DEF Media!Send, Media!env
<1>3. /\ x2' \in [Media!Requests -> Media!Attempts] /\ x2'[h].st = "awaiting_client_proof"
      /\ x2'[h].dev = x2[h].dev
      /\ \A q \in Media!Requests \ {h} : x2'[q] = x2[q]
  BY <1>1 DEF Media!Send, Media!MediaInv, Media!ShapesOK, Media!Answers, Media!Attempts,
     Media!Statuses
<1>4. /\ x11' \in [Media!Requests -> Nat] /\ x11'[h] = x11[h] + 1
      /\ \A q \in Media!Requests \ {h} : x11'[q] = x11[q]
  BY <1>1 DEF Media!Send, Media!Reach, Media!Out, Media!MediaInv, Media!ShapesOK, Media!Answers
<1>5. /\ x8' \in [Media!Requests -> Media!Answers]
      /\ \A q \in Media!Requests \ {h} : x8'[q] = x8[q]
      /\ x8'[h] = x8[h] \/ (x8[h] = "pending" /\ x8'[h] = "proof")
  BY <1>1 DEF Media!Send, Media!Reach, Media!Out, Media!MediaInv, Media!ShapesOK, Media!Answers
<1>6. Media!ShapesOK'
  BY <1>1, <1>2, <1>3, <1>4, <1>5 DEF Media!MediaInv, Media!ShapesOK, Media!Answers
<1>7. Media!PinSentOnce' /\ Media!BarrierOK'
  BY <1>1, <1>2, <1>4 DEF Media!PinSentOnce, Media!BarrierOK, Media!MediaInv, Media!ShapesOK,
     Media!Answers
<1>8. Media!UnsentOK'
  BY <1>1, <1>2, <1>3, <1>4, <1>5 DEF Media!UnsentOK, Media!EndedOK, Media!MediaInv
<1>9. Media!EndedOK'
  BY <1>1, <1>2, <1>3, <1>5 DEF Media!EndedOK, Media!MediaInv, Media!Terminal, Media!ShapesOK,
     Media!Answers
<1>10. Media!ProofOK' /\ Media!TrustIsOnRecord'
  BY <1>1, <1>2, <1>3, <1>5 DEF Media!ProofOK, Media!TrustIsOnRecord, Media!MediaInv,
     Media!ShapesOK, Media!Answers, Media!Live, Media!Terminal
<1>11. Media!BoundOK' /\ Media!NotUndone
  BY <1>1, <1>2, <1>3 DEF Media!BoundOK, Media!NotUndone, Media!MediaInv
<1> QED BY <1>6, <1>7, <1>8, <1>9, <1>10, <1>11 DEF Media!MediaInv

LEMMA MediaSendRefused ==
  ASSUME Media!MediaInv, Media!SendRefused
  PROVE  Media!MediaInv' /\ Media!NotUndone
<1> DEFINE h == x6
<1>1. /\ h \in Media!Requests /\ x6' = Media!Nobody /\ x2[h].st = "submitting"
      /\ (h \in x12 \/ x11[h] = 0)
  BY DEF Media!SendRefused, Media!Locked, Media!MediaInv, Media!ShapesOK, Media!Answers,
     Media!BarrierOK
<1>2. UNCHANGED <<x3, x9, x12>> /\ x8[h] = "pending"
  BY DEF Media!SendRefused, Media!env
<1>3. /\ x2' \in [Media!Requests -> Media!Attempts] /\ x2'[h].st \in {"over", "cancellation_pending"}
      /\ x2'[h].dev = x2[h].dev
      /\ \A q \in Media!Requests \ {h} : x2'[q] = x2[q]
      /\ x2'[h].st = "over" => x8'[h] = "over"
  BY <1>1 DEF Media!SendRefused, Media!MediaInv, Media!ShapesOK, Media!Answers,
     Media!Attempts, Media!Statuses, Media!Terminal
<1>4. /\ x11' \in [Media!Requests -> Nat] /\ x11'[h] = x11[h] + 1
      /\ \A q \in Media!Requests \ {h} : x11'[q] = x11[q]
  BY <1>1 DEF Media!SendRefused, Media!Out, Media!MediaInv, Media!ShapesOK, Media!Answers
<1>5. /\ x8' \in [Media!Requests -> Media!Answers]
      /\ \A q \in Media!Requests \ {h} : x8'[q] = x8[q]
      /\ x8'[h] \in {"over", "proof"}
  BY <1>1 DEF Media!SendRefused, Media!MediaInv, Media!ShapesOK, Media!Answers
<1>6. Media!ShapesOK'
  BY <1>1, <1>2, <1>3, <1>4, <1>5 DEF Media!MediaInv, Media!ShapesOK, Media!Answers
<1>7. Media!PinSentOnce' /\ Media!BarrierOK'
  BY <1>1, <1>2, <1>4 DEF Media!PinSentOnce, Media!BarrierOK, Media!MediaInv, Media!ShapesOK,
     Media!Answers
<1>8. Media!UnsentOK'
  BY <1>1, <1>2, <1>3, <1>4, <1>5 DEF Media!UnsentOK, Media!EndedOK, Media!MediaInv
<1>9. Media!EndedOK'
  BY <1>1, <1>2, <1>3, <1>5 DEF Media!EndedOK, Media!MediaInv, Media!Terminal, Media!ShapesOK,
     Media!Answers
<1>10. Media!ProofOK' /\ Media!TrustIsOnRecord'
  BY <1>1, <1>2, <1>3, <1>5 DEF Media!ProofOK, Media!EndedOK, Media!TrustIsOnRecord,
     Media!MediaInv, Media!ShapesOK, Media!Answers, Media!Live, Media!Terminal
<1>11. Media!BoundOK' /\ Media!NotUndone
  BY <1>1, <1>2, <1>3 DEF Media!BoundOK, Media!NotUndone, Media!MediaInv
<1> QED BY <1>6, <1>7, <1>8, <1>9, <1>10, <1>11 DEF Media!MediaInv

LEMMA MediaCrash ==
  ASSUME Media!MediaInv, Media!Crash
  PROVE  Media!MediaInv' /\ Media!NotUndone
<1>1. x6' = Media!Nobody /\ UNCHANGED <<x2, x3, x9, x12>>
  BY DEF Media!Crash, Media!file, Media!env
<1>2. CASE UNCHANGED <<x8, x11>>
  <2>1. Media!ShapesOK' /\ Media!BoundOK' /\ Media!NotUndone
    BY <1>1, <1>2 DEF Media!MediaInv, Media!ShapesOK, Media!Answers, Media!BoundOK,
       Media!NotUndone
  <2> QED BY <1>1, <1>2, <2>1, MediaSettles DEF Media!MediaInv, Media!TrustIsOnRecord, Media!Live
<1>3. CASE /\ ~Media!Locked /\ Media!Out(x6)
           /\ x8' \in {x8} \cup IF x8[x6] = "pending" THEN {[x8 EXCEPT ![x6] = "proof"]} ELSE {}
  <2> DEFINE h == x6
  <2>1. h \in Media!Requests /\ x2[h].st = "submitting" /\ (h \in x12 \/ x11[h] = 0)
    BY <1>3 DEF Media!Locked, Media!MediaInv, Media!ShapesOK, Media!Answers, Media!BarrierOK
  <2>2. /\ x11' \in [Media!Requests -> Nat] /\ x11'[h] = x11[h] + 1
        /\ \A q \in Media!Requests \ {h} : x11'[q] = x11[q]
    BY <1>3, <2>1 DEF Media!Out, Media!MediaInv, Media!ShapesOK, Media!Answers
  <2>3. /\ x8' \in [Media!Requests -> Media!Answers]
        /\ \A q \in Media!Requests \ {h} : x8'[q] = x8[q]
        /\ x8'[h] = x8[h] \/ (x8[h] = "pending" /\ x8'[h] = "proof")
    BY <1>3, <2>1 DEF Media!MediaInv, Media!ShapesOK, Media!Answers
  <2>4. Media!ShapesOK'
    BY <1>1, <2>1, <2>2, <2>3 DEF Media!MediaInv, Media!ShapesOK, Media!Answers
  <2>5. Media!PinSentOnce' /\ Media!BarrierOK'
    BY <1>1, <2>1, <2>2 DEF Media!PinSentOnce, Media!BarrierOK, Media!MediaInv,
       Media!ShapesOK, Media!Answers
  <2>6. Media!UnsentOK'
    BY <1>1, <2>1, <2>2, <2>3 DEF Media!UnsentOK, Media!MediaInv
  <2>7. Media!EndedOK'
    BY <1>1, <2>1, <2>3 DEF Media!EndedOK, Media!MediaInv, Media!Terminal, Media!ShapesOK,
       Media!Answers
  <2>8. Media!ProofOK' /\ Media!TrustIsOnRecord'
    BY <1>1, <2>1, <2>3 DEF Media!ProofOK, Media!TrustIsOnRecord, Media!MediaInv,
       Media!Live, Media!Terminal
  <2>9. Media!BoundOK' /\ Media!NotUndone
    BY <1>1 DEF Media!BoundOK, Media!NotUndone, Media!MediaInv
  <2> QED BY <2>4, <2>5, <2>6, <2>7, <2>8, <2>9 DEF Media!MediaInv
<1> QED BY <1>2, <1>3 DEF Media!Crash

\* What the fork does alone.
LEMMA MediaOutside ==
  ASSUME Media!MediaInv, UNCHANGED <<x2, x3, x6, x11, x12>>,
         x8' \in [Media!Requests -> Media!Answers],
         x9 \subseteq x9' /\ x9' \subseteq Media!Requests,
         \A q \in x9' \ x9 : x8[q] = "proof" /\ x8'[q] = "paired",
         \A q \in Media!Requests :
           \/ x8'[q] = x8[q]
           \/ x8[q] = "none" /\ x8'[q] = "pending"
           \/ x8[q] \in {"pending", "proof"} /\ x8'[q] = "over" /\ q \notin x9'
           \/ x8[q] = "proof" /\ x8'[q] = "paired"
           \/ x8[q] # "none" /\ x8'[q] = "gone"
  PROVE  Media!MediaInv' /\ Media!NotUndone
<1>1. Media!ShapesOK'
  BY DEF Media!MediaInv, Media!ShapesOK, Media!Answers
<1>2. Media!PinSentOnce' /\ Media!BarrierOK'
  BY DEF Media!PinSentOnce, Media!BarrierOK, Media!MediaInv
<1>3. Media!UnsentOK'
  BY DEF Media!UnsentOK, Media!MediaInv
<1>4. Media!EndedOK'
  BY DEF Media!EndedOK, Media!MediaInv, Media!ShapesOK, Media!Answers, Media!Terminal
<1>5. Media!ProofOK'
  BY DEF Media!ProofOK, Media!MediaInv, Media!Live
<1>6. Media!TrustIsOnRecord'
  BY DEF Media!TrustIsOnRecord, Media!ProofOK, Media!MediaInv, Media!ShapesOK, Media!Answers,
     Media!Live
<1>7. Media!BoundOK' /\ Media!NotUndone
  BY DEF Media!BoundOK, Media!NotUndone, Media!MediaInv
<1> QED BY <1>1, <1>2, <1>3, <1>4, <1>5, <1>6, <1>7 DEF Media!MediaInv

LEMMA MediaOpen ==
  ASSUME Media!MediaInv, NEW r \in Media!Requests, Media!Open(r)
  PROVE  Media!MediaInv' /\ Media!NotUndone
<1>1. UNCHANGED <<x2, x3, x6, x11, x12, x9>>
  BY DEF Media!Open, Media!Outside, Media!file, Media!env
<1>2. /\ x8' \in [Media!Requests -> Media!Answers] /\ x8[r] = "none" /\ x8'[r] = "pending"
      /\ \A q \in Media!Requests \ {r} : x8'[q] = x8[q]
  BY DEF Media!Open, Media!MediaInv, Media!ShapesOK, Media!Answers
<1> QED BY <1>1, <1>2, MediaOutside DEF Media!MediaInv, Media!ShapesOK, Media!Answers

LEMMA MediaProve ==
  ASSUME Media!MediaInv, NEW r \in Media!Requests, Media!Prove(r)
  PROVE  Media!MediaInv' /\ Media!NotUndone
<1>1. UNCHANGED <<x2, x3, x6, x11, x12>> /\ x9' = x9 \cup {r}
  BY DEF Media!Prove, Media!Outside, Media!file, Media!env
<1>2. /\ x8' \in [Media!Requests -> Media!Answers] /\ x8[r] = "proof" /\ x8'[r] = "paired"
      /\ \A q \in Media!Requests \ {r} : x8'[q] = x8[q]
  BY DEF Media!Prove, Media!MediaInv, Media!ShapesOK, Media!Answers
<1> QED BY <1>1, <1>2, MediaOutside DEF Media!MediaInv, Media!ShapesOK, Media!Answers

LEMMA MediaLapse ==
  ASSUME Media!MediaInv, NEW r \in Media!Requests, Media!Lapse(r)
  PROVE  Media!MediaInv' /\ Media!NotUndone
<1>1. UNCHANGED <<x2, x3, x6, x11, x12, x9>>
  BY DEF Media!Lapse, Media!Outside, Media!file, Media!env
<1>2. /\ x8' \in [Media!Requests -> Media!Answers] /\ x8[r] \in {"pending", "proof"} /\ x8'[r] = "over"
      /\ \A q \in Media!Requests \ {r} : x8'[q] = x8[q]
      /\ r \notin x9
  BY DEF Media!Lapse, Media!MediaInv, Media!ShapesOK, Media!Answers, Media!EndedOK
<1> QED BY <1>1, <1>2, MediaOutside DEF Media!MediaInv, Media!ShapesOK, Media!Answers

LEMMA MediaUpgrade ==
  ASSUME Media!MediaInv, Media!Upgrade
  PROVE  Media!MediaInv' /\ Media!NotUndone
<1>1. UNCHANGED <<x2, x3, x6, x11, x12, x9>>
  BY DEF Media!Upgrade, Media!Outside, Media!file
<1>2. /\ x8' \in [Media!Requests -> Media!Answers]
      /\ \A q \in Media!Requests : x8'[q] = x8[q] \/ (x8[q] # "none" /\ x8'[q] = "gone")
  BY DEF Media!Upgrade, Media!Answers
<1> QED BY <1>1, <1>2, MediaOutside DEF Media!MediaInv, Media!ShapesOK, Media!Answers

LEMMA MediaLate ==
  ASSUME Media!MediaInv, NEW r \in Media!Requests, Media!Late(r)
  PROVE  Media!MediaInv' /\ Media!NotUndone
<1>1. UNCHANGED <<x2, x3, x6, x11, x12, x9, x8>>
  BY DEF Media!Late, Media!Outside, Media!file
<1> QED BY <1>1, MediaOutside DEF Media!MediaInv, Media!ShapesOK, Media!Answers

\* _bind() of a proof: who loses the certificate has lost its attempts with it.
LEMMA MediaProved ==
  ASSUME Media!MediaInv, Media!Locked, NEW r \in Media!Requests, Media!Live(x2, r), x8[r] = "paired",
         Media!Proved(r),
         UNCHANGED <<x6, x8, x9, x11>>,
         x12' = x12 \cup {q \in Media!Requests \ {r} : Media!Live(x2, q) /\ x2'[q] = Media!Nil}
  PROVE  Media!MediaInv' /\ Media!NotUndone
<1> DEFINE c == r[1]
           b == x3[c]
           d == x2[r].dev
           moves == b.st # "none" /\ b.dev # d
           stale == IF moves THEN {q \in Media!Requests : q[1] = c /\ x2[q].dev = b.dev} ELSE {}
<1>0. c \in Certs /\ x6' = Media!Nobody
  BY MediaCerts DEF Media!Locked
<1>1. CASE b.st # "none" /\ b.dev # d /\ ~Media!MayRebind(b, d)
  <2>1. UNCHANGED <<x2, x3>>
    BY <1>1 DEF Media!Proved, Media!file
  <2>2. Media!ShapesOK' /\ Media!BoundOK' /\ Media!NotUndone
    BY <2>1 DEF Media!MediaInv, Media!ShapesOK, Media!Answers, Media!BoundOK, Media!NotUndone
  <2> QED BY <1>0, <2>1, <2>2, MediaSettles DEF Media!MediaInv, Media!TrustIsOnRecord, Media!Live
<1>2. CASE ~(b.st # "none" /\ b.dev # d /\ ~Media!MayRebind(b, d))
  <2>1. /\ x2' = [[q \in Media!Requests |-> IF q \in stale THEN Media!Nil ELSE x2[q]]
                   EXCEPT ![r].st = "paired"]
        /\ x3' = [x3 EXCEPT ![c] = [st |-> "paired", dev |-> d]]
    BY <1>2 DEF Media!Proved
  <2>2. r \notin stale
    OBVIOUS
  <2>3. d \in Devices /\ x2[r].st \notin {"none", "paired"}
    BY DEF Media!MediaInv, Media!ShapesOK, Media!Answers, Media!Attempts, Media!BoundOK,
       Media!Live, Media!Terminal
  <2>4. /\ x2' \in [Media!Requests -> Media!Attempts] /\ x2'[r].st = "paired" /\ x2'[r].dev = d
        /\ \A q \in stale : x2'[q] = Media!Nil
        /\ \A q \in Media!Requests \ {r} : q \notin stale => x2'[q] = x2[q]
    BY <2>1, <2>2 DEF Media!MediaInv, Media!ShapesOK, Media!Answers, Media!Attempts,
       Media!Statuses, Media!Terminal, Media!Nil
  <2>5. /\ x3' \in [Certs -> Media!Bindings] /\ x3'[c] = [st |-> "paired", dev |-> d]
        /\ \A e \in Certs \ {c} : x3'[e] = x3[e]
    BY <1>0, <2>1, <2>3 DEF Media!MediaInv, Media!ShapesOK, Media!Answers, Media!Bindings
  <2>6. Media!ShapesOK'
    BY <1>0, <2>4, <2>5 DEF Media!MediaInv, Media!ShapesOK, Media!Answers
  <2>7. Media!BoundOK'
    <3>1. \A q \in Media!Requests : (x2'[q].st = "none") <=> (x2'[q].dev = "none")
      BY <2>3, <2>4, MediaAssumption DEF Media!MediaInv, Media!BoundOK, Media!Nil
    <3>2. \A e \in Certs : (x3'[e].st = "none") <=> (x3'[e].dev = "none")
      BY <2>3, <2>5, MediaAssumption DEF Media!MediaInv, Media!BoundOK
    <3> QED BY <3>1, <3>2 DEF Media!BoundOK
  <2>8. \A q \in Media!Requests :
          \/ x2'[q].st = x2[q].st
          \/ x8[q] \in {"paired", "over", "gone"} /\ x2'[q].st \in Media!Terminal \cup {"none"}
          \/ q \in x12' /\ x2'[q].st = "none"
    <3> SUFFICES ASSUME NEW q \in Media!Requests
                 PROVE  \/ x2'[q].st = x2[q].st
                        \/ x8[q] \in {"paired", "over", "gone"} /\ x2'[q].st \in Media!Terminal \cup {"none"}
                        \/ q \in x12' /\ x2'[q].st = "none"
      OBVIOUS
    <3>1. CASE q = r
      BY <3>1, <2>4 DEF Media!Terminal
    <3>2. CASE q # r /\ q \notin stale
      BY <3>2, <2>4
    <3>3. CASE q # r /\ q \in stale
      <4>1. x2'[q] = Media!Nil /\ x2'[q].st = "none"
        BY <3>3, <2>4 DEF Media!Nil
      <4>2. CASE Media!Live(x2, q)
        BY <3>3, <4>1, <4>2
      <4>3. CASE x2[q].st \in Media!Terminal
        BY <4>1, <4>3 DEF Media!MediaInv, Media!EndedOK
      <4>4. CASE x2[q].st = "none"
        BY <4>1, <4>4
      <4> QED BY <4>2, <4>3, <4>4 DEF Media!Live
    <3> QED BY <3>1, <3>2, <3>3
  <2>9. \A q \in x9' \ x12' : x3'[q[1]].st # "none" \/ Media!Live(x2', q)
    <3> SUFFICES ASSUME NEW q \in x9' \ x12', q[1] # c
                 PROVE  x3'[q[1]].st # "none" \/ Media!Live(x2', q)
      BY <2>5
    <3>1. q \in Media!Requests /\ q[1] \in Certs /\ q \in x9 \ x12
      BY MediaCerts DEF Media!MediaInv, Media!ShapesOK, Media!Answers
    <3>2. x2'[q] = x2[q] /\ x3'[q[1]] = x3[q[1]]
      BY <2>4, <2>5, <3>1
    <3> QED BY <3>1, <3>2 DEF Media!MediaInv, Media!TrustIsOnRecord, Media!Live
  <2>10. Media!NotUndone
    BY <1>0, <1>2, <2>5 DEF Media!NotUndone, Media!MayRebind, Media!MediaInv, Media!BoundOK
  <2> QED BY <1>0, <2>6, <2>7, <2>8, <2>9, <2>10, MediaSettles
<1> QED BY <1>1, <1>2

LEMMA MediaPoll ==
  ASSUME Media!MediaInv, NEW r \in Media!Requests, Media!Poll(r)
  PROVE  Media!MediaInv' /\ Media!NotUndone
<1>1. Media!Locked /\ Media!Live(x2, r) /\ x2[r].st # "none"
  BY DEF Media!Poll, Media!Live
<1>2. x12' = x12 \cup {q \in Media!Requests \ {r} : Media!Live(x2, q) /\ x2'[q] = Media!Nil}
  BY DEF Media!Poll
<1>3. CASE Media!Cancel(r, x2)
  BY <1>1, <1>2, <1>3, MediaCancel
<1>4. CASE x2[r].st = "awaiting_local_approval" /\ Media!Barrier(r, x2, x4)
  BY <1>1, <1>2, <1>4, MediaBarrier
<1>5. CASE Media!Seen(r)
  <2>1. CASE x8[r] = "paired" /\ Media!Proved(r) /\ UNCHANGED <<x6, x8, x9, x11, x13>>
    BY <1>1, <1>2, <2>1, MediaProved
  <2>2. CASE /\ x8[r] = "paired" /\ UNCHANGED <<x1, x6, x8, x11>>
             /\ \E gone \in SUBSET {r[1]} :
                  Media!TakeBack({r[1]}, gone) /\ Media!Marked(x2, x3, {r}, gone)
    BY <1>1, <1>2, <2>2, MediaMarked DEF Media!Locked
  <2>3. CASE /\ x8[r] = "over" /\ x2' = [x2 EXCEPT ![r].st = "over"]
             /\ UNCHANGED <<x1, x3, x6, x8, x9, x11, x13>>
    BY <1>1, <1>2, <2>3, MediaOver DEF Media!MediaInv, Media!ShapesOK, Media!Answers, Media!Locked
  <2> QED BY <1>5, <2>1, <2>2, <2>3 DEF Media!Seen
<1> QED BY <1>3, <1>4, <1>5 DEF Media!Poll

LEMMA MediaAged ==
  ASSUME Media!MediaInv
  PROVE  /\ Media!Aged \in [Media!Requests -> Media!Attempts]
         /\ \A q \in Media!Requests : /\ Media!Aged[q].dev = x2[q].dev
                               /\ \/ Media!Aged[q].st = x2[q].st
                                  \/ Media!Live(x2, q) /\ Media!Aged[q].st = "cancellation_pending"
  BY DEF Media!MediaInv, Media!ShapesOK, Media!Answers, Media!Aged, Media!Past,
     Media!Attempts, Media!Statuses

LEMMA MediaSubmit ==
  ASSUME Media!MediaInv, NEW d \in Devices, NEW r \in Media!Requests, Media!Submit(d, r)
  PROVE  Media!MediaInv' /\ Media!NotUndone
<1>1. /\ Media!Locked /\ Media!Aged[r].st = "none" /\ x8[r] = "pending"
      /\ UNCHANGED <<x3, x8, x9, x11, x12>>
  BY DEF Media!Submit, Media!env
<1>2. x2[r].st = "none"
  BY <1>1, MediaAged
<1>3. PICK st \in {"submitting", "pending", "awaiting_local_approval"} :
        /\ x2' = [Media!Aged EXCEPT ![r] = [st |-> st, dev |-> d]]
        /\ IF st = "submitting" THEN x6' = r ELSE UNCHANGED x6
  BY DEF Media!Submit
<1>4. /\ x2' \in [Media!Requests -> Media!Attempts] /\ x2'[r].st = st /\ x2'[r].dev = d
      /\ \A q \in Media!Requests \ {r} :
           /\ x2'[q].dev = x2[q].dev
           /\ \/ x2'[q].st = x2[q].st
              \/ Media!Live(x2, q) /\ x2'[q].st = "cancellation_pending"
  BY <1>3, MediaAged DEF Media!Attempts, Media!Statuses
<1>5. x6' = Media!Nobody \/ (x6' = r /\ st = "submitting")
  BY <1>1, <1>3 DEF Media!Locked
<1>6. r \in x12 \/ x11[r] = 0
  BY <1>1, <1>2 DEF Media!MediaInv, Media!UnsentOK
<1>7. Media!ShapesOK'
  BY <1>1, <1>4, <1>5 DEF Media!MediaInv, Media!ShapesOK, Media!Answers
<1>8. Media!BarrierOK' /\ Media!PinSentOnce'
  BY <1>1, <1>4, <1>5, <1>6 DEF Media!BarrierOK, Media!PinSentOnce, Media!MediaInv
<1>9. Media!UnsentOK'
  BY <1>1, <1>4, <1>6 DEF Media!UnsentOK, Media!MediaInv, Media!Live
<1>10. Media!EndedOK'
  BY <1>1, <1>4 DEF Media!EndedOK, Media!MediaInv, Media!Terminal, Media!Live
<1>11. Media!ProofOK'
  BY <1>1, <1>4 DEF Media!ProofOK, Media!MediaInv, Media!Terminal, Media!Live
<1>12. Media!TrustIsOnRecord'
  BY <1>1, <1>4 DEF Media!TrustIsOnRecord, Media!MediaInv, Media!ShapesOK, Media!Answers,
     Media!Terminal, Media!Live
<1>13. Media!BoundOK'
  BY <1>1, <1>4, MediaAssumption DEF Media!BoundOK, Media!MediaInv, Media!Live
<1>14. Media!NotUndone
  BY <1>1 DEF Media!NotUndone
<1> QED BY <1>7, <1>8, <1>9, <1>10, <1>11, <1>12, <1>13, <1>14 DEF Media!MediaInv

LEMMA MediaTidy ==
  ASSUME Media!MediaInv, Media!Tidy
  PROVE  Media!MediaInv' /\ Media!NotUndone
<1>1. x6' = Media!Nobody /\ UNCHANGED <<x8, x11, x12>>
  BY DEF Media!Tidy, Media!Locked, Media!env
<1>2. PICK gone \in SUBSET Media!Pending(x3) :
        /\ Media!TakeBack(Media!Pending(x3), gone) /\ x3' = Media!Without(x3, gone)
        /\ x2' = Media!Swept(Media!Aged, x3')
  BY DEF Media!Tidy
<1>3. Media!Pending(x3) \subseteq Certs
  BY DEF Media!Pending
<1>4. x9' \subseteq x9 /\ \A q \in x9' : q[1] \notin gone
  BY <1>2, <1>3, MediaTaken
<1>5. /\ x3' \in [Certs -> Media!Bindings]
      /\ \A c \in Certs : x3'[c] = IF c \in gone THEN Media!Nil ELSE x3[c]
  BY <1>2 DEF Media!Without, Media!Nil, Media!MediaInv, Media!ShapesOK, Media!Answers,
     Media!Bindings
<1>6. /\ x2' \in [Media!Requests -> Media!Attempts]
      /\ \A q \in Media!Requests :
           \/ x2'[q] = Media!Aged[q]
           \/ x2'[q] = Media!Nil /\ Media!Aged[q].st = "revocation_pending"
  BY <1>2, MediaAged DEF Media!Swept, Media!Nil, Media!Attempts, Media!Statuses
<1>7. \A q \in Media!Requests : Media!Aged[q].st = "revocation_pending" => x2[q].st = "revocation_pending"
  BY MediaAged
<1>8. Media!ShapesOK'
  BY <1>1, <1>4, <1>5, <1>6 DEF Media!MediaInv, Media!ShapesOK, Media!Answers
<1>9. Media!BoundOK'
  BY <1>5, <1>6, MediaAged DEF Media!MediaInv, Media!BoundOK, Media!Nil, Media!Live
<1>10. Media!NotUndone
  BY <1>5 DEF Media!NotUndone, Media!Nil
<1>11. \A q \in Media!Requests :
           \/ x2'[q].st = x2[q].st
           \/ Media!Live(x2, q) /\ x2'[q].st = "cancellation_pending"
           \/ x8[q] \in {"paired", "over", "gone"} /\ x2'[q].st \in Media!Terminal \cup {"none"}
  BY <1>6, <1>7, MediaAged DEF Media!MediaInv, Media!EndedOK, Media!Terminal, Media!Nil
<1>12. \A q \in x9' \ x12' : x3'[q[1]].st # "none" \/ Media!Live(x2', q)
  <2> SUFFICES ASSUME NEW q \in x9' \ x12', x3'[q[1]].st = "none" PROVE Media!Live(x2', q)
    OBVIOUS
  <2>1. q \in Media!Requests /\ q[1] \in Certs /\ q \in x9 \ x12 /\ q[1] \notin gone
    BY <1>1, <1>4, MediaCerts DEF Media!MediaInv, Media!ShapesOK, Media!Answers
  <2>2. Media!Live(x2, q)
    BY <1>5, <2>1 DEF Media!MediaInv, Media!TrustIsOnRecord
  <2> QED BY <1>6, <1>7, <2>1, <2>2, MediaAged DEF Media!Live, Media!Terminal
<1> QED BY <1>1, <1>4, <1>8, <1>9, <1>10, <1>11, <1>12, MediaSettles

LEMMA MediaRevoke ==
  ASSUME Media!MediaInv, NEW d \in Devices, Media!Revoke(d)
  PROVE  Media!MediaInv' /\ Media!NotUndone
<1> DEFINE mine == {q \in Media!Requests : x2[q].dev = d}
           paired == {q \in mine : x2[q].st = "paired"}
           denied == [q \in Media!Requests |-> IF q \in mine /\ Media!Live(x2, q)
                       THEN [x2[q] EXCEPT !.st = "cancellation_pending"] ELSE x2[q]]
           left == [c \in Certs |-> IF x3[c].dev = d
                     THEN [x3[c] EXCEPT !.st = "revocation_pending"] ELSE x3[c]]
           cs == Media!Pending(left) \cup {q[1] : q \in paired}
           rows == [q \in Media!Requests |-> IF q \in paired
                     THEN [x2[q] EXCEPT !.st = "revocation_pending"] ELSE denied[q]]
<1>1. x6' = Media!Nobody /\ UNCHANGED <<x8, x11, x12>>
  BY DEF Media!Revoke, Media!Locked, Media!env
<1>2. PICK gone \in SUBSET cs :
        /\ Media!TakeBack(cs, gone)
        /\ x3' = [c \in Certs |-> IF c \in gone THEN Media!Nil
                      ELSE IF left[c].st = "none" /\ c \in cs
                      THEN [st |-> "revocation_pending", dev |-> d] ELSE left[c]]
        /\ x2' = Media!Swept(rows, x3')
  BY DEF Media!Revoke
<1>3. cs \subseteq Certs
  BY MediaCerts DEF Media!Pending
<1>4. x9' \subseteq x9 /\ \A q \in x9' : q[1] \notin gone
  BY <1>2, <1>3, MediaTaken
<1>5. \A c \in Certs : /\ left[c].dev = x3[c].dev /\ left[c] \in Media!Bindings
                       /\ left[c].st = x3[c].st \/ (left[c].st = "revocation_pending" /\ x3[c].dev = d)
  BY DEF Media!MediaInv, Media!ShapesOK, Media!Answers, Media!Bindings
<1>6. \A c \in Certs :
        \/ c \in gone /\ x3'[c] = Media!Nil
        \/ c \notin gone /\ left[c].st = "none" /\ x3'[c] = [st |-> "revocation_pending", dev |-> d]
        \/ c \notin gone /\ x3'[c] = left[c]
  BY <1>2
<1>7. x3' \in [Certs -> Media!Bindings]
  <2> HIDE DEF left
  <2>1. \A c \in Certs : x3'[c] \in Media!Bindings
    BY <1>5, <1>6 DEF Media!Bindings, Media!Nil
  <2>2. x3' = [c \in Certs |-> x3'[c]]
    BY <1>2
  <2> QED BY <2>1, <2>2
<1>8. \A q \in Media!Requests :
        /\ rows[q] \in Media!Attempts /\ rows[q].dev = x2[q].dev
        /\ \/ rows[q].st = x2[q].st
           \/ Media!Live(x2, q) /\ rows[q].st = "cancellation_pending"
           \/ x2[q].st = "paired" /\ rows[q].st = "revocation_pending"
  BY DEF Media!MediaInv, Media!ShapesOK, Media!Answers, Media!Attempts, Media!Statuses,
     Media!Terminal
<1>9. /\ x2' \in [Media!Requests -> Media!Attempts]
      /\ \A q \in Media!Requests :
           \/ x2'[q] = rows[q]
           \/ x2'[q] = Media!Nil /\ rows[q].st = "revocation_pending"
  <2> HIDE DEF rows
  <2> QED BY <1>2, <1>8 DEF Media!Swept, Media!Nil, Media!Attempts, Media!Statuses
<1> HIDE DEF rows, left, cs
<1>10. Media!ShapesOK'
  BY <1>1, <1>4, <1>7, <1>9 DEF Media!MediaInv, Media!ShapesOK, Media!Answers
<1>11. Media!BoundOK'
  <2>1. \A q \in Media!Requests : (x2'[q].st = "none") <=> (x2'[q].dev = "none")
    BY <1>8, <1>9 DEF Media!MediaInv, Media!BoundOK, Media!Nil, Media!Live
  <2>2. \A c \in Certs : (x3'[c].st = "none") <=> (x3'[c].dev = "none")
    BY <1>5, <1>6, MediaAssumption DEF Media!MediaInv, Media!BoundOK, Media!Nil
  <2> QED BY <2>1, <2>2 DEF Media!BoundOK
<1>12. Media!NotUndone
  BY <1>5, <1>6 DEF Media!NotUndone, Media!Nil
<1>13. \A q \in Media!Requests :
           \/ x2'[q].st = x2[q].st
           \/ Media!Live(x2, q) /\ x2'[q].st = "cancellation_pending"
           \/ x8[q] \in {"paired", "over", "gone"} /\ x2'[q].st \in Media!Terminal \cup {"none"}
  BY <1>8, <1>9 DEF Media!MediaInv, Media!EndedOK, Media!Terminal, Media!Nil
<1>14. \A q \in x9' \ x12' : x3'[q[1]].st # "none" \/ Media!Live(x2', q)
  <2> SUFFICES ASSUME NEW q \in x9' \ x12', x3'[q[1]].st = "none" PROVE Media!Live(x2', q)
    OBVIOUS
  <2>1. q \in Media!Requests /\ q[1] \in Certs /\ q \in x9 \ x12 /\ q[1] \notin gone
    BY <1>1, <1>4, MediaCerts DEF Media!MediaInv, Media!ShapesOK, Media!Answers
  <2>2. x3[q[1]].st = "none"
    BY <1>5, <1>6, <2>1
  <2>3. Media!Live(x2, q)
    BY <2>1, <2>2 DEF Media!MediaInv, Media!TrustIsOnRecord
  <2> QED BY <1>8, <1>9, <2>1, <2>3 DEF Media!Live, Media!Terminal
<1> QED BY <1>1, <1>4, <1>10, <1>11, <1>12, <1>13, <1>14, MediaSettles

LEMMA MediaPurge ==
  ASSUME Media!MediaInv, NEW d \in Devices, Media!Purge(d)
  PROVE  Media!MediaInv' /\ Media!NotUndone
<1> DEFINE cs == {c \in Certs : x3[c].dev = d}
<1>1. x6' = Media!Nobody /\ UNCHANGED <<x8, x11, x12>>
  BY DEF Media!Purge, Media!Locked, Media!env
<1>2. PICK gone \in SUBSET cs :
        /\ Media!TakeBack(cs, gone) /\ x3' = Media!Without(x3, gone)
        /\ x2' = [q \in Media!Requests |->
                     IF x2[q].dev = d /\ ~Media!Live(x2, q) /\ x3'[q[1]].st = "none" THEN Media!Nil ELSE x2[q]]
  BY DEF Media!Purge
<1>3. x9' \subseteq x9 /\ \A q \in x9' : q[1] \notin gone
  BY <1>2, MediaTaken
<1>4. /\ x3' \in [Certs -> Media!Bindings]
      /\ \A c \in Certs : x3'[c] = IF c \in gone THEN Media!Nil ELSE x3[c]
  BY <1>2 DEF Media!Without, Media!Nil, Media!MediaInv, Media!ShapesOK, Media!Answers,
     Media!Bindings
<1>5. /\ x2' \in [Media!Requests -> Media!Attempts]
      /\ \A q \in Media!Requests : x2'[q] = x2[q] \/ (x2'[q] = Media!Nil /\ ~Media!Live(x2, q))
  BY <1>2 DEF Media!MediaInv, Media!ShapesOK, Media!Answers, Media!Nil, Media!Attempts,
     Media!Statuses
<1>6. Media!ShapesOK'
  BY <1>1, <1>3, <1>4, <1>5 DEF Media!MediaInv, Media!ShapesOK, Media!Answers
<1>7. Media!BoundOK'
  BY <1>4, <1>5 DEF Media!MediaInv, Media!BoundOK, Media!Nil
<1>8. Media!NotUndone
  BY <1>4 DEF Media!NotUndone, Media!Nil
<1>9. \A q \in Media!Requests :
           \/ x2'[q].st = x2[q].st
           \/ x8[q] \in {"paired", "over", "gone"} /\ x2'[q].st \in Media!Terminal \cup {"none"}
  BY <1>5 DEF Media!MediaInv, Media!EndedOK, Media!Live, Media!Terminal, Media!Nil
<1>10. \A q \in x9' \ x12' : x3'[q[1]].st # "none" \/ Media!Live(x2', q)
  <2> SUFFICES ASSUME NEW q \in x9' \ x12', x3'[q[1]].st = "none" PROVE Media!Live(x2', q)
    OBVIOUS
  <2>1. q \in Media!Requests /\ q[1] \in Certs /\ q \in x9 \ x12 /\ q[1] \notin gone
    BY <1>1, <1>3, MediaCerts DEF Media!MediaInv, Media!ShapesOK, Media!Answers
  <2>2. Media!Live(x2, q)
    BY <1>4, <2>1 DEF Media!MediaInv, Media!TrustIsOnRecord
  <2> QED BY <1>5, <2>1, <2>2 DEF Media!Live
<1> QED BY <1>1, <1>3, <1>6, <1>7, <1>8, <1>9, <1>10, MediaSettles

LEMMA MediaNext ==
  ASSUME Media!MediaInv, Media!Next
  PROVE  Media!MediaInv' /\ Media!NotUndone
<1>1. CASE \E d \in Devices : Media!GrantRemote(d) \/ Media!Revoke(d) \/ Media!Purge(d)
                                \/ \E r \in Media!Requests : Media!Submit(d, r) \/ Media!Resubmit(d, r)
  BY <1>1, MediaGrantRemote, MediaRevoke, MediaPurge, MediaSubmit, MediaResubmit
<1>2. CASE \E r \in Media!Requests : \/ Media!ApproveLocal(r) \/ Media!Poll(r) \/ Media!CancelCall(r)
                              \/ Media!Open(r) \/ Media!Prove(r) \/ Media!Lapse(r) \/ Media!Late(r)
  BY <1>2, MediaApproveLocal, MediaPoll, MediaCancelCall, MediaOpen, MediaProve, MediaLapse,
     MediaLate
<1>3. CASE Media!Send \/ Media!SendRefused \/ Media!Tidy \/ Media!Upgrade \/ Media!Crash
  BY <1>3, MediaSend, MediaSendRefused, MediaTidy, MediaUpgrade, MediaCrash
<1> QED BY <1>1, <1>2, <1>3 DEF Media!Next

LEMMA MediaInit ==
  ASSUME Media!Init
  PROVE  Media!MediaInv
<1>1. Media!ShapesOK
  BY DEF Media!Init, Media!ShapesOK, Media!Answers, Media!Attempts, Media!Bindings,
     Media!Statuses, Media!Nil
<1>2. /\ Media!PinSentOnce /\ Media!BarrierOK /\ Media!UnsentOK /\ Media!EndedOK
      /\ Media!ProofOK /\ Media!TrustIsOnRecord /\ Media!BoundOK
  BY DEF Media!Init, Media!PinSentOnce, Media!BarrierOK, Media!UnsentOK, Media!EndedOK,
     Media!ProofOK, Media!TrustIsOnRecord, Media!BoundOK, Media!Nil, Media!Terminal
<1> QED BY <1>1, <1>2 DEF Media!MediaInv

-----------------------------------------------------------------------------
(* The certificate in the fork: every behaviour. *)

LEMMA MediaAlways ==
  Spec => [](part = "media" => Media!MediaInv) /\ [][part = "media" => Media!NotUndone]_all
<1> DEFINE Inv == part = "media" => Media!MediaInv
           Kept == part = "media" => Media!NotUndone
<1>1. Init => Inv
  BY MediaInit DEF Init
<1>2. Inv /\ [Next]_all => Inv' /\ Kept
  <2> SUFFICES ASSUME Inv, [Next]_all PROVE Inv' /\ Kept
    OBVIOUS
  <2>1. CASE UNCHANGED all
    <3>1. part' = "media" => Media!MediaInv'
      BY <2>1 DEF all, Media!MediaInv, Media!ShapesOK, Media!PinSentOnce, Media!BarrierOK,
         Media!UnsentOK, Media!EndedOK, Media!ProofOK, Media!TrustIsOnRecord, Media!BoundOK,
         Media!Live
    <3>2. Kept
      BY <2>1 DEF all, Media!NotUndone
    <3> QED BY <3>1, <3>2
  <2>2. CASE Next
    <3>1. part' = part /\ (part = "media" => Media!Next)
      BY <2>2 DEF Next
    <3> QED BY <3>1, MediaNext
  <2> QED BY <2>1, <2>2
<1> QED BY <1>1, <1>2, PTL DEF Spec

\* Of media_pairing.py, that the fork is sent one PIN for a request and nothing it authorizes is
\* forgotten - but for an attempt under way that another request's proof took off the record -
\* and that pairing again does not undo a revoke.
THEOREM PairingIsFollowedUp == Spec => FollowedUp
<1>1. (part = "media" => Media!MediaInv) => (part = "media" => Media!PinSentOnce /\ Media!TrustIsOnRecord)
  BY DEF Media!MediaInv
<1> QED BY <1>1, MediaAlways, PTL DEF FollowedUp

-----------------------------------------------------------------------------
(* The clipboard: each step keeps ClipInv. *)

LEMMA ClipInit == Clip!Init => Clip!ClipInv
  BY ClipAssumption DEF Clip!Init, Clip!ClipInv, Clip!ThreadsOK, Clip!EchoOK,
     Clip!OwedIsComing, Clip!OwnWriteIsNotNews, Clip!Owed, Clip!Coming, Clip!Listens,
     Clip!Watching, Clip!Modes, Clip!Holds, Clip!Free

LEMMA ClipPersonCopies ==
  ASSUME Clip!ClipInv, Clip!PersonCopies
  PROVE  Clip!ClipInv'
<1>1. Clip!ThreadsOK'
  BY DEF Clip!PersonCopies, Clip!ClipInv, Clip!ThreadsOK, Clip!Listens, Clip!Watching,
     Clip!Modes, Clip!Heard
<1>2. Clip!EchoOK'
  BY DEF Clip!PersonCopies, Clip!ClipInv, Clip!EchoOK, Clip!Listens, Clip!Heard
<1>3. Clip!OwedIsComing'
  BY DEF Clip!PersonCopies, Clip!ClipInv, Clip!ThreadsOK, Clip!OwedIsComing, Clip!Owed,
     Clip!Coming, Clip!Listens, Clip!Watching, Clip!Modes, Clip!Heard
<1>4. Clip!OwnWriteIsNotNews'
  BY DEF Clip!PersonCopies, Clip!ClipInv, Clip!OwnWriteIsNotNews, Clip!Listens, Clip!Heard
<1> QED BY <1>1, <1>2, <1>3, <1>4 DEF Clip!ClipInv

LEMMA ClipSetPreference ==
  ASSUME Clip!ClipInv, Clip!SetPreference
  PROVE  Clip!ClipInv'
<1>1. Clip!ThreadsOK'
  BY DEF Clip!SetPreference, Clip!ClipInv, Clip!ThreadsOK, Clip!Watching, Clip!Modes
<1>2. Clip!EchoOK'
  BY DEF Clip!SetPreference, Clip!ClipInv, Clip!EchoOK, Clip!Modes
<1>3. Clip!OwedIsComing'
  BY DEF Clip!SetPreference, Clip!ClipInv, Clip!ThreadsOK, Clip!OwedIsComing, Clip!Owed,
     Clip!Coming, Clip!Listens, Clip!Watching, Clip!Modes
<1>4. Clip!OwnWriteIsNotNews'
  BY DEF Clip!SetPreference, Clip!ClipInv, Clip!OwnWriteIsNotNews, Clip!Modes
<1> QED BY <1>1, <1>2, <1>3, <1>4 DEF Clip!ClipInv

LEMMA ClipStart ==
  ASSUME Clip!ClipInv, Clip!Start
  PROVE  Clip!ClipInv'
<1>1. Clip!ThreadsOK'
  BY DEF Clip!Start, Clip!ClipInv, Clip!ThreadsOK, Clip!Watching, Clip!Modes, Clip!Alive
<1>2. Clip!EchoOK'
  BY DEF Clip!Start, Clip!ClipInv, Clip!EchoOK, Clip!Watching, Clip!Alive
<1>3. Clip!OwedIsComing'
  BY DEF Clip!Start, Clip!ClipInv, Clip!ThreadsOK, Clip!OwedIsComing, Clip!Owed, Clip!Coming,
     Clip!Listens, Clip!Watching, Clip!Modes, Clip!Alive
<1>4. Clip!OwnWriteIsNotNews'
  BY DEF Clip!Start, Clip!ClipInv, Clip!OwnWriteIsNotNews, Clip!Watching, Clip!Alive
<1> QED BY <1>1, <1>2, <1>3, <1>4 DEF Clip!ClipInv

LEMMA ClipStop ==
  ASSUME Clip!ClipInv, Clip!Stop
  PROVE  Clip!ClipInv'
<1>1. Clip!ThreadsOK'
  BY DEF Clip!Stop, Clip!ClipInv, Clip!ThreadsOK, Clip!Watching, Clip!Modes, Clip!Alive
<1>2. Clip!EchoOK'
  BY DEF Clip!Stop, Clip!ClipInv, Clip!EchoOK, Clip!Watching, Clip!Alive
<1>3. Clip!OwedIsComing'
  BY DEF Clip!Stop, Clip!ClipInv, Clip!OwedIsComing, Clip!Owed, Clip!Coming, Clip!Listens,
     Clip!Watching, Clip!Alive
<1>4. Clip!OwnWriteIsNotNews'
  BY DEF Clip!Stop, Clip!ClipInv, Clip!OwnWriteIsNotNews, Clip!Watching, Clip!Alive
<1> QED BY <1>1, <1>2, <1>3, <1>4 DEF Clip!ClipInv

LEMMA ClipWlCopy ==
  ASSUME Clip!ClipInv, Clip!WlCopy
  PROVE  Clip!ClipInv'
<1>1. Clip!ThreadsOK'
  BY DEF Clip!WlCopy, Clip!ClipInv, Clip!ThreadsOK, Clip!Listens, Clip!Watching, Clip!Modes,
     Clip!Holds, Clip!Heard
<1>2. Clip!EchoOK'
  BY ClipAssumption DEF Clip!WlCopy, Clip!ClipInv, Clip!EchoOK, Clip!Listens, Clip!Holds,
     Clip!Heard
<1>3. Clip!OwedIsComing'
  BY DEF Clip!WlCopy, Clip!ClipInv, Clip!ThreadsOK, Clip!OwedIsComing, Clip!Owed, Clip!Coming,
     Clip!Listens, Clip!Watching, Clip!Modes, Clip!Holds, Clip!Heard
<1>4. Clip!OwnWriteIsNotNews'
  BY DEF Clip!WlCopy, Clip!ClipInv, Clip!OwnWriteIsNotNews, Clip!Listens, Clip!Holds, Clip!Heard
<1> QED BY <1>1, <1>2, <1>3, <1>4 DEF Clip!ClipInv

LEMMA ClipNoteEcho ==
  ASSUME Clip!ClipInv, Clip!NoteEcho
  PROVE  Clip!ClipInv'
<1>1. Clip!ThreadsOK'
  BY DEF Clip!NoteEcho, Clip!ClipInv, Clip!ThreadsOK, Clip!Watching, Clip!Modes, Clip!Holds
<1>2. Clip!EchoOK'
  BY DEF Clip!NoteEcho, Clip!ClipInv, Clip!EchoOK, Clip!Holds
<1>3. Clip!OwedIsComing'
  BY DEF Clip!NoteEcho, Clip!ClipInv, Clip!OwedIsComing, Clip!Owed, Clip!Coming, Clip!Listens,
     Clip!Watching, Clip!Holds
<1>4. Clip!OwnWriteIsNotNews'
  BY DEF Clip!NoteEcho, Clip!ClipInv, Clip!OwnWriteIsNotNews, Clip!Holds
<1> QED BY <1>1, <1>2, <1>3, <1>4 DEF Clip!ClipInv

LEMMA ClipWriteFails ==
  ASSUME Clip!ClipInv, Clip!WriteFails
  PROVE  Clip!ClipInv'
<1>1. Clip!ThreadsOK'
  BY DEF Clip!WriteFails, Clip!ClipInv, Clip!ThreadsOK, Clip!Watching, Clip!Modes, Clip!Holds
<1>2. Clip!EchoOK'
  BY DEF Clip!WriteFails, Clip!ClipInv, Clip!EchoOK, Clip!Holds
<1>3. Clip!OwedIsComing'
  BY DEF Clip!WriteFails, Clip!ClipInv, Clip!OwedIsComing, Clip!Owed, Clip!Coming,
     Clip!Listens, Clip!Watching, Clip!Holds
<1>4. Clip!OwnWriteIsNotNews'
  BY DEF Clip!WriteFails, Clip!ClipInv, Clip!OwnWriteIsNotNews, Clip!Holds
<1> QED BY <1>1, <1>2, <1>3, <1>4 DEF Clip!ClipInv

LEMMA ClipElapse ==
  ASSUME Clip!ClipInv, Clip!Elapse
  PROVE  Clip!ClipInv'
<1>1. Clip!ThreadsOK'
  BY DEF Clip!Elapse, Clip!ClipInv, Clip!ThreadsOK, Clip!Watching, Clip!Modes
<1>2. Clip!EchoOK'
  BY DEF Clip!Elapse, Clip!ClipInv, Clip!EchoOK
<1>3. Clip!OwedIsComing'
  BY DEF Clip!Elapse, Clip!ClipInv, Clip!OwedIsComing, Clip!Owed, Clip!Coming, Clip!Listens,
     Clip!Watching
<1>4. Clip!OwnWriteIsNotNews'
  BY DEF Clip!Elapse, Clip!ClipInv, Clip!OwnWriteIsNotNews
<1> QED BY <1>1, <1>2, <1>3, <1>4 DEF Clip!ClipInv

LEMMA ClipOpen ==
  ASSUME Clip!ClipInv, NEW t \in Threads, Clip!Open(t)
  PROVE  Clip!ClipInv'
<1>1. Clip!ThreadsOK'
  BY DEF Clip!Open, Clip!ClipInv, Clip!ThreadsOK, Clip!Watching, Clip!Modes, Clip!Holds
<1>2. Clip!EchoOK'
  BY DEF Clip!Open, Clip!ClipInv, Clip!EchoOK, Clip!Holds
<1>3. Clip!OwedIsComing'
  BY DEF Clip!Open, Clip!ClipInv, Clip!ThreadsOK, Clip!OwedIsComing, Clip!Owed, Clip!Coming,
     Clip!Listens, Clip!Watching, Clip!Modes, Clip!Holds
<1>4. Clip!OwnWriteIsNotNews'
  BY DEF Clip!Open, Clip!ClipInv, Clip!OwnWriteIsNotNews, Clip!Holds
<1> QED BY <1>1, <1>2, <1>3, <1>4 DEF Clip!ClipInv

LEMMA ClipReadLine ==
  ASSUME Clip!ClipInv, NEW t \in Threads, Clip!ReadLine(t)
  PROVE  Clip!ClipInv'
<1>1. Clip!ThreadsOK'
  BY DEF Clip!ReadLine, Clip!ClipInv, Clip!ThreadsOK, Clip!Watching, Clip!Modes
<1>2. Clip!EchoOK'
  BY DEF Clip!ReadLine, Clip!ClipInv, Clip!EchoOK
<1>3. Clip!OwedIsComing'
  BY DEF Clip!ReadLine, Clip!ClipInv, Clip!ThreadsOK, Clip!OwedIsComing, Clip!Owed,
     Clip!Coming, Clip!Listens, Clip!Watching, Clip!Modes
<1>4. Clip!OwnWriteIsNotNews'
  BY DEF Clip!ReadLine, Clip!ClipInv, Clip!OwnWriteIsNotNews
<1> QED BY <1>1, <1>2, <1>3, <1>4 DEF Clip!ClipInv

LEMMA ClipWatcherDies ==
  ASSUME Clip!ClipInv, NEW t \in Threads, Clip!WatcherDies(t)
  PROVE  Clip!ClipInv'
<1>1. Clip!ThreadsOK'
  BY DEF Clip!WatcherDies, Clip!ClipInv, Clip!ThreadsOK, Clip!Listens, Clip!Watching, Clip!Modes
<1>2. Clip!EchoOK'
  BY DEF Clip!WatcherDies, Clip!ClipInv, Clip!EchoOK, Clip!Listens
<1>3. Clip!OwedIsComing'
  BY DEF Clip!WatcherDies, Clip!ClipInv, Clip!OwedIsComing, Clip!Owed, Clip!Coming,
     Clip!Listens, Clip!Watching
<1>4. Clip!OwnWriteIsNotNews'
  BY DEF Clip!WatcherDies, Clip!ClipInv, Clip!OwnWriteIsNotNews, Clip!Listens
<1> QED BY <1>1, <1>2, <1>3, <1>4 DEF Clip!ClipInv

LEMMA ClipRest ==
  ASSUME Clip!ClipInv, NEW t \in Threads, Clip!Rest(t)
  PROVE  Clip!ClipInv'
<1>1. Clip!ThreadsOK'
  BY DEF Clip!Rest, Clip!ClipInv, Clip!ThreadsOK, Clip!Watching, Clip!Modes
<1>2. Clip!EchoOK'
  BY DEF Clip!Rest, Clip!ClipInv, Clip!EchoOK
<1>3. Clip!OwedIsComing'
  BY DEF Clip!Rest, Clip!ClipInv, Clip!OwedIsComing, Clip!Owed, Clip!Coming, Clip!Listens,
     Clip!Watching
<1>4. Clip!OwnWriteIsNotNews'
  BY DEF Clip!Rest, Clip!ClipInv, Clip!OwnWriteIsNotNews
<1> QED BY <1>1, <1>2, <1>3, <1>4 DEF Clip!ClipInv

LEMMA ClipNotWanted ==
  ASSUME Clip!ClipInv, NEW t \in Threads, Clip!NotWanted(t)
  PROVE  Clip!ClipInv'
<1>1. Clip!ThreadsOK'
  BY DEF Clip!NotWanted, Clip!ClipInv, Clip!ThreadsOK, Clip!Watching, Clip!Modes
<1>2. Clip!EchoOK'
  BY DEF Clip!NotWanted, Clip!ClipInv, Clip!EchoOK, Clip!Watching
<1>3. Clip!OwedIsComing'
  BY DEF Clip!NotWanted, Clip!ClipInv, Clip!OwedIsComing, Clip!Owed, Clip!Coming,
     Clip!Listens, Clip!Watching
<1>4. Clip!OwnWriteIsNotNews'
  BY DEF Clip!NotWanted, Clip!ClipInv, Clip!OwnWriteIsNotNews, Clip!Watching
<1> QED BY <1>1, <1>2, <1>3, <1>4 DEF Clip!ClipInv

LEMMA ClipChanged ==
  ASSUME Clip!ClipInv, NEW t \in Threads, Clip!Changed(t)
  PROVE  Clip!ClipInv'
<1>1. Clip!ThreadsOK'
  BY DEF Clip!Changed, Clip!ClipInv, Clip!ThreadsOK, Clip!Watching, Clip!Modes, Clip!Holds,
     Clip!Free, Clip!Held, Clip!ReadBytes, Clip!Announce, Clip!IsNews
<1>2. Clip!EchoOK'
  BY DEF Clip!Changed, Clip!ClipInv, Clip!EchoOK, Clip!Watching, Clip!Holds, Clip!Free,
     Clip!Held, Clip!ReadBytes, Clip!Announce, Clip!IsNews
<1>3. Clip!OwedIsComing'
  BY ClipAssumption DEF Clip!Changed, Clip!ClipInv, Clip!ThreadsOK, Clip!EchoOK,
     Clip!OwedIsComing, Clip!Owed, Clip!Coming, Clip!Listens, Clip!Watching, Clip!Modes,
     Clip!Holds, Clip!Free, Clip!Held, Clip!ReadBytes, Clip!Announce, Clip!IsNews
<1>4. Clip!OwnWriteIsNotNews'
  BY ClipAssumption DEF Clip!Changed, Clip!ClipInv, Clip!ThreadsOK, Clip!EchoOK,
     Clip!OwnWriteIsNotNews, Clip!Watching, Clip!Modes, Clip!Holds, Clip!Free, Clip!Held,
     Clip!ReadBytes, Clip!Announce, Clip!IsNews
<1> QED BY <1>1, <1>2, <1>3, <1>4 DEF Clip!ClipInv

LEMMA ClipFlush ==
  ASSUME Clip!ClipInv, NEW t \in Threads, Clip!Flush(t)
  PROVE  Clip!ClipInv'
<1>1. Clip!ThreadsOK'
  BY DEF Clip!Flush, Clip!ClipInv, Clip!ThreadsOK, Clip!Watching, Clip!Modes, Clip!Holds,
     Clip!Free
<1>2. Clip!EchoOK'
  BY DEF Clip!Flush, Clip!ClipInv, Clip!EchoOK, Clip!Holds, Clip!Free
<1>3. Clip!OwedIsComing'
  BY DEF Clip!Flush, Clip!ClipInv, Clip!ThreadsOK, Clip!OwedIsComing, Clip!Owed, Clip!Coming,
     Clip!Listens, Clip!Watching, Clip!Modes, Clip!Holds, Clip!Free
<1>4. Clip!OwnWriteIsNotNews'
  BY DEF Clip!Flush, Clip!ClipInv, Clip!OwnWriteIsNotNews, Clip!Holds, Clip!Free
<1> QED BY <1>1, <1>2, <1>3, <1>4 DEF Clip!ClipInv

LEMMA ClipNext ==
  ASSUME Clip!ClipInv, Clip!Next
  PROVE  Clip!ClipInv'
  BY ClipPersonCopies, ClipSetPreference, ClipStart, ClipStop, ClipWlCopy, ClipNoteEcho,
     ClipWriteFails, ClipElapse, ClipOpen, ClipReadLine, ClipWatcherDies, ClipRest,
     ClipNotWanted, ClipChanged, ClipFlush DEF Clip!Next

LEMMA ClipStutter ==
  ASSUME Clip!ClipInv, UNCHANGED Clip!clipVars
  PROVE  Clip!ClipInv'
  BY DEF Clip!clipVars, Clip!ClipInv, Clip!ThreadsOK, Clip!EchoOK, Clip!OwedIsComing,
     Clip!OwnWriteIsNotNews, Clip!Owed, Clip!Coming, Clip!Listens, Clip!Watching, Clip!Modes,
     Clip!Holds, Clip!Free

LEMMA ClipTold == Clip!ClipInv => Clip!LastIsTold
  BY DEF Clip!ClipInv, Clip!ThreadsOK, Clip!OwedIsComing, Clip!Owed, Clip!Coming,
     Clip!Listens, Clip!LastIsTold, Clip!Waits

-----------------------------------------------------------------------------
(* Files a device sends: each step keeps UploadInv. *)

LEMMA UploadInit == Upload!Init => Upload!UploadInv
  BY UploadAssumption DEF Upload!Init, Upload!UploadInv, Upload!UploadShapesOK, Upload!AskOK,
     Upload!StageOK, Upload!NothingIsLeft, Upload!SavedStays, Upload!RefusedIsGone,
     Upload!OnDisk, Upload!Live, Upload!AskStates, Upload!Idle

LEMMA UploadReceive ==
  ASSUME Upload!UploadInv, NEW i \in Files, Upload!Receive(i)
  PROVE  Upload!UploadInv'
<1>1. Upload!UploadShapesOK'
  BY DEF Upload!Receive, Upload!UploadInv, Upload!UploadShapesOK, Upload!Live
<1>2. Upload!StageOK'
  BY DEF Upload!Receive, Upload!UploadInv, Upload!UploadShapesOK, Upload!StageOK, Upload!Live
<1>3. Upload!NothingIsLeft'
  BY DEF Upload!Receive, Upload!UploadInv, Upload!NothingIsLeft, Upload!OnDisk
<1>4. Upload!SavedStays'
  BY UploadAssumption DEF Upload!Receive, Upload!UploadInv, Upload!UploadShapesOK,
     Upload!StageOK, Upload!SavedStays, Upload!OnDisk, Upload!Live
<1>5. Upload!RefusedIsGone'
  BY DEF Upload!Receive, Upload!UploadInv, Upload!RefusedIsGone
<1>6. Upload!AskOK'
  BY DEF Upload!Receive, Upload!UploadInv, Upload!AskOK
<1> QED BY <1>1, <1>2, <1>3, <1>4, <1>5, <1>6 DEF Upload!UploadInv

LEMMA UploadAbort ==
  ASSUME Upload!UploadInv, NEW i \in Files, Upload!Abort(i)
  PROVE  Upload!UploadInv'
<1>1. Upload!UploadShapesOK'
  BY DEF Upload!Abort, Upload!UploadInv, Upload!UploadShapesOK, Upload!Live
<1>2. Upload!StageOK'
  BY DEF Upload!Abort, Upload!UploadInv, Upload!StageOK, Upload!Live
<1>3. Upload!NothingIsLeft'
  BY UploadAssumption DEF Upload!Abort, Upload!UploadInv, Upload!UploadShapesOK,
     Upload!StageOK, Upload!NothingIsLeft, Upload!OnDisk, Upload!Live
<1>4. Upload!SavedStays'
  BY DEF Upload!Abort, Upload!UploadInv, Upload!SavedStays, Upload!OnDisk
<1>5. Upload!RefusedIsGone'
  BY DEF Upload!Abort, Upload!UploadInv, Upload!RefusedIsGone
<1>6. Upload!AskOK'
  BY DEF Upload!Abort, Upload!UploadInv, Upload!AskOK
<1> QED BY <1>1, <1>2, <1>3, <1>4, <1>5, <1>6 DEF Upload!UploadInv

LEMMA UploadBodyEnds ==
  ASSUME Upload!UploadInv, NEW i \in Files, Upload!BodyEnds(i)
  PROVE  Upload!UploadInv'
<1>1. Upload!UploadShapesOK'
  BY DEF Upload!BodyEnds, Upload!UploadInv, Upload!UploadShapesOK, Upload!Live
<1>2. Upload!StageOK'
  BY DEF Upload!BodyEnds, Upload!UploadInv, Upload!UploadShapesOK, Upload!StageOK, Upload!Live
<1>3. Upload!NothingIsLeft'
  BY UploadAssumption DEF Upload!BodyEnds, Upload!UploadInv, Upload!UploadShapesOK,
     Upload!StageOK, Upload!NothingIsLeft, Upload!OnDisk, Upload!Live
<1>4. Upload!SavedStays'
  BY DEF Upload!BodyEnds, Upload!UploadInv, Upload!SavedStays, Upload!OnDisk
<1>5. Upload!RefusedIsGone'
  BY DEF Upload!BodyEnds, Upload!UploadInv, Upload!RefusedIsGone
<1>6. Upload!AskOK'
  BY DEF Upload!BodyEnds, Upload!UploadInv, Upload!AskOK
<1> QED BY <1>1, <1>2, <1>3, <1>4, <1>5, <1>6 DEF Upload!UploadInv

LEMMA UploadRefuse ==
  ASSUME Upload!UploadInv, NEW i \in Files, Upload!Refuse(i)
  PROVE  Upload!UploadInv'
<1>1. Upload!UploadShapesOK'
  BY DEF Upload!Refuse, Upload!UploadInv, Upload!UploadShapesOK, Upload!Live
<1>2. Upload!StageOK'
  BY DEF Upload!Refuse, Upload!UploadInv, Upload!StageOK, Upload!Live
<1>3. Upload!NothingIsLeft'
  BY DEF Upload!Refuse, Upload!UploadInv, Upload!UploadShapesOK, Upload!NothingIsLeft,
     Upload!OnDisk, Upload!Live
<1>4. Upload!SavedStays'
  BY DEF Upload!Refuse, Upload!UploadInv, Upload!SavedStays, Upload!OnDisk
<1>5. Upload!RefusedIsGone'
  BY DEF Upload!Refuse, Upload!UploadInv, Upload!RefusedIsGone
<1>6. Upload!AskOK'
  BY DEF Upload!Refuse, Upload!UploadInv, Upload!AskOK
<1> QED BY <1>1, <1>2, <1>3, <1>4, <1>5, <1>6 DEF Upload!UploadInv

LEMMA UploadConvert ==
  ASSUME Upload!UploadInv, NEW i \in Files, Upload!Convert(i)
  PROVE  Upload!UploadInv'
<1>1. Upload!UploadShapesOK'
  BY DEF Upload!Convert, Upload!UploadInv, Upload!UploadShapesOK, Upload!Live
<1>2. Upload!StageOK'
  BY DEF Upload!Convert, Upload!UploadInv, Upload!UploadShapesOK, Upload!StageOK, Upload!Live
<1>3. Upload!NothingIsLeft'
  BY DEF Upload!Convert, Upload!UploadInv, Upload!NothingIsLeft, Upload!OnDisk
<1>4. Upload!SavedStays'
  BY DEF Upload!Convert, Upload!UploadInv, Upload!SavedStays, Upload!OnDisk
<1>5. Upload!RefusedIsGone'
  BY DEF Upload!Convert, Upload!UploadInv, Upload!RefusedIsGone
<1>6. Upload!AskOK'
  BY DEF Upload!Convert, Upload!UploadInv, Upload!AskOK
<1> QED BY <1>1, <1>2, <1>3, <1>4, <1>5, <1>6 DEF Upload!UploadInv

LEMMA UploadRename ==
  ASSUME Upload!UploadInv, NEW i \in Files, Upload!Rename(i)
  PROVE  Upload!UploadInv'
<1>1. Upload!UploadShapesOK'
  BY DEF Upload!Rename, Upload!UploadInv, Upload!UploadShapesOK, Upload!Live, Upload!Source
<1>2. Upload!StageOK'
  BY DEF Upload!Rename, Upload!UploadInv, Upload!UploadShapesOK, Upload!StageOK, Upload!Live,
     Upload!Source
<1>3. Upload!NothingIsLeft'
  BY UploadAssumption DEF Upload!Rename, Upload!UploadInv, Upload!UploadShapesOK,
     Upload!StageOK, Upload!NothingIsLeft, Upload!OnDisk, Upload!Live, Upload!Source
<1>4. Upload!SavedStays'
  BY DEF Upload!Rename, Upload!UploadInv, Upload!SavedStays, Upload!OnDisk, Upload!Source
<1>5. Upload!RefusedIsGone'
  BY DEF Upload!Rename, Upload!UploadInv, Upload!RefusedIsGone, Upload!Source
<1>6. Upload!AskOK'
  BY DEF Upload!Rename, Upload!UploadInv, Upload!AskOK, Upload!Source
<1> QED BY <1>1, <1>2, <1>3, <1>4, <1>5, <1>6 DEF Upload!UploadInv

LEMMA UploadAnswer ==
  ASSUME Upload!UploadInv, NEW i \in Files, Upload!Answer(i)
  PROVE  Upload!UploadInv'
<1>1. Upload!UploadShapesOK'
  BY DEF Upload!Answer, Upload!UploadInv, Upload!UploadShapesOK, Upload!Live
<1>2. Upload!StageOK'
  BY DEF Upload!Answer, Upload!UploadInv, Upload!UploadShapesOK, Upload!StageOK, Upload!Live
<1>3. Upload!NothingIsLeft'
  BY DEF Upload!Answer, Upload!UploadInv, Upload!NothingIsLeft, Upload!OnDisk
<1>4. Upload!SavedStays'
  BY UploadAssumption DEF Upload!Answer, Upload!UploadInv, Upload!UploadShapesOK,
     Upload!StageOK, Upload!SavedStays, Upload!OnDisk, Upload!Live
<1>5. Upload!RefusedIsGone'
  BY DEF Upload!Answer, Upload!UploadInv, Upload!RefusedIsGone
<1>6. Upload!AskOK'
  BY DEF Upload!Answer, Upload!UploadInv, Upload!AskOK
<1> QED BY <1>1, <1>2, <1>3, <1>4, <1>5, <1>6 DEF Upload!UploadInv

LEMMA UploadLook ==
  ASSUME Upload!UploadInv, NEW a \in UploadIds, NEW op \in {"send", "delete"}, NEW i \in Files,
         Upload!Look(a, op, i)
  PROVE  Upload!UploadInv'
<1>1. Upload!UploadShapesOK'
  BY DEF Upload!Look, Upload!UploadInv, Upload!UploadShapesOK, Upload!OnDisk, Upload!Live,
     Upload!AskStates, Upload!Idle
<1>2. Upload!StageOK'
  BY DEF Upload!Look, Upload!UploadInv, Upload!StageOK, Upload!OnDisk, Upload!Live, Upload!Idle
<1>3. Upload!NothingIsLeft'
  BY DEF Upload!Look, Upload!UploadInv, Upload!NothingIsLeft, Upload!OnDisk, Upload!Idle
<1>4. Upload!SavedStays'
  BY DEF Upload!Look, Upload!UploadInv, Upload!SavedStays, Upload!OnDisk, Upload!Idle
<1>5. Upload!RefusedIsGone'
  BY UploadAssumption DEF Upload!Look, Upload!UploadInv, Upload!UploadShapesOK,
     Upload!SavedStays, Upload!RefusedIsGone, Upload!OnDisk, Upload!Live, Upload!AskStates,
     Upload!Idle
<1>6. Upload!AskOK'
  BY DEF Upload!Look, Upload!UploadInv, Upload!AskOK, Upload!OnDisk, Upload!Idle
<1> QED BY <1>1, <1>2, <1>3, <1>4, <1>5, <1>6 DEF Upload!UploadInv

LEMMA UploadNote ==
  ASSUME Upload!UploadInv, NEW a \in UploadIds, Upload!Note(a)
  PROVE  Upload!UploadInv'
<1>1. Upload!UploadShapesOK'
  BY DEF Upload!Note, Upload!UploadInv, Upload!UploadShapesOK, Upload!Live, Upload!AskStates,
     Upload!Idle
<1>2. Upload!StageOK'
  BY DEF Upload!Note, Upload!UploadInv, Upload!StageOK, Upload!Live, Upload!Idle
<1>3. Upload!NothingIsLeft'
  BY DEF Upload!Note, Upload!UploadInv, Upload!NothingIsLeft, Upload!OnDisk, Upload!Idle
<1>4. Upload!SavedStays'
  BY DEF Upload!Note, Upload!UploadInv, Upload!SavedStays, Upload!OnDisk, Upload!Idle
<1>5. Upload!RefusedIsGone'
  BY UploadAssumption DEF Upload!Note, Upload!UploadInv, Upload!UploadShapesOK,
     Upload!RefusedIsGone, Upload!Live, Upload!AskStates, Upload!Idle
<1>6. Upload!AskOK'
  BY UploadAssumption DEF Upload!Note, Upload!UploadInv, Upload!UploadShapesOK, Upload!AskOK,
     Upload!Live, Upload!AskStates, Upload!Idle
<1> QED BY <1>1, <1>2, <1>3, <1>4, <1>5, <1>6 DEF Upload!UploadInv

LEMMA UploadSent ==
  ASSUME Upload!UploadInv, NEW a \in UploadIds, Upload!Sent(a)
  PROVE  Upload!UploadInv'
<1>1. Upload!UploadShapesOK'
  BY DEF Upload!Sent, Upload!UploadInv, Upload!UploadShapesOK, Upload!Live, Upload!AskStates,
     Upload!Idle
<1>2. Upload!StageOK'
  BY DEF Upload!Sent, Upload!UploadInv, Upload!StageOK, Upload!Live, Upload!Idle
<1>3. Upload!NothingIsLeft'
  BY DEF Upload!Sent, Upload!UploadInv, Upload!NothingIsLeft, Upload!OnDisk, Upload!Idle
<1>4. Upload!SavedStays'
  BY DEF Upload!Sent, Upload!UploadInv, Upload!SavedStays, Upload!OnDisk, Upload!Idle
<1>5. Upload!RefusedIsGone'
  BY UploadAssumption DEF Upload!Sent, Upload!UploadInv, Upload!RefusedIsGone, Upload!Idle
<1>6. Upload!AskOK'
  BY UploadAssumption DEF Upload!Sent, Upload!UploadInv, Upload!AskOK, Upload!Idle
<1> QED BY <1>1, <1>2, <1>3, <1>4, <1>5, <1>6 DEF Upload!UploadInv

LEMMA UploadRemove ==
  ASSUME Upload!UploadInv, NEW a \in UploadIds, Upload!Remove(a)
  PROVE  Upload!UploadInv'
<1>1. Upload!UploadShapesOK'
  BY DEF Upload!Remove, Upload!UploadInv, Upload!UploadShapesOK, Upload!Live,
     Upload!AskStates, Upload!Idle
<1>2. Upload!StageOK'
  BY UploadAssumption DEF Upload!Remove, Upload!UploadInv, Upload!UploadShapesOK,
     Upload!AskOK, Upload!StageOK, Upload!Live, Upload!AskStates, Upload!Idle
<1>3. Upload!NothingIsLeft'
  BY DEF Upload!Remove, Upload!UploadInv, Upload!NothingIsLeft, Upload!OnDisk, Upload!Idle
<1>4. Upload!SavedStays'
  BY DEF Upload!Remove, Upload!UploadInv, Upload!SavedStays, Upload!OnDisk, Upload!Idle
<1>5. Upload!RefusedIsGone'
  BY UploadAssumption DEF Upload!Remove, Upload!UploadInv, Upload!RefusedIsGone, Upload!Idle
<1>6. Upload!AskOK'
  BY UploadAssumption DEF Upload!Remove, Upload!UploadInv, Upload!AskOK, Upload!Idle
<1> QED BY <1>1, <1>2, <1>3, <1>4, <1>5, <1>6 DEF Upload!UploadInv

LEMMA UploadSweep ==
  ASSUME Upload!UploadInv, NEW i \in Files, NEW f \in {"part", "jpg", "stored"}, Upload!Sweep(i, f)
  PROVE  Upload!UploadInv'
<1>1. Upload!UploadShapesOK'
  BY DEF Upload!Sweep, Upload!UploadInv, Upload!UploadShapesOK, Upload!Live, Upload!Due
<1>2. Upload!StageOK'
  BY DEF Upload!Sweep, Upload!UploadInv, Upload!StageOK, Upload!Live, Upload!Due
<1>3. Upload!NothingIsLeft'
  BY DEF Upload!Sweep, Upload!UploadInv, Upload!NothingIsLeft, Upload!OnDisk, Upload!Live,
     Upload!Due
<1>4. Upload!SavedStays'
  <2>1. x10'
    <3>1. x10' = (x10 /\ ~(f # "stored" /\ x2[i] \in Upload!Live)) /\ Upload!Due(i, f)
      BY DEF Upload!Sweep
    <3>2. ~(f # "stored" /\ x2[i] \in Upload!Live)
      BY <3>1 DEF Upload!Due, Upload!UploadInv, Upload!StageOK
    <3>3. x10
      BY DEF Upload!UploadInv, Upload!SavedStays
    <3> QED BY Zenon, <3>1, <3>2, <3>3
  <2>2. ASSUME NEW j \in Files, j \in x6' \ x7'
        PROVE  Upload!OnDisk(j)'
    <3>1. j \in x6 \ x7 /\ "stored" \in x3[j]
      BY <2>2 DEF Upload!Sweep, Upload!UploadInv, Upload!SavedStays, Upload!OnDisk
    <3>2. CASE j = i /\ f = "stored"
      <4>1. x4[i] = 2
        BY <3>2 DEF Upload!Sweep, Upload!Due, Upload!UploadInv, Upload!UploadShapesOK
      <4> QED BY <2>2, <3>2, <4>1 DEF Upload!Sweep
    <3>3. CASE ~(j = i /\ f = "stored")
      BY <3>1, <3>3 DEF Upload!Sweep, Upload!UploadInv, Upload!UploadShapesOK, Upload!OnDisk
    <3> QED BY <3>2, <3>3
  <2>3. x6' \subseteq Files
    BY DEF Upload!Sweep, Upload!UploadInv, Upload!UploadShapesOK
  <2> QED BY <2>1, <2>2, <2>3 DEF Upload!SavedStays
<1>5. Upload!RefusedIsGone'
  BY DEF Upload!Sweep, Upload!UploadInv, Upload!RefusedIsGone, Upload!Live, Upload!Due
<1>6. Upload!AskOK'
  BY DEF Upload!Sweep, Upload!UploadInv, Upload!AskOK, Upload!Live, Upload!Due
<1> QED BY <1>1, <1>2, <1>3, <1>4, <1>5, <1>6 DEF Upload!UploadInv

LEMMA UploadTimePasses ==
  ASSUME Upload!UploadInv, Upload!TimePasses
  PROVE  Upload!UploadInv'
<1>1. Upload!UploadShapesOK'
  BY DEF Upload!TimePasses, Upload!UploadInv, Upload!UploadShapesOK, Upload!Live, Upload!Wrote
<1>2. Upload!StageOK'
  BY DEF Upload!TimePasses, Upload!UploadInv, Upload!StageOK, Upload!Live, Upload!Wrote
<1>3. Upload!NothingIsLeft'
  BY DEF Upload!TimePasses, Upload!UploadInv, Upload!NothingIsLeft, Upload!OnDisk, Upload!Wrote
<1>4. Upload!SavedStays'
  BY DEF Upload!TimePasses, Upload!UploadInv, Upload!SavedStays, Upload!OnDisk, Upload!Wrote
<1>5. Upload!RefusedIsGone'
  BY DEF Upload!TimePasses, Upload!UploadInv, Upload!RefusedIsGone, Upload!Wrote
<1>6. Upload!AskOK'
  BY DEF Upload!TimePasses, Upload!UploadInv, Upload!AskOK, Upload!Wrote
<1> QED BY <1>1, <1>2, <1>3, <1>4, <1>5, <1>6 DEF Upload!UploadInv

LEMMA UploadRevoke ==
  ASSUME Upload!UploadInv, Upload!Revoke
  PROVE  Upload!UploadInv'
<1>1. Upload!UploadShapesOK'
  BY DEF Upload!Revoke, Upload!UploadInv, Upload!UploadShapesOK, Upload!Live
<1>2. Upload!StageOK'
  BY DEF Upload!Revoke, Upload!UploadInv, Upload!StageOK, Upload!Live
<1>3. Upload!NothingIsLeft'
  BY DEF Upload!Revoke, Upload!UploadInv, Upload!NothingIsLeft, Upload!OnDisk
<1>4. Upload!SavedStays'
  BY DEF Upload!Revoke, Upload!UploadInv, Upload!SavedStays, Upload!OnDisk
<1>5. Upload!RefusedIsGone'
  BY DEF Upload!Revoke, Upload!UploadInv, Upload!RefusedIsGone
<1>6. Upload!AskOK'
  BY DEF Upload!Revoke, Upload!UploadInv, Upload!AskOK
<1> QED BY <1>1, <1>2, <1>3, <1>4, <1>5, <1>6 DEF Upload!UploadInv

LEMMA UploadCrash ==
  ASSUME Upload!UploadInv, Upload!Crash
  PROVE  Upload!UploadInv'
<1>1. Upload!UploadShapesOK'
  BY DEF Upload!Crash, Upload!UploadInv, Upload!UploadShapesOK, Upload!Live, Upload!AskStates,
     Upload!Idle
<1>2. Upload!StageOK'
  BY DEF Upload!Crash, Upload!UploadInv, Upload!StageOK, Upload!Live, Upload!Idle
<1>3. Upload!NothingIsLeft'
  BY DEF Upload!Crash, Upload!UploadInv, Upload!NothingIsLeft, Upload!OnDisk, Upload!Live,
     Upload!Idle
<1>4. Upload!SavedStays'
  BY DEF Upload!Crash, Upload!UploadInv, Upload!SavedStays, Upload!OnDisk, Upload!Live,
     Upload!Idle
<1>5. Upload!RefusedIsGone'
  BY UploadAssumption DEF Upload!Crash, Upload!UploadInv, Upload!RefusedIsGone, Upload!Live,
     Upload!Idle
<1>6. Upload!AskOK'
  BY UploadAssumption DEF Upload!Crash, Upload!UploadInv, Upload!AskOK, Upload!Live, Upload!Idle
<1> QED BY <1>1, <1>2, <1>3, <1>4, <1>5, <1>6 DEF Upload!UploadInv

LEMMA UploadNext ==
  ASSUME Upload!UploadInv, Upload!Next
  PROVE  Upload!UploadInv'
  BY UploadReceive, UploadAbort, UploadBodyEnds, UploadRefuse, UploadConvert, UploadRename,
     UploadAnswer, UploadLook, UploadNote, UploadSent, UploadRemove, UploadSweep,
     UploadTimePasses, UploadRevoke, UploadCrash DEF Upload!Next

LEMMA UploadStutter ==
  ASSUME Upload!UploadInv, UNCHANGED Upload!uploadVars
  PROVE  Upload!UploadInv'
  BY DEF Upload!uploadVars, Upload!UploadInv, Upload!UploadShapesOK, Upload!AskOK,
     Upload!StageOK, Upload!NothingIsLeft, Upload!SavedStays, Upload!RefusedIsGone,
     Upload!OnDisk, Upload!Live

-----------------------------------------------------------------------------
(* What a message with files becomes: each step keeps AttachInv, which says enough. *)

LEMMA AttachCardinality == \A S : Attach!Cardinality(S) = Cardinality(S)
  BY DEF Attach!Cardinality, Cardinality

LEMMA AttachPlace ==
  ASSUME NEW n \in Nat, NEW U \in SUBSET (1..n)
  PROVE  /\ Cardinality(U) \in Nat
         /\ \A u \in U : Attach!Place(U, u) \in 1..Cardinality(U) /\ Attach!InOrder(U)[Attach!Place(U, u)] = u
<1>1. IsFiniteSet(U) /\ Cardinality(U) \in Nat
  <2>1. IsFiniteSet(1..n)
    BY FS_Interval
  <2> QED BY <2>1, FS_Subset, FS_CardinalityType
<1>2. ASSUME NEW u \in U
      PROVE  /\ IsFiniteSet({v \in U : v <= u})
             /\ Attach!Place(U, u) \in 1..Cardinality(U) /\ Attach!Place(U, u) \in Nat
  <2>1. {v \in U : v <= u} \in SUBSET U /\ {v \in U : v <= u} # {}
    BY <1>2
  <2>2. IsFiniteSet({v \in U : v <= u}) /\ Cardinality({v \in U : v <= u}) <= Cardinality(U)
    BY <1>1, <2>1, FS_Subset
  <2>3. Cardinality({v \in U : v <= u}) \in Nat /\ Cardinality({v \in U : v <= u}) # 0
    BY <2>1, <2>2, FS_CardinalityType, FS_EmptySet
  <2> QED BY <1>1, <2>2, <2>3, AttachCardinality DEF Attach!Place
<1>3. ASSUME NEW u \in U, NEW v \in U, u < v
      PROVE  Attach!Place(U, u) < Attach!Place(U, v)
  <2> DEFINE low == {w \in U : w <= u}
             high == {w \in U : w <= v}
  <2>1. low \in SUBSET high /\ low # high
    <3>1. \A w \in U : w \in Nat
      OBVIOUS
    <3>2. \A w \in U : w <= u => w <= v
      BY <1>3, <3>1
    <3>3. v \in high /\ v \notin low
      BY <1>3, <3>1
    <3> QED BY <3>2, <3>3
  <2>2. IsFiniteSet(low) /\ IsFiniteSet(high)
    BY <1>2
  <2>3. Cardinality(low) <= Cardinality(high) /\ Cardinality(low) # Cardinality(high)
    BY <2>1, <2>2, FS_Subset
  <2>4. Cardinality(low) = Attach!Place(U, u) /\ Cardinality(high) = Attach!Place(U, v)
    BY AttachCardinality DEF Attach!Place
  <2>5. Attach!Place(U, u) \in Nat /\ Attach!Place(U, v) \in Nat
    BY <1>2
  <2> QED BY <2>3, <2>4, <2>5
<1>4. ASSUME NEW u \in U
      PROVE  Attach!InOrder(U)[Attach!Place(U, u)] = u
  <2>1. Attach!InOrder(U)[Attach!Place(U, u)] = CHOOSE v \in U : Attach!Place(U, v) = Attach!Place(U, u)
    BY <1>2, AttachCardinality DEF Attach!InOrder
  <2>2. PICK v \in U : /\ v = CHOOSE w \in U : Attach!Place(U, w) = Attach!Place(U, u)
                       /\ Attach!Place(U, v) = Attach!Place(U, u)
    OBVIOUS
  <2>3. u \in Nat /\ v \in Nat
    OBVIOUS
  <2>5. Attach!Place(U, u) \in Nat
    BY <1>2
  <2>6. ~(Attach!Place(U, u) < Attach!Place(U, v)) /\ ~(Attach!Place(U, v) < Attach!Place(U, u))
    BY <2>2, <2>5
  <2>4. ~(u < v) /\ ~(v < u)
    <3>1. u < v => Attach!Place(U, u) < Attach!Place(U, v)
      BY <1>3
    <3>2. v < u => Attach!Place(U, v) < Attach!Place(U, u)
      BY <1>3
    <3> QED BY <2>6, <3>1, <3>2
  <2> QED BY <2>1, <2>2, <2>3, <2>4
<1> QED BY <1>1, <1>2, <1>4

\* One after the other: the places of the first stay, those of the second follow.
LEMMA AttachConcat ==
  ASSUME NEW S, NEW s \in Seq(S), NEW t \in Seq(S)
  PROVE  /\ \A k \in DOMAIN s : k \in DOMAIN (s \o t) /\ (s \o t)[k] = s[k]
         /\ \A k \in DOMAIN t : Len(s) + k \in DOMAIN (s \o t) /\ (s \o t)[Len(s) + k] = t[k]
  OBVIOUS

\* The paths of the uploads of U are a text that holds each of them.
LEMMA AttachPaths ==
  ASSUME NEW n \in Nat, NEW U \in SUBSET (1..n)
  PROVE  /\ Attach!Paths(U) \in Seq({Attach!Paths(U)[k] : k \in DOMAIN Attach!Paths(U)})
         /\ \A u \in U : Attach!Occurs(Attach!Path(u), Attach!Paths(U))
<1> DEFINE c == Cardinality(U)
           f == [k \in 1..c |-> Attach!Path(Attach!InOrder(U)[k])]
<1>1. c \in Nat /\ \A u \in U : Attach!Place(U, u) \in 1..c /\ Attach!InOrder(U)[Attach!Place(U, u)] = u
  BY AttachPlace
<1>2. Attach!Paths(U) = f /\ DOMAIN f = 1..c /\ \A k \in 1..c : f[k] = Attach!Path(Attach!InOrder(U)[k])
  BY AttachCardinality DEF Attach!Paths
<1>3. \A u \in U : Attach!Occurs(Attach!Path(u), Attach!Paths(U))
  <2> SUFFICES ASSUME NEW u \in U PROVE Attach!Occurs(Attach!Path(u), Attach!Paths(U))
    OBVIOUS
  <2>1. Attach!Place(U, u) \in DOMAIN f /\ f[Attach!Place(U, u)] = Attach!Path(u)
    <3>1. Attach!Place(U, u) \in 1..c /\ Attach!InOrder(U)[Attach!Place(U, u)] = u
      BY <1>1
    <3>2. f[Attach!Place(U, u)] = Attach!Path(Attach!InOrder(U)[Attach!Place(U, u)])
      BY <1>2, <3>1
    <3> QED BY <1>2, <3>1, <3>2
  <2> HIDE DEF f
  <2> QED BY <1>2, <2>1 DEF Attach!Occurs
<1>4. f \in Seq({f[k] : k \in DOMAIN f})
  <2>1. f \in [1..c -> {f[k] : k \in DOMAIN f}]
    BY <1>2
  <2> HIDE DEF f, c
  <2> QED BY <1>1, <2>1
<1> HIDE DEF f
<1> QED BY <1>2, <1>3, <1>4

LEMMA AttachInit == Attach!Init => Attach!AttachInv
  BY DEF Attach!Init, Attach!AttachInv

LEMMA AttachNext ==
  ASSUME Attach!AttachInv, Attach!Next
  PROVE  Attach!AttachInv'
  BY DEF Attach!Next, Attach!Send, Attach!AttachInv

LEMMA AttachStutter ==
  ASSUME Attach!AttachInv, UNCHANGED Attach!attachVars
  PROVE  Attach!AttachInv'
  BY DEF Attach!attachVars, Attach!AttachInv

\* The one upload of a draft whose marker is n is behind n.
LEMMA AttachBehind ==
  ASSUME Attach!AttachInv, Attach!Distinct, NEW U \in SUBSET (DOMAIN x2), NEW u \in U, x2[u].marker # 0
  PROVE  Attach!Behind(x2, x2[u].marker, U) = u
<1> DEFINE n == x2[u].marker
           mine == {v \in U : x2[v].marker = n}
<1>1. mine = {u}
  BY DEF Attach!Distinct
<1>2. u \in Nat
  BY DEF Attach!AttachInv
<1>3. \A v \in mine : v <= u
  BY <1>1, <1>2
<1>4. (CHOOSE v \in mine : \A w \in mine : w <= v) = u
  BY <1>1, <1>3
<1> QED BY <1>1, <1>4 DEF Attach!Behind

\* A marker in the text becomes what is behind it, in a text of the same length.
LEMMA AttachSub ==
  ASSUME Attach!AttachInv, NEW behind
  PROVE  /\ Attach!Sub(x1, behind) \in Seq({Attach!Sub(x1, behind)[k] : k \in DOMAIN x1})
         /\ DOMAIN Attach!Sub(x1, behind) = DOMAIN x1
         /\ \A k \in DOMAIN x1 : \A n \in Marks :
              x1[k] = Attach!Mark(n) => Attach!Sub(x1, behind)[k] = behind[n]
<1> DEFINE f == Attach!Sub(x1, behind)
<1>1. DOMAIN f = DOMAIN x1
  BY DEF Attach!Sub
<1>2. f \in Seq({f[k] : k \in DOMAIN x1})
  <2>1. DOMAIN x1 = 1..Len(x1) /\ Len(x1) \in Nat
    BY DEF Attach!AttachInv
  <2>2. f \in [1..Len(x1) -> {f[k] : k \in DOMAIN x1}]
    BY <1>1, <2>1 DEF Attach!Sub
  <2> HIDE DEF f
  <2> QED BY <2>1, <2>2
<1>3. \A k \in DOMAIN x1 : \A n \in Marks : x1[k] = Attach!Mark(n) => f[k] = behind[n]
  BY DEF Attach!Sub, Attach!Mark
<1> QED BY <1>1, <1>2, <1>3

\* The uploads are numbered.
LEMMA AttachUploads ==
  ASSUME Attach!AttachInv
  PROVE  /\ Len(x2) \in Nat /\ DOMAIN x2 = 1..Len(x2)
         /\ \A u \in DOMAIN x2 : x2[u].marker \in Marks \cup {0}
<1>1. Len(x2) \in Nat /\ DOMAIN x2 = 1..Len(x2)
  BY DEF Attach!AttachInv
<1>2. \A u \in DOMAIN x2 : x2[u] \in Attach!Attachment
  BY DEF Attach!AttachInv
<1>3. \A a \in Attach!Attachment : a.marker \in Marks \cup {0}
  BY DEF Attach!Attachment
<1> QED BY <1>1, <1>2, <1>3

\* A marker that stands in the text is one a draft has.
LEMMA AttachPlaced ==
  ASSUME Attach!AttachInv, NEW u \in Attach!Placed(x1, x2)
  PROVE  /\ u \in DOMAIN x2 /\ x2[u].marker \in Marks /\ x2[u].marker # 0
         /\ \E k \in DOMAIN x1 : x1[k] = Attach!Mark(x2[u].marker)
  BY AttachUploads DEF Attach!Placed, Attach!Uploads, Attach!InText

\* What compose_herdr() makes holds every path.
LEMMA AttachHerdr ==
  ASSUME Attach!AttachInv, Attach!Distinct, NEW u \in DOMAIN x2
  PROVE  Attach!Occurs(Attach!Path(u), Attach!ComposeHerdr(x1, x2))
<1> DEFINE placed == Attach!Placed(x1, x2)
           orphans == Attach!Orphans(x1, x2)
           behind == [n \in Marks |-> IF Attach!Behind(x2, n, placed) = 0 THEN Attach!Mark(n)
                                      ELSE Attach!Path(Attach!Behind(x2, n, placed))]
           p == Attach!Paths(orphans)
           t == Attach!Sub(x1, behind)
           X == {p[k] : k \in DOMAIN p}
           Y == {t[k] : k \in DOMAIN x1}
<1>1. Attach!ComposeHerdr(x1, x2) = p \o t
  BY DEF Attach!ComposeHerdr
<1>2. placed \in SUBSET (DOMAIN x2) /\ orphans \in SUBSET (1..Len(x2))
  BY AttachUploads DEF Attach!Placed, Attach!Orphans, Attach!Uploads
<1>3. p \in Seq(X) /\ \A v \in orphans : Attach!Occurs(Attach!Path(v), p)
  BY <1>2, AttachUploads, AttachPaths
<1>4. /\ t \in Seq(Y) /\ DOMAIN t = DOMAIN x1
      /\ \A k \in DOMAIN x1 : \A n \in Marks : x1[k] = Attach!Mark(n) => t[k] = behind[n]
  BY AttachSub
<1>5. \A n \in Marks : behind[n] = IF Attach!Behind(x2, n, placed) = 0 THEN Attach!Mark(n)
                                   ELSE Attach!Path(Attach!Behind(x2, n, placed))
  OBVIOUS
<1>6. u \in placed => \E k \in DOMAIN t : t[k] = Attach!Path(u)
  <2> SUFFICES ASSUME u \in placed PROVE \E k \in DOMAIN t : t[k] = Attach!Path(u)
    OBVIOUS
  <2> HIDE DEF t, p, X, Y, behind
  <2>1. PICK k \in DOMAIN x1 : x1[k] = Attach!Mark(x2[u].marker)
    BY AttachPlaced
  <2>2. x2[u].marker \in Marks /\ x2[u].marker # 0
    BY AttachPlaced
  <2>3. Attach!Behind(x2, x2[u].marker, placed) = u
    BY <1>2, <2>2, AttachBehind
  <2>4. u # 0
    BY AttachUploads
  <2> QED BY <1>4, <1>5, <2>1, <2>2, <2>3, <2>4
<1> HIDE DEF t, p, X, Y, behind
<1>7. p \in Seq(X \cup Y) /\ t \in Seq(X \cup Y)
  BY <1>3, <1>4
<1>8. CASE u \in orphans
  <2>1. PICK k \in DOMAIN p : p[k] = Attach!Path(u)
    BY <1>3, <1>8 DEF Attach!Occurs
  <2> QED BY <1>1, <1>7, <2>1, AttachConcat DEF Attach!Occurs
<1>9. CASE u \in placed
  <2>1. PICK k \in DOMAIN t : t[k] = Attach!Path(u)
    BY <1>6, <1>9
  <2>2. Len(p) + k \in DOMAIN (p \o t) /\ (p \o t)[Len(p) + k] = t[k]
    BY <1>7, AttachConcat
  <2> QED BY <1>1, <2>1, <2>2 DEF Attach!Occurs
<1> QED BY <1>8, <1>9 DEF Attach!Orphans, Attach!Uploads

\* What compose_agent() makes.
LEMMA AttachAgent ==
  ASSUME Attach!AttachInv, Attach!Distinct, NEW u \in DOMAIN x2
  PROVE  LET made == Attach!ComposeAgent(x1, x2) IN
         /\ IF x2[u].kind = "image" THEN u \in {made.images[k] : k \in DOMAIN made.images}
                                             ELSE Attach!Occurs(Attach!Path(u), made.words)
         /\ \A k \in DOMAIN x1 :
              x1[k] = Attach!Mark(x2[u].marker) /\ x2[u].kind = "image"
              => /\ made.words[k][1] = "image" /\ made.words[k][2] \in DOMAIN made.images
                 /\ made.images[made.words[k][2]] = u
<1> DEFINE placed == Attach!Placed(x1, x2)
           pictures == Attach!ImagesOf(x2)
           U == pictures \cup placed
           rest == Attach!Unplaced(x1, x2)
           at(n) == Attach!Behind(x2, n, U)
           behind == [n \in Marks |-> CASE at(n) = 0 -> Attach!Mark(n)
                                        [] at(n) \in pictures -> Attach!Image(Attach!Number(x2, at(n)))
                                        [] OTHER -> Attach!Path(at(n))]
           p == Attach!Paths(rest)
           t == Attach!Sub(x1, behind)
           given == Attach!InOrder(pictures)
           words == t \o p
           X == {p[k] : k \in DOMAIN p}
           Y == {t[k] : k \in DOMAIN x1}
<1>1. Attach!ComposeAgent(x1, x2) =
        [words |-> IF words = <<>> THEN [n \in DOMAIN given |-> Attach!Image(n)] ELSE words, images |-> given]
  BY DEF Attach!ComposeAgent
<1>2. U \in SUBSET (DOMAIN x2) /\ rest \in SUBSET (1..Len(x2))
      /\ pictures \in SUBSET (1..Len(x2)) /\ Len(x2) \in Nat
  BY AttachUploads DEF Attach!Placed, Attach!Orphans, Attach!Unplaced, Attach!ImagesOf,
     Attach!Uploads
<1>3. p \in Seq(X) /\ \A v \in rest : Attach!Occurs(Attach!Path(v), p)
  BY <1>2, AttachPaths
<1>4. /\ t \in Seq(Y) /\ DOMAIN t = DOMAIN x1
      /\ \A k \in DOMAIN x1 : \A n \in Marks : x1[k] = Attach!Mark(n) => t[k] = behind[n]
  BY AttachSub
<1>5. \A n \in Marks : behind[n] = CASE at(n) = 0 -> Attach!Mark(n)
                                     [] at(n) \in pictures -> Attach!Image(Attach!Number(x2, at(n)))
                                     [] OTHER -> Attach!Path(at(n))
  OBVIOUS
<1>6. u # 0 /\ (u \in U /\ x2[u].marker # 0 => at(x2[u].marker) = u)
  BY <1>2, AttachUploads, AttachBehind
<1>7. (u \in pictures <=> x2[u].kind = "image") /\ x2[u].marker \in Marks \cup {0}
      /\ (u \notin pictures => u \in placed \/ u \in rest)
  BY AttachUploads DEF Attach!ImagesOf, Attach!Uploads, Attach!Unplaced, Attach!Orphans
<1>8. u \in pictures => Attach!Number(x2, u) \in DOMAIN given /\ given[Attach!Number(x2, u)] = u
  <2>1. u \in pictures => /\ Attach!Place(pictures, u) \in 1..Cardinality(pictures)
                          /\ given[Attach!Place(pictures, u)] = u
    BY <1>2, AttachPlace
  <2> QED BY <2>1, AttachCardinality DEF Attach!InOrder, Attach!Number
<1> HIDE DEF behind, p, t, given, X, Y
<1>9. /\ \A k \in DOMAIN t : k \in DOMAIN words /\ words[k] = t[k]
      /\ \A k \in DOMAIN p : \E n \in DOMAIN words : words[n] = p[k]
  <2>1. p \in Seq(X \cup Y) /\ t \in Seq(X \cup Y)
    BY <1>3, <1>4
  <2>2. \A k \in DOMAIN t : k \in DOMAIN words /\ words[k] = t[k]
    BY <2>1, AttachConcat
  <2>3. \A k \in DOMAIN p : Len(t) + k \in DOMAIN words /\ words[Len(t) + k] = p[k]
    BY <2>1, AttachConcat
  <2> HIDE DEF words
  <2> QED BY <2>2, <2>3
<1> HIDE DEF words
<1>10. DOMAIN words # {} => words # <<>>
  OBVIOUS
<1>11. x2[u].kind # "image" => \E k \in DOMAIN words : words[k] = Attach!Path(u)
  <2> SUFFICES ASSUME u \notin pictures PROVE \E k \in DOMAIN words : words[k] = Attach!Path(u)
    BY <1>7
  <2>1. CASE u \in rest
    <3>1. PICK k \in DOMAIN p : p[k] = Attach!Path(u)
      BY <1>3, <2>1 DEF Attach!Occurs
    <3> QED BY <1>9, <3>1
  <2>2. CASE u \in placed
    <3>1. PICK k \in DOMAIN x1 : x1[k] = Attach!Mark(x2[u].marker)
      BY <2>2, AttachPlaced
    <3>2. x2[u].marker \in Marks /\ x2[u].marker # 0
      BY <2>2, AttachPlaced
    <3>3. behind[x2[u].marker] = Attach!Path(u)
      BY <1>5, <1>6, <2>2, <3>2
    <3> QED BY <1>4, <1>9, <3>1, <3>2, <3>3
  <2> QED BY <1>7, <2>1, <2>2
<1>12. ASSUME NEW k \in DOMAIN x1, x1[k] = Attach!Mark(x2[u].marker), u \in pictures
       PROVE  k \in DOMAIN words /\ words[k] = Attach!Image(Attach!Number(x2, u))
  <2>1. x2[u].marker \in Marks /\ x2[u].marker # 0
    <3>1. x1[k] \in Attach!Pieces
      BY DEF Attach!AttachInv
    <3>2. x2[u].marker # 0
      BY <1>12, <3>1, AttachAssumption DEF Attach!Pieces, Attach!Word, Attach!Mark
    <3> QED BY <1>7, <3>2
  <2>2. behind[x2[u].marker] = Attach!Image(Attach!Number(x2, u))
    BY <1>5, <1>6, <1>12, <2>1
  <2> QED BY <1>4, <1>9, <1>12, <2>1, <2>2
<1> DEFINE made == Attach!ComposeAgent(x1, x2)
<1>13. made.images = given /\ (DOMAIN words # {} => made.words = words)
  BY <1>1, <1>10
<1> HIDE DEF made
<1>14. IF x2[u].kind = "image" THEN u \in {made.images[k] : k \in DOMAIN made.images}
                                        ELSE Attach!Occurs(Attach!Path(u), made.words)
  <2>1. CASE x2[u].kind = "image"
    BY <1>7, <1>8, <1>13, <2>1
  <2>2. CASE x2[u].kind # "image"
    BY <1>11, <1>13, <2>2 DEF Attach!Occurs
  <2> QED BY <2>1, <2>2
<1>15. ASSUME NEW k \in DOMAIN x1, x1[k] = Attach!Mark(x2[u].marker), x2[u].kind = "image"
       PROVE  /\ made.words[k][1] = "image" /\ made.words[k][2] \in DOMAIN made.images
              /\ made.images[made.words[k][2]] = u
  <2>1. made.words[k] = Attach!Image(Attach!Number(x2, u))
    BY <1>7, <1>12, <1>13, <1>15
  <2>2. made.words[k][1] = "image" /\ made.words[k][2] = Attach!Number(x2, u)
    BY <2>1 DEF Attach!Image
  <2> QED BY <1>7, <1>8, <1>13, <1>15, <2>2
<1> QED BY <1>14, <1>15 DEF made

LEMMA AttachKept == Attach!AttachInv => Attach!NoneIsDropped /\ Attach!NumbersAgree
  BY AttachHerdr, AttachAgent DEF Attach!AttachInv, Attach!NoneIsDropped, Attach!NumbersAgree

-----------------------------------------------------------------------------
(* Preferences: each step keeps PrefInv. *)

LEMMA PrefInit == Pref!Init => Pref!PrefInv
  BY DEF Pref!Init, Pref!PrefInv, Pref!SeenOK, Pref!NothingIsLost, Pref!OthersKept,
     Pref!Current, Pref!Values

\* What a page is shown of a file is in it.
LEMMA PrefShown ==
  ASSUME NEW v \in [Pref!Controls -> Pref!Values \cup {Absent}], NEW b
  PROVE  /\ Pref!Shown(v, b) \in [Pref!Controls -> Pref!Values \cup {Absent}]
         /\ \A k \in Pref!Controls : Pref!Shown(v, b)[k] \in {Absent, v[k]}
  BY DEF Pref!Shown

\* Filling in keeps what is there, and what the build does not know.
LEMMA PrefFilled ==
  ASSUME Pref!SeenOK
  PROVE  /\ Pref!Filled(x3) \in [Pref!Controls -> Pref!Values \cup {Absent}]
         /\ \A k \in Pref!Controls : x3[k] # Absent => Pref!Filled(x3)[k] = x3[k]
         /\ \A k \in Pref!Controls \ Pref!Knows(x4) : Pref!Filled(x3)[k] = x3[k]
  BY DEF Pref!SeenOK, Pref!Filled, Pref!Values

LEMMA PrefGet ==
  ASSUME Pref!PrefInv, NEW p \in Pages, Pref!Get(p)
  PROVE  Pref!PrefInv'
<1>1. /\ x3' = Pref!Filled(x3) /\ UNCHANGED <<x2, x6>>
      /\ x5' = [x5 EXCEPT ![p] = [revision |-> x2, values |-> Pref!Shown(Pref!Filled(x3), x4)]]
      /\ x7' = (x7 \/ \E k \in Pref!Controls \ Pref!Knows(x4) : Pref!Filled(x3)[k] # x3[k])
  BY DEF Pref!Get, Pref!Write
<1>2. Pref!OthersKept'
  BY <1>1, PrefFilled DEF Pref!PrefInv, Pref!OthersKept
<1>3. Pref!SeenOK'
  <2> DEFINE sh == Pref!Shown(Pref!Filled(x3), x4)
  <2>1. /\ sh \in [Pref!Controls -> Pref!Values \cup {Absent}]
        /\ \A k \in Pref!Controls : sh[k] \in {Absent, x3'[k]}
    BY <1>1, PrefShown, PrefFilled DEF Pref!PrefInv
  <2>2. x5' = [x5 EXCEPT ![p] = [revision |-> x2, values |-> sh]]
    BY <1>1
  <2> HIDE DEF sh
  <2>3. \A q \in Pages : Pref!Current(q) => \A k \in Pref!Controls : x5[q].values[k] \in {Absent, x3'[k]}
    BY <1>1, PrefFilled DEF Pref!PrefInv, Pref!SeenOK
  <2>4. x3' \in [Pref!Controls -> Pref!Values \cup {Absent}] /\ x2' \in Nat
    BY <1>1, PrefFilled DEF Pref!PrefInv, Pref!SeenOK
  <2>5. \A q \in Pages : q # p => x5'[q] = x5[q]
    BY <2>2 DEF Pref!PrefInv, Pref!SeenOK
  <2>6. x5'[p].revision = x2 /\ x5'[p].values = sh
    BY <2>2 DEF Pref!PrefInv, Pref!SeenOK
  <2>7. x5' \in [Pages -> [revision : Nat, values : [Pref!Controls -> Pref!Values \cup {Absent}]]]
    BY <2>1, <2>2 DEF Pref!PrefInv, Pref!SeenOK
  <2>8. \A q \in Pages : x5'[q].revision <= x2'
    BY <1>1, <2>5, <2>6 DEF Pref!PrefInv, Pref!SeenOK
  <2>9. ASSUME NEW q \in Pages, x5'[q].revision = x2', NEW k \in Pref!Controls
        PROVE  x5'[q].values[k] \in {Absent, x3'[k]}
    BY <1>1, <2>1, <2>3, <2>5, <2>6, <2>9 DEF Pref!Current
  <2> QED BY <2>4, <2>7, <2>8, <2>9 DEF Pref!SeenOK, Pref!Current
<1> QED BY <1>1, <1>2, <1>3 DEF Pref!PrefInv, Pref!NothingIsLost

LEMMA PrefSet ==
  ASSUME Pref!PrefInv, NEW p \in Pages, NEW k \in Pref!Controls, NEW v \in Pref!Values, Pref!Set(p, k, v)
  PROVE  Pref!PrefInv'
<1> DEFINE new == [Pref!Filled(x3) EXCEPT ![k] = v]
           sh == Pref!Shown(new, x4)
<1>1. /\ x3' = new /\ x2' = x2 + 1 /\ k \in Pref!Knows(x4) /\ Pref!Current(p)
      /\ x5' = [x5 EXCEPT ![p] = [revision |-> x2 + 1, values |-> sh]]
      /\ x7' = (x7 \/ \E c \in Pref!Controls \ Pref!Knows(x4) : new[c] # x3[c])
      /\ x6' = (x6 \/ \E c \in Pref!Controls : x5[p].values[c] \notin {Absent, Pref!Filled(x3)[c]})
  BY DEF Pref!Set, Pref!Write
<1>2. new \in [Pref!Controls -> Pref!Values \cup {Absent}]
  BY PrefFilled DEF Pref!PrefInv
<1>3. Pref!OthersKept'
  BY <1>1, PrefFilled DEF Pref!PrefInv, Pref!OthersKept
<1>4. Pref!NothingIsLost'
  BY <1>1, PrefFilled DEF Pref!PrefInv, Pref!NothingIsLost, Pref!SeenOK
<1>5. Pref!SeenOK'
  <2>1. /\ sh \in [Pref!Controls -> Pref!Values \cup {Absent}]
        /\ \A c \in Pref!Controls : sh[c] \in {Absent, x3'[c]}
    BY <1>1, <1>2, PrefShown
  <2> HIDE DEF sh, new
  <2>2. \A q \in Pages : q # p => x5'[q] = x5[q]
    BY <1>1 DEF Pref!PrefInv, Pref!SeenOK
  <2>3. x5'[p].revision = x2 + 1 /\ x5'[p].values = sh
    BY <1>1 DEF Pref!PrefInv, Pref!SeenOK
  <2>4. x5' \in [Pages -> [revision : Nat, values : [Pref!Controls -> Pref!Values \cup {Absent}]]]
    BY <1>1, <2>1 DEF Pref!PrefInv, Pref!SeenOK
  <2>5. \A q \in Pages : x5'[q].revision <= x2' /\ (q # p => x5'[q].revision # x2')
    BY <1>1, <2>2, <2>3 DEF Pref!PrefInv, Pref!SeenOK
  <2>6. x3' \in [Pref!Controls -> Pref!Values \cup {Absent}] /\ x2' \in Nat
    BY <1>1, <1>2 DEF Pref!PrefInv, Pref!SeenOK
  <2>7. ASSUME NEW q \in Pages, x5'[q].revision = x2', NEW c \in Pref!Controls
        PROVE  x5'[q].values[c] \in {Absent, x3'[c]}
    BY <2>1, <2>3, <2>5, <2>7
  <2> QED BY <2>4, <2>5, <2>6, <2>7 DEF Pref!SeenOK, Pref!Current
<1> QED BY <1>3, <1>4, <1>5 DEF Pref!PrefInv

LEMMA PrefRestart ==
  ASSUME Pref!PrefInv, Pref!Restart
  PROVE  Pref!PrefInv'
  BY DEF Pref!Restart, Pref!PrefInv, Pref!SeenOK, Pref!Current, Pref!NothingIsLost,
     Pref!OthersKept

LEMMA PrefNext ==
  ASSUME Pref!PrefInv, Pref!Next
  PROVE  Pref!PrefInv'
  BY PrefGet, PrefSet, PrefRestart DEF Pref!Next

LEMMA PrefStutter ==
  ASSUME Pref!PrefInv, UNCHANGED Pref!prefVars
  PROVE  Pref!PrefInv'
  BY DEF Pref!prefVars, Pref!PrefInv, Pref!SeenOK, Pref!Current, Pref!NothingIsLost,
     Pref!OthersKept

-----------------------------------------------------------------------------
(* A draft typed into the focused window: each step keeps TextInv. *)

LEMMA TextCardinality == \A S : Text!Cardinality(S) = Cardinality(S)
  BY DEF Text!Cardinality, Cardinality

LEMMA TextFields ==
  ASSUME NEW r \in Text!Answer
  PROVE  r.of \in Nat /\ r.of <= MaxAttempts /\ r.made \in Nat
<1>1. r.of \in 0..MaxAttempts
  BY DEF Text!Answer
<1>2. r.made \in 0..MaxAttempts
  BY DEF Text!Answer
<1> QED BY <1>1, <1>2, TextAssumption

LEMMA TextSays ==
  ASSUME NEW r \in Text!Answer
  PROVE  r.says \in Text!Settled \cup {"not ready", "other text"}
  BY DEF Text!Answer

LEMMA TextCounts ==
  ASSUME Text!TextInv
  PROVE  Text!Newest \in Nat /\ Text!Newest <= MaxAttempts
<1>1. Text!Newest \in 0..MaxAttempts
  BY DEF Text!TextInv, Text!AttemptsOK
<1> QED BY <1>1, TextAssumption

\* What is answered of an attempt.
LEMMA TextOf ==
  ASSUME NEW r \in Text!Answer, Text!TrueOf(r), Text!TextInv, r.of # 0
  PROVE  r.of \in Text!Made /\ r.of \in Text!Attempts
<1>1. r.of \in Nat /\ r.made \in Nat /\ Text!Newest \in Nat
  BY TextFields, TextCounts
<1>2. r.of \in 1..Text!Newest
  <2>1. r.made <= Text!Newest /\ r.of <= r.made
    BY DEF Text!TrueOf
  <2> QED BY <1>1, <2>1
<1> QED BY <1>2 DEF Text!TextInv, Text!AttemptsOK, Text!Made

\* The newest of 1..k is k.
LEMMA TextLast ==
  ASSUME NEW k \in Nat
  PROVE  (IF 1..k = {} THEN 0 ELSE CHOOSE n \in 1..k : \A m \in 1..k : m <= n) = k
<1>1. CASE k = 0
  BY <1>1
<1>2. CASE k # 0
  <2>1. k \in 1..k /\ (\A m \in 1..k : m <= k)
    BY <1>2
  <2>2. PICK c \in 1..k : c = (CHOOSE n \in 1..k : \A m \in 1..k : m <= n) /\ \A m \in 1..k : m <= c
    BY <2>1
  <2> QED BY <2>1, <2>2
<1> QED BY <1>1, <1>2

\* The oldest of some attempts.
LEMMA TextLeast ==
  ASSUME NEW S \in SUBSET Nat, S # {}
  PROVE  \E x \in S : \A y \in S : x <= y
<1>1. S \subseteq Nat
  OBVIOUS
<1>2. PICK x \in S : \A y \in S : ~(<<y, x>> \in OpToRel(<, Nat))
  BY <1>1, NatLessThanWellFounded, WFMin
<1>3. \A y \in S : ~(y < x)
  BY <1>1, <1>2 DEF OpToRel
<1> QED BY <1>1, <1>3

\* Of more sends than are remembered the one that goes is followed by as many as are.
LEMMA TextKept ==
  ASSUME NEW k \in Nat, NEW S \in SUBSET (1..k)
  PROVE  Text!Kept(S) \subseteq S /\ \A n \in S \ Text!Kept(S) : k - n >= Memory
<1>1. IsFiniteSet(1..k)
  BY FS_Interval
<1>2. IsFiniteSet(S) /\ Cardinality(S) \in Nat
  BY <1>1, FS_Subset, FS_CardinalityType
<1>3. ASSUME NEW n \in S \ Text!Kept(S)
      PROVE  k - n >= Memory
  <2>1. Cardinality(S) > Memory /\ n = Text!Min(S)
    BY <1>3, TextCardinality DEF Text!Kept
  <2>2. \E x \in S : \A y \in S : x <= y
    BY <1>3, TextLeast
  <2>3. \A y \in S : n <= y
    BY <2>1, <2>2 DEF Text!Min
  <2>4. S \subseteq n..k
    BY <2>3
  <2>5. n \in Int /\ k \in Int /\ n <= k
    OBVIOUS
  <2>6. IsFiniteSet(n..k) /\ Cardinality(n..k) = k - n + 1
    BY <2>5, FS_Interval
  <2>7. Cardinality(S) <= k - n + 1
    BY <2>4, <2>6, FS_Subset
  <2> QED BY <1>2, <2>1, <2>5, <2>7, TextAssumption
<1> QED BY <1>3 DEF Text!Kept

\* What an attempt can be, and how one goes on: as the attempt it is, and settled once.
TextKinds == {Text!NoSend} \cup
             [id : Sends, text : Drafts, at : Text!Running \cup Text!Settled, ran : BOOLEAN]
TextStays(n) ==
  /\ x3'[n].at = "none" <=> x3[n].at = "none"
  /\ x3'[n].id = x3[n].id /\ x3'[n].text = x3[n].text
  /\ x3[n].at \in Text!Settled => x3'[n].at = x3[n].at
  /\ x3'[n].ran => x3'[n].at \notin {"asked", "ready", "refused!", "refused"}

\* Attempts go on, and are forgotten when they were refused or the session was lost.
LEMMA TextGoesOn ==
  ASSUME Text!TextInv, x3' \in [Text!Attempts -> TextKinds], \A n \in Text!Attempts : TextStays(n),
         x4' \subseteq x4, x1 = "lost" => x1' = "lost",
         x1' # "lost" => \A n \in x4 \ x4' : x3'[n].at = "refused",
         x5' \in [Waiters -> Text!Made \cup {0}], x6' = x6
  PROVE  Text!TextInv'
<1>1. Text!Made' = Text!Made
  BY DEF TextStays, Text!Made
<1>2. Text!Newest' = Text!Newest
  BY <1>1 DEF Text!Newest
<1>3. Text!Newest \in Nat /\ Text!Made = 1..Text!Newest /\ Text!Made \subseteq Text!Attempts
  BY DEF Text!TextInv, Text!AttemptsOK, Text!Made
<1>4. Text!AttemptsOK'
  BY <1>1, <1>2, <1>3 DEF TextStays, TextKinds, Text!TextInv, Text!AttemptsOK
<1>5. Text!Remembered'
  BY <1>1, <1>2, <1>3 DEF TextStays, Text!TextInv, Text!AttemptsOK, Text!Remembered, Text!Settled
<1>6. Text!TriedOnce'
  BY <1>1, <1>3 DEF TextStays, Text!TextInv, Text!TriedOnce, Text!Settled
<1>7. ASSUME NEW p \in 1..Len(x6)
      PROVE  Text!TrueOf(x6[p])'
  <2> DEFINE r == x6[p]
  <2>1. Text!TrueOf(r) /\ r \in Text!Answer
    BY DEF Text!TextInv, Text!AnswersOK
  <2>2. CASE r.of = 0
    BY <1>2, <2>1, <2>2 DEF Text!TrueOf
  <2>3. CASE r.of # 0
    <3>1. r.of \in Text!Attempts
      BY <2>1, <2>3, TextOf
    <3>2. r.says # "other text" => r.says \in Text!Settled
      BY <2>1, <2>3, TextSays DEF Text!TrueOf
    <3> QED BY <1>2, <2>1, <2>3, <3>1, <3>2 DEF TextStays, Text!TrueOf
  <2> QED BY <2>2, <2>3
<1>8. Text!AnswersOK'
  BY <1>7 DEF Text!TextInv, Text!AnswersOK
<1>9. Text!RefusedLate'
  BY DEF Text!TextInv, Text!RefusedLate
<1> QED BY <1>4, <1>5, <1>6, <1>8, <1>9 DEF Text!TextInv

\* An answer is of an attempt, or of none that is remembered.
LEMMA TextTold ==
  ASSUME Text!TextInv, NEW r \in Text!Answer, x6' = Append(x6, r), r.made = Text!Newest, Text!TrueOf(r),
         r.of = 0 => Text!Known(r.id) = {}, UNCHANGED <<x3, x4, x1>>,
         x5' \in [Waiters -> Text!Made \cup {0}]
  PROVE  Text!TextInv'
<1>1. Text!Made' = Text!Made /\ Text!Newest' = Text!Newest
  BY DEF Text!Made, Text!Newest
<1>2. Text!AttemptsOK' /\ Text!Remembered' /\ Text!TriedOnce'
  BY <1>1 DEF Text!TextInv, Text!AttemptsOK, Text!Remembered, Text!TriedOnce
<1>3. /\ x6 \in Seq(Text!Answer) /\ Len(x6) \in Nat
      /\ Len(x6') = Len(x6) + 1 /\ x6'[Len(x6) + 1] = r
      /\ \A p \in 1..Len(x6) : x6'[p] = x6[p]
  BY DEF Text!TextInv, Text!AnswersOK
<1>4. Text!AnswersOK'
  <2>1. x6' \in Seq(Text!Answer)
    BY <1>3
  <2>2. ASSUME NEW p \in 1..Len(x6')
        PROVE  Text!TrueOf(x6'[p])
    BY <1>3 DEF Text!TextInv, Text!AnswersOK
  <2> QED BY <1>1, <2>1, <2>2 DEF Text!AnswersOK, Text!TrueOf
<1>5. Text!RefusedLate'
  <2> SUFFICES ASSUME x1 # "lost", NEW p \in 1..Len(x6'), NEW q \in 1..Len(x6'), p < q,
                      x6'[p].says = "typed", x6'[p].id = x6'[q].id, x6'[q].of = 0
               PROVE  x6'[q].made - x6'[p].of >= Memory
    BY DEF Text!RefusedLate
  <2>1. p \in 1..Len(x6) /\ x6'[p] = x6[p]
    BY <1>3
  <2>2. CASE q \in 1..Len(x6)
    BY <1>3, <2>1, <2>2 DEF Text!TextInv, Text!RefusedLate
  <2>3. CASE q = Len(x6) + 1
    <3> DEFINE n == x6[p].of
    <3>1. Text!TrueOf(x6[p]) /\ x6[p] \in Text!Answer
      BY <1>3, <2>1 DEF Text!TextInv, Text!AnswersOK
    <3>2. n # 0 /\ x3[n].id = r.id /\ x3[n].at = "typed"
      BY <1>3, <2>1, <2>3, <3>1 DEF Text!TrueOf
    <3>3. n \in Text!Made
      BY <3>1, <3>2, TextOf
    <3>4. n \notin x4
      BY <1>3, <2>3, <3>2 DEF Text!Known
    <3>5. Text!Newest - n >= Memory
      BY <3>2, <3>3, <3>4 DEF Text!TextInv, Text!Remembered
    <3> QED BY <1>3, <2>1, <2>3, <3>5
  <2> QED BY <1>3, <2>2, <2>3
<1> QED BY <1>2, <1>4, <1>5 DEF Text!TextInv

LEMMA TextBegun ==
  ASSUME Text!TextInv, NEW w \in Waiters, NEW i \in Sends, NEW x \in Drafts, Text!Known(i) = {}, x1 # "lost",
         x1' = x1, Text!Begun(w, i, x)
  PROVE  Text!TextInv'
<1> DEFINE n == Text!Newest + 1
           new == [id |-> i, text |-> x, at |-> "asked", ran |-> FALSE]
<1>1. /\ n \in Text!Attempts /\ x3' = [x3 EXCEPT ![n] = new]
      /\ x4' = Text!Kept(x4 \cup {n}) /\ x5' = [x5 EXCEPT ![w] = n] /\ x6' = x6
  BY DEF Text!Begun
<1>2. /\ Text!Newest \in Nat /\ Text!Made = 1..Text!Newest /\ Text!Made \subseteq Text!Attempts
      /\ n \notin Text!Made /\ x4 \subseteq Text!Made
  BY DEF Text!TextInv, Text!AttemptsOK, Text!Made
<1>3. x3'[n] = new /\ \A m \in Text!Attempts : m # n => x3'[m] = x3[m]
  BY <1>1 DEF Text!TextInv, Text!AttemptsOK
<1>4. Text!Made' = 1..n
  <2>1. Text!Made' = Text!Made \cup {n}
    BY <1>1, <1>3 DEF Text!Made
  <2> QED BY <1>2, <2>1
<1>5. Text!Newest' = n
  <2>1. n \in Nat
    BY <1>2
  <2> HIDE DEF n
  <2> QED BY <1>4, <2>1, TextLast DEF Text!Newest
<1>6. x4' \subseteq Text!Made' /\ \A m \in (x4 \cup {n}) \ x4' : n - m >= Memory
  <2>1. x4 \cup {n} \in SUBSET (1..n) /\ n \in Nat
    BY <1>2
  <2> HIDE DEF n
  <2> QED BY <1>1, <1>4, <2>1, TextKept
<1>7. Text!AttemptsOK'
  <2>1. x3' \in [Text!Attempts -> TextKinds]
    BY <1>1 DEF TextKinds, Text!TextInv, Text!AttemptsOK, Text!Running
  <2>2. n \in 0..MaxAttempts /\ x5' \in [Waiters -> Text!Made' \cup {0}]
    BY <1>1, <1>2, <1>4 DEF Text!TextInv, Text!AttemptsOK, Text!Attempts
  <2>3. \A m \in Text!Made' : x3'[m].ran => x3'[m].at \notin {"asked", "ready", "refused!", "refused"}
    BY <1>2, <1>3, <1>4 DEF Text!TextInv, Text!AttemptsOK
  <2> QED BY <1>4, <1>5, <1>6, <2>1, <2>2, <2>3 DEF TextKinds, Text!AttemptsOK
<1>8. Text!Remembered'
  <2> SUFFICES ASSUME NEW m \in 1..n
               PROVE  m \in x4' \/ x3'[m].at = "refused" \/ n - m >= Memory
    BY <1>4, <1>5 DEF Text!Remembered
  <2>1. CASE m \in x4 \cup {n}
    BY <1>6, <2>1
  <2>2. CASE m \notin x4 \cup {n}
    <3>1. m \in Text!Made /\ x3'[m] = x3[m]
      BY <1>2, <1>3, <2>2
    <3>2. x3[m].at = "refused" \/ Text!Newest - m >= Memory
      BY <2>2, <3>1 DEF Text!TextInv, Text!Remembered
    <3> QED BY <1>2, <3>1, <3>2, TextAssumption
  <2> QED BY <2>1, <2>2
<1>9. Text!TriedOnce'
  <2> SUFFICES ASSUME NEW m \in 1..n, NEW o \in 1..n, m < o, x3'[m].id = x3'[o].id
               PROVE  o - m > Memory \/ x3'[m].at = "refused"
    BY <1>4 DEF Text!TriedOnce
  <2>1. m \in Text!Made /\ x3'[m] = x3[m]
    BY <1>2, <1>3
  <2>2. CASE o \in Text!Made
    <3>1. x3'[o] = x3[o]
      BY <1>2, <1>3, <2>2
    <3> QED BY <2>1, <2>2, <3>1 DEF Text!TextInv, Text!TriedOnce
  <2>3. CASE o = n
    <3>1. x3[m].id = i
      BY <1>3, <2>1, <2>3
    <3>2. m \notin x4
      BY <3>1 DEF Text!Known
    <3>3. x3[m].at = "refused" \/ Text!Newest - m >= Memory
      BY <2>1, <3>2 DEF Text!TextInv, Text!Remembered
    <3> QED BY <1>2, <2>1, <2>3, <3>3, TextAssumption
  <2> QED BY <1>2, <2>2, <2>3
<1>10. Text!AnswersOK'
  <2>1. ASSUME NEW p \in 1..Len(x6)
        PROVE  Text!TrueOf(x6[p])'
    <3>1. Text!TrueOf(x6[p]) /\ x6[p] \in Text!Answer
      BY DEF Text!TextInv, Text!AnswersOK
    <3>2. x6[p].of \in Nat /\ x6[p].made \in Nat
      BY <3>1, TextFields
    <3>3. x6[p].of # 0 => x6[p].of \in Text!Made
      BY <3>1, TextOf
    <3>4. x6[p].of # 0 => x3'[x6[p].of] = x3[x6[p].of]
      BY <1>2, <1>3, <3>3
    <3>5. x6[p].made <= Text!Newest'
      <4>1. x6[p].made <= Text!Newest
        BY <3>1 DEF Text!TrueOf
      <4> QED BY <1>2, <1>5, <3>2, <4>1
    <3> QED BY <1>1, <3>1, <3>4, <3>5 DEF Text!TrueOf
  <2> QED BY <1>1, <2>1 DEF Text!TextInv, Text!AnswersOK
<1>11. Text!RefusedLate'
  BY <1>1 DEF Text!TextInv, Text!RefusedLate
<1> QED BY <1>7, <1>8, <1>9, <1>10, <1>11 DEF Text!TextInv

LEMMA TextSend ==
  ASSUME Text!TextInv, NEW w \in Waiters, NEW i \in Sends, NEW x \in Drafts, Text!Send(w, i, x)
  PROVE  Text!TextInv'
<1>1. UNCHANGED <<x1, x2, x7>>
  BY DEF Text!Send
<1>2. ASSUME Text!Known(i) = {}, Text!Tell(i, x, "not ready", 0), UNCHANGED <<x3, x4, x5>>
      PROVE  Text!TextInv'
  <2> DEFINE r == [id |-> i, text |-> x, says |-> "not ready", of |-> 0, made |-> Text!Newest]
  <2>1. r \in Text!Answer /\ Text!TrueOf(r)
    BY TextAssumption DEF Text!Answer, Text!TrueOf, Text!TextInv, Text!AttemptsOK
  <2>2. x6' = Append(x6, r) /\ r.made = Text!Newest /\ r.id = i
    BY <1>2 DEF Text!Tell
  <2>3. x5' \in [Waiters -> Text!Made \cup {0}]
    BY <1>2 DEF Text!TextInv, Text!AttemptsOK
  <2> HIDE DEF r
  <2> QED BY <1>1, <1>2, <2>1, <2>2, <2>3, TextTold
<1>3. ASSUME NEW n \in Text!Known(i), x3[n].text # x, Text!Tell(i, x, "other text", n),
             UNCHANGED <<x3, x4, x5>>
      PROVE  Text!TextInv'
  <2> DEFINE r == [id |-> i, text |-> x, says |-> "other text", of |-> n, made |-> Text!Newest]
  <2>1. n \in Text!Made /\ x3[n].id = i
    BY DEF Text!Known, Text!TextInv, Text!AttemptsOK
  <2>2. r \in Text!Answer /\ Text!TrueOf(r) /\ r.of # 0 /\ r.made = Text!Newest
    <3>1. n \in 1..Text!Newest
      BY <2>1 DEF Text!TextInv, Text!AttemptsOK
    <3>2. n \in 0..MaxAttempts /\ Text!Newest \in 0..MaxAttempts /\ n <= Text!Newest /\ n # 0
      BY <3>1, TextCounts, TextAssumption
    <3>3. r \in Text!Answer
      BY <3>2 DEF Text!Answer
    <3>4. r.made <= Text!Newest /\ r.of <= r.made /\ r.of # 0
      BY <3>2, TextCounts
    <3> QED BY <1>3, <2>1, <3>3, <3>4 DEF Text!TrueOf
  <2>3. x6' = Append(x6, r)
    BY <1>3 DEF Text!Tell
  <2>4. x5' \in [Waiters -> Text!Made \cup {0}]
    BY <1>3 DEF Text!TextInv, Text!AttemptsOK
  <2> HIDE DEF r
  <2> QED BY <1>1, <1>3, <2>2, <2>3, <2>4, TextTold
<1>4. ASSUME NEW n \in Text!Known(i), x5' = [x5 EXCEPT ![w] = n], UNCHANGED <<x6, x3, x4>>
      PROVE  Text!TextInv'
  <2>1. x5' \in [Waiters -> Text!Made \cup {0}]
    BY <1>4 DEF Text!Known, Text!TextInv, Text!AttemptsOK
  <2> QED BY <1>1, <1>4, <2>1, TextGoesOn DEF TextKinds, TextStays, Text!TextInv,
     Text!AttemptsOK, Text!Made, Text!NoSend
<1>5. ASSUME Text!Known(i) = {}, x1 = "ready", Text!Begun(w, i, x)
      PROVE  Text!TextInv'
  BY <1>1, <1>5, TextBegun
<1> QED BY <1>2, <1>3, <1>4, <1>5 DEF Text!Send

LEMMA TextReply ==
  ASSUME Text!TextInv, NEW w \in Waiters, NEW lost \in BOOLEAN, Text!Reply(w, lost)
  PROVE  Text!TextInv'
<1> DEFINE n == x5[w]
           r == [id |-> x3[n].id, text |-> x3[n].text, says |-> x3[n].at, of |-> n, made |-> Text!Newest]
<1>1. /\ n # 0 /\ x5' = [x5 EXCEPT ![w] = 0] /\ UNCHANGED <<x1, x3, x4>>
      /\ ~lost => w \in Text!Woken /\ x6' = Append(x6, r)
      /\ lost => x6' = x6
  BY DEF Text!Reply, Text!Tell
<1>2. n \in Text!Made /\ x5' \in [Waiters -> Text!Made \cup {0}]
  BY <1>1 DEF Text!TextInv, Text!AttemptsOK
<1>3. CASE lost
  BY <1>1, <1>2, <1>3, TextGoesOn DEF TextKinds, TextStays, Text!TextInv, Text!AttemptsOK,
     Text!Made, Text!NoSend
<1>4. CASE ~lost
  <2>1. x3[n].at \in Text!Settled
    BY <1>1, <1>4 DEF Text!Woken
  <2>2. x3[n] \in [id : Sends, text : Drafts, at : Text!Running \cup Text!Settled, ran : BOOLEAN]
    BY <1>2, <2>1 DEF Text!TextInv, Text!AttemptsOK, Text!Made, Text!NoSend, Text!Settled
  <2>3. n \in 0..MaxAttempts /\ Text!Newest \in 0..MaxAttempts /\ n <= Text!Newest
    <3>1. n \in 1..Text!Newest
      BY <1>2 DEF Text!TextInv, Text!AttemptsOK
    <3> QED BY <3>1, TextCounts, TextAssumption
  <2>4. r \in Text!Answer
    BY <2>1, <2>2, <2>3 DEF Text!Answer
  <2>5. Text!TrueOf(r) /\ r.of # 0 /\ r.made = Text!Newest
    <3>1. r.made <= Text!Newest /\ r.of <= r.made /\ r.of # 0 /\ r.made = Text!Newest
      BY <1>1, <2>3, TextCounts
    <3> QED BY <2>1, <3>1 DEF Text!TrueOf, Text!Settled
  <2>6. x6' = Append(x6, r)
    BY <1>1, <1>4
  <2> HIDE DEF r
  <2> QED BY <1>1, <1>2, <2>4, <2>5, <2>6, TextTold
<1> QED BY <1>3, <1>4

LEMMA TextLook ==
  ASSUME Text!TextInv, NEW n \in Text!Attempts, Text!Look(n)
  PROVE  Text!TextInv'
  BY TextGoesOn DEF TextKinds, TextStays, Text!Look, Text!Goes, Text!TextInv, Text!AttemptsOK,
     Text!Made, Text!NoSend, Text!Running, Text!Settled

LEMMA TextType ==
  ASSUME Text!TextInv, NEW n \in Text!Attempts, Text!Type(n)
  PROVE  Text!TextInv'
  BY TextGoesOn DEF TextStays, Text!Type, Text!TextInv, Text!AttemptsOK, Text!Made,
     Text!NoSend, Text!Running, Text!Settled

LEMMA TextTyped ==
  ASSUME Text!TextInv, NEW n \in Text!Attempts, Text!Typed(n)
  PROVE  Text!TextInv'
  BY TextGoesOn DEF TextKinds, TextStays, Text!Typed, Text!Goes, Text!TextInv,
     Text!AttemptsOK, Text!Made, Text!NoSend, Text!Running, Text!Settled

LEMMA TextSettle ==
  ASSUME Text!TextInv, NEW n \in Text!Attempts, Text!Settle(n)
  PROVE  Text!TextInv'
  BY TextGoesOn DEF TextKinds, TextStays, Text!Settle, Text!Goes, Text!Outcome, Text!Frees,
     Text!TextInv, Text!AttemptsOK, Text!Made, Text!NoSend, Text!Running, Text!Settled

LEMMA TextTurn ==
  ASSUME Text!TextInv, Text!Turn
  PROVE  Text!TextInv'
  BY TextGoesOn DEF TextKinds, TextStays, Text!Turn, Text!TextInv, Text!AttemptsOK, Text!Made,
     Text!NoSend

LEMMA TextRestart ==
  ASSUME Text!TextInv, Text!Restart
  PROVE  Text!TextInv'
<1>1. /\ x1' = "lost" /\ x4' = {} /\ x5' = [w \in Waiters |-> 0] /\ x6' = x6
      /\ x3' = [n \in Text!Attempts |-> IF x3[n].at \in Text!Running
                                           THEN [x3[n] EXCEPT !.at = "failed"] ELSE x3[n]]
  BY DEF Text!Restart
<1>2. ASSUME NEW n \in Text!Attempts
      PROVE  x3'[n] \in TextKinds /\ TextStays(n)
  <2>1. CASE x3[n].at \in Text!Running
    <3>1. x3[n] \in [id : Sends, text : Drafts, at : Text!Running \cup Text!Settled, ran : BOOLEAN]
      BY <2>1 DEF Text!TextInv, Text!AttemptsOK, Text!NoSend, Text!Running
    <3>2. x3'[n] = [x3[n] EXCEPT !.at = "failed"]
      BY <1>1, <2>1
    <3> QED BY <2>1, <3>1, <3>2 DEF TextStays, TextKinds, Text!Running, Text!Settled
  <2>2. CASE x3[n].at \notin Text!Running
    <3>1. x3'[n] = x3[n]
      BY <1>1, <2>2
    <3> QED BY <3>1 DEF TextStays, TextKinds, Text!TextInv, Text!AttemptsOK, Text!Made,
       Text!NoSend
  <2> QED BY <2>1, <2>2
<1>3. x3' \in [Text!Attempts -> TextKinds]
  BY <1>1, <1>2
<1> QED BY <1>1, <1>2, <1>3, TextGoesOn

LEMMA TextNext ==
  ASSUME Text!TextInv, Text!Next
  PROVE  Text!TextInv'
  BY TextSend, TextReply, TextLook, TextType, TextTyped, TextSettle, TextTurn, TextRestart DEF
     Text!Next

LEMMA TextStutter ==
  ASSUME Text!TextInv, UNCHANGED Text!textVars
  PROVE  Text!TextInv'
  BY TextGoesOn DEF TextKinds, TextStays, Text!textVars, Text!TextInv, Text!AttemptsOK,
     Text!Made, Text!NoSend

LEMMA TextInit == Text!Init => Text!TextInv
<1> SUFFICES ASSUME Text!Init PROVE Text!TextInv
  OBVIOUS
<1>1. Text!Made = {} /\ Text!Newest = 0 /\ Len(x6) = 0
  BY DEF Text!Init, Text!Made, Text!NoSend, Text!Newest
<1> QED BY <1>1, TextAssumption DEF Text!Init, Text!TextInv, Text!AttemptsOK, Text!Remembered,
   Text!TriedOnce, Text!AnswersOK, Text!RefusedLate, Text!Answer

LEMMA TextOnce == Text!TextInv => Text!TypedOnce
  BY DEF Text!TextInv, Text!AttemptsOK, Text!TriedOnce, Text!TypedOnce

LEMMA TextSame == Text!TextInv => Text!SameAnswer
<1> SUFFICES ASSUME Text!TextInv, NEW p \in 1..Len(x6), NEW q \in 1..Len(x6), p < q,
                    x6[p].says = "typed", x6[p].id = x6[q].id, x1 # "lost",
                    x6[q].of \notin 1..x6[p].of - 1, x6[q].made - x6[p].of < Memory
             PROVE  x6[q].says = IF x6[q].text = x6[p].text THEN "typed" ELSE "other text"
  BY DEF Text!SameAnswer
<1> DEFINE first == x6[p]
           later == x6[q]
<1>1. first \in Text!Answer /\ later \in Text!Answer /\ Text!TrueOf(first) /\ Text!TrueOf(later)
  BY DEF Text!TextInv, Text!AnswersOK
<1>2. first.of \in Nat /\ later.of \in Nat /\ later.made \in Nat
  BY <1>1, TextFields
<1>3. first.of \in Text!Made /\ x3[first.of].at = "typed" /\ x3[first.of].id = first.id
      /\ x3[first.of].text = first.text
  <2>1. first.of # 0
    BY <1>1 DEF Text!TrueOf
  <2> QED BY <1>1, <2>1, TextOf DEF Text!TrueOf
<1>4. later.of # 0
  BY <1>2, TextAssumption DEF Text!TextInv, Text!RefusedLate
<1>5. later.of \in Text!Made /\ x3[later.of].id = later.id
  BY <1>1, <1>4, TextOf DEF Text!TrueOf
<1>6. ~(first.of < later.of)
  <2> SUFFICES ASSUME first.of < later.of PROVE FALSE
    OBVIOUS
  <2>1. later.of - first.of > Memory
    BY <1>3, <1>5 DEF Text!TextInv, Text!TriedOnce
  <2>2. later.of <= later.made
    BY <1>1 DEF Text!TrueOf
  <2> QED BY <1>2, <2>1, <2>2, TextAssumption
<1>7. later.of = first.of
  BY <1>2, <1>3, <1>4, <1>6
<1> QED BY <1>1, <1>3, <1>4, <1>7 DEF Text!TrueOf

-----------------------------------------------------------------------------
(* What a person shares between the host and a device: every behaviour. *)

SharedInv ==
  /\ part = "clip" => Clip!ClipInv
  /\ part = "upload" => Upload!UploadInv
  /\ part = "attach" => Attach!AttachInv
  /\ part = "pref" => Pref!PrefInv
  /\ part = "text" => Text!TextInv
LEMMA SharedAlways == Spec => []SharedInv
<1>1. Init => SharedInv
  BY ClipInit, UploadInit, AttachInit, PrefInit, TextInit DEF Init, SharedInv
<1>2. SharedInv /\ [Next]_all => SharedInv'
  <2> SUFFICES ASSUME SharedInv, [Next]_all PROVE SharedInv'
    OBVIOUS
  <2>1. CASE UNCHANGED all
    <3>1. part' = part
      BY <2>1 DEF all
    <3>2. UNCHANGED Clip!clipVars
      BY <2>1 DEF all, Clip!clipVars
    <3>3. UNCHANGED Upload!uploadVars
      BY <2>1 DEF all, Upload!uploadVars
    <3>4. UNCHANGED Attach!attachVars
      BY <2>1 DEF all, Attach!attachVars
    <3>5. UNCHANGED Pref!prefVars
      BY <2>1 DEF all, Pref!prefVars
    <3>6. UNCHANGED Text!textVars
      BY <2>1 DEF all, Text!textVars
    <3> QED BY <3>1, <3>2, <3>3, <3>4, <3>5, <3>6, ClipStutter, UploadStutter, AttachStutter, PrefStutter,
               TextStutter DEF SharedInv
  <2>2. CASE Next
    <3>1. part' = part
      BY <2>2 DEF Next
    <3>2. part = "clip" => Clip!Next
      BY <2>2 DEF Next
    <3>3. part = "upload" => Upload!Next
      BY <2>2 DEF Next
    <3>4. part = "attach" => Attach!Next
      BY <2>2 DEF Next
    <3>5. part = "pref" => Pref!Next
      BY <2>2 DEF Next
    <3>6. part = "text" => Text!Next
      BY <2>2 DEF Next
    <3> QED BY <3>1, <3>2, <3>3, <3>4, <3>5, <3>6, ClipNext, UploadNext, AttachNext, PrefNext, TextNext
               DEF SharedInv
  <2> QED BY <2>1, <2>2
<1> QED BY <1>1, <1>2, PTL DEF Spec

\* Of clipboard.py, uploads.py, preferences.py and remote/service.py, that a device is not told of
\* the text it wrote and a burst ends with the truth, that an upload leaves nothing half made and
\* a saved file stays, that a message keeps its files and their numbers, that no preference is
\* written over, and that a draft is typed once and every answer about it agrees.
THEOREM SharedIsAsAsked == Spec => []SharedAsAsked
<1>1. Clip!ClipInv => Clip!LastIsTold
  BY ClipTold
<1>2. SharedInv => SharedAsAsked
  BY <1>1, AttachKept, TextOnce, TextSame
  DEF SharedInv, SharedAsAsked, Clip!ClipInv, Upload!UploadInv, Pref!PrefInv
<1> QED BY <1>2, SharedAlways, PTL

-----------------------------------------------------------------------------
(* The certificate in the fork: each step keeps the types. *)

LEMMA MediaTypesInit == Media!Init => Media!TypeOK
  BY BoundAssumption DEF Media!Init, Media!TypeOK, Media!ShapesOK, Media!Attempts,
     Media!Bindings, Media!Answers, Media!Statuses, Media!Nil

\* What memory and the count of troubles can become.
MediaRest == /\ x4' \subseteq Media!Requests /\ x5' \subseteq Media!Requests
             /\ x13' = x13 \/ Media!Trouble

LEMMA MediaTaking ==
  ASSUME NEW cs, NEW gone, Media!TakeBack(cs, gone)
  PROVE  x13' = x13 \/ Media!Trouble
  BY DEF Media!TakeBack

LEMMA MediaCanceling ==
  ASSUME Media!TypeOK, NEW r, NEW a, Media!Cancel(r, a)
  PROVE  MediaRest
<1>1. x13' = x13 \/ Media!Trouble
  BY MediaTaking DEF Media!Cancel, Media!Cancelled
<1>2. x4' \subseteq Media!Requests /\ x5' \subseteq Media!Requests
  BY DEF Media!Cancel, Media!TypeOK
<1> QED BY <1>1, <1>2 DEF MediaRest

LEMMA MediaStopping ==
  ASSUME Media!TypeOK, NEW r \in Media!Requests, NEW a,
         NEW p \in SUBSET Media!Requests, Media!Barrier(r, a, p)
  PROVE  MediaRest
<1>1. CASE Media!Cancel(r, a)
  BY <1>1, MediaCanceling
<1>2. CASE ~Media!Cancel(r, a)
  <2>1. x13' = x13 \/ Media!Trouble
    BY <1>2 DEF Media!Barrier
  <2>2. x4' \subseteq Media!Requests /\ x5' \subseteq Media!Requests
    BY <1>2 DEF Media!Barrier, Media!TypeOK
  <2> QED BY <2>1, <2>2 DEF MediaRest
<1> QED BY <1>1, <1>2

LEMMA MediaSeeing ==
  ASSUME Media!TypeOK, NEW r \in Media!Requests, Media!Seen(r)
  PROVE  MediaRest /\ x1' \in [Devices -> {"none", "yes", "no"}]
<1>1. CASE Media!Proved(r) /\ UNCHANGED x13
  <2>1. x4' \subseteq Media!Requests /\ x5' \subseteq Media!Requests
    BY <1>1 DEF Media!Proved, Media!TypeOK, Media!file
  <2>2. x1' \in [Devices -> {"none", "yes", "no"}]
    BY <1>1 DEF Media!Proved, Media!TypeOK, Media!file
  <2> QED BY <1>1, <2>1, <2>2 DEF MediaRest
<1>2. CASE ~(Media!Proved(r) /\ UNCHANGED x13)
  <2>1. x13' = x13 \/ Media!Trouble
    BY <1>2, MediaTaking DEF Media!Seen
  <2>2. x4' \subseteq Media!Requests /\ x5' \subseteq Media!Requests /\ UNCHANGED x1
    BY <1>2 DEF Media!Seen, Media!TypeOK
  <2> QED BY <2>1, <2>2 DEF MediaRest, Media!TypeOK
<1> QED BY <1>1, <1>2

\* Each step: who may have the certificate, what memory has, and what the fork can.
MediaTyped ==
  /\ x1' \in [Devices -> {"none", "yes", "no"}] /\ MediaRest
  /\ x7' \subseteq Media!Requests /\ x12' \subseteq Media!Requests /\ x10' \in BOOLEAN

LEMMA MediaOfDevice ==
  ASSUME Media!TypeOK, NEW d \in Devices, Media!GrantRemote(d) \/ Media!Revoke(d) \/ Media!Purge(d)
  PROVE  MediaTyped
<1>1. UNCHANGED Media!env /\ x1' \in [Devices -> {"none", "yes", "no"}]
  BY DEF Media!GrantRemote, Media!Revoke, Media!Purge, Media!TypeOK
<1>2. x4' \subseteq Media!Requests /\ x5' \subseteq Media!Requests
  BY DEF Media!GrantRemote, Media!Revoke, Media!Purge, Media!TypeOK, Media!memory
<1>3. x13' = x13 \/ Media!Trouble
  BY MediaTaking DEF Media!GrantRemote, Media!Revoke, Media!Purge
<1> QED BY <1>1, <1>2, <1>3 DEF MediaTyped, MediaRest, Media!TypeOK, Media!env

LEMMA MediaOfBoth ==
  ASSUME Media!TypeOK, NEW d \in Devices, NEW r \in Media!Requests, Media!Submit(d, r) \/ Media!Resubmit(d, r)
  PROVE  MediaTyped
<1>1. UNCHANGED <<x1, Media!env>>
  BY DEF Media!Submit, Media!Resubmit
<1>2. CASE Media!Submit(d, r)
  <2>1. x4' \subseteq Media!Requests /\ x5' \subseteq Media!Requests
    BY <1>2 DEF Media!Submit, Media!TypeOK
  <2>2. x13' = x13 \/ Media!Trouble
    BY <1>2 DEF Media!Submit
  <2> QED BY <1>1, <2>1, <2>2 DEF MediaTyped, MediaRest, Media!TypeOK, Media!env
<1>3. CASE Media!Resubmit(d, r) /\ Media!Barrier(r, x2, x4 \cup {r})
  <2>1. MediaRest
    BY <1>3, MediaStopping DEF Media!TypeOK
  <2> QED BY <1>1, <2>1 DEF MediaTyped, Media!TypeOK, Media!env
<1>4. CASE Media!Resubmit(d, r) /\ ~Media!Barrier(r, x2, x4 \cup {r})
  <2>1. x4' \subseteq Media!Requests /\ x5' \subseteq Media!Requests /\ UNCHANGED x13
    BY <1>4 DEF Media!Resubmit, Media!TypeOK
  <2> QED BY <1>1, <2>1 DEF MediaTyped, MediaRest, Media!TypeOK, Media!env
<1> QED BY <1>2, <1>3, <1>4

LEMMA MediaOfRequest ==
  ASSUME Media!TypeOK, NEW r \in Media!Requests,
                                     \/ Media!ApproveLocal(r) \/ Media!Poll(r) \/ Media!CancelCall(r)
                                     \/ Media!Open(r) \/ Media!Prove(r) \/ Media!Lapse(r) \/ Media!Late(r)
  PROVE  MediaTyped
<1>1. CASE Media!ApproveLocal(r)
  <2>1. UNCHANGED Media!env /\ x1' \in [Devices -> {"none", "yes", "no"}]
    BY <1>1 DEF Media!ApproveLocal, Media!TypeOK
  <2>2. MediaRest
    BY <1>1, MediaStopping DEF Media!ApproveLocal, Media!TypeOK
  <2> QED BY <2>1, <2>2 DEF MediaTyped, Media!TypeOK, Media!env
<1>2. CASE Media!Poll(r)
  <2>1. UNCHANGED <<x7, x10>> /\ x12' \subseteq Media!Requests
    BY <1>2 DEF Media!Poll, Media!TypeOK
  <2>2. MediaRest /\ x1' \in [Devices -> {"none", "yes", "no"}]
    <3>1. CASE Media!Seen(r)
      BY <3>1, MediaSeeing
    <3>2. CASE Media!Cancel(r, x2) /\ UNCHANGED x1
      BY <3>2, MediaCanceling DEF Media!TypeOK
    <3>3. CASE Media!Barrier(r, x2, x4) /\ UNCHANGED x1
      BY <3>3, MediaStopping DEF Media!TypeOK
    <3> QED BY <1>2, <3>1, <3>2, <3>3 DEF Media!Poll
  <2> QED BY <2>1, <2>2 DEF MediaTyped, Media!TypeOK
<1>3. CASE Media!CancelCall(r)
  <2>1. UNCHANGED <<x1, Media!env>> /\ MediaRest
    BY <1>3, MediaCanceling DEF Media!CancelCall
  <2> QED BY <2>1 DEF MediaTyped, Media!TypeOK, Media!env
<1>4. CASE Media!Open(r) \/ Media!Prove(r) \/ Media!Lapse(r)
  BY <1>4 DEF Media!Open, Media!Prove, Media!Lapse, Media!Outside, Media!file, Media!env,
     MediaTyped, MediaRest, Media!TypeOK
<1>5. CASE Media!Late(r)
  BY <1>5 DEF Media!Late, Media!Outside, Media!file, MediaTyped, MediaRest, Media!TypeOK
<1> QED BY <1>1, <1>2, <1>3, <1>4, <1>5

LEMMA MediaOfNobody ==
  ASSUME Media!TypeOK, Media!Send \/ Media!SendRefused \/ Media!Tidy \/ Media!Upgrade \/ Media!Crash
  PROVE  MediaTyped
<1>1. CASE Media!Send \/ Media!SendRefused
  BY <1>1 DEF Media!Send, Media!SendRefused, Media!env, MediaTyped, MediaRest, Media!TypeOK
<1>2. CASE Media!Tidy
  <2>1. UNCHANGED <<x1, Media!env>> /\ x4' \subseteq Media!Requests /\ x5' \subseteq Media!Requests
    BY <1>2 DEF Media!Tidy, Media!TypeOK
  <2>2. x13' = x13 \/ Media!Trouble
    BY <1>2, MediaTaking DEF Media!Tidy
  <2> QED BY <2>1, <2>2 DEF MediaTyped, MediaRest, Media!TypeOK, Media!env
<1>3. CASE Media!Upgrade
  BY <1>3 DEF Media!Upgrade, Media!Outside, Media!file, MediaTyped, MediaRest, Media!TypeOK
<1>4. CASE Media!Crash
  BY <1>4 DEF Media!Crash, Media!file, Media!env, MediaTyped, MediaRest, Media!TypeOK
<1> QED BY <1>1, <1>2, <1>3, <1>4

LEMMA MediaTypes ==
  ASSUME Media!TypeOK, Media!Next, Media!ShapesOK'
  PROVE  Media!TypeOK'
<1>1. MediaTyped
  <2>1. CASE \E d \in Devices : Media!GrantRemote(d) \/ Media!Revoke(d) \/ Media!Purge(d)
                                \/ \E r \in Media!Requests : Media!Submit(d, r) \/ Media!Resubmit(d, r)
    BY <2>1, MediaOfDevice, MediaOfBoth
  <2>2. CASE \E r \in Media!Requests : \/ Media!ApproveLocal(r) \/ Media!Poll(r) \/ Media!CancelCall(r)
                                 \/ Media!Open(r) \/ Media!Prove(r) \/ Media!Lapse(r) \/ Media!Late(r)
    BY <2>2, MediaOfRequest
  <2>3. CASE Media!Send \/ Media!SendRefused \/ Media!Tidy \/ Media!Upgrade \/ Media!Crash
    BY <2>3, MediaOfNobody
  <2> QED BY <2>1, <2>2, <2>3 DEF Media!Next
<1>2. x13' \in 0..MaxTroubles
  <2>1. x13' = x13 \/ (x13 < MaxTroubles /\ x13' = x13 + 1)
    BY <1>1 DEF MediaTyped, MediaRest, Media!Trouble
  <2>2. x13 \in 0..MaxTroubles
    BY DEF Media!TypeOK
  <2> QED BY <2>1, <2>2, BoundAssumption
<1> QED BY <1>1, <1>2 DEF Media!TypeOK, MediaTyped, MediaRest

LEMMA MediaTypesStutter ==
  ASSUME Media!TypeOK, UNCHANGED Media!mediaVars
  PROVE  Media!TypeOK'
<1>1. UNCHANGED <<x1, x2, x3, x4, x5, x6, x7, x8, x9, x10, x11, x12,
                  x13>>
  BY DEF Media!mediaVars, Media!file, Media!memory, Media!env
<1> QED BY <1>1 DEF Media!TypeOK, Media!ShapesOK

-----------------------------------------------------------------------------
(* The clipboard: each step keeps the types. *)

LEMMA ClipTypesInit == Clip!Init => Clip!TypeOK
<1> SUFFICES ASSUME Clip!Init PROVE Clip!TypeOK
  OBVIOUS
<1>1. /\ x1 \in Texts \cup {Nothing, Picture} /\ x2 \in Clip!Modes
      /\ x3 \in BOOLEAN /\ x4 \in Threads \cup {0}
      /\ {x8, x13, x11} \subseteq Texts \cup {Nothing} /\ {x9, x10, x12, x15} \subseteq BOOLEAN
      /\ x14 \in [told : Texts \cup {Nothing}, before : Texts \cup {Nothing}]
  BY DEF Clip!Init, Clip!Modes
<1>2. /\ x5 \in [Threads -> {"none", "open", "line", "check", "hold", "flush", "rest", "ended"}]
      /\ x6 \in [Threads -> BOOLEAN] /\ x7 \in [Threads -> BOOLEAN]
  BY DEF Clip!Init
<1> QED BY <1>1, <1>2 DEF Clip!TypeOK

LEMMA ClipTypesPersonCopies ==
  ASSUME Clip!ClipInv, Clip!TypeOK, Clip!PersonCopies
  PROVE  Clip!TypeOK'
  BY DEF Clip!PersonCopies, Clip!TypeOK, Clip!Heard

LEMMA ClipTypesSetPreference ==
  ASSUME Clip!ClipInv, Clip!TypeOK, Clip!SetPreference
  PROVE  Clip!TypeOK'
  BY DEF Clip!SetPreference, Clip!TypeOK

LEMMA ClipTypesStart ==
  ASSUME Clip!ClipInv, Clip!TypeOK, Clip!Start
  PROVE  Clip!TypeOK'
  BY DEF Clip!Start, Clip!TypeOK

LEMMA ClipTypesStop ==
  ASSUME Clip!ClipInv, Clip!TypeOK, Clip!Stop
  PROVE  Clip!TypeOK'
  BY DEF Clip!Stop, Clip!TypeOK

LEMMA ClipTypesWlCopy ==
  ASSUME Clip!ClipInv, Clip!TypeOK, Clip!WlCopy
  PROVE  Clip!TypeOK'
  BY DEF Clip!WlCopy, Clip!TypeOK, Clip!Heard

LEMMA ClipTypesNoteEcho ==
  ASSUME Clip!ClipInv, Clip!TypeOK, Clip!NoteEcho
  PROVE  Clip!TypeOK'
  BY DEF Clip!NoteEcho, Clip!TypeOK

LEMMA ClipTypesWriteFails ==
  ASSUME Clip!ClipInv, Clip!TypeOK, Clip!WriteFails
  PROVE  Clip!TypeOK'
  BY DEF Clip!WriteFails, Clip!TypeOK

LEMMA ClipTypesElapse ==
  ASSUME Clip!ClipInv, Clip!TypeOK, Clip!Elapse
  PROVE  Clip!TypeOK'
  BY DEF Clip!Elapse, Clip!TypeOK

LEMMA ClipTypesOpen ==
  ASSUME Clip!ClipInv, Clip!TypeOK, NEW t \in Threads, Clip!Open(t)
  PROVE  Clip!TypeOK'
  BY DEF Clip!Open, Clip!TypeOK

LEMMA ClipTypesReadLine ==
  ASSUME Clip!ClipInv, Clip!TypeOK, NEW t \in Threads, Clip!ReadLine(t)
  PROVE  Clip!TypeOK'
  BY DEF Clip!ReadLine, Clip!TypeOK

LEMMA ClipTypesWatcherDies ==
  ASSUME Clip!ClipInv, Clip!TypeOK, NEW t \in Threads, Clip!WatcherDies(t)
  PROVE  Clip!TypeOK'
  BY DEF Clip!WatcherDies, Clip!TypeOK

LEMMA ClipTypesRest ==
  ASSUME Clip!ClipInv, Clip!TypeOK, NEW t \in Threads, Clip!Rest(t)
  PROVE  Clip!TypeOK'
  BY DEF Clip!Rest, Clip!TypeOK

LEMMA ClipTypesNotWanted ==
  ASSUME Clip!ClipInv, Clip!TypeOK, NEW t \in Threads, Clip!NotWanted(t)
  PROVE  Clip!TypeOK'
  BY DEF Clip!NotWanted, Clip!TypeOK

LEMMA ClipTypesChanged ==
  ASSUME Clip!ClipInv, Clip!TypeOK, NEW t \in Threads, Clip!Changed(t)
  PROVE  Clip!TypeOK'
<1>1. UNCHANGED <<x1, x2, x3, x4, x6, x7, x11, x12>> /\ x8 \in Texts \cup {Nothing}
      /\ x13 \in Texts \cup {Nothing} /\ x11 \in Texts \cup {Nothing}
  BY DEF Clip!Changed, Clip!TypeOK
<1>2. x5' \in [Threads -> {"none", "open", "line", "check", "hold", "flush", "rest", "ended"}]
  BY DEF Clip!Changed, Clip!Held, Clip!TypeOK
<1>3. {x8', x13'} \subseteq Texts \cup {Nothing}
  BY <1>1 DEF Clip!Changed, Clip!Held, Clip!ReadBytes, Clip!IsNews, Clip!Announce
<1>4. {x9', x10', x15'} \subseteq BOOLEAN
  BY DEF Clip!Changed, Clip!Held, Clip!ReadBytes, Clip!Announce, Clip!TypeOK
<1>5. x14' \in [told : Texts \cup {Nothing}, before : Texts \cup {Nothing}]
  BY <1>1 DEF Clip!Changed, Clip!Held, Clip!ReadBytes, Clip!IsNews, Clip!Announce, Clip!TypeOK
<1> QED BY <1>1, <1>2, <1>3, <1>4, <1>5 DEF Clip!TypeOK

LEMMA ClipTypesFlush ==
  ASSUME Clip!ClipInv, Clip!TypeOK, NEW t \in Threads, Clip!Flush(t)
  PROVE  Clip!TypeOK'
  BY DEF Clip!Flush, Clip!TypeOK

LEMMA ClipTypes ==
  ASSUME Clip!ClipInv, Clip!TypeOK, Clip!Next
  PROVE  Clip!TypeOK'
  BY ClipTypesPersonCopies, ClipTypesSetPreference, ClipTypesStart, ClipTypesStop,
     ClipTypesWlCopy, ClipTypesNoteEcho, ClipTypesWriteFails, ClipTypesElapse, ClipTypesOpen,
     ClipTypesReadLine, ClipTypesWatcherDies, ClipTypesRest, ClipTypesNotWanted,
     ClipTypesChanged, ClipTypesFlush DEF Clip!Next

LEMMA ClipTypesStutter ==
  ASSUME Clip!TypeOK, UNCHANGED Clip!clipVars
  PROVE  Clip!TypeOK'
  BY DEF Clip!clipVars, Clip!TypeOK

-----------------------------------------------------------------------------
(* Files a device sends: each step keeps the types. *)

LEMMA UploadTypesInit == Upload!Init => Upload!TypeOK
  BY DEF Upload!Init, Upload!TypeOK, Upload!Kinds, Upload!Idle, Upload!Live

LEMMA UploadTypesReceive ==
  ASSUME Upload!UploadInv, Upload!TypeOK, NEW i \in Files, Upload!Receive(i)
  PROVE  Upload!TypeOK'
  BY DEF Upload!Receive, Upload!TypeOK, Upload!UploadInv, Upload!UploadShapesOK, Upload!Live

LEMMA UploadTypesAbort ==
  ASSUME Upload!UploadInv, Upload!TypeOK, NEW i \in Files, Upload!Abort(i)
  PROVE  Upload!TypeOK'
  BY DEF Upload!Abort, Upload!TypeOK, Upload!UploadInv, Upload!UploadShapesOK, Upload!Live

LEMMA UploadTypesBodyEnds ==
  ASSUME Upload!UploadInv, Upload!TypeOK, NEW i \in Files, Upload!BodyEnds(i)
  PROVE  Upload!TypeOK'
  BY DEF Upload!BodyEnds, Upload!TypeOK, Upload!UploadInv, Upload!UploadShapesOK, Upload!Live

LEMMA UploadTypesRefuse ==
  ASSUME Upload!UploadInv, Upload!TypeOK, NEW i \in Files, Upload!Refuse(i)
  PROVE  Upload!TypeOK'
  BY DEF Upload!Refuse, Upload!TypeOK, Upload!UploadInv, Upload!UploadShapesOK, Upload!Live

LEMMA UploadTypesConvert ==
  ASSUME Upload!UploadInv, Upload!TypeOK, NEW i \in Files, Upload!Convert(i)
  PROVE  Upload!TypeOK'
  BY DEF Upload!Convert, Upload!TypeOK, Upload!UploadInv, Upload!UploadShapesOK, Upload!Live

LEMMA UploadTypesRename ==
  ASSUME Upload!UploadInv, Upload!TypeOK, NEW i \in Files, Upload!Rename(i)
  PROVE  Upload!TypeOK'
  BY DEF Upload!Rename, Upload!TypeOK, Upload!UploadInv, Upload!UploadShapesOK, Upload!Live

LEMMA UploadTypesAnswer ==
  ASSUME Upload!UploadInv, Upload!TypeOK, NEW i \in Files, Upload!Answer(i)
  PROVE  Upload!TypeOK'
  BY DEF Upload!Answer, Upload!TypeOK, Upload!UploadInv, Upload!UploadShapesOK, Upload!Live

LEMMA UploadTypesNote ==
  ASSUME Upload!UploadInv, Upload!TypeOK, NEW a \in UploadIds, Upload!Note(a)
  PROVE  Upload!TypeOK'
<1>1. UNCHANGED <<x1, x2, x3, x4, x6, x7, x8, x9, x10>>
  BY DEF Upload!Note
<1>2. x11[a].id \in Files
  BY DEF Upload!Note, Upload!UploadInv, Upload!UploadShapesOK, Upload!AskOK
<1>3. x5' \subseteq Files
  BY <1>2 DEF Upload!Note, Upload!TypeOK
<1>4. \A b \in UploadIds : x11'[b].id \in {x11[b].id, 0}
  BY DEF Upload!Note, Upload!UploadInv, Upload!UploadShapesOK, Upload!AskStates, Upload!Idle
<1> QED BY <1>1, <1>3, <1>4 DEF Upload!TypeOK

LEMMA UploadTypesSent ==
  ASSUME Upload!UploadInv, Upload!TypeOK, NEW a \in UploadIds, Upload!Sent(a)
  PROVE  Upload!TypeOK'
  BY DEF Upload!Sent, Upload!TypeOK, Upload!UploadInv, Upload!UploadShapesOK, Upload!Live,
     Upload!AskStates, Upload!Idle, Upload!Kinds

LEMMA UploadTypesRemove ==
  ASSUME Upload!UploadInv, Upload!TypeOK, NEW a \in UploadIds, Upload!Remove(a)
  PROVE  Upload!TypeOK'
<1>1. UNCHANGED <<x1, x2, x4, x6, x8, x9, x10>>
  BY DEF Upload!Remove
<1>2. x11[a].id \in Files
  BY DEF Upload!Remove, Upload!UploadInv, Upload!UploadShapesOK, Upload!AskOK
<1>3. x5' \subseteq Files /\ x7' \subseteq Files
  BY <1>2 DEF Upload!Remove, Upload!TypeOK
<1>4. x3' \in [Files -> SUBSET {"part", "jpg", "stored"}]
  BY DEF Upload!Remove, Upload!TypeOK
<1>5. \A b \in UploadIds : x11'[b].id \in {x11[b].id, 0}
  BY DEF Upload!Remove, Upload!UploadInv, Upload!UploadShapesOK, Upload!AskStates, Upload!Idle
<1> QED BY <1>1, <1>3, <1>4, <1>5 DEF Upload!TypeOK

LEMMA UploadTypesLook ==
  ASSUME Upload!UploadInv, Upload!TypeOK, NEW a \in UploadIds,
         NEW op \in {"send", "delete"}, NEW i \in Files, Upload!Look(a, op, i)
  PROVE  Upload!TypeOK'
  BY DEF Upload!Look, Upload!TypeOK, Upload!UploadInv, Upload!UploadShapesOK, Upload!Live

LEMMA UploadTypesSweep ==
  ASSUME Upload!UploadInv, Upload!TypeOK, NEW i \in Files,
         NEW f \in {"part", "jpg", "stored"}, Upload!Sweep(i, f)
  PROVE  Upload!TypeOK'
  BY DEF Upload!Sweep, Upload!TypeOK, Upload!UploadInv, Upload!UploadShapesOK, Upload!Live

LEMMA UploadTypesTimePasses ==
  ASSUME Upload!UploadInv, Upload!TypeOK, Upload!TimePasses
  PROVE  Upload!TypeOK'
  BY DEF Upload!TimePasses, Upload!TypeOK, Upload!UploadInv, Upload!UploadShapesOK,
     Upload!Live, Upload!Wrote

LEMMA UploadTypesRevoke ==
  ASSUME Upload!UploadInv, Upload!TypeOK, Upload!Revoke
  PROVE  Upload!TypeOK'
  BY DEF Upload!Revoke, Upload!TypeOK, Upload!UploadInv, Upload!UploadShapesOK, Upload!Live

LEMMA UploadTypesCrash ==
  ASSUME Upload!UploadInv, Upload!TypeOK, Upload!Crash
  PROVE  Upload!TypeOK'
  BY DEF Upload!Crash, Upload!TypeOK, Upload!UploadInv, Upload!UploadShapesOK, Upload!Live,
     Upload!Idle

LEMMA UploadTypes ==
  ASSUME Upload!UploadInv, Upload!TypeOK, Upload!Next
  PROVE  Upload!TypeOK'
  BY UploadTypesReceive, UploadTypesAbort, UploadTypesBodyEnds, UploadTypesRefuse,
     UploadTypesConvert, UploadTypesRename, UploadTypesAnswer, UploadTypesNote,
     UploadTypesSent, UploadTypesRemove, UploadTypesLook, UploadTypesSweep,
     UploadTypesTimePasses, UploadTypesRevoke, UploadTypesCrash DEF Upload!Next

LEMMA UploadTypesStutter ==
  ASSUME Upload!TypeOK, UNCHANGED Upload!uploadVars
  PROVE  Upload!TypeOK'
  BY DEF Upload!uploadVars, Upload!TypeOK

-----------------------------------------------------------------------------
(* What a message with files becomes: each step keeps the types. *)

LEMMA AttachTypesInit == Attach!Init => Attach!TypeOK
<1> SUFFICES ASSUME Attach!Init PROVE Attach!TypeOK
  OBVIOUS
<1>1. PICK n \in 0..MaxText : x1 \in [1..n -> Attach!Pieces]
  BY DEF Attach!Init
<1>2. n \in Nat
  OBVIOUS
<1>3. x1 \in Seq(Attach!Pieces)
  BY <1>1, <1>2, SeqDef
<1>4. PICK m \in 1..MaxFiles : x2 \in [1..m -> Attach!Attachment]
  BY DEF Attach!Init
<1>5. m \in Nat
  OBVIOUS
<1>6. x2 \in Seq(Attach!Attachment)
  BY <1>4, <1>5, SeqDef
<1> QED BY <1>3, <1>6 DEF Attach!Init, Attach!TypeOK

LEMMA AttachTypes ==
  ASSUME Attach!TypeOK, Attach!Next
  PROVE  Attach!TypeOK'
  BY DEF Attach!Next, Attach!Send, Attach!TypeOK

LEMMA AttachTypesStutter ==
  ASSUME Attach!TypeOK, UNCHANGED Attach!attachVars
  PROVE  Attach!TypeOK'
  BY DEF Attach!attachVars, Attach!TypeOK

-----------------------------------------------------------------------------
(* Preferences: each step keeps the types. *)

LEMMA PrefTypesInit == Pref!Init => Pref!TypeOK
<1> SUFFICES ASSUME Pref!Init PROVE Pref!TypeOK
  OBVIOUS
<1>1. x1 \in {1, 2} /\ x4 \in {"old", "new"} /\ {x6, x7} \subseteq BOOLEAN
  BY DEF Pref!Init
<1>2. x3 \in [Pref!Controls -> Pref!Values \cup {Absent}]
  BY DEF Pref!Init
<1>3. x2 \in 0..MaxRevision /\ \A p \in Pages : x5[p].revision \in 0..MaxRevision
  BY BoundAssumption DEF Pref!Init
<1> QED BY <1>1, <1>2, <1>3 DEF Pref!TypeOK

LEMMA PrefTypes ==
  ASSUME Pref!PrefInv, Pref!TypeOK, Pref!Next
  PROVE  Pref!TypeOK'
<1>1. /\ x1' \in {1, 2} /\ x4' \in {"old", "new"}
      /\ {x6', x7'} \subseteq BOOLEAN
  BY DEF Pref!TypeOK, Pref!Next, Pref!Get, Pref!Set, Pref!Restart, Pref!Write
<1>2. x3' \in [Pref!Controls -> Pref!Values \cup {Absent}]
  <2>1. Pref!Filled(x3) \in [Pref!Controls -> Pref!Values \cup {Absent}]
    BY PrefFilled DEF Pref!PrefInv
  <2>2. CASE \E p \in Pages : Pref!Get(p)
    BY <2>1, <2>2 DEF Pref!Get, Pref!Write
  <2>3. CASE \E p \in Pages, k \in Pref!Controls, v \in Pref!Values : Pref!Set(p, k, v)
    BY <2>1, <2>3 DEF Pref!Set, Pref!Write
  <2>4. CASE Pref!Restart
    BY <2>4 DEF Pref!Restart, Pref!TypeOK
  <2> QED BY <2>2, <2>3, <2>4 DEF Pref!Next
<1>3. /\ x2' \in 0..MaxRevision
      /\ \A p \in Pages : x5'[p].revision \in {x5[p].revision, x2'}
  <2>1. x5 \in [Pages -> [revision : Nat, values : [Pref!Controls -> Pref!Values \cup {Absent}]]]
        /\ x2 \in 0..MaxRevision
    BY DEF Pref!PrefInv, Pref!SeenOK, Pref!TypeOK
  <2>2. CASE \E p \in Pages : Pref!Get(p)
    BY <2>1, <2>2 DEF Pref!Get
  <2>3. CASE \E p \in Pages, k \in Pref!Controls, v \in Pref!Values : Pref!Set(p, k, v)
    BY <2>1, <2>3, BoundAssumption DEF Pref!Set
  <2>4. CASE Pref!Restart
    BY <2>1, <2>4 DEF Pref!Restart
  <2> QED BY <2>2, <2>3, <2>4 DEF Pref!Next
<1>4. \A p \in Pages : x5'[p].revision \in 0..MaxRevision
  BY <1>3 DEF Pref!TypeOK
<1> QED BY <1>1, <1>2, <1>3, <1>4 DEF Pref!TypeOK

LEMMA PrefTypesStutter ==
  ASSUME Pref!TypeOK, UNCHANGED Pref!prefVars
  PROVE  Pref!TypeOK'
  BY DEF Pref!prefVars, Pref!TypeOK

-----------------------------------------------------------------------------
(* A draft typed into the focused window: each step keeps the types. *)

LEMMA TextTypesInit == Text!Init => Text!TypeOK
<1> SUFFICES ASSUME Text!Init PROVE Text!TypeOK
  OBVIOUS
<1>1. x1 \in {"ready", "busy", "ended", "lost"} /\ x2 \in BOOLEAN
  BY DEF Text!Init
<1>2. x7 \in 0..MaxTurns
  BY BoundAssumption DEF Text!Init
<1>3. x3 \in [Text!Attempts -> {Text!NoSend} \cup
             [id : Sends, text : Drafts, at : Text!Running \cup Text!Settled,
                                              ran : BOOLEAN]]
  BY DEF Text!Init
<1>4. x4 \subseteq Text!Attempts /\ Cardinality(x4) <= Memory
  BY FS_EmptySet, TextAssumption DEF Text!Init
<1>5. x5 \in [Waiters -> 0..MaxAttempts] /\ x6 \in Seq(Text!Answer)
  BY TextAssumption DEF Text!Init
<1> QED BY <1>1, <1>2, <1>3, <1>4, <1>5, TextCardinality DEF Text!TypeOK

\* The attempts are as many as they are.
LEMMA TextFinite ==
  ASSUME NEW S \in SUBSET Text!Attempts
  PROVE  IsFiniteSet(S) /\ Cardinality(S) \in Nat
<1>1. IsFiniteSet(1..MaxAttempts)
  BY FS_Interval, TextAssumption
<1>2. IsFiniteSet(S)
  BY <1>1, FS_Subset DEF Text!Attempts
<1> QED BY <1>2, FS_CardinalityType

\* One goes for the one that comes.
LEMMA TextRoom ==
  ASSUME NEW S \in SUBSET Text!Attempts, Cardinality(S) <= Memory + 1
  PROVE  Cardinality(Text!Kept(S)) <= Memory
<1>1. IsFiniteSet(S) /\ Cardinality(S) \in Nat
  BY TextFinite
<1>2. CASE Cardinality(S) > Memory
  <2>1. S # {} /\ S \in SUBSET Nat
    BY <1>2, FS_EmptySet, TextAssumption DEF Text!Attempts
  <2>2. Text!Min(S) \in S
    BY <2>1, TextLeast DEF Text!Min
  <2>3. Cardinality(S \ {Text!Min(S)}) = Cardinality(S) - 1
    BY <1>1, <2>2, FS_RemoveElement
  <2>4. Text!Kept(S) = S \ {Text!Min(S)}
    BY <1>2, TextCardinality DEF Text!Kept
  <2> QED BY <1>1, <2>3, <2>4, TextAssumption
<1>3. CASE ~(Cardinality(S) > Memory)
  BY <1>1, <1>3, TextAssumption, TextCardinality DEF Text!Kept
<1> QED BY <1>2, <1>3

LEMMA TextKeeps ==
  ASSUME Text!TypeOK, NEW n \in Text!Attempts
  PROVE  Cardinality(Text!Kept(x4 \cup {n})) <= Memory
<1>1. /\ x4 \in SUBSET Text!Attempts /\ x4 \cup {n} \in SUBSET Text!Attempts
      /\ Cardinality(x4) <= Memory
  BY TextCardinality DEF Text!TypeOK
<1>2. /\ IsFiniteSet(x4) /\ Cardinality(x4) \in Nat
      /\ Cardinality(x4 \cup {n}) \in Nat
  BY <1>1, TextFinite
<1>3. Cardinality(x4 \cup {n}) <= Cardinality(x4) + 1
  BY <1>2, FS_AddElement
<1>4. Cardinality(x4 \cup {n}) <= Memory + 1
  BY <1>1, <1>2, <1>3, TextAssumption
<1> QED BY <1>1, <1>4, TextRoom

LEMMA TextTypes ==
  ASSUME Text!TextInv, Text!TypeOK, Text!TextInv', Text!Next
  PROVE  Text!TypeOK'
<1>1. x1' \in {"ready", "busy", "ended", "lost"} /\ x2' \in BOOLEAN
  BY DEF Text!TypeOK, Text!Next, Text!Send, Text!Reply, Text!Look, Text!Type, Text!Typed,
     Text!Settle, Text!Turn, Text!Restart
<1>2. x7' \in 0..MaxTurns
  <2>1. x7' = x7 \/ (x7 < MaxTurns /\ x7' = x7 + 1)
    <3>1. CASE Text!Turn
      BY <3>1 DEF Text!Turn
    <3>2. CASE \E w \in Waiters, i \in Sends, x \in Drafts : Text!Send(w, i, x)
      BY <3>2 DEF Text!Send
    <3>3. CASE \E w \in Waiters, gone \in BOOLEAN : Text!Reply(w, gone)
      BY <3>3 DEF Text!Reply
    <3>4. CASE Text!Restart
                          \/ \E n \in Text!Attempts : Text!Look(n) \/ Text!Type(n) \/ Text!Typed(n) \/ Text!Settle(n)
      BY <3>4 DEF Text!Look, Text!Type, Text!Typed, Text!Settle, Text!Restart
    <3> QED BY <3>1, <3>2, <3>3, <3>4 DEF Text!Next
  <2>2. x7 \in 0..MaxTurns
    BY DEF Text!TypeOK
  <2> QED BY <2>1, <2>2, BoundAssumption
<1>3. /\ x3' \in [Text!Attempts -> {Text!NoSend} \cup
             [id : Sends, text : Drafts, at : Text!Running \cup Text!Settled,
                                                 ran : BOOLEAN]]
      /\ Text!Newest' \in 0..MaxAttempts /\ Text!Made' = 1..Text!Newest' /\ x4' \subseteq Text!Made'
      /\ x5' \in [Waiters -> Text!Made' \cup {0}] /\ x6' \in Seq(Text!Answer)
  BY DEF Text!TextInv, Text!AttemptsOK, Text!AnswersOK
<1>4. Text!Made' \subseteq Text!Attempts /\ Text!Attempts \cup {0} \subseteq 0..MaxAttempts
  BY <1>3, TextAssumption DEF Text!Attempts
<1>5. x4' \subseteq Text!Attempts /\ x5' \in [Waiters -> 0..MaxAttempts]
  BY <1>3, <1>4
<1>6. Cardinality(x4') <= Memory
  <2>1. CASE x4' = x4
    BY <2>1, TextCardinality DEF Text!TypeOK
  <2>2. CASE \E n \in Text!Attempts : x4' = Text!Kept(x4 \cup {n})
    BY <2>2, TextKeeps
  <2>3. CASE \E n \in Text!Attempts : x4' = x4 \ {n}
    <3>1. x4 \in SUBSET Text!Attempts /\ x4' \in SUBSET x4 /\ Cardinality(x4) <= Memory
      BY <2>3, TextCardinality DEF Text!TypeOK
    <3>2. IsFiniteSet(x4) /\ Cardinality(x4) \in Nat /\ Cardinality(x4') \in Nat
      BY <3>1, TextFinite
    <3>3. Cardinality(x4') <= Cardinality(x4)
      BY <3>1, <3>2, FS_Subset
    <3> QED BY <3>1, <3>2, <3>3, TextAssumption
  <2>4. CASE x4' = {}
    BY <2>4, FS_EmptySet, TextAssumption
  <2>5. CASE \E w \in Waiters, i \in Sends, x \in Drafts : Text!Send(w, i, x)
    BY <2>1, <2>2, <2>5 DEF Text!Send, Text!Begun
  <2>6. CASE \E w \in Waiters, gone \in BOOLEAN : Text!Reply(w, gone)
    BY <2>1, <2>6 DEF Text!Reply
  <2>7. CASE \E n \in Text!Attempts : Text!Look(n) \/ Text!Type(n) \/ Text!Typed(n) \/ Text!Settle(n)
    BY <2>1, <2>3, <2>7 DEF Text!Look, Text!Type, Text!Typed, Text!Settle
  <2>8. CASE Text!Turn \/ Text!Restart
    BY <2>1, <2>4, <2>8 DEF Text!Turn, Text!Restart
  <2> QED BY <2>5, <2>6, <2>7, <2>8 DEF Text!Next
<1> QED BY <1>1, <1>2, <1>3, <1>5, <1>6, TextCardinality DEF Text!TypeOK

LEMMA TextTypesStutter ==
  ASSUME Text!TypeOK, UNCHANGED Text!textVars
  PROVE  Text!TypeOK'
  BY DEF Text!textVars, Text!TypeOK

-----------------------------------------------------------------------------
(* The types of every part. *)

TypesNow ==
  /\ part = "media" => Media!TypeOK
  /\ part = "clip" => Clip!TypeOK
  /\ part = "upload" => Upload!TypeOK
  /\ part = "attach" => Attach!TypeOK
  /\ part = "pref" => Pref!TypeOK
  /\ part = "text" => Text!TypeOK

\* Of what the daemon keeps of its devices, of Herdr and of what is shared, that it keeps its
\* types: no step looks up a device, a request, a file or an attempt that is not there.
THEOREM StoresKeepTypes == Spec => []TypeOK
<1> DEFINE MediaNow == part = "media" => Media!MediaInv
           CredNow  == part = "cred" => Cred!CredInv
           ToastNow == part = "toast" => Toast!StaleIsSettled
<1>1. Init => TypesNow
  BY MediaTypesInit, ClipTypesInit, UploadTypesInit, AttachTypesInit, PrefTypesInit, TextTypesInit
  DEF Init, TypesNow
<1>2. TypesNow /\ SharedInv /\ SharedInv' /\ MediaNow' /\ [Next]_all => TypesNow'
  <2> SUFFICES ASSUME TypesNow, SharedInv, SharedInv', MediaNow', [Next]_all PROVE TypesNow'
    OBVIOUS
  <2>1. CASE UNCHANGED all
    <3>1. part' = part
      BY <2>1 DEF all
    <3>2. UNCHANGED Media!mediaVars
      BY <2>1 DEF all, Media!mediaVars, Media!file, Media!memory, Media!env
    <3>3. UNCHANGED Clip!clipVars
      BY <2>1 DEF all, Clip!clipVars
    <3>4. UNCHANGED Upload!uploadVars
      BY <2>1 DEF all, Upload!uploadVars
    <3>5. UNCHANGED Attach!attachVars
      BY <2>1 DEF all, Attach!attachVars
    <3>6. UNCHANGED Pref!prefVars
      BY <2>1 DEF all, Pref!prefVars
    <3>7. UNCHANGED Text!textVars
      BY <2>1 DEF all, Text!textVars
    <3> QED BY <3>1, <3>2, <3>3, <3>4, <3>5, <3>6, <3>7, MediaTypesStutter, ClipTypesStutter,
               UploadTypesStutter, AttachTypesStutter, PrefTypesStutter, TextTypesStutter DEF TypesNow
  <2>2. CASE Next
    <3>1. part' = part
      BY <2>2 DEF Next
    <3>2. part = "media" => Media!Next /\ Media!ShapesOK'
      BY <2>2, <3>1 DEF Next, Media!MediaInv
    <3>3. part = "clip" => Clip!Next /\ Clip!ClipInv
      BY <2>2 DEF Next, SharedInv
    <3>4. part = "upload" => Upload!Next /\ Upload!UploadInv
      BY <2>2 DEF Next, SharedInv
    <3>5. part = "attach" => Attach!Next
      BY <2>2 DEF Next
    <3>6. part = "pref" => Pref!Next /\ Pref!PrefInv
      BY <2>2 DEF Next, SharedInv
    <3>7. part = "text" => Text!Next /\ Text!TextInv /\ Text!TextInv'
      BY <2>2, <3>1 DEF Next, SharedInv
    <3> QED BY <3>1, <3>2, <3>3, <3>4, <3>5, <3>6, <3>7, MediaTypes, ClipTypes, UploadTypes, AttachTypes,
               PrefTypes, TextTypes DEF TypesNow
  <2> QED BY <2>1, <2>2
<1>3. TypesNow /\ HeldInv /\ CredNow /\ ToastNow => TypeOK
  BY DEF TypeOK, TypesNow, HeldInv, Cred!CredInv, Toast!StaleIsSettled, Herdr!WatchInv, Pane!PaneInv
<1> QED BY <1>1, <1>2, <1>3, SharedAlways, MediaAlways, HeldAlways, CredAlways, ToastAlways, PTL DEF Spec
=============================================================================
