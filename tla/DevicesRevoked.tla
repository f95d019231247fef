--------------------------- MODULE DevicesRevoked ---------------------------
(***************************************************************************)
(* Proofs about what a revoke leaves and about who has a terminal, for any *)
(* number of devices, keys, threads, requests and credentials, as long as  *)
(* no write fails in silence.                                              *)
(*                                                                         *)
(* A revoke holds no lock from its first step to its last, so what it took *)
(* back may come again while it is under way.  The invariant says how far  *)
(* each kind of grant can still be there: only as long as some revoke of   *)
(* the device has yet to reach the step that takes it; and that a write    *)
(* another thread still owes is owed under a lock that step waits for.     *)
(***************************************************************************)
EXTENDS DevicesProofs

USE DeviceAssumption

-----------------------------------------------------------------------------
(* The inductive invariant *)

\* The steps of a revoke up to the one that takes back the streaming grant, the
\* credentials, the approval key, the subscription, the lines.
ToDeny  == {"deny"}
ToCreds == {"deny", "creds"}
ToBio   == {"deny", "creds", "bio"}
ToPush  == {"deny", "creds", "bio", "push"}
ToLines == {"deny", "creds", "bio", "push", "lines"}
Cleaning(d, steps) == \E t \in Threads : job[t].dev = d /\ job[t].at \in steps

Swept(d) ==
  /\ ApprovalsOf(d) = {}
  /\ allowed[d] = "yes" => Cleaning(d, ToDeny)
  /\ HasCredential(d)   => Cleaning(d, ToCreds)
  /\ d \in bio          => Cleaning(d, ToBio)
  /\ d \in push         => Cleaning(d, ToPush)
  /\ LinesOf(d) # {}    => Cleaning(d, ToLines)
SweptOK == \A d \in cleared : Swept(d)

\* A write that passed its check for a device that is revoked comes before the step that
\* takes it back.
LineWrites == {"ssh.write", "put.write", "permit.write", "move.write"}
WriteFits(t) == job[t].dev \in cleared =>
  /\ job[t].at = "media.write" => Cleaning(job[t].dev, ToDeny)
  /\ job[t].at = "enrol.write" => Cleaning(job[t].dev, ToBio)
  /\ job[t].at = "sub.write"   => Cleaning(job[t].dev, ToPush)
  /\ job[t].at \in LineWrites  => Cleaning(job[t].dev, ToLines)
WritesOK == \A t \in Threads : WriteFits(t)

\* A request's number is used once, and a job that acts for one speaks of that request.
ApproveSteps == {"media", "media.write", "ssh", "ssh.write", "grant"}
RowFits(r) ==
  /\ rows[r].status # "none" => r[2] <= asked[Of(r)]
  /\ rows[r].status = "pending" => rows[r].ssh = FALSE
AskFits(t) ==
  /\ job[t].at = "claim.write" => t = "loop" /\ rows[job[t].req].status = "approved"
  /\ job[t].at \in {"sub.check", "enrol.check"} =>
       job[t].cred \in Creds /\ Of(job[t].cred) = job[t].dev
  /\ job[t].at \in ApproveSteps =>
       /\ Of(job[t].req) = job[t].dev /\ job[t].req[2] <= asked[job[t].dev]
       /\ rows[job[t].req].status # "pending"
       /\ rows[job[t].req].status # "none" => rows[job[t].req].key = job[t].key
AskedOK == (\A r \in Requests : RowFits(r)) /\ \A t \in Threads : AskFits(t)

\* Who has a line, a recorded terminal, or a decision for one, was trusted with it.
TrustSteps == {"ssh.write", "put.write", "permit.cred", "permit.write", "permit.grant", "move.grant"}
RowTrusted(r) == Standing(r) /\ (rows[r].key # NoKey \/ rows[r].ssh = TRUE) => Of(r) \in trusted
TrustFits(t)  == job[t].at \in TrustSteps => job[t].dev \in trusted
TrustOK == /\ LinesGranted /\ (\A r \in Requests : RowTrusted(r))
           /\ \A t \in Threads : TrustFits(t)

RInv == SweptOK /\ WritesOK /\ AskedOK /\ TrustOK

-----------------------------------------------------------------------------
(* What a step leaves alone *)

Others(t) == \A u \in Threads \ {t} : job'[u] = job[u]
StillCleaning(d) ==
  /\ Cleaning(d, ToDeny)  => Cleaning(d, ToDeny)'
  /\ Cleaning(d, ToCreds) => Cleaning(d, ToCreds)'
  /\ Cleaning(d, ToBio)   => Cleaning(d, ToBio)'
  /\ Cleaning(d, ToPush)  => Cleaning(d, ToPush)'
  /\ Cleaning(d, ToLines) => Cleaning(d, ToLines)'

\* The job of a thread that is not in a revoke is no reason to call a device revoked.
LEMMA CleaningStays ==
  ASSUME NEW t \in Threads, Others(t), job[t].at \notin ToLines
  PROVE  \A d : StillCleaning(d)
  BY DEF Others, StillCleaning, Cleaning, ToDeny, ToCreds, ToBio, ToPush, ToLines

\* A step of one device's revoke is none of another's.
LEMMA CleaningElse ==
  ASSUME NEW t \in Threads, Others(t)
  PROVE  \A d : d # job[t].dev => StillCleaning(d)
  BY DEF Others, StillCleaning, Cleaning

LEMMA CleaningSame == ASSUME UNCHANGED job PROVE \A d : StillCleaning(d)
  BY DEF StillCleaning, Cleaning

\* Nothing is handed to d.
NoMore(d) ==
  /\ \A r \in Requests : HoldsApproval(d, r)' => HoldsApproval(d, r)
  /\ allowed'[d] = "yes" => allowed[d] = "yes"
  /\ HasCredential(d)' => HasCredential(d)
  /\ d \in bio' => d \in bio
  /\ d \in push' => d \in push
  /\ LinesOf(d)' \subseteq LinesOf(d)

LEMMA SweptKept ==
  ASSUME NEW d, Swept(d), NoMore(d), StillCleaning(d)
  PROVE  Swept(d)'
  BY DEF Swept, NoMore, StillCleaning, ApprovalsOf

LEMMA WriteKept ==
  ASSUME WritesOK, NEW t \in Threads, Others(t), cleared' \subseteq cleared,
         \A d \in cleared : StillCleaning(d), WriteFits(t)'
  PROVE  WritesOK'
<1> SUFFICES ASSUME NEW u \in Threads PROVE WriteFits(u)'
  BY DEF WritesOK
<1>1. CASE u = t
  BY <1>1
<1>2. CASE u # t
  <2>1. job'[u] = job[u] /\ WriteFits(u)
    BY <1>2 DEF Others, WritesOK
  <2>2. ASSUME job[u].dev \in cleared PROVE StillCleaning(job[u].dev)
    BY <2>2
  <2> QED BY <2>1, <2>2 DEF WriteFits, StillCleaning
<1> QED BY <1>1, <1>2

LEMMA AskKept ==
  ASSUME AskedOK, NEW t \in Threads, Others(t), UNCHANGED pairVars, AskFits(t)'
  PROVE  AskedOK'
<1>1. \A r \in Requests : RowFits(r)'
  BY DEF AskedOK, RowFits, pairVars
<1>2. ASSUME NEW u \in Threads PROVE AskFits(u)'
  BY DEF AskedOK, AskFits, Others, pairVars
<1> QED BY <1>1, <1>2 DEF AskedOK

LEMMA TrustKept ==
  ASSUME TrustOK, NEW t \in Threads, Others(t), UNCHANGED rows, lines' \subseteq lines,
         trusted \subseteq trusted', TrustFits(t)'
  PROVE  TrustOK'
<1>1. \A r \in Requests : RowTrusted(r)'
  BY DEF TrustOK, RowTrusted, Standing
<1>2. ASSUME NEW u \in Threads PROVE TrustFits(u)'
  BY DEF TrustOK, TrustFits, Others
<1> QED BY <1>1, <1>2 DEF TrustOK, LinesGranted

-----------------------------------------------------------------------------
(* Steps that hand out nothing *)

Fewer ==
  /\ UNCHANGED <<pairVars, issued, revoked, cleared, trusted>> /\ lines' \subseteq lines
  /\ bio' \subseteq bio /\ push' \subseteq push
  /\ \A d \in Devices : allowed'[d] = "yes" => allowed[d] = "yes"

LEMMA FewerIsNoMore == ASSUME Fewer PROVE \A d \in Devices : NoMore(d)
  BY DEF Fewer, NoMore, pairVars, HoldsApproval, Standing, HasCredential, CredsOf, Verifies, LinesOf

\* A job that is at one of these owes nothing the invariant speaks of.
Plain(step) == step \notin
  {"media", "media.write", "ssh", "ssh.write", "grant", "claim.write", "put.write",
   "permit.cred", "permit.write", "permit.grant", "move.write", "move.grant",
   "sub.check", "sub.write", "enrol.check", "enrol.write"}

\* A step of a thread that is in no revoke, by what it hands out and what it owes then.
LEMMA JobStep ==
  ASSUME IInv, RInv, NEW t \in Threads, Others(t), job[t].at \notin ToLines,
         UNCHANGED <<pairVars, cleared>>, trusted \subseteq trusted',
         \A d \in cleared : Swept(d)', LinesGranted',
         WriteFits(t)', AskFits(t)', TrustFits(t)'
  PROVE  RInv'
<1>1. \A d : StillCleaning(d)
  BY CleaningStays
<1>2. SweptOK'
  BY DEF SweptOK
<1>3. WritesOK'
  BY <1>1, WriteKept DEF RInv
<1>4. AskedOK'
  BY AskKept DEF RInv
<1>5. \A r \in Requests : RowTrusted(r)'
  BY DEF RInv, TrustOK, RowTrusted, Standing, pairVars
<1>6. ASSUME NEW u \in Threads PROVE TrustFits(u)'
  BY DEF RInv, TrustOK, TrustFits, Others
<1> QED BY <1>2, <1>3, <1>4, <1>5, <1>6 DEF RInv, TrustOK

LEMMA CheckStep ==
  ASSUME IInv, RInv, NEW t \in Threads, Others(t), Fewer, job[t].at \notin ToLines,
         WriteFits(t)', AskFits(t)', TrustFits(t)'
  PROVE  RInv'
<1>1. \A d : StillCleaning(d)
  BY CleaningStays
<1>2. cleared' = cleared /\ cleared \subseteq Devices
  BY DEF Fewer, IInv, StoresOK
<1>3. \A d \in cleared : Swept(d)'
  BY <1>1, <1>2, FewerIsNoMore, SweptKept DEF RInv, SweptOK
<1>4. LinesGranted'
  BY DEF RInv, TrustOK, LinesGranted, Fewer
<1> QED BY <1>3, <1>4, JobStep DEF Fewer

LEMMA QuietStep ==
  ASSUME IInv, RInv, NEW t \in Threads, Others(t), Fewer, job[t].at \notin ToLines, Plain(job'[t].at)
  PROVE  RInv'
<1>1. WriteFits(t)' /\ AskFits(t)' /\ TrustFits(t)'
  BY DEF Plain, WriteFits, AskFits, TrustFits, LineWrites, ApproveSteps, TrustSteps
<1> QED BY <1>1, CheckStep

LEMMA StillStep ==
  ASSUME RInv, UNCHANGED <<pairVars, cleared, trusted, job>>, lines' \subseteq lines,
         \A d \in cleared : NoMore(d)
  PROVE  RInv'
<1>1. \A d : StillCleaning(d)
  BY CleaningSame
<1>2. SweptOK'
  BY <1>1, SweptKept DEF RInv, SweptOK
<1>3. WritesOK'
  BY <1>1 DEF RInv, WritesOK, WriteFits, StillCleaning
<1>4. AskedOK'
  BY DEF RInv, AskedOK, RowFits, AskFits, pairVars
<1>5. TrustOK'
  BY DEF RInv, TrustOK, LinesGranted, RowTrusted, Standing, TrustFits, pairVars
<1> QED BY <1>2, <1>3, <1>4, <1>5 DEF RInv

-----------------------------------------------------------------------------
(* How a job moves, and what a free lock tells *)

LEMMA GotoShape ==
  ASSUME JobsOK, NEW t \in Threads, NEW step, Goto(t, step)
  PROVE  /\ Others(t) /\ job'[t].at = step /\ job'[t].dev = job[t].dev /\ job'[t].other = job[t].other
         /\ job'[t].key = job[t].key /\ job'[t].req = job[t].req /\ job'[t].cred = job[t].cred
<1>1. job' = [job EXCEPT ![t] = [job[t] EXCEPT !.at = step]] /\ job \in [Threads -> Job]
  BY DEF Goto, JobsOK
<1>2. job'[t] = [job[t] EXCEPT !.at = step] /\ job[t] \in Job
  BY <1>1
<1>3. Others(t)
  BY <1>1 DEF Others
<1> QED BY <1>2, <1>3 DEF Job

LEMMA EndsShape ==
  ASSUME JobsOK, NEW t \in Threads, Ends(t)
  PROVE  Others(t) /\ job'[t].at = "idle" /\ job'[t].dev = Nobody
  BY DEF Ends, JobsOK, Others, Rest

LEMMA RetireShape ==
  ASSUME JobsOK, NEW t \in Threads, Retire(t)
  PROVE  Others(t) /\ job'[t].at = "forget"
  BY DEF Retire, JobsOK, Others, Rest

LEMMA BeginShape ==
  ASSUME JobsOK, NEW t \in Threads, NEW step, NEW d, NEW o, NEW k, NEW r, NEW c,
         Begin(t, step, d, o, k, r, c)
  PROVE  /\ Others(t) /\ job[t].at = "idle" /\ job'[t].at = step /\ job'[t].dev = d
         /\ job'[t].key = k /\ job'[t].req = r /\ job'[t].cred = c
  BY DEF Begin, At, JobsOK, Others

LEMMA FreeLocks ==
  ASSUME NEW t \in Threads
  PROVE  /\ Free("media")   => job[t].at # "media.write"
         /\ Free("keys")    => job[t].at \notin LineWrites
         /\ Free("pairing") => job[t].at # "claim.write"
         /\ Free("push")    => job[t].at # "sub.write"
         /\ Free("bio")     => job[t].at # "enrol.write"
  BY DEF Free, Holds, LineWrites

-----------------------------------------------------------------------------
(* Jobs begun, and steps that only go on or end *)

LEMMA PutCredSafe == ASSUME IInv, RInv, NEW t \in Threads, PutCred(t) PROVE RInv'
<1>1. Others(t) /\ Plain(job'[t].at)
  BY GotoShape, EndsShape DEF PutCred, Plain, IInv
<1>2. Fewer
  BY DEF PutCred, Fewer, credVars
<1>3. job[t].at \notin ToLines
  BY DEF PutCred, At, ToLines
<1> QED BY <1>1, <1>2, <1>3, QuietStep


LEMMA PurgeMediaSafe == ASSUME IInv, RInv, NEW t \in Threads, PurgeMedia(t) PROVE RInv'
<1>1. Others(t) /\ Plain(job'[t].at)
  BY GotoShape, EndsShape DEF PurgeMedia, Plain, IInv
<1>2. Fewer
  BY DEF PurgeMedia, Fewer, credVars, IInv, StoresOK
<1>3. job[t].at \notin ToLines
  BY DEF PurgeMedia, At, ToLines
<1> QED BY <1>1, <1>2, <1>3, QuietStep


LEMMA PurgePushSafe == ASSUME IInv, RInv, NEW t \in Threads, PurgePush(t) PROVE RInv'
<1>1. Others(t) /\ Plain(job'[t].at)
  BY EndsShape DEF PurgePush, Plain, IInv
<1>2. Fewer
  BY DEF PurgePush, Fewer, credVars
<1>3. job[t].at \notin ToLines
  BY DEF PurgePush, At, ToLines
<1> QED BY <1>1, <1>2, <1>3, QuietStep


LEMMA MoveStartSafe == ASSUME IInv, RInv, NEW t \in Threads, MoveStart(t) PROVE RInv'
<1>1. Others(t) /\ Plain(job'[t].at)
  <2>1. ASSUME NEW k, job' = [job EXCEPT ![t].at = "move.check", ![t].key = k]
        PROVE  Others(t) /\ job'[t].at = "move.check"
    <3>1. job \in [Threads -> Job]
      BY DEF IInv, JobsOK
    <3>2. Others(t)
      BY <2>1, <3>1 DEF Others
    <3>3. job'[t] = [job[t] EXCEPT !.at = "move.check", !.key = k] /\ job[t] \in Job
      BY <2>1, <3>1
    <3> QED BY <3>2, <3>3 DEF Job
  <2> QED BY <2>1, RetireShape DEF MoveStart, Plain, IInv
<1>2. Fewer
  BY DEF MoveStart, Fewer, credVars
<1>3. job[t].at \notin ToLines
  BY DEF MoveStart, At, ToLines
<1> QED BY <1>1, <1>2, <1>3, QuietStep


LEMMA SupersedeSafe == ASSUME IInv, RInv, NEW w \in Workers, NEW old \in Devices, NEW new \in Devices, Supersede(w, old, new) PROVE RInv'
<1>1. w \in Threads
  BY DEF Threads
<1>2. Others(w) /\ job[w].at = "idle" /\ Plain(job'[w].at)
  BY <1>1, BeginShape DEF Supersede, Plain, IInv
<1>3. Fewer
  BY DEF Supersede, Fewer, credVars, IInv, StoresOK
<1> QED BY <1>1, <1>2, <1>3, QuietStep DEF ToLines


LEMMA RevokeSafe == ASSUME IInv, RInv, NEW d \in Devices, Revoke(d) PROVE RInv'
<1>1. "local" \in Threads
  BY DEF Threads
<1>2. Others("local") /\ job["local"].at = "idle" /\ Plain(job'["local"].at)
  BY <1>1, BeginShape DEF Revoke, Plain, IInv
<1>3. Fewer
  BY DEF Revoke, Fewer, credVars
<1> QED BY <1>1, <1>2, <1>3, QuietStep DEF ToLines


LEMMA PurgeSafe == ASSUME IInv, RInv, NEW d \in Devices, Purge(d) PROVE RInv'
<1>1. "local" \in Threads
  BY DEF Threads
<1>2. Others("local") /\ job["local"].at = "idle" /\ Plain(job'["local"].at)
  BY <1>1, BeginShape DEF Purge, Plain, IInv
<1>3. Fewer
  BY DEF Purge, Fewer, credVars
<1> QED BY <1>1, <1>2, <1>3, QuietStep DEF ToLines


LEMMA OfferKeySafe == ASSUME IInv, RInv, NEW c \in Creds, NEW k \in Keys, OfferKey(c, k) PROVE RInv'
<1>1. "loop" \in Threads
  BY DEF Threads
<1>2. Fewer
  BY DEF OfferKey, Fewer, credVars
<1>3. CASE Granted(Of(c))
  <2>1. Others("loop") /\ job["loop"].at = "idle" /\ Plain(job'["loop"].at)
    BY <1>1, <1>3, BeginShape DEF OfferKey, Plain, IInv
  <2> QED BY <1>1, <1>2, <2>1, QuietStep DEF ToLines
<1>4. CASE ~Granted(Of(c))
  <2>1. \A d \in cleared : NoMore(d)
    BY <1>2, FewerIsNoMore DEF IInv, StoresOK
  <2> QED BY <1>2, <1>4, <2>1, StillStep DEF OfferKey, Fewer
<1> QED BY <1>3, <1>4


LEMMA RejectSafe == ASSUME IInv, RInv, NEW d \in Devices, Reject(d) PROVE RInv'
<1>1. Fewer
  BY DEF Reject, Fewer, credVars
<1>2. \A d2 \in cleared : NoMore(d2)
  BY <1>1, FewerIsNoMore DEF IInv, StoresOK
<1> QED BY <1>1, <1>2, StillStep DEF Reject, Fewer


LEMMA PruneSafe == ASSUME IInv, RInv, NEW d \in Devices, Prune(d) PROVE RInv'
<1>1. Fewer
  BY DEF Prune, Fewer, credVars, LinesOf
<1>2. \A d2 \in cleared : NoMore(d2)
  BY <1>1, FewerIsNoMore DEF IInv, StoresOK
<1> QED BY <1>1, <1>2, StillStep DEF Prune, Fewer


-----------------------------------------------------------------------------
(* The checks made under a lock: what they find says why the write may follow *)

\* An approval found, or a terminal recorded in one, is that of a device not revoked.
LEMMA FoundApproval ==
  ASSUME RInv, NEW d, NEW r \in Requests, HoldsApproval(d, r)
  PROVE  d \notin cleared
  BY DEF RInv, SweptOK, Swept, ApprovalsOf

LEMMA FoundTerminal ==
  ASSUME IInv, RInv, NEW d, Granted(d)
  PROVE  d \notin cleared /\ d \in trusted
<1>1. PICK r \in Requests : HoldsApproval(d, r) /\ rows[r].ssh
  BY DEF Granted, ApprovalsOf
<1>2. rows[r].ssh = TRUE
  BY <1>1 DEF IInv, StoresOK, Row
<1>3. RowTrusted(r)
  BY DEF RInv, TrustOK
<1> QED BY <1>1, <1>2, <1>3, FoundApproval DEF RowTrusted, HoldsApproval

LEMMA EarlierSteps ==
  /\ ToDeny \subseteq ToCreds /\ ToCreds \subseteq ToBio /\ ToBio \subseteq ToPush
  /\ ToPush \subseteq ToLines
  BY DEF ToDeny, ToCreds, ToBio, ToPush, ToLines

LEMMA CleaningMore ==
  ASSUME NEW d, Cleaning(d, ToCreds)
  PROVE  Cleaning(d, ToBio) /\ Cleaning(d, ToPush) /\ Cleaning(d, ToLines)
  BY EarlierSteps DEF Cleaning

\* A credential that works, found while its device is revoked: the revoke has not come to it.
LEMMA FoundCredential ==
  ASSUME RInv, NEW t \in Threads, Others(t), job[t].at \notin ToLines,
         NEW d \in cleared, HasCredential(d)
  PROVE  Cleaning(d, ToBio)' /\ Cleaning(d, ToPush)' /\ Cleaning(d, ToLines)'
<1>1. Cleaning(d, ToCreds)
  BY DEF RInv, SweptOK, Swept
<1> QED BY <1>1, CleaningMore, CleaningStays DEF StillCleaning


LEMMA GrantCheckSafe == ASSUME IInv, RInv, NEW t \in Threads, GrantCheck(t) PROVE RInv'
<1> DEFINE next == IF HoldsApproval(job[t].dev, job[t].req) THEN "media.write" ELSE AfterMedia(job[t].key)
<1>1. Fewer /\ job[t].at \notin ToLines
  BY DEF GrantCheck, At, Fewer, credVars, ToLines
<1>2. /\ Others(t) /\ job'[t].at = next /\ job'[t].dev = job[t].dev
      /\ job'[t].key = job[t].key /\ job'[t].req = job[t].req
  BY GotoShape DEF GrantCheck, IInv
<1>3. job[t].req \in Requests /\ AskFits(t) /\ job[t].at = "media"
  BY Held DEF GrantCheck, At, IInv, RInv, AskedOK, Fits, RequestSteps
<1>4. WriteFits(t)'
  BY <1>1, <1>2, <1>3, FoundApproval DEF WriteFits, LineWrites, AfterMedia, Fewer
<1>5. AskFits(t)'
  BY <1>1, <1>2, <1>3 DEF AskFits, ApproveSteps, AfterMedia, Fewer, pairVars
<1>6. TrustFits(t)'
  BY <1>2 DEF TrustFits, TrustSteps, AfterMedia
<1> QED BY <1>1, <1>2, <1>4, <1>5, <1>6, CheckStep


LEMMA SshCheckSafe == ASSUME IInv, RInv, NEW t \in Threads, SshCheck(t) PROVE RInv'
<1> DEFINE held == HoldsApproval(job[t].dev, job[t].req)
           next == IF held THEN "ssh.write" ELSE "grant"
<1>1. Fewer /\ job[t].at \notin ToLines
  BY DEF SshCheck, At, Fewer, credVars, ToLines
<1>2. /\ Others(t) /\ job'[t].at = next /\ job'[t].dev = job[t].dev
      /\ job'[t].key = job[t].key /\ job'[t].req = job[t].req
  <2>1. job' = [job EXCEPT ![t] = [job[t] EXCEPT !.at = next, !.ok = held]] /\ job \in [Threads -> Job]
    BY DEF SshCheck, IInv, JobsOK
  <2>2. job'[t] = [job[t] EXCEPT !.at = next, !.ok = held] /\ job[t] \in Job
    BY <2>1
  <2>3. Others(t)
    BY <2>1 DEF Others
  <2> QED BY <2>2, <2>3 DEF Job
<1>3. job[t].req \in Requests /\ job[t].key \in Keys /\ AskFits(t) /\ job[t].at = "ssh"
  BY Held DEF SshCheck, At, IInv, RInv, AskedOK, Fits, RequestSteps, KeySteps
<1>4. WriteFits(t)'
  BY <1>1, <1>2, <1>3, FoundApproval DEF WriteFits, LineWrites, Fewer
<1>5. AskFits(t)'
  BY <1>1, <1>2, <1>3 DEF AskFits, ApproveSteps, Fewer, pairVars
<1>6. TrustFits(t)'
  <2>1. RowTrusted(job[t].req)
    BY <1>3 DEF RInv, TrustOK
  <2>2. held => job[t].dev \in trusted
    BY <1>3, <2>1 DEF RowTrusted, HoldsApproval, Standing, AskFits, ApproveSteps
  <2> QED BY <1>1, <1>2, <2>2 DEF TrustFits, TrustSteps, Fewer
<1> QED BY <1>1, <1>2, <1>4, <1>5, <1>6, CheckStep


LEMMA PutGrantSafe == ASSUME IInv, RInv, NEW t \in Threads, PutGrant(t) PROVE RInv'
<1>1. Fewer /\ job[t].at \notin ToLines
  BY DEF PutGrant, At, Fewer, credVars, ToLines
<1>2. CASE Granted(job[t].dev)
  <2>1. Others(t) /\ job'[t].at = "put.write" /\ job'[t].dev = job[t].dev
    BY <1>2, GotoShape DEF PutGrant, IInv
  <2>2. WriteFits(t)'
    BY <1>1, <1>2, <2>1, FoundTerminal DEF WriteFits, LineWrites, Fewer
  <2>3. AskFits(t)' /\ TrustFits(t)'
    BY <1>1, <1>2, <2>1, FoundTerminal DEF AskFits, ApproveSteps, TrustFits, Fewer
  <2> QED BY <1>1, <2>1, <2>2, <2>3, CheckStep
<1>3. CASE ~(Granted(job[t].dev))
  <2>1. Others(t) /\ Plain(job'[t].at)
    BY <1>3, EndsShape DEF PutGrant, Plain, IInv
  <2> QED BY <1>1, <2>1, QuietStep
<1> QED BY <1>2, <1>3


LEMMA PermitCredSafe == ASSUME IInv, RInv, NEW t \in Threads, PermitCred(t) PROVE RInv'
<1>1. Fewer /\ job[t].at \notin ToLines
  BY DEF PermitCred, At, Fewer, credVars, ToLines
<1>2. CASE HasCredential(job[t].dev)
  <2>1. Others(t) /\ job'[t].at = "permit.write" /\ job'[t].dev = job[t].dev
    BY <1>2, GotoShape DEF PermitCred, IInv
  <2>2. WriteFits(t)'
    <3>1. HasCredential(job[t].dev)
      BY <1>2
    <3>2. job[t].dev \in cleared => Cleaning(job[t].dev, ToBio)' /\ Cleaning(job[t].dev, ToPush)'
                                   /\ Cleaning(job[t].dev, ToLines)'
      BY <1>1, <2>1, <3>1, FoundCredential
    <3> QED BY <1>1, <2>1, <3>2 DEF WriteFits, LineWrites, Fewer
  <2>3. AskFits(t)' /\ TrustFits(t)'
    BY <1>1, <2>1 DEF AskFits, ApproveSteps, TrustFits, TrustSteps, Fewer, PermitCred, At, RInv, TrustOK
  <2> QED BY <1>1, <2>1, <2>2, <2>3, CheckStep
<1>3. CASE ~(HasCredential(job[t].dev))
  <2>1. Others(t) /\ Plain(job'[t].at)
    BY <1>3, EndsShape DEF PermitCred, Plain, IInv
  <2> QED BY <1>1, <2>1, QuietStep
<1> QED BY <1>2, <1>3


LEMMA MoveCheckSafe == ASSUME IInv, RInv, NEW t \in Threads, MoveCheck(t) PROVE RInv'
<1>1. Fewer /\ job[t].at \notin ToLines
  BY DEF MoveCheck, At, Fewer, credVars, ToLines
<1>2. CASE MayMove(job[t].other, job[t].dev)
  <2>1. Others(t) /\ job'[t].at = "move.write" /\ job'[t].dev = job[t].dev
    BY <1>2, GotoShape DEF MoveCheck, IInv
  <2>2. WriteFits(t)'
    <3>1. HasCredential(job[t].dev)
      BY <1>2 DEF MayMove
    <3>2. job[t].dev \in cleared => Cleaning(job[t].dev, ToBio)' /\ Cleaning(job[t].dev, ToPush)'
                                   /\ Cleaning(job[t].dev, ToLines)'
      BY <1>1, <2>1, <3>1, FoundCredential
    <3> QED BY <1>1, <2>1, <3>2 DEF WriteFits, LineWrites, Fewer
  <2>3. AskFits(t)' /\ TrustFits(t)'
    BY <2>1 DEF AskFits, ApproveSteps, TrustFits, TrustSteps
  <2> QED BY <1>1, <2>1, <2>2, <2>3, CheckStep
<1>3. CASE ~(MayMove(job[t].other, job[t].dev))
  <2>1. Others(t) /\ Plain(job'[t].at)
    BY <1>3, RetireShape DEF MoveCheck, Plain, IInv
  <2> QED BY <1>1, <2>1, QuietStep
<1> QED BY <1>2, <1>3


LEMMA GoodCredential ==
  ASSUME RInv, NEW t \in Threads, job[t].at \in {"sub.check", "enrol.check"}, Verifies(job[t].cred)
  PROVE  HasCredential(job[t].dev)
  BY DEF RInv, AskedOK, AskFits, HasCredential, CredsOf, Verifies


LEMMA SubCheckSafe == ASSUME IInv, RInv, NEW t \in Threads, SubCheck(t) PROVE RInv'
<1>1. Fewer /\ job[t].at \notin ToLines
  BY DEF SubCheck, At, Fewer, credVars, ToLines
<1>2. CASE Verifies(job[t].cred)
  <2>1. Others(t) /\ job'[t].at = "sub.write" /\ job'[t].dev = job[t].dev
    BY <1>2, GotoShape DEF SubCheck, IInv
  <2>2. WriteFits(t)'
    <3>1. HasCredential(job[t].dev)
      BY <1>2, GoodCredential DEF SubCheck, At
    <3>2. job[t].dev \in cleared => Cleaning(job[t].dev, ToBio)' /\ Cleaning(job[t].dev, ToPush)'
                                   /\ Cleaning(job[t].dev, ToLines)'
      BY <1>1, <2>1, <3>1, FoundCredential
    <3> QED BY <1>1, <2>1, <3>2 DEF WriteFits, LineWrites, Fewer
  <2>3. AskFits(t)' /\ TrustFits(t)'
    BY <2>1 DEF AskFits, ApproveSteps, TrustFits, TrustSteps
  <2> QED BY <1>1, <2>1, <2>2, <2>3, CheckStep
<1>3. CASE ~(Verifies(job[t].cred))
  <2>1. Others(t) /\ Plain(job'[t].at)
    BY <1>3, EndsShape DEF SubCheck, Plain, IInv
  <2> QED BY <1>1, <2>1, QuietStep
<1> QED BY <1>2, <1>3


LEMMA EnrolCheckSafe == ASSUME IInv, RInv, NEW t \in Threads, EnrolCheck(t) PROVE RInv'
<1>1. Fewer /\ job[t].at \notin ToLines
  BY DEF EnrolCheck, At, Fewer, credVars, ToLines
<1>2. CASE Verifies(job[t].cred)
  <2>1. Others(t) /\ job'[t].at = "enrol.write" /\ job'[t].dev = job[t].dev
    BY <1>2, GotoShape DEF EnrolCheck, IInv
  <2>2. WriteFits(t)'
    <3>1. HasCredential(job[t].dev)
      BY <1>2, GoodCredential DEF EnrolCheck, At
    <3>2. job[t].dev \in cleared => Cleaning(job[t].dev, ToBio)' /\ Cleaning(job[t].dev, ToPush)'
                                   /\ Cleaning(job[t].dev, ToLines)'
      BY <1>1, <2>1, <3>1, FoundCredential
    <3> QED BY <1>1, <2>1, <3>2 DEF WriteFits, LineWrites, Fewer
  <2>3. AskFits(t)' /\ TrustFits(t)'
    BY <2>1 DEF AskFits, ApproveSteps, TrustFits, TrustSteps
  <2> QED BY <1>1, <2>1, <2>2, <2>3, CheckStep
<1>3. CASE ~(Verifies(job[t].cred))
  <2>1. Others(t) /\ Plain(job'[t].at)
    BY <1>3, EndsShape DEF EnrolCheck, Plain, IInv
  <2> QED BY <1>1, <2>1, QuietStep
<1> QED BY <1>2, <1>3


LEMMA SubscribeSafe == ASSUME IInv, RInv, NEW w \in Workers, NEW c \in Creds, Subscribe(w, c) PROVE RInv'
<1>1. w \in Threads
  BY DEF Threads
<1>2. /\ Others(w) /\ job[w].at = "idle" /\ job'[w].at = "sub.check"
      /\ job'[w].dev = Of(c) /\ job'[w].cred = c
  BY <1>1, BeginShape DEF Subscribe, IInv
<1>3. Fewer
  BY DEF Subscribe, Fewer, credVars
<1>4. WriteFits(w)' /\ AskFits(w)' /\ TrustFits(w)'
  BY <1>2 DEF WriteFits, LineWrites, AskFits, ApproveSteps, TrustFits, TrustSteps
<1> QED BY <1>1, <1>2, <1>3, <1>4, CheckStep DEF ToLines


LEMMA EnrolSafe == ASSUME IInv, RInv, NEW c \in Creds, Enrol(c) PROVE RInv'
<1>1. "loop" \in Threads
  BY DEF Threads
<1>2. /\ Others("loop") /\ job["loop"].at = "idle" /\ job'["loop"].at = "enrol.check"
      /\ job'["loop"].dev = Of(c) /\ job'["loop"].cred = c
  BY <1>1, BeginShape DEF Enrol, IInv
<1>3. Fewer
  BY DEF Enrol, Fewer, credVars
<1>4. WriteFits("loop")' /\ AskFits("loop")' /\ TrustFits("loop")'
  BY <1>2 DEF WriteFits, LineWrites, AskFits, ApproveSteps, TrustFits, TrustSteps
<1> QED BY <1>1, <1>2, <1>3, <1>4, CheckStep DEF ToLines


-----------------------------------------------------------------------------
(* The writes that follow a check *)

LEMMA GrantWriteSafe == ASSUME IInv, RInv, NEW t \in Threads, GrantWrite(t) PROVE RInv'
<1>1. /\ Others(t) /\ job'[t].at = AfterMedia(job[t].key) /\ job'[t].dev = job[t].dev
      /\ job'[t].key = job[t].key /\ job'[t].req = job[t].req
  BY GotoShape DEF GrantWrite, IInv
<1>2. job[t].at = "media.write" /\ job[t].at \notin ToLines
  BY DEF GrantWrite, At, ToLines
<1>3. ASSUME NEW d \in cleared PROVE Swept(d)'
  <2>1. Swept(d) /\ StillCleaning(d)
    BY <1>1, <1>2, CleaningStays DEF RInv, SweptOK
  <2>2. CASE d = job[t].dev
    <3>1. Cleaning(d, ToDeny)
      BY <1>2, <2>2 DEF RInv, WritesOK, WriteFits
    <3> QED BY <2>1, <3>1 DEF GrantWrite, Swept, StillCleaning, pairVars, credVars, ApprovalsOf,
              HoldsApproval, Standing, HasCredential, CredsOf, Verifies, LinesOf
  <2>3. CASE d # job[t].dev
    <3>1. allowed'[d] = allowed[d]
      BY <2>3 DEF GrantWrite, IInv, StoresOK
    <3>2. NoMore(d)
      BY <3>1 DEF GrantWrite, NoMore, pairVars, credVars, HoldsApproval, Standing, HasCredential,
                  CredsOf, Verifies, LinesOf
    <3> QED BY <2>1, <3>2, SweptKept
  <2> QED BY <2>2, <2>3
<1>4. WriteFits(t)' /\ TrustFits(t)'
  BY <1>1 DEF WriteFits, LineWrites, TrustFits, TrustSteps, AfterMedia
<1>5. AskFits(t)'
  BY <1>1, <1>2 DEF RInv, AskedOK, AskFits, ApproveSteps, AfterMedia, GrantWrite, pairVars
<1>6. LinesGranted'
  BY DEF RInv, TrustOK, LinesGranted, GrantWrite
<1> QED BY <1>1, <1>2, <1>3, <1>4, <1>5, <1>6, JobStep DEF GrantWrite

\* A line is written for the device whose line was checked, under the lock of the file.
LEMMA LineWriteStep ==
  ASSUME IInv, RInv, NEW t \in Threads, Others(t), job[t].at \in LineWrites,
         UNCHANGED <<pairVars, credVars, allowed, push, bio, cleared>>, trusted \subseteq trusted',
         \A l \in lines' : l \in lines \/ (l.owner = job[t].dev /\ l.owner \in trusted'),
         WriteFits(t)', AskFits(t)', TrustFits(t)'
  PROVE  RInv'
<1>1. job[t].at \notin ToLines
  BY DEF LineWrites, ToLines
<1>2. ASSUME NEW d \in cleared PROVE Swept(d)'
  <2>1. Swept(d) /\ StillCleaning(d)
    BY <1>1, CleaningStays DEF RInv, SweptOK
  <2>2. CASE d = job[t].dev
    <3>1. Cleaning(d, ToLines)
      BY <2>2 DEF RInv, WritesOK, WriteFits
    <3> QED BY <2>1, <3>1 DEF Swept, StillCleaning, pairVars, credVars, ApprovalsOf,
              HoldsApproval, Standing, HasCredential, CredsOf, Verifies, LinesOf
  <2>3. CASE d # job[t].dev
    <3>1. LinesOf(d)' \subseteq LinesOf(d)
      BY <2>3 DEF LinesOf
    <3>2. NoMore(d)
      BY <3>1 DEF NoMore, pairVars, credVars, HoldsApproval, Standing, HasCredential, CredsOf, Verifies
    <3> QED BY <2>1, <3>2, SweptKept
  <2> QED BY <2>2, <2>3
<1>3. LinesGranted'
  BY DEF RInv, TrustOK, LinesGranted
<1> QED BY <1>1, <1>2, <1>3, JobStep

LEMMA ReplacedLines ==
  ASSUME NEW d, NEW k, NEW from, NEW l \in Replaced(d, k, from) PROVE l \in lines \/ l.owner = d
  BY DEF Replaced

LEMMA SshWriteSafe == ASSUME IInv, RInv, NEW t \in Threads, SshWrite(t) PROVE RInv'
<1> DEFINE mine == OwnersOf(job[t].key) \subseteq {job[t].dev}
<1>1. /\ Others(t) /\ job'[t].at = "grant" /\ job'[t].dev = job[t].dev
      /\ job'[t].key = job[t].key /\ job'[t].req = job[t].req
  <2>1. job' = [job EXCEPT ![t] = [job[t] EXCEPT !.at = "grant", !.ok = mine]] /\ job \in [Threads -> Job]
    BY DEF SshWrite, IInv, JobsOK
  <2>2. job'[t] = [job[t] EXCEPT !.at = "grant", !.ok = mine] /\ job[t] \in Job
    BY <2>1
  <2>3. Others(t)
    BY <2>1 DEF Others
  <2> QED BY <2>2, <2>3 DEF Job
<1>2. job[t].at = "ssh.write" /\ job[t].at \in LineWrites /\ job[t].dev \in trusted
  BY DEF SshWrite, At, LineWrites, RInv, TrustOK, TrustFits, TrustSteps
<1>3. \A l \in lines' : l \in lines \/ (l.owner = job[t].dev /\ l.owner \in trusted')
  BY <1>2 DEF SshWrite
<1>4. WriteFits(t)' /\ TrustFits(t)'
  BY <1>1 DEF WriteFits, LineWrites, TrustFits, TrustSteps
<1>5. AskFits(t)'
  BY <1>1, <1>2 DEF RInv, AskedOK, AskFits, ApproveSteps, SshWrite, pairVars
<1> QED BY <1>1, <1>2, <1>3, <1>4, <1>5, LineWriteStep DEF SshWrite

LEMMA PutWriteSafe == ASSUME IInv, RInv, NEW t \in Threads, PutWrite(t) PROVE RInv'
<1>1. Others(t) /\ job'[t].at = "idle"
  BY EndsShape DEF PutWrite, IInv
<1>2. job[t].at \in LineWrites /\ job[t].dev \in trusted
  BY DEF PutWrite, At, LineWrites, RInv, TrustOK, TrustFits, TrustSteps
<1>3. \A l \in lines' : l \in lines \/ (l.owner = job[t].dev /\ l.owner \in trusted')
  BY <1>2, ReplacedLines DEF PutWrite
<1>4. WriteFits(t)' /\ AskFits(t)' /\ TrustFits(t)'
  BY <1>1 DEF WriteFits, LineWrites, AskFits, ApproveSteps, TrustFits, TrustSteps
<1> QED BY <1>1, <1>2, <1>3, <1>4, LineWriteStep DEF PutWrite

LEMMA PermitWriteSafe == ASSUME IInv, RInv, NEW t \in Threads, PermitWrite(t) PROVE RInv'
<1>1. Others(t) /\ (job'[t].at = "idle" \/ (job'[t].at = "permit.grant" /\ job'[t].dev = job[t].dev))
  BY EndsShape, GotoShape DEF PermitWrite, IInv
<1>2. job[t].at \in LineWrites /\ job[t].dev \in trusted
  BY DEF PermitWrite, At, LineWrites, RInv, TrustOK, TrustFits, TrustSteps
<1>3. \A l \in lines' : l \in lines \/ (l.owner = job[t].dev /\ l.owner \in trusted')
  BY <1>2, ReplacedLines DEF PermitWrite
<1>4. WriteFits(t)' /\ AskFits(t)' /\ TrustFits(t)'
  BY <1>1, <1>2 DEF WriteFits, LineWrites, AskFits, ApproveSteps, TrustFits, TrustSteps, PermitWrite
<1> QED BY <1>1, <1>2, <1>3, <1>4, LineWriteStep DEF PermitWrite

\* The line an older identity had was granted to it, and so it is to the newer one.
LEMMA MoveWriteSafe == ASSUME IInv, RInv, NEW t \in Threads, MoveWrite(t) PROVE RInv'
<1>1. job[t].at \in LineWrites
  BY DEF MoveWrite, At, LineWrites
<1>2. CASE job[t].other \in OwnersOf(job[t].key)
  <2>1. Others(t) /\ job'[t].at = "move.grant" /\ job'[t].dev = job[t].dev
    BY <1>2, GotoShape DEF MoveWrite, IInv
  <2>2. job[t].other \in trusted
    BY <1>2 DEF OwnersOf, RInv, TrustOK, LinesGranted
  <2>3. job[t].dev \in trusted' /\ trusted \subseteq trusted'
    BY <1>2, <2>2 DEF MoveWrite
  <2>4. \A l \in lines' : l \in lines \/ (l.owner = job[t].dev /\ l.owner \in trusted')
    BY <1>2, <2>3, ReplacedLines DEF MoveWrite
  <2>5. WriteFits(t)' /\ AskFits(t)' /\ TrustFits(t)'
    BY <2>1, <2>3 DEF WriteFits, LineWrites, AskFits, ApproveSteps, TrustFits, TrustSteps
  <2> QED BY <1>1, <2>1, <2>3, <2>4, <2>5, LineWriteStep DEF MoveWrite
<1>3. CASE job[t].other \notin OwnersOf(job[t].key)
  <2>1. Others(t) /\ Plain(job'[t].at)
    BY <1>3, RetireShape DEF MoveWrite, Plain, IInv
  <2>2. Fewer
    BY <1>3 DEF MoveWrite, Fewer, credVars
  <2> QED BY <1>1, <2>1, <2>2, QuietStep DEF LineWrites, ToLines
<1> QED BY <1>2, <1>3


LEMMA SubWriteSafe == ASSUME IInv, RInv, NEW t \in Threads, SubWrite(t) PROVE RInv'
<1>1. Others(t) /\ job'[t].at = "idle"
  BY EndsShape DEF SubWrite, IInv
<1>2. job[t].at = "sub.write" /\ job[t].at \notin ToLines
  BY DEF SubWrite, At, ToLines
<1>3. ASSUME NEW d \in cleared PROVE Swept(d)'
  <2>1. Swept(d) /\ StillCleaning(d)
    BY <1>1, <1>2, CleaningStays DEF RInv, SweptOK
  <2>2. CASE d = job[t].dev
    <3>1. Cleaning(d, ToPush)
      BY <1>2, <2>2 DEF RInv, WritesOK, WriteFits
    <3> QED BY <2>1, <3>1 DEF SubWrite, Swept, StillCleaning, pairVars, credVars, ApprovalsOf,
              HoldsApproval, Standing, HasCredential, CredsOf, Verifies, LinesOf
  <2>3. CASE d # job[t].dev
    <3>1. NoMore(d)
      BY <2>3 DEF SubWrite, NoMore, pairVars, credVars, HoldsApproval, Standing, HasCredential,
                  CredsOf, Verifies, LinesOf
    <3> QED BY <2>1, <3>1, SweptKept
  <2> QED BY <2>2, <2>3
<1>4. WriteFits(t)' /\ AskFits(t)' /\ TrustFits(t)'
  BY <1>1 DEF WriteFits, LineWrites, AskFits, ApproveSteps, TrustFits, TrustSteps
<1>5. LinesGranted'
  BY DEF RInv, TrustOK, LinesGranted, SubWrite
<1> QED BY <1>1, <1>2, <1>3, <1>4, <1>5, JobStep DEF SubWrite


LEMMA EnrolWriteSafe == ASSUME IInv, RInv, NEW t \in Threads, EnrolWrite(t) PROVE RInv'
<1>1. Others(t) /\ job'[t].at = "idle"
  BY EndsShape DEF EnrolWrite, IInv
<1>2. job[t].at = "enrol.write" /\ job[t].at \notin ToLines
  BY DEF EnrolWrite, At, ToLines
<1>3. ASSUME NEW d \in cleared PROVE Swept(d)'
  <2>1. Swept(d) /\ StillCleaning(d)
    BY <1>1, <1>2, CleaningStays DEF RInv, SweptOK
  <2>2. CASE d = job[t].dev
    <3>1. Cleaning(d, ToBio)
      BY <1>2, <2>2 DEF RInv, WritesOK, WriteFits
    <3> QED BY <2>1, <3>1 DEF EnrolWrite, Swept, StillCleaning, pairVars, credVars, ApprovalsOf,
              HoldsApproval, Standing, HasCredential, CredsOf, Verifies, LinesOf
  <2>3. CASE d # job[t].dev
    <3>1. NoMore(d)
      BY <2>3 DEF EnrolWrite, NoMore, pairVars, credVars, HoldsApproval, Standing, HasCredential,
                  CredsOf, Verifies, LinesOf
    <3> QED BY <2>1, <3>1, SweptKept
  <2> QED BY <2>2, <2>3
<1>4. WriteFits(t)' /\ AskFits(t)' /\ TrustFits(t)'
  BY <1>1 DEF WriteFits, LineWrites, AskFits, ApproveSteps, TrustFits, TrustSteps
<1>5. LinesGranted'
  BY DEF RInv, TrustOK, LinesGranted, EnrolWrite
<1> QED BY <1>1, <1>2, <1>3, <1>4, <1>5, JobStep DEF EnrolWrite


LEMMA PermitSafe == ASSUME IInv, RInv, NEW d \in Devices, Permit(d) PROVE RInv'
<1>1. "local" \in Threads
  BY DEF Threads
<1>2. /\ Others("local") /\ job["local"].at = "idle" /\ job'["local"].at = "permit.cred"
      /\ job'["local"].dev = d
  BY <1>1, BeginShape DEF Permit, IInv
<1>3. \A e \in cleared : NoMore(e) /\ StillCleaning(e)
  BY <1>1, <1>2, CleaningStays DEF Permit, NoMore, pairVars, credVars, HoldsApproval, Standing,
     HasCredential, CredsOf, Verifies, LinesOf, ToLines
<1>4. \A e \in cleared : Swept(e)'
  BY <1>3, SweptKept DEF RInv, SweptOK
<1>5. LinesGranted' /\ d \in trusted' /\ trusted \subseteq trusted'
  BY DEF Permit, RInv, TrustOK, LinesGranted
<1>6. WriteFits("local")' /\ AskFits("local")' /\ TrustFits("local")'
  BY <1>2, <1>5 DEF WriteFits, LineWrites, AskFits, ApproveSteps, TrustFits, TrustSteps
<1> QED BY <1>1, <1>2, <1>4, <1>5, <1>6, JobStep DEF Permit, ToLines

-----------------------------------------------------------------------------
(* Credentials *)

LEMMA MintedFor ==
  ASSUME NEW d, Mint(d), NEW e, HasCredential(e)'
  PROVE  e = d \/ HasCredential(e)
  BY DEF Mint, HasCredential, CredsOf, Verifies, Of

\* An approval that is there to claim is that of a device not revoked.
LEMMA ClaimSafe == ASSUME IInv, RInv, NEW r \in Requests, Claim(r) PROVE RInv'
<1>1. "loop" \in Threads /\ Of(r) \notin cleared
  BY FoundApproval DEF Threads, Claim, HoldsApproval, Standing
<1>2. /\ Others("loop") /\ job["loop"].at = "idle" /\ job'["loop"].at = "claim.write"
      /\ job'["loop"].req = r
  BY <1>1, BeginShape DEF Claim, IInv
<1>3. \A e \in cleared : NoMore(e) /\ StillCleaning(e)
  BY <1>1, <1>2, CleaningStays, MintedFor DEF Claim, NoMore, pairVars, HoldsApproval, Standing,
     LinesOf, ToLines
<1>4. \A e \in cleared : Swept(e)'
  BY <1>3, SweptKept DEF RInv, SweptOK
<1>5. WriteFits("loop")' /\ AskFits("loop")' /\ TrustFits("loop")'
  BY <1>2 DEF WriteFits, LineWrites, AskFits, ApproveSteps, TrustFits, TrustSteps, Claim, pairVars
<1>6. LinesGranted'
  BY DEF RInv, TrustOK, LinesGranted, Claim
<1> QED BY <1>1, <1>2, <1>4, <1>5, <1>6, JobStep DEF Claim, ToLines

\* A device that could renew had a credential that worked.
LEMMA RenewSafe == ASSUME IInv, RInv, NEW c \in Creds, Renew(c) PROVE RInv'
<1>1. HasCredential(Of(c))
  BY DEF Renew, HasCredential, CredsOf, Verifies
<1>2. \A e \in cleared : NoMore(e)
  BY <1>1, MintedFor DEF Renew, NoMore, pairVars, HoldsApproval, Standing, LinesOf
<1> QED BY <1>2, StillStep DEF Renew

LEMMA PurgeCredsSafe == ASSUME IInv, RInv, NEW t \in Threads, PurgeCreds(t) PROVE RInv'
<1>1. Others(t) /\ Plain(job'[t].at)
  BY GotoShape, EndsShape DEF PurgeCreds, Plain, IInv
<1>2. job[t].at \notin ToLines
  BY DEF PurgeCreds, At, ToLines
<1>3. ASSUME NEW e \in cleared PROVE NoMore(e) /\ StillCleaning(e)
  <2>1. HasCredential(e)' => HasCredential(e)
    BY DEF PurgeCreds, HasCredential, CredsOf, Verifies
  <2> QED BY <1>1, <1>2, <2>1, CleaningStays DEF PurgeCreds, NoMore, pairVars, HoldsApproval, Standing,
     LinesOf
<1>4. \A e \in cleared : Swept(e)'
  BY <1>3, SweptKept DEF RInv, SweptOK
<1>5. WriteFits(t)' /\ AskFits(t)' /\ TrustFits(t)'
  BY <1>1 DEF Plain, WriteFits, LineWrites, AskFits, ApproveSteps, TrustFits, TrustSteps
<1>6. LinesGranted'
  BY DEF RInv, TrustOK, LinesGranted, PurgeCreds
<1> QED BY <1>1, <1>2, <1>4, <1>5, <1>6, JobStep DEF PurgeCreds

-----------------------------------------------------------------------------
(* The approvals file *)

\* What a transaction of the file does to a request that was there: it goes, or stays with
\* its key and is not pending again.
RowMoves(r) ==
  \/ rows'[r] = NoRow \/ rows'[r] = rows[r]
  \/ /\ rows[r].status # "none" /\ rows'[r].key = rows[r].key
     /\ rows'[r].status = "pending" => rows[r].status = "pending"

\* The job of every thread stays, and is not at a claim, or fits what it is at then.
JobsFit == \A u \in Threads : \/ job'[u] = job[u] /\ job[u].at # "claim.write"
                              \/ WriteFits(u)' /\ AskFits(u)' /\ TrustFits(u)'
RowsFit ==
  /\ \A d \in Devices : asked'[d] \in Nat /\ asked[d] <= asked'[d]
  /\ \A r \in Requests : RowFits(r)' /\ RowTrusted(r)' /\ (r[2] <= asked[Of(r)] => RowMoves(r))
NoneApproved == \A d \in cleared' : \A r \in Requests : HoldsApproval(d, r)' => HoldsApproval(d, r)

LEMMA RowsStep ==
  ASSUME IInv, RInv, JobsFit, RowsFit, NoneApproved,
         UNCHANGED <<issued, revoked, allowed, lines, push, bio>>,
         cleared' \subseteq cleared, trusted \subseteq trusted',
         \A d : StillCleaning(d)
  PROVE  RInv'
<1> USE DEF JobsFit, RowsFit, NoneApproved
<1>1. ASSUME NEW d \in cleared' PROVE Swept(d)'
  <2>1. NoMore(d)
    BY DEF NoMore, HasCredential, CredsOf, Verifies, LinesOf
  <2> QED BY <2>1, SweptKept DEF RInv, SweptOK
<1>2. ASSUME NEW u \in Threads, job'[u] = job[u], job[u].at # "claim.write"
      PROVE  WriteFits(u)' /\ AskFits(u)' /\ TrustFits(u)'
  <2>1. WriteFits(u) /\ AskFits(u) /\ TrustFits(u)
    BY DEF RInv, WritesOK, AskedOK, TrustOK
  <2>2. WriteFits(u)'
    BY <1>2, <2>1 DEF WriteFits, StillCleaning
  <2>3. TrustFits(u)'
    BY <1>2, <2>1 DEF TrustFits
  <2>4. ASSUME job[u].at \in ApproveSteps
        PROVE  /\ Of(job[u].req) = job[u].dev /\ job[u].req[2] <= asked'[job[u].dev]
               /\ rows'[job[u].req].status # "pending"
               /\ rows'[job[u].req].status # "none" => rows'[job[u].req].key = job[u].key
    <3>1. job[u].req \in Requests /\ job[u].dev \in Devices
      BY <2>4, Held DEF IInv, Fits, RequestSteps, ApproveSteps
    <3>2. /\ Of(job[u].req) = job[u].dev /\ job[u].req[2] <= asked[job[u].dev]
          /\ rows[job[u].req].status # "pending"
          /\ rows[job[u].req].status # "none" => rows[job[u].req].key = job[u].key
      BY <2>1, <2>4 DEF AskFits
    <3>3. RowMoves(job[u].req)
      BY <3>1, <3>2
    <3>4. job[u].req[2] <= asked'[job[u].dev]
      <4>1. job[u].req[2] \in Nat /\ asked[job[u].dev] \in Nat
        BY <3>1 DEF Requests, IInv, StoresOK
      <4> QED BY <3>1, <3>2, <4>1
    <3> QED BY <3>2, <3>3, <3>4 DEF RowMoves, NoRow
  <2>5. AskFits(u)'
    BY <1>2, <2>1, <2>4 DEF AskFits
  <2> QED BY <2>2, <2>3, <2>5
<1>3. ASSUME NEW u \in Threads PROVE WriteFits(u)' /\ AskFits(u)' /\ TrustFits(u)'
  BY <1>2
<1>4. SweptOK'
  BY <1>1 DEF SweptOK
<1>5. LinesGranted'
  BY DEF RInv, TrustOK, LinesGranted
<1> QED BY <1>3, <1>4, <1>5 DEF RInv, WritesOK, AskedOK, TrustOK

LEMMA PairRequestSafe ==
  ASSUME IInv, RInv, NEW d \in Devices, NEW k \in Keys \cup {NoKey}, NEW invited \in BOOLEAN,
         PairRequest(d, k, invited)
  PROVE  RInv'
<1> DEFINE n == asked[d] + 1
           new == <<d, n>>
<1>1. /\ asked' = [asked EXCEPT ![d] = n] /\ n \in 1..MaxRequests /\ asked \in [Devices -> 0..MaxRequests]
      /\ UNCHANGED <<issued, revoked, allowed, lines, push, bio, job, cleared, trusted>> /\ Free("pairing")
  BY DEF PairRequest, credVars, IInv, StoresOK
<1>2. \A r \in Requests : rows'[r] = IF r = new THEN [status |-> "pending", key |-> k, ssh |-> FALSE]
        ELSE IF ~invited /\ Of(r) = d /\ rows[r].status = "pending" THEN NoRow ELSE rows[r]
  BY <1>1 DEF PairRequest
<1>3. new \in Requests /\ Of(new) = d /\ new[2] = n
  BY <1>1 DEF Requests, Of
<1>4. \A e \in Devices : asked'[e] \in Nat /\ asked[e] <= asked'[e]
  BY <1>1
<1>5. \A r \in Requests : Of(r) \in Devices /\ r[2] \in Nat
  BY DEF Requests, Of
<1> HIDE DEF new
<1>6. ASSUME NEW r \in Requests, r[2] <= asked[Of(r)] PROVE RowMoves(r)
  <2>1. r # new
    BY <1>1, <1>3, <1>6
  <2> QED BY <1>2, <2>1 DEF RowMoves
<1>7. ASSUME NEW r \in Requests PROVE RowFits(r)' /\ RowTrusted(r)'
  <2>1. RowFits(r) /\ RowTrusted(r)
    BY DEF RInv, AskedOK, TrustOK
  <2>2. CASE r = new
    BY <1>1, <1>2, <1>3, <2>2 DEF RowFits, RowTrusted, Standing
  <2>3. CASE r # new
    <3>1. rows'[r] = rows[r] \/ rows'[r] = NoRow
      BY <1>2, <2>3
    <3>2. asked[Of(r)] <= asked'[Of(r)] /\ asked[Of(r)] \in Nat /\ asked'[Of(r)] \in Nat /\ r[2] \in Nat
      BY <1>1, <1>4, <1>5
    <3>3. RowFits(r)'
      BY <2>1, <3>1, <3>2 DEF RowFits, NoRow
    <3>4. RowTrusted(r)'
      BY <1>1, <2>1, <3>1 DEF RowTrusted, Standing, NoRow
    <3> QED BY <3>3, <3>4
  <2> QED BY <2>2, <2>3
<1>8. RowsFit
  BY <1>4, <1>6, <1>7 DEF RowsFit
<1>9. JobsFit
  BY <1>1, FreeLocks DEF JobsFit
<1>10. \A e : StillCleaning(e)
  BY <1>1, CleaningSame
<1>11. cleared' = cleared /\ trusted' = trusted /\ UNCHANGED <<issued, revoked, allowed, lines, push, bio>>
  BY <1>1
<1>12. NoneApproved
  BY <1>2 DEF NoneApproved, HoldsApproval, Standing, NoRow
<1> QED BY <1>8, <1>9, <1>10, <1>11, <1>12, RowsStep

\* A row that goes, or changes otherwise than to an approval, hands out nothing.
LEMMA LessStanding ==
  ASSUME IInv, RInv, UNCHANGED <<asked, trusted>>,
         \A r \in Requests : rows'[r] = NoRow \/ rows'[r] = rows[r]
  PROVE  RowsFit /\ NoneApproved
<1>1. \A r \in Requests : RowFits(r) /\ RowTrusted(r)
  BY DEF RInv, AskedOK, TrustOK
<1>2. ASSUME NEW r \in Requests PROVE RowFits(r)' /\ RowTrusted(r)' /\ RowMoves(r)
  <2>1. NoRow.status = "none"
    BY DEF NoRow
  <2>2. CASE rows'[r] = NoRow
    BY <2>1, <2>2 DEF RowFits, RowTrusted, Standing, RowMoves
  <2>3. CASE rows'[r] = rows[r]
    BY <1>1, <2>3 DEF RowFits, RowTrusted, Standing, RowMoves
  <2> QED BY <2>2, <2>3
<1>3. NoneApproved
  BY DEF NoneApproved, HoldsApproval, Standing, NoRow
<1>4. \A d \in Devices : asked'[d] \in Nat /\ asked[d] <= asked'[d]
  BY DEF IInv, StoresOK
<1> QED BY <1>2, <1>3, <1>4 DEF RowsFit

LEMMA ForgottenSafe == ASSUME IInv, RInv, NEW r \in Requests, Forgotten(r) PROVE RInv'
<1>1. \A q \in Requests : rows'[q] = NoRow \/ rows'[q] = rows[q]
  BY DEF Forgotten, IInv, StoresOK
<1>2. JobsFit
  BY FreeLocks DEF Forgotten, JobsFit
<1>3. \A e : StillCleaning(e)
  BY CleaningSame DEF Forgotten
<1>4. UNCHANGED <<asked, issued, revoked, allowed, lines, push, bio, cleared, trusted>>
  BY DEF Forgotten, credVars
<1> QED BY <1>1, <1>2, <1>3, <1>4, LessStanding, RowsStep

LEMMA PurgeForgetSafe == ASSUME IInv, RInv, NEW t \in Threads, PurgeForget(t) PROVE RInv'
<1>1. \A q \in Requests : rows'[q] = NoRow \/ rows'[q] = rows[q]
  BY DEF PurgeForget, Without
<1>2. Others(t) /\ job'[t].at = "purge.push"
  BY GotoShape DEF PurgeForget, IInv
<1>3. WriteFits(t)' /\ AskFits(t)' /\ TrustFits(t)'
  BY <1>2 DEF WriteFits, LineWrites, AskFits, ApproveSteps, TrustFits, TrustSteps
<1>4. JobsFit
  BY <1>2, <1>3, FreeLocks DEF PurgeForget, Others, JobsFit
<1>5. \A e : StillCleaning(e)
  BY <1>2, CleaningStays DEF PurgeForget, At, ToLines
<1>6. UNCHANGED <<asked, issued, revoked, allowed, lines, push, bio, cleared, trusted>>
  BY DEF PurgeForget, credVars
<1> QED BY <1>1, <1>4, <1>5, <1>6, LessStanding, RowsStep

LEMMA ClaimWriteSafe == ASSUME IInv, RInv, NEW t \in Threads, ClaimWrite(t) PROVE RInv'
<1> DEFINE r == job[t].req
<1>1. r \in Requests /\ t = "loop" /\ rows[r].status = "approved" /\ job[t].at = "claim.write"
  BY Held DEF ClaimWrite, At, IInv, Fits, RequestSteps, RInv, AskedOK, AskFits
<1>2. Others(t) /\ job'[t].at = "idle"
  BY EndsShape DEF ClaimWrite, IInv
<1>3. /\ rows' = [rows EXCEPT ![r].status = "claimed"] /\ rows \in [Requests -> Row]
      /\ UNCHANGED <<asked, issued, revoked, allowed, lines, push, bio, cleared, trusted>>
  BY DEF ClaimWrite, IInv, StoresOK, credVars
<1> HIDE DEF r
<1>4. /\ \A q \in Requests : q # r => rows'[q] = rows[q]
      /\ rows'[r].status = "claimed" /\ rows'[r].key = rows[r].key /\ rows'[r].ssh = rows[r].ssh
  BY <1>1, <1>3 DEF Row
<1>5. WriteFits(t)' /\ AskFits(t)' /\ TrustFits(t)'
  BY <1>2 DEF WriteFits, LineWrites, AskFits, ApproveSteps, TrustFits, TrustSteps
<1>6. \A u \in Threads : u # t => job[u].at # "claim.write"
  BY <1>1 DEF RInv, AskedOK, AskFits
<1>7. JobsFit
  BY <1>2, <1>5, <1>6 DEF Others, JobsFit
<1>8. \A e : StillCleaning(e)
  BY <1>1, <1>2, CleaningStays DEF ToLines
<1>9. \A q \in Requests : RowMoves(q)
  BY <1>1, <1>4 DEF RowMoves
<1>10. \A q \in Requests : RowFits(q)' /\ RowTrusted(q)'
  BY <1>1, <1>3, <1>4 DEF RInv, AskedOK, TrustOK, RowFits, RowTrusted, Standing
<1>11. NoneApproved
  BY <1>1, <1>3, <1>4 DEF NoneApproved, HoldsApproval, Standing
<1>12. RowsFit
  BY <1>3, <1>9, <1>10 DEF RowsFit, IInv, StoresOK
<1> QED BY <1>3, <1>7, <1>8, <1>11, <1>12, RowsStep

\* What a thread records in an approval of a device that was trusted with a terminal.
LEMMA RecordStep ==
  ASSUME IInv, RInv, NEW t \in Threads, Others(t), job[t].at \notin ToLines, Free("pairing"),
         UNCHANGED <<asked, issued, revoked, allowed, lines, push, bio, cleared, trusted>>,
         NEW r \in Requests, NEW x \in BOOLEAN, rows' = [rows EXCEPT ![r].ssh = x],
         rows[r].status \notin {"none", "pending"}, Of(r) \in trusted \/ ~Standing(r),
         Plain(job'[t].at)
  PROVE  RInv'
<1>1. rows \in [Requests -> Row]
  BY DEF IInv, StoresOK
<1>2. /\ \A q \in Requests : q # r => rows'[q] = rows[q]
      /\ rows'[r].status = rows[r].status /\ rows'[r].key = rows[r].key
  BY <1>1 DEF Row
<1>3. WriteFits(t)' /\ AskFits(t)' /\ TrustFits(t)'
  BY DEF Plain, WriteFits, LineWrites, AskFits, ApproveSteps, TrustFits, TrustSteps
<1>4. JobsFit
  BY <1>3, FreeLocks DEF Others, JobsFit
<1>5. \A e : StillCleaning(e)
  BY CleaningStays
<1>6. \A q \in Requests : RowMoves(q)
  BY <1>2 DEF RowMoves
<1>7. \A q \in Requests : RowFits(q)' /\ RowTrusted(q)'
  BY <1>2 DEF RInv, AskedOK, TrustOK, RowFits, RowTrusted, Standing
<1>8. NoneApproved
  BY <1>2 DEF NoneApproved, HoldsApproval, Standing
<1>9. RowsFit
  BY <1>6, <1>7 DEF RowsFit, IInv, StoresOK
<1> QED BY <1>4, <1>5, <1>8, <1>9, RowsStep

LEMMA GrantRecordSafe == ASSUME IInv, RInv, NEW t \in Threads, GrantRecord(t) PROVE RInv'
<1> DEFINE r == job[t].req
<1>1. /\ r \in Requests /\ job[t].ok \in BOOLEAN /\ AskFits(t) /\ job[t].at = "grant"
      /\ job[t].at \notin ToLines
  BY Held DEF GrantRecord, At, IInv, Fits, RequestSteps, RInv, AskedOK, Job, ToLines
<1>2. Others(t) /\ Plain(job'[t].at)
  BY EndsShape DEF GrantRecord, Plain, IInv
<1>3. UNCHANGED <<asked, issued, revoked, allowed, lines, push, bio, cleared, trusted>> /\ Free("pairing")
  BY DEF GrantRecord, credVars
<1>4. CASE rows[r].status # "none" /\ job[t].key # NoKey
  <2>1. rows[r].status # "pending" /\ rows[r].key # NoKey
    BY <1>1, <1>4 DEF AskFits, ApproveSteps
  <2>2. Of(r) \in trusted \/ ~Standing(r)
    BY <1>1, <2>1 DEF RInv, TrustOK, RowTrusted
  <2>3. rows' = [rows EXCEPT ![r].ssh = job[t].ok]
    BY <1>4 DEF GrantRecord
  <2> QED BY <1>1, <1>2, <1>3, <1>4, <2>1, <2>2, <2>3, RecordStep
<1>5. CASE ~(rows[r].status # "none" /\ job[t].key # NoKey)
  <2>1. Fewer
    BY <1>3, <1>5 DEF GrantRecord, Fewer, pairVars
  <2> QED BY <1>1, <1>2, <2>1, QuietStep
<1> QED BY <1>4, <1>5

LEMMA RecordedStep ==
  ASSUME IInv, RInv, NEW t \in Threads, Others(t), job[t].at \notin ToLines, Free("pairing"),
         UNCHANGED <<asked, issued, revoked, allowed, lines, push, bio, cleared, trusted>>,
         NEW d \in trusted, Recorded(d), Plain(job'[t].at)
  PROVE  RInv'
<1>1. CASE UNCHANGED rows
  <2>1. Fewer
    BY <1>1 DEF Fewer, pairVars
  <2> QED BY <2>1, QuietStep
<1>2. ASSUME NEW r \in ApprovalsOf(d), rows' = [rows EXCEPT ![r].ssh = TRUE] PROVE RInv'
  <2>1. r \in Requests /\ Of(r) \in trusted /\ rows[r].status \notin {"none", "pending"}
    BY DEF ApprovalsOf, HoldsApproval, Standing
  <2> QED BY <1>2, <2>1, RecordStep
<1> QED BY <1>1, <1>2 DEF Recorded

LEMMA PermitRecordSafe == ASSUME IInv, RInv, NEW t \in Threads, PermitRecord(t) PROVE RInv'
<1>1. Others(t) /\ Plain(job'[t].at)
  BY EndsShape DEF PermitRecord, Plain, IInv
<1>2. job[t].dev \in trusted /\ job[t].at \notin ToLines
  BY DEF PermitRecord, At, RInv, TrustOK, TrustFits, TrustSteps, ToLines
<1>3. UNCHANGED <<asked, issued, revoked, allowed, lines, push, bio, cleared, trusted>>
  BY DEF PermitRecord, credVars
<1> QED BY <1>1, <1>2, <1>3, RecordedStep DEF PermitRecord

LEMMA MoveRecordSafe == ASSUME IInv, RInv, NEW t \in Threads, MoveRecord(t) PROVE RInv'
<1>1. Others(t) /\ Plain(job'[t].at)
  BY RetireShape DEF MoveRecord, Plain, IInv
<1>2. job[t].dev \in trusted /\ job[t].at \notin ToLines
  BY DEF MoveRecord, At, RInv, TrustOK, TrustFits, TrustSteps, ToLines
<1>3. UNCHANGED <<asked, issued, revoked, allowed, lines, push, bio, cleared, trusted>>
  BY DEF MoveRecord, credVars
<1> QED BY <1>1, <1>2, <1>3, RecordedStep DEF MoveRecord

\* The local decision: from here the device is no longer one that was revoked.
LEMMA ApproveSafe == ASSUME IInv, RInv, NEW r \in Requests, NEW remote \in BOOLEAN, Approve(r, remote) PROVE RInv'
<1> DEFINE d == Of(r)
           k == rows[r].key
           step == IF remote THEN "media" ELSE AfterMedia(k)
<1>1. "local" \in Threads /\ rows \in [Requests -> Row] /\ d \in Devices
  BY OfType DEF Threads, IInv, StoresOK
<1>2. /\ Others("local") /\ job["local"].at = "idle" /\ job'["local"].at = step
      /\ job'["local"].dev = d /\ job'["local"].key = k /\ job'["local"].req = r
  BY <1>1, BeginShape DEF Approve, IInv
<1>3. /\ UNCHANGED <<asked, issued, revoked, allowed, lines, push, bio>> /\ Free("pairing")
      /\ rows[r].status # "none" /\ cleared' \subseteq cleared /\ trusted \subseteq trusted'
  BY DEF Approve, credVars
<1>4. \A q \in Requests : RowFits(q) /\ RowTrusted(q)
  BY DEF RInv, AskedOK, TrustOK
<1>5. /\ \A q \in Requests : q # r => rows'[q] = rows[q]
      /\ rows'[r].key = k /\ rows'[r].ssh = rows[r].ssh /\ rows'[r].status \in {"approved", "claimed"}
  <2>1. CASE rows[r].status = "pending"
    <3>1. rows' = [rows EXCEPT ![r].status = "approved"]
      BY <2>1 DEF Approve
    <3> QED BY <1>1, <3>1 DEF Row
  <2>2. CASE rows[r].status # "pending"
    BY <2>2 DEF Approve
  <2> QED BY <2>1, <2>2
<1>6. RowTrusted(r)'
  <2>1. CASE rows[r].status = "pending"
    <3>1. k # NoKey => d \in trusted'
      BY <2>1 DEF Approve
    <3>2. rows[r].ssh = FALSE
      BY <1>4, <2>1 DEF RowFits
    <3> QED BY <1>5, <3>1, <3>2 DEF RowTrusted
  <2>2. CASE rows[r].status # "pending"
    <3>1. UNCHANGED <<rows, trusted>>
      BY <2>2 DEF Approve
    <3> QED BY <1>4, <3>1 DEF RowTrusted, Standing
  <2> QED BY <2>1, <2>2
<1>7. \A q \in Requests : RowFits(q)' /\ RowTrusted(q)'
  <2>1. ASSUME NEW q \in Requests, q # r PROVE RowFits(q)' /\ RowTrusted(q)'
    BY <1>3, <1>4, <1>5, <2>1 DEF RowFits, RowTrusted, Standing
  <2>2. RowFits(r)'
    BY <1>3, <1>4, <1>5 DEF RowFits
  <2> QED BY <1>6, <2>1, <2>2
<1>8. AskFits("local")'
  <2>1. step \in ApproveSteps
    BY DEF AfterMedia, ApproveSteps
  <2>2. r[2] <= asked[d]
    BY <1>3, <1>4 DEF RowFits
  <2> QED BY <1>2, <1>3, <1>5, <2>1, <2>2 DEF AskFits, ApproveSteps
<1>9. WriteFits("local")' /\ TrustFits("local")'
  BY <1>2 DEF AfterMedia, WriteFits, LineWrites, TrustFits, TrustSteps
<1>10. JobsFit
  BY <1>2, <1>3, <1>8, <1>9, FreeLocks DEF Others, JobsFit
<1>11. \A e : StillCleaning(e)
  BY <1>1, <1>2, CleaningStays DEF ToLines
<1>12. \A q \in Requests : RowMoves(q)
  BY <1>3, <1>5 DEF RowMoves
<1>13. ASSUME NEW e \in cleared', NEW q \in Requests, HoldsApproval(e, q)' PROVE HoldsApproval(e, q)
  <2>1. CASE rows[r].status = "pending"
    <3>1. e # d
      BY <2>1 DEF Approve
    <3> QED BY <1>5, <1>13, <3>1 DEF HoldsApproval, Standing
  <2>2. CASE rows[r].status # "pending"
    BY <1>13, <2>2 DEF Approve, HoldsApproval, Standing
  <2> QED BY <2>1, <2>2
<1>14. RowsFit
  BY <1>3, <1>7, <1>12 DEF RowsFit, IInv, StoresOK
<1>15. NoneApproved
  BY <1>13 DEF NoneApproved
<1> QED BY <1>3, <1>10, <1>11, <1>14, <1>15, RowsStep

-----------------------------------------------------------------------------
(* The steps of a revoke *)

\* The approvals go first: whatever is taken from here on is not granted again on their
\* account.
LEMMA ForgetSafe == ASSUME MaxFaults = 0, IInv, RInv, NEW t \in Threads, Forget(t) PROVE RInv'
<1> SUFFICES ASSUME NEW d, d = job[t].dev PROVE RInv'
  OBVIOUS
<1>1. rows' = Without(d)
  BY DEF Forget, Fails, IInv, StoresOK
<1>2. Others(t) /\ job'[t].at = "deny" /\ job'[t].dev = d
  BY GotoShape DEF Forget, IInv
<1>3. /\ UNCHANGED <<asked, issued, revoked, allowed, lines, push, bio, trusted>>
      /\ cleared' = cleared \cup {d} /\ Free("pairing") /\ job[t].at \notin ToLines
  BY DEF Forget, credVars, At, ToLines
<1>4. \A e : StillCleaning(e)
  BY <1>2, <1>3, CleaningStays
<1>5. /\ Cleaning(d, ToDeny)' /\ Cleaning(d, ToCreds)' /\ Cleaning(d, ToBio)'
      /\ Cleaning(d, ToPush)' /\ Cleaning(d, ToLines)'
  BY <1>2 DEF Cleaning, ToDeny, ToCreds, ToBio, ToPush, ToLines
<1>6. \A r \in Requests : rows'[r] = NoRow \/ rows'[r] = rows[r]
  BY <1>1 DEF Without
<1>7. RowsFit /\ \A e : \A r \in Requests : HoldsApproval(e, r)' => HoldsApproval(e, r) /\ e # d
  <2>1. \A e : \A r \in Requests : HoldsApproval(e, r)' => HoldsApproval(e, r) /\ e # d
    BY <1>1 DEF Without, HoldsApproval, Standing, NoRow
  <2> QED BY <1>3, <1>6, <2>1, LessStanding
<1>8. SweptOK'
  <2>1. Swept(d)'
    BY <1>5, <1>7 DEF Swept, ApprovalsOf
  <2>2. ASSUME NEW e \in cleared PROVE Swept(e)'
    <3>1. NoMore(e)
      BY <1>3, <1>7 DEF NoMore, HasCredential, CredsOf, Verifies, LinesOf
    <3> QED BY <1>4, <3>1, SweptKept DEF RInv, SweptOK
  <2> QED BY <1>3, <2>1, <2>2 DEF SweptOK
<1>9. ASSUME NEW u \in Threads PROVE WriteFits(u)'
  <2>1. CASE u = t
    BY <1>2, <2>1 DEF WriteFits, LineWrites
  <2>2. CASE u # t
    <3>1. job'[u] = job[u] /\ WriteFits(u)
      BY <1>2, <2>2 DEF Others, RInv, WritesOK
    <3> QED BY <1>3, <1>4, <1>5, <3>1 DEF WriteFits, StillCleaning
  <2> QED BY <2>1, <2>2
<1>10. ASSUME NEW u \in Threads PROVE AskFits(u)' /\ TrustFits(u)'
  <2>1. CASE u = t
    BY <1>2, <2>1 DEF AskFits, ApproveSteps, TrustFits, TrustSteps
  <2>2. CASE u # t
    <3>1. job'[u] = job[u] /\ AskFits(u) /\ TrustFits(u) /\ job[u].at # "claim.write"
      BY <1>2, <1>3, <2>2, FreeLocks DEF Others, RInv, AskedOK, TrustOK
    <3>2. job[u].at \in ApproveSteps => job[u].req \in Requests
      BY Held DEF IInv, Fits, RequestSteps, ApproveSteps
    <3>3. AskFits(u)'
      BY <1>3, <1>6, <3>1, <3>2 DEF AskFits, NoRow
    <3> QED BY <1>3, <3>1, <3>3 DEF TrustFits
  <2> QED BY <2>1, <2>2
<1>11. LinesGranted'
  BY <1>3 DEF RInv, TrustOK, LinesGranted
<1> QED BY <1>7, <1>8, <1>9, <1>10, <1>11 DEF RInv, WritesOK, AskedOK, TrustOK, RowsFit

LEMMA CleaningBy ==
  ASSUME NEW t \in Threads, NEW d, job'[t].dev = d, NEW S, job'[t].at \in S
  PROVE  Cleaning(d, S)'
  BY DEF Cleaning

\* A revoke that is not at one of these steps is none of those that keep them open.
LEMMA CleaningBesides ==
  ASSUME NEW t \in Threads, Others(t), NEW S, job[t].at \notin S
  PROVE  \A d : Cleaning(d, S) => Cleaning(d, S)'
  BY DEF Cleaning, Others

\* The approvals, and the trust, are as they were.
LEMMA RevokeStep ==
  ASSUME RInv, NEW t \in Threads, Others(t), Plain(job'[t].at),
         UNCHANGED <<pairVars, cleared>>, lines' \subseteq lines,
         LinesGranted', \A r \in Requests : RowTrusted(r)', \A u \in Threads \ {t} : TrustFits(u)',
         \A d \in cleared : Swept(d)',
         \A u \in Threads \ {t} : WriteFits(u)'
  PROVE  RInv'
<1>1. WriteFits(t)' /\ AskFits(t)' /\ TrustFits(t)'
  BY DEF Plain, WriteFits, LineWrites, AskFits, ApproveSteps, TrustFits, TrustSteps
<1>2. AskedOK'
  BY <1>1, AskKept DEF RInv
<1>3. SweptOK'
  BY DEF SweptOK
<1>4. WritesOK'
  BY <1>1 DEF WritesOK
<1>5. TrustOK'
  BY <1>1 DEF TrustOK
<1> QED BY <1>2, <1>3, <1>4, <1>5 DEF RInv

LEMMA TrustStays ==
  ASSUME RInv, NEW t \in Threads, Others(t), UNCHANGED <<rows, trusted>>, lines' \subseteq lines
  PROVE  /\ LinesGranted' /\ (\A r \in Requests : RowTrusted(r)')
         /\ \A u \in Threads \ {t} : TrustFits(u)'
  BY DEF RInv, TrustOK, LinesGranted, RowTrusted, Standing, TrustFits, Others


LEMMA DenySafe == ASSUME IInv, RInv, NEW t \in Threads, Deny(t) PROVE RInv'
<1> SUFFICES ASSUME NEW d, d = job[t].dev PROVE RInv'
  OBVIOUS
<1>1. Others(t) /\ job'[t].at = "creds" /\ job'[t].dev = d
  <2>1. PICK fin \in BOOLEAN : job' = [job EXCEPT ![t] = [job[t] EXCEPT !.at = "creds", !.ok = fin]]
    BY DEF Deny
  <2>2. job \in [Threads -> Job]
    BY DEF IInv, JobsOK
  <2>3. job'[t] = [job[t] EXCEPT !.at = "creds", !.ok = fin] /\ job[t] \in Job
    BY <2>1, <2>2
  <2>4. Others(t)
    BY <2>1, <2>2 DEF Others
  <2> QED BY <2>3, <2>4 DEF Job
<1>2. job[t].at = "deny" /\ Plain("creds")
  BY DEF Deny, At, Plain
<1>3. /\ UNCHANGED <<pairVars, cleared, trusted, lines, issued, revoked, bio, push>>
      /\ allowed'[d] # "yes" /\ \A e \in cleared : e # d => NoMore(e)
  <2>1. job[t].dev \in Devices
    BY Held DEF Deny, At, IInv
  <2>2. allowed' = [allowed EXCEPT ![d] = "no"] /\ allowed \in [Devices -> {"none", "yes", "no"}]
    BY DEF Deny, IInv, StoresOK
  <2>3. /\ UNCHANGED <<pairVars, cleared, trusted, lines, issued, revoked, bio, push>>
    BY DEF Deny, credVars
  <2>4. \A e \in cleared : e # d => NoMore(e)
    BY <2>1, <2>2, <2>3 DEF NoMore, pairVars, HoldsApproval, Standing, HasCredential, CredsOf, Verifies, LinesOf,
       IInv, StoresOK
  <2> QED BY <2>1, <2>2, <2>3, <2>4
<1>4. Cleaning(d, ToCreds)'
      /\ Cleaning(d, ToBio)'
      /\ Cleaning(d, ToPush)'
      /\ Cleaning(d, ToLines)'
  BY <1>1, CleaningBy DEF ToCreds, ToBio, ToPush, ToLines
<1>6. \A e : e # d => StillCleaning(e)
  BY <1>1, CleaningElse
<1>7. \A u \in Threads : job[u].at # "media.write"
  BY FreeLocks DEF Deny
<1>8. ASSUME NEW e \in cleared PROVE Swept(e)'
  <2>1. Swept(e)
    BY DEF RInv, SweptOK
  <2>2. CASE e = d
    BY <1>3, <1>4, <2>1, <2>2 DEF Swept, ApprovalsOf, HoldsApproval, Standing, pairVars,
              HasCredential, CredsOf, Verifies
  <2>3. CASE e # d
    BY <1>3, <1>6, <2>1, <2>3, SweptKept
  <2> QED BY <2>2, <2>3
<1>9. ASSUME NEW u \in Threads \ {t} PROVE WriteFits(u)'
  <2>1. job'[u] = job[u] /\ WriteFits(u)
    BY <1>1 DEF Others, RInv, WritesOK
  <2>2. CASE job[u].dev = d
    <3>1. job[u].dev \in cleared' => job[u].dev \in cleared
      BY <1>3
    <3> QED BY <1>4, <1>7, <2>1, <2>2, <3>1 DEF WriteFits
  <2>3. CASE job[u].dev # d
    BY <1>3, <1>6, <2>1, <2>3 DEF WriteFits, StillCleaning
  <2> QED BY <2>2, <2>3
<1>10. /\ LinesGranted' /\ (\A r \in Requests : RowTrusted(r)')
       /\ \A u \in Threads \ {t} : TrustFits(u)'
  BY <1>1, <1>3, TrustStays DEF pairVars
<1> QED BY <1>1, <1>2, <1>3, <1>8, <1>9, <1>10, RevokeStep

LEMMA RevokeCredsSafe == ASSUME IInv, RInv, NEW t \in Threads, RevokeCreds(t) PROVE RInv'
<1> SUFFICES ASSUME NEW d, d = job[t].dev PROVE RInv'
  OBVIOUS
<1>1. Others(t) /\ job'[t].at = "bio" /\ job'[t].dev = d
  BY GotoShape DEF RevokeCreds, IInv
<1>2. job[t].at = "creds" /\ Plain("bio")
  BY DEF RevokeCreds, At, Plain
<1>3. /\ UNCHANGED <<pairVars, cleared, trusted, lines, allowed, bio, push>>
      /\ ~HasCredential(d)' /\ \A e \in cleared : e # d => NoMore(e)
  <2>1. /\ UNCHANGED <<pairVars, cleared, trusted, lines, allowed, bio, push, issued>>
        /\ revoked' = revoked \cup CredsOf(d)
    BY DEF RevokeCreds
  <2>2. ~HasCredential(d)'
    BY <2>1 DEF HasCredential, CredsOf, Verifies
  <2>3. \A e \in cleared : e # d => NoMore(e)
    BY <2>1 DEF NoMore, pairVars, HoldsApproval, Standing, HasCredential, CredsOf, Verifies, LinesOf
  <2> QED BY <2>1, <2>2, <2>3
<1>4. Cleaning(d, ToBio)'
      /\ Cleaning(d, ToPush)'
      /\ Cleaning(d, ToLines)'
  BY <1>1, CleaningBy DEF ToBio, ToPush, ToLines
<1>5. /\ \A e : Cleaning(e, ToDeny) => Cleaning(e, ToDeny)'
  BY <1>1, <1>2, CleaningBesides DEF ToDeny
<1>6. \A e : e # d => StillCleaning(e)
  BY <1>1, CleaningElse
<1>8. ASSUME NEW e \in cleared PROVE Swept(e)'
  <2>1. Swept(e)
    BY DEF RInv, SweptOK
  <2>2. CASE e = d
    BY <1>3, <1>4, <1>5, <2>1, <2>2 DEF Swept, ApprovalsOf, HoldsApproval, Standing, pairVars,
              HasCredential, CredsOf, Verifies
  <2>3. CASE e # d
    BY <1>3, <1>6, <2>1, <2>3, SweptKept
  <2> QED BY <2>2, <2>3
<1>9. ASSUME NEW u \in Threads \ {t} PROVE WriteFits(u)'
  <2>1. job'[u] = job[u] /\ WriteFits(u)
    BY <1>1 DEF Others, RInv, WritesOK
  <2>2. CASE job[u].dev = d
    <3>1. job[u].dev \in cleared' => job[u].dev \in cleared
      BY <1>3
    <3>2. /\ (Cleaning(d, ToDeny) => Cleaning(d, ToDeny)')
      BY <1>5
    <3> QED BY <1>4, <2>1, <2>2, <3>1, <3>2 DEF WriteFits
  <2>3. CASE job[u].dev # d
    BY <1>3, <1>6, <2>1, <2>3 DEF WriteFits, StillCleaning
  <2> QED BY <2>2, <2>3
<1>10. /\ LinesGranted' /\ (\A r \in Requests : RowTrusted(r)')
       /\ \A u \in Threads \ {t} : TrustFits(u)'
  BY <1>1, <1>3, TrustStays DEF pairVars
<1> QED BY <1>1, <1>2, <1>3, <1>8, <1>9, <1>10, RevokeStep

LEMMA RevokeBioSafe == ASSUME MaxFaults = 0, IInv, RInv, NEW t \in Threads, RevokeBio(t) PROVE RInv'
<1> SUFFICES ASSUME NEW d, d = job[t].dev PROVE RInv'
  OBVIOUS
<1>1. Others(t) /\ job'[t].at = "push" /\ job'[t].dev = d
  BY GotoShape DEF RevokeBio, IInv
<1>2. job[t].at = "bio" /\ Plain("push")
  BY DEF RevokeBio, At, Plain
<1>3. /\ UNCHANGED <<pairVars, cleared, trusted, lines, allowed, issued, revoked, push>>
      /\ d \notin bio' /\ \A e \in cleared : e # d => NoMore(e)
  <2>1. /\ UNCHANGED <<pairVars, cleared, trusted, lines, allowed, issued, revoked, push>>
        /\ bio' = bio \ {d}
    BY DEF RevokeBio, Fails, IInv, StoresOK, credVars
  <2>2. \A e \in cleared : e # d => NoMore(e)
    BY <2>1 DEF NoMore, pairVars, HoldsApproval, Standing, HasCredential, CredsOf, Verifies, LinesOf
  <2> QED BY <2>1, <2>2
<1>4. Cleaning(d, ToPush)'
      /\ Cleaning(d, ToLines)'
  BY <1>1, CleaningBy DEF ToPush, ToLines
<1>5. /\ \A e : Cleaning(e, ToDeny) => Cleaning(e, ToDeny)'
      /\ \A e : Cleaning(e, ToCreds) => Cleaning(e, ToCreds)'
  BY <1>1, <1>2, CleaningBesides DEF ToDeny, ToCreds
<1>6. \A e : e # d => StillCleaning(e)
  BY <1>1, CleaningElse
<1>7. \A u \in Threads : job[u].at # "enrol.write"
  BY FreeLocks DEF RevokeBio
<1>8. ASSUME NEW e \in cleared PROVE Swept(e)'
  <2>1. Swept(e)
    BY DEF RInv, SweptOK
  <2>2. CASE e = d
    BY <1>3, <1>4, <1>5, <2>1, <2>2 DEF Swept, ApprovalsOf, HoldsApproval, Standing, pairVars,
              HasCredential, CredsOf, Verifies
  <2>3. CASE e # d
    BY <1>3, <1>6, <2>1, <2>3, SweptKept
  <2> QED BY <2>2, <2>3
<1>9. ASSUME NEW u \in Threads \ {t} PROVE WriteFits(u)'
  <2>1. job'[u] = job[u] /\ WriteFits(u)
    BY <1>1 DEF Others, RInv, WritesOK
  <2>2. CASE job[u].dev = d
    <3>1. job[u].dev \in cleared' => job[u].dev \in cleared
      BY <1>3
    <3>2. /\ (Cleaning(d, ToDeny) => Cleaning(d, ToDeny)')
          /\ (Cleaning(d, ToCreds) => Cleaning(d, ToCreds)')
      BY <1>5
    <3> QED BY <1>4, <1>7, <2>1, <2>2, <3>1, <3>2 DEF WriteFits
  <2>3. CASE job[u].dev # d
    BY <1>3, <1>6, <2>1, <2>3 DEF WriteFits, StillCleaning
  <2> QED BY <2>2, <2>3
<1>10. /\ LinesGranted' /\ (\A r \in Requests : RowTrusted(r)')
       /\ \A u \in Threads \ {t} : TrustFits(u)'
  BY <1>1, <1>3, TrustStays DEF pairVars
<1> QED BY <1>1, <1>2, <1>3, <1>8, <1>9, <1>10, RevokeStep

LEMMA RevokePushSafe == ASSUME MaxFaults = 0, IInv, RInv, NEW t \in Threads, RevokePush(t) PROVE RInv'
<1> SUFFICES ASSUME NEW d, d = job[t].dev PROVE RInv'
  OBVIOUS
<1>1. Others(t) /\ job'[t].at = "lines" /\ job'[t].dev = d
  BY GotoShape DEF RevokePush, IInv
<1>2. job[t].at = "push" /\ Plain("lines")
  BY DEF RevokePush, At, Plain
<1>3. /\ UNCHANGED <<pairVars, cleared, trusted, lines, allowed, issued, revoked, bio>>
      /\ d \notin push' /\ \A e \in cleared : e # d => NoMore(e)
  <2>1. /\ UNCHANGED <<pairVars, cleared, trusted, lines, allowed, issued, revoked, bio>>
        /\ push' = push \ {d}
    BY DEF RevokePush, Fails, IInv, StoresOK, credVars
  <2>2. \A e \in cleared : e # d => NoMore(e)
    BY <2>1 DEF NoMore, pairVars, HoldsApproval, Standing, HasCredential, CredsOf, Verifies, LinesOf
  <2> QED BY <2>1, <2>2
<1>4. Cleaning(d, ToLines)'
  BY <1>1, CleaningBy DEF ToLines
<1>5. /\ \A e : Cleaning(e, ToDeny) => Cleaning(e, ToDeny)'
      /\ \A e : Cleaning(e, ToCreds) => Cleaning(e, ToCreds)'
      /\ \A e : Cleaning(e, ToBio) => Cleaning(e, ToBio)'
  BY <1>1, <1>2, CleaningBesides DEF ToDeny, ToCreds, ToBio
<1>6. \A e : e # d => StillCleaning(e)
  BY <1>1, CleaningElse
<1>7. \A u \in Threads : job[u].at # "sub.write"
  BY FreeLocks DEF RevokePush
<1>8. ASSUME NEW e \in cleared PROVE Swept(e)'
  <2>1. Swept(e)
    BY DEF RInv, SweptOK
  <2>2. CASE e = d
    BY <1>3, <1>4, <1>5, <2>1, <2>2 DEF Swept, ApprovalsOf, HoldsApproval, Standing, pairVars,
              HasCredential, CredsOf, Verifies
  <2>3. CASE e # d
    BY <1>3, <1>6, <2>1, <2>3, SweptKept
  <2> QED BY <2>2, <2>3
<1>9. ASSUME NEW u \in Threads \ {t} PROVE WriteFits(u)'
  <2>1. job'[u] = job[u] /\ WriteFits(u)
    BY <1>1 DEF Others, RInv, WritesOK
  <2>2. CASE job[u].dev = d
    <3>1. job[u].dev \in cleared' => job[u].dev \in cleared
      BY <1>3
    <3>2. /\ (Cleaning(d, ToDeny) => Cleaning(d, ToDeny)')
          /\ (Cleaning(d, ToCreds) => Cleaning(d, ToCreds)')
          /\ (Cleaning(d, ToBio) => Cleaning(d, ToBio)')
      BY <1>5
    <3> QED BY <1>4, <1>7, <2>1, <2>2, <3>1, <3>2 DEF WriteFits
  <2>3. CASE job[u].dev # d
    BY <1>3, <1>6, <2>1, <2>3 DEF WriteFits, StillCleaning
  <2> QED BY <2>2, <2>3
<1>10. /\ LinesGranted' /\ (\A r \in Requests : RowTrusted(r)')
       /\ \A u \in Threads \ {t} : TrustFits(u)'
  BY <1>1, <1>3, TrustStays DEF pairVars
<1> QED BY <1>1, <1>2, <1>3, <1>8, <1>9, <1>10, RevokeStep

\* The lines go last, and with them the trust, unless a decision is being carried out.
LEMMA RevokeLinesSafe == ASSUME IInv, RInv, NEW t \in Threads, RevokeLines(t) PROVE RInv'
<1> SUFFICES ASSUME NEW d, d = job[t].dev PROVE RInv'
  OBVIOUS
<1>1. Others(t) /\ Plain(job'[t].at)
  BY GotoShape, EndsShape DEF RevokeLines, Plain, IInv
<1>2. job[t].at = "lines"
  BY DEF RevokeLines, At
<1>3. /\ UNCHANGED <<pairVars, issued, revoked, allowed, push, bio, cleared>>
      /\ lines' = lines \ LinesOf(d)
  BY DEF RevokeLines, credVars
<1>4. /\ \A e : Cleaning(e, ToDeny) => Cleaning(e, ToDeny)'
      /\ \A e : Cleaning(e, ToCreds) => Cleaning(e, ToCreds)'
      /\ \A e : Cleaning(e, ToBio) => Cleaning(e, ToBio)'
      /\ \A e : Cleaning(e, ToPush) => Cleaning(e, ToPush)'
  BY <1>1, <1>2, CleaningBesides DEF ToDeny, ToCreds, ToBio, ToPush
<1>5. \A e : e # d => StillCleaning(e)
  BY <1>1, CleaningElse
<1>6. \A u \in Threads : job[u].at \notin LineWrites
  BY FreeLocks DEF RevokeLines
<1>7. trusted' = IF d \in cleared /\ ~Giving(d) THEN trusted \ {d} ELSE trusted
  BY DEF RevokeLines
<1>8. ASSUME NEW e \in cleared PROVE Swept(e)'
  <2>1. Swept(e)
    BY DEF RInv, SweptOK
  <2>2. CASE e = d
    <3>1. LinesOf(d)' = {}
      BY <1>3 DEF LinesOf
    <3> QED BY <1>3, <1>4, <2>1, <2>2, <3>1 DEF Swept, ApprovalsOf, HoldsApproval, Standing, pairVars,
              HasCredential, CredsOf, Verifies
  <2>3. CASE e # d
    <3>1. NoMore(e)
      BY <1>3 DEF NoMore, pairVars, HoldsApproval, Standing, HasCredential, CredsOf, Verifies, LinesOf
    <3> QED BY <1>5, <2>1, <2>3, <3>1, SweptKept
  <2> QED BY <2>2, <2>3
<1>9. ASSUME NEW u \in Threads \ {t} PROVE WriteFits(u)'
  <2>1. job'[u] = job[u] /\ WriteFits(u) /\ job[u].at \notin LineWrites
    BY <1>1, <1>6 DEF Others, RInv, WritesOK
  <2> QED BY <1>3, <1>4, <2>1 DEF WriteFits
<1>10. LinesGranted'
  <2>1. ASSUME NEW l \in lines' PROVE l.owner \in trusted /\ l.owner # d
    BY <1>3 DEF LinesOf, RInv, TrustOK, LinesGranted
  <2> QED BY <1>7, <2>1 DEF LinesGranted
<1>11. ASSUME NEW r \in Requests PROVE RowTrusted(r)'
  <2>1. RowTrusted(r) /\ (d \in cleared /\ Standing(r) => Of(r) # d)
    BY DEF RInv, TrustOK, SweptOK, Swept, ApprovalsOf, HoldsApproval
  <2> QED BY <1>3, <1>7, <2>1 DEF RowTrusted, Standing, pairVars
<1>12. ASSUME NEW u \in Threads \ {t} PROVE TrustFits(u)'
  <2>1. job'[u] = job[u] /\ TrustFits(u) /\ job[u].at \notin LineWrites
    BY <1>1, <1>6 DEF Others, RInv, TrustOK
  <2>2. job[u].at \in TrustSteps /\ job[u].dev = d => Giving(d)
    BY <2>1 DEF Giving, TrustSteps, LineWrites
  <2> QED BY <1>7, <2>1, <2>2 DEF TrustFits
<1>13. lines' \subseteq lines
  BY <1>3
<1> QED BY <1>1, <1>3, <1>8, <1>9, <1>10, <1>11, <1>12, <1>13, RevokeStep

\* A restart leaves a revoke unfinished only where nobody was told that it was done.
LEMMA CrashSafe == ASSUME IInv, RInv, Crash PROVE RInv'
<1>1. /\ UNCHANGED <<pairVars, issued, revoked, allowed, lines, push, bio, trusted>>
      /\ cleared' = {d \in cleared : ~Revoking(d)} /\ \A t \in Threads : job'[t] = Rest
  BY DEF Crash, credVars
<1>2. ASSUME NEW d \in cleared' PROVE Swept(d)'
  <2>1. ~Cleaning(d, ToLines) /\ Swept(d)
    BY <1>1 DEF Revoking, Cleaning, ToLines, RInv, SweptOK
  <2>2. ~Cleaning(d, ToDeny) /\ ~Cleaning(d, ToCreds) /\ ~Cleaning(d, ToBio) /\ ~Cleaning(d, ToPush)
    BY <2>1, EarlierSteps DEF Cleaning
  <2> QED BY <1>1, <2>1, <2>2 DEF Swept, pairVars, ApprovalsOf, HoldsApproval, Standing, HasCredential,
          CredsOf, Verifies, LinesOf
<1>3. ASSUME NEW t \in Threads PROVE WriteFits(t)' /\ AskFits(t)' /\ TrustFits(t)'
  <2>1. job'[t].at = "idle"
    BY <1>1 DEF Rest
  <2> QED BY <2>1 DEF WriteFits, LineWrites, AskFits, ApproveSteps, TrustFits, TrustSteps
<1>4. ASSUME NEW r \in Requests PROVE RowFits(r)' /\ RowTrusted(r)'
  BY <1>1 DEF RInv, AskedOK, TrustOK, RowFits, RowTrusted, Standing, pairVars
<1>5. LinesGranted'
  BY <1>1 DEF RInv, TrustOK, LinesGranted
<1> QED BY <1>2, <1>3, <1>4, <1>5 DEF RInv, SweptOK, WritesOK, AskedOK, TrustOK

-----------------------------------------------------------------------------
(* The specification *)

LEMMA WorkSafe == ASSUME MaxFaults = 0, IInv, RInv, NEW t \in Threads, Work(t) PROVE RInv'
  BY GrantCheckSafe, GrantWriteSafe, SshCheckSafe, SshWriteSafe, GrantRecordSafe, ClaimWriteSafe,
     PutCredSafe, PutGrantSafe, PutWriteSafe, PermitCredSafe, PermitWriteSafe, PermitRecordSafe,
     MoveStartSafe, MoveCheckSafe, MoveWriteSafe, MoveRecordSafe,
     ForgetSafe, DenySafe, RevokeCredsSafe, RevokeBioSafe, RevokePushSafe, RevokeLinesSafe,
     PurgeMediaSafe, PurgeCredsSafe, PurgeForgetSafe, PurgePushSafe,
     SubCheckSafe, SubWriteSafe, EnrolCheckSafe, EnrolWriteSafe DEF Work

LEMMA LocalSafe == ASSUME IInv, RInv, Local PROVE RInv'
<1>1. ASSUME NEW d, Purge(d) PROVE d \in Devices
  BY <1>1, OfType DEF Purge, CredsOf, IInv, CredsOK
<1> QED BY <1>1, ApproveSafe, PermitSafe, RejectSafe, PruneSafe, RevokeSafe, PurgeSafe DEF Local

LEMMA NetworkSafe == ASSUME IInv, RInv, Network PROVE RInv'
  BY PairRequestSafe, ClaimSafe, ForgottenSafe, RenewSafe, EnrolSafe, OfferKeySafe, SubscribeSafe,
     SupersedeSafe DEF Network

LEMMA InitSafe == ASSUME Init PROVE RInv
<1>1. \A t \in Threads : job[t] = Rest
  BY DEF Init
<1>2. \A t \in Threads : WriteFits(t) /\ AskFits(t) /\ TrustFits(t)
  BY <1>1 DEF Rest, WriteFits, LineWrites, AskFits, ApproveSteps, TrustFits, TrustSteps
<1>3. \A r \in Requests : RowFits(r) /\ RowTrusted(r)
  BY DEF Init, NoRow, RowFits, RowTrusted, Standing
<1> QED BY <1>2, <1>3 DEF Init, RInv, SweptOK, WritesOK, AskedOK, TrustOK, LinesGranted

LEMMA NextSafe == ASSUME MaxFaults = 0, IInv, RInv, [Next]_vars PROVE RInv'
<1>1. CASE UNCHANGED vars
  <2>1. Fewer /\ UNCHANGED job
    BY <1>1 DEF Fewer, vars, pairVars
  <2>2. \A d \in cleared : NoMore(d)
    BY <2>1, FewerIsNoMore DEF IInv, StoresOK
  <2> QED BY <2>1, <2>2, StillStep DEF Fewer
<1> QED BY <1>1, LocalSafe, NetworkSafe, WorkSafe, CrashSafe DEF Next

LEMMA RevokeInductive == ASSUME MaxFaults = 0 PROVE Spec => [](IInv /\ RInv)
<1>1. Init => IInv /\ RInv
  BY InitOK, InitSafe
<1>2. IInv /\ RInv /\ [Next]_vars => (IInv /\ RInv)'
  BY NextOK, NextSafe
<1> QED BY <1>1, <1>2, PTL DEF Spec

LEMMA SweptClean ==
  ASSUME RInv PROVE RevokedKeepsNothing
<1> SUFFICES ASSUME NEW d \in cleared, ~Revoking(d)
             PROVE  /\ ~HasCredential(d) /\ allowed[d] # "yes" /\ LinesOf(d) = {}
                    /\ d \notin push /\ d \notin bio /\ ApprovalsOf(d) = {}
  BY DEF RevokedKeepsNothing
<1>1. Swept(d) /\ ~Cleaning(d, ToLines)
  BY DEF RInv, SweptOK, Revoking, Cleaning, ToLines
<1>2. ~Cleaning(d, ToDeny) /\ ~Cleaning(d, ToCreds) /\ ~Cleaning(d, ToBio) /\ ~Cleaning(d, ToPush)
  BY <1>1, EarlierSteps DEF Cleaning
<1> QED BY <1>1, <1>2 DEF Swept

\* A revoke that is over has left the device nothing, whatever other threads had begun, were
\* checking or were writing meanwhile: no credential that works, no streaming grant, no line,
\* no subscription, no approval key, no approval.  _revoke_device holds no lock over its
\* steps; that each grant asks its source again under the lock it writes with is enough, for
\* any number of threads and devices, as long as the files can be written.
THEOREM RevokeIsComplete == ASSUME MaxFaults = 0 PROVE Spec => []RevokedKeepsNothing
<1>1. RInv => RevokedKeepsNothing
  BY SweptClean
<1> QED BY <1>1, RevokeInductive, PTL

\* A line of authorized_keys is of a device that someone at the computer gave a terminal, or
\* whose older identity had been given one: neither a credential nor an approval without a
\* key ever becomes a login, by whichever of the four ways a line is written.
THEOREM LinesAreGranted == ASSUME MaxFaults = 0 PROVE Spec => []LinesGranted
<1>1. RInv => LinesGranted
  BY DEF RInv, TrustOK
<1> QED BY <1>1, RevokeInductive, PTL

\* A phone under two identities has one line for its key, and the revoke of either takes what
\* that one still had, whichever of them the line went to while it ran.
THEOREM IdentityIsOne == ASSUME MaxFaults = 0 PROVE Spec => []OneIdentity
<1>1. IInv /\ RInv => OneIdentity
  BY SweptClean DEF IInv, LinesOK, OneIdentity
<1> QED BY <1>1, RevokeInductive, PTL
=============================================================================
