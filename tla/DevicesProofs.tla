--------------------------- MODULE DevicesProofs ---------------------------
(***************************************************************************)
(* Proofs about Devices for any number of devices, keys, threads, requests *)
(* and credentials: its types, that a revoked token stays refused, and     *)
(* that a key is one line.  Four invariants carry them, one for each part  *)
(* of the state an action can touch; an action leaves most of them alone,  *)
(* and the lemmas named ...Kept say that this is enough.                   *)
(***************************************************************************)
EXTENDS Devices, TLAPS

USE DeviceAssumption

-----------------------------------------------------------------------------
(* The inductive invariant *)

StoresOK ==
  /\ rows \in [Requests -> Row] /\ asked \in [Devices -> 0..MaxRequests]
  /\ allowed \in [Devices -> {"none", "yes", "no"}]
  /\ waiting \in [Devices -> Keys \cup {NoKey}] /\ push \subseteq Devices /\ bio \subseteq Devices
  /\ cleared \subseteq Devices /\ trusted \subseteq Devices
  /\ crashes \in 0..MaxCrashes /\ faults \in 0..MaxFaults

\* The number of a credential is below what its device was given: a new one is never one
\* that was revoked.
CredsOK ==
  /\ minted \in [Devices -> 0..MaxCreds]
  /\ revoked \subseteq issued /\ issued \subseteq Creds /\ ever \subseteq Creds
  /\ \A c \in issued \cup ever : c[2] <= minted[Of(c)]
  /\ \A c \in ever : c \in issued => c \in revoked

LinesOK == lines \subseteq Line /\ OneLinePerKey

\* What a job must hold for the step it is at.
KeySteps == {"ssh", "ssh.write", "put.cred", "put.grant", "put.write",
             "permit.cred", "permit.write", "permit.grant",
             "move.check", "move.write", "move.grant"}
OtherSteps == {"permit.cred", "permit.write", "move", "move.check", "move.write", "move.grant"}
RequestSteps == {"media", "media.write", "ssh", "ssh.write", "grant", "claim.write"}
Fits(j, step) ==
  /\ step # "idle" => j.dev \in Devices
  /\ step \in KeySteps => j.key \in Keys
  /\ step \in OtherSteps => j.other \in Devices
  /\ step \in RequestSteps => j.req \in Requests
JobsOK == job \in [Threads -> Job] /\ \A t \in Threads : Fits(job[t], job[t].at)

IInv == StoresOK /\ CredsOK /\ LinesOK /\ JobsOK

-----------------------------------------------------------------------------
(* What an action leaves alone, and how it moves a job *)

LEMMA OfType ==
  /\ \A r \in Requests : Of(r) \in Devices
  /\ \A c \in Creds : Of(c) \in Devices /\ c[2] \in 1..MaxCreds /\ c = <<Of(c), c[2]>>
  BY DEF Of, Requests, Creds

LEMMA CredsKept == ASSUME CredsOK, UNCHANGED credVars PROVE CredsOK'
  BY DEF CredsOK, credVars

LEMMA LinesKept == ASSUME LinesOK, UNCHANGED lines PROVE LinesOK'
  BY DEF LinesOK, OneLinePerKey

LEMMA JobsKept == ASSUME JobsOK, UNCHANGED job PROVE JobsOK'
  BY DEF JobsOK

LEMMA StoresKept ==
  ASSUME StoresOK, UNCHANGED <<pairVars, allowed, waiting, push, bio, cleared, trusted, counts>>
  PROVE  StoresOK'
  BY DEF StoresOK, pairVars, counts

LEMMA RestType == Rest \in Job /\ \A j : Fits(j, "idle")
  BY DEF Rest, Job, Steps, None, Fits, KeySteps, OtherSteps, RequestSteps

LEMMA JobSet ==
  ASSUME JobsOK, NEW t \in Threads, NEW j \in Job, Fits(j, j.at), job' = [job EXCEPT ![t] = j]
  PROVE  JobsOK'
<1>1. job' \in [Threads -> Job]
  BY DEF JobsOK
<1>2. ASSUME NEW u \in Threads PROVE Fits(job'[u], job'[u].at)
  <2>1. job'[u] = IF u = t THEN j ELSE job[u]
    BY DEF JobsOK
  <2> QED BY <2>1 DEF JobsOK
<1> QED BY <1>1, <1>2 DEF JobsOK

LEMMA EndsOK == ASSUME JobsOK, NEW t \in Threads, Ends(t) PROVE JobsOK'
<1>1. Rest.at = "idle"
  BY DEF Rest
<1> QED BY <1>1, RestType, JobSet DEF Ends

LEMMA Moved ==
  ASSUME NEW j \in Job, NEW step \in Steps
  PROVE  LET n == [j EXCEPT !.at = step] IN
         /\ n \in Job /\ n.at = step /\ n.dev = j.dev /\ n.other = j.other
         /\ n.key = j.key /\ n.req = j.req
  BY DEF Job

LEMMA GotoOK ==
  ASSUME JobsOK, NEW t \in Threads, NEW step \in Steps, Fits(job[t], step), Goto(t, step)
  PROVE  JobsOK'
<1> DEFINE n == [job[t] EXCEPT !.at = step]
<1>1. job[t] \in Job /\ job' = [job EXCEPT ![t] = n]
  BY DEF JobsOK, Goto
<1>2. n \in Job /\ n.at = step /\ Fits(n, step)
  BY <1>1, Moved DEF Fits
<1> HIDE DEF n
<1> QED BY <1>1, <1>2, JobSet

LEMMA BeginOK ==
  ASSUME JobsOK, NEW t \in Threads, NEW step \in Steps,
         NEW d \in Devices, NEW o \in Devices \cup {Nobody}, NEW k \in Keys \cup {NoKey},
         NEW r \in Requests \cup {None}, NEW c \in Creds \cup {None},
         step \in KeySteps => k \in Keys, step \in OtherSteps => o \in Devices,
         step \in RequestSteps => r \in Requests,
         Begin(t, step, d, o, k, r, c)
  PROVE  JobsOK'
<1> DEFINE n == [at |-> step, dev |-> d, other |-> o, key |-> k, req |-> r, cred |-> c, ok |-> TRUE]
<1>1. job' = [job EXCEPT ![t] = n]
  BY DEF Begin
<1>2. n \in Job /\ n.at = step /\ Fits(n, step)
  BY DEF Job, Fits
<1> HIDE DEF n
<1> QED BY <1>1, <1>2, JobSet

LEMMA RetireOK ==
  ASSUME JobsOK, NEW t \in Threads, job[t].other \in Devices, Retire(t)
  PROVE  JobsOK'
<1> DEFINE n == [Rest EXCEPT !.at = "forget", !.dev = job[t].other]
<1>1. n \in Job /\ n.at = "forget" /\ Fits(n, "forget")
  BY DEF Rest, Job, Steps, None, Fits, KeySteps, OtherSteps, RequestSteps
<1> HIDE DEF n
<1> QED BY <1>1, JobSet DEF Retire, n

LEMMA Held ==
  ASSUME JobsOK, NEW t \in Threads
  PROVE  /\ job[t] \in Job /\ Fits(job[t], job[t].at)
         /\ job[t].at # "idle" => job[t].dev \in Devices
  BY DEF JobsOK, Fits

LEMMA ReplacedOK ==
  ASSUME LinesOK, NEW d \in Devices, NEW k \in Keys, NEW from, lines' = Replaced(d, k, from)
  PROVE  LinesOK'
<1>1. [key |-> k, owner |-> d] \in Line
  BY DEF Line
<1>2. lines' \subseteq Line
  BY <1>1 DEF Replaced, LinesOK
<1>3. OneLinePerKey'
  BY DEF Replaced, LinesOK, OneLinePerKey
<1> QED BY <1>2, <1>3 DEF LinesOK

LEMMA FewerLines == ASSUME LinesOK, lines' \subseteq lines PROVE LinesOK'
  BY DEF LinesOK, OneLinePerKey

LEMMA MintOK == ASSUME CredsOK, NEW d \in Devices, Mint(d) PROVE CredsOK'
<1> DEFINE n == minted[d] + 1
           new == <<d, n>>
<1>1. /\ minted' = [minted EXCEPT ![d] = n] /\ issued' = issued \cup {new}
      /\ revoked' = revoked /\ ever' = ever /\ n \in 1..MaxCreds
  BY DEF Mint, CredsOK
<1>2. new \in Creds /\ Of(new) = d /\ new[2] = n
  BY <1>1 DEF Creds, Of
<1>3. new \notin issued \cup ever
  BY <1>2 DEF CredsOK
<1>4. ASSUME NEW c \in issued' \cup ever' PROVE c[2] <= minted'[Of(c)]
  BY <1>1, <1>2, OfType DEF CredsOK
<1>5. minted' \in [Devices -> 0..MaxCreds]
  BY <1>1 DEF CredsOK
<1> HIDE DEF new
<1> QED BY <1>1, <1>2, <1>3, <1>4, <1>5 DEF CredsOK

LEMMA RecordedOK ==
  ASSUME StoresOK, NEW d, Recorded(d)
  PROVE  rows' \in [Requests -> Row]
<1>1. ASSUME NEW r \in Requests, rows' = [rows EXCEPT ![r].ssh = TRUE] PROVE rows' \in [Requests -> Row]
  BY <1>1 DEF StoresOK, Row
<1> QED BY <1>1 DEF Recorded, ApprovalsOf, StoresOK

LEMMA WithoutOK ==
  ASSUME StoresOK, NEW d PROVE Without(d) \in [Requests -> Row]
  BY DEF StoresOK, Without, NoRow, Row

-----------------------------------------------------------------------------
(* Pairing *)

LEMMA PairRequestOK == ASSUME IInv, NEW d \in Devices, NEW k \in Keys \cup {NoKey}, NEW invited \in BOOLEAN, PairRequest(d, k, invited) PROVE IInv'
<1> USE DEF IInv
<1>1. StoresOK'
  BY OfType DEF PairRequest, StoresOK, Row, NoRow, counts
<1>2. CredsOK'
  BY CredsKept DEF PairRequest
<1>3. LinesOK'
  BY LinesKept DEF PairRequest
<1>4. JobsOK'
  BY JobsKept DEF PairRequest
<1> QED BY <1>1, <1>2, <1>3, <1>4

LEMMA ForgottenOK == ASSUME IInv, NEW r \in Requests, Forgotten(r) PROVE IInv'
<1> USE DEF IInv
<1>1. StoresOK'
  BY DEF Forgotten, StoresOK, Row, NoRow, pairVars, counts
<1>2. CredsOK'
  BY CredsKept DEF Forgotten
<1>3. LinesOK'
  BY LinesKept DEF Forgotten
<1>4. JobsOK'
  BY JobsKept DEF Forgotten
<1> QED BY <1>1, <1>2, <1>3, <1>4

LEMMA ApproveOK == ASSUME IInv, NEW r \in Requests, NEW remote \in BOOLEAN, Approve(r, remote) PROVE IInv'
<1> USE DEF IInv
<1>1. StoresOK'
  BY OfType DEF Approve, StoresOK, Row, pairVars, counts
<1>2. CredsOK'
  BY CredsKept DEF Approve
<1>3. LinesOK'
  BY LinesKept DEF Approve
<1>4. JobsOK'
  <2>1. "local" \in Threads /\ Of(r) \in Devices /\ rows[r].key \in Keys \cup {NoKey}
    BY OfType DEF Threads, StoresOK, Row
  <2>2. AfterMedia(rows[r].key) \in Steps /\ AfterMedia(rows[r].key) \notin OtherSteps
        /\ (AfterMedia(rows[r].key) \in KeySteps => rows[r].key \in Keys)
    BY <2>1 DEF AfterMedia, Steps, KeySteps, OtherSteps
  <2>3. "media" \in Steps /\ "media" \notin OtherSteps /\ "media" \notin KeySteps
    BY DEF Steps, KeySteps, OtherSteps
  <2>4. CASE remote
    BY <2>1, <2>3, <2>4, BeginOK DEF Approve
  <2>5. CASE ~remote
    BY <2>1, <2>2, <2>5, BeginOK DEF Approve
  <2> QED BY <2>4, <2>5
<1> QED BY <1>1, <1>2, <1>3, <1>4

LEMMA GrantCheckOK == ASSUME IInv, NEW t \in Threads, GrantCheck(t) PROVE IInv'
<1> USE DEF IInv
<1>1. StoresOK'
  BY StoresKept DEF GrantCheck
<1>2. CredsOK'
  BY CredsKept DEF GrantCheck
<1>3. LinesOK'
  BY LinesKept DEF GrantCheck
<1>4. JobsOK'
  <2>1. Fits(job[t], "media.write") /\ Fits(job[t], AfterMedia(job[t].key))
    BY Held DEF GrantCheck, At, AfterMedia, Job, Fits, KeySteps, OtherSteps, RequestSteps
  <2>2. "media.write" \in Steps /\ AfterMedia(job[t].key) \in Steps
    BY DEF AfterMedia, Steps
  <2> QED BY <2>1, <2>2, GotoOK DEF GrantCheck
<1> QED BY <1>1, <1>2, <1>3, <1>4

LEMMA GrantWriteOK == ASSUME IInv, NEW t \in Threads, GrantWrite(t) PROVE IInv'
<1> USE DEF IInv
<1>1. StoresOK'
  BY Held DEF GrantWrite, At, StoresOK, pairVars, counts
<1>2. CredsOK'
  BY CredsKept DEF GrantWrite
<1>3. LinesOK'
  BY LinesKept DEF GrantWrite
<1>4. JobsOK'
  <2>1. Fits(job[t], AfterMedia(job[t].key)) /\ AfterMedia(job[t].key) \in Steps
    BY Held DEF GrantWrite, At, AfterMedia, Steps, Job, Fits, KeySteps, OtherSteps, RequestSteps
  <2> QED BY <2>1, GotoOK DEF GrantWrite
<1> QED BY <1>1, <1>2, <1>3, <1>4

LEMMA SshCheckOK == ASSUME IInv, NEW t \in Threads, SshCheck(t) PROVE IInv'
<1> USE DEF IInv
<1>1. StoresOK'
  BY StoresKept DEF SshCheck
<1>2. CredsOK'
  BY CredsKept DEF SshCheck
<1>3. LinesOK'
  BY LinesKept DEF SshCheck
<1>4. JobsOK'
  <2> DEFINE held == HoldsApproval(job[t].dev, job[t].req)
             next == IF held THEN "ssh.write" ELSE "grant"
             n == [job[t] EXCEPT !.at = next, !.ok = held]
  <2>1. held \in BOOLEAN /\ job[t] \in Job /\ job' = [job EXCEPT ![t] = n]
    BY Held DEF SshCheck, HoldsApproval, Standing, JobsOK
  <2>2. next \in Steps /\ Fits(job[t], next)
    BY Held DEF SshCheck, At, Steps, Fits, KeySteps, OtherSteps, RequestSteps
  <2> HIDE DEF held, next
  <2>3. n \in Job /\ n.at = next /\ Fits(n, next)
    BY <2>1, <2>2 DEF Job, Fits
  <2> HIDE DEF n
  <2> QED BY <2>1, <2>3, JobSet
<1> QED BY <1>1, <1>2, <1>3, <1>4

LEMMA SshWriteOK == ASSUME IInv, NEW t \in Threads, SshWrite(t) PROVE IInv'
<1> USE DEF IInv
<1>1. StoresOK'
  BY StoresKept DEF SshWrite
<1>2. CredsOK'
  BY CredsKept DEF SshWrite
<1>3. LinesOK'
  <2>1. job[t].dev \in Devices /\ job[t].key \in Keys
    BY Held DEF SshWrite, At, Fits, KeySteps, OtherSteps, RequestSteps
  <2>2. CASE OwnersOf(job[t].key) \subseteq {job[t].dev}
    <3> DEFINE new == [key |-> job[t].key, owner |-> job[t].dev]
    <3>1. lines' = lines \cup {new} /\ new \in Line
      BY <2>1, <2>2 DEF SshWrite, Line
    <3>2. ASSUME NEW l \in lines, l.key = new.key PROVE l = new
      BY <2>1, <2>2, <3>2 DEF OwnersOf, LinesOK, Line
    <3> QED BY <3>1, <3>2 DEF LinesOK, OneLinePerKey
  <2>3. CASE ~(OwnersOf(job[t].key) \subseteq {job[t].dev})
    BY <2>3, LinesKept DEF SshWrite
  <2> QED BY <2>2, <2>3
<1>4. JobsOK'
  <2> DEFINE mine == OwnersOf(job[t].key) \subseteq {job[t].dev}
             n == [job[t] EXCEPT !.at = "grant", !.ok = mine]
  <2>1. job[t] \in Job /\ job' = [job EXCEPT ![t] = n]
    BY Held DEF SshWrite, JobsOK
  <2>2. Fits(job[t], "grant")
    BY Held DEF SshWrite, At, Fits, KeySteps, OtherSteps, RequestSteps
  <2>3. mine \in BOOLEAN
    OBVIOUS
  <2> HIDE DEF mine
  <2>4. n \in Job /\ n.at = "grant" /\ Fits(n, "grant")
    BY <2>1, <2>2, <2>3 DEF Job, Steps, Fits
  <2> HIDE DEF n
  <2> QED BY <2>1, <2>4, JobSet
<1> QED BY <1>1, <1>2, <1>3, <1>4

LEMMA GrantRecordOK == ASSUME IInv, NEW t \in Threads, GrantRecord(t) PROVE IInv'
<1> USE DEF IInv
<1>1. StoresOK'
  <2>1. job[t].ok \in BOOLEAN /\ job[t].req \in Requests
    BY Held DEF GrantRecord, At, Job, Fits, KeySteps, OtherSteps, RequestSteps
  <2>2. rows' \in [Requests -> Row]
    BY <2>1 DEF GrantRecord, StoresOK, Row
  <2> QED BY <2>2 DEF GrantRecord, StoresOK, counts
<1>2. CredsOK'
  BY CredsKept DEF GrantRecord
<1>3. LinesOK'
  BY LinesKept DEF GrantRecord
<1>4. JobsOK'
  BY EndsOK DEF GrantRecord
<1> QED BY <1>1, <1>2, <1>3, <1>4

LEMMA ClaimOK == ASSUME IInv, NEW r \in Requests, Claim(r) PROVE IInv'
<1> USE DEF IInv
<1>1. StoresOK'
  BY StoresKept DEF Claim
<1>2. CredsOK'
  BY OfType, MintOK DEF Claim
<1>3. LinesOK'
  BY LinesKept DEF Claim
<1>4. JobsOK'
  <2>1. "loop" \in Threads /\ "claim.write" \in Steps \ (KeySteps \cup OtherSteps) /\ Of(r) \in Devices
    BY OfType DEF Threads, Steps, KeySteps, OtherSteps
  <2> QED BY <2>1, BeginOK DEF Claim
<1> QED BY <1>1, <1>2, <1>3, <1>4

LEMMA ClaimWriteOK == ASSUME IInv, NEW t \in Threads, ClaimWrite(t) PROVE IInv'
<1> USE DEF IInv
<1>1. StoresOK'
  <2>1. job[t].req \in Requests
    BY Held DEF ClaimWrite, At, Fits, KeySteps, OtherSteps, RequestSteps
  <2> QED BY <2>1 DEF ClaimWrite, StoresOK, Row, counts
<1>2. CredsOK'
  BY CredsKept DEF ClaimWrite
<1>3. LinesOK'
  BY LinesKept DEF ClaimWrite
<1>4. JobsOK'
  BY EndsOK DEF ClaimWrite
<1> QED BY <1>1, <1>2, <1>3, <1>4

LEMMA RenewOK == ASSUME IInv, NEW c \in Creds, Renew(c) PROVE IInv'
<1> USE DEF IInv
<1>1. StoresOK'
  BY StoresKept DEF Renew
<1>2. CredsOK'
  BY OfType, MintOK DEF Renew
<1>3. LinesOK'
  BY LinesKept DEF Renew
<1>4. JobsOK'
  BY JobsKept DEF Renew
<1> QED BY <1>1, <1>2, <1>3, <1>4

-----------------------------------------------------------------------------
(* The terminal *)

LEMMA OfferKeyOK == ASSUME IInv, NEW c \in Creds, NEW k \in Keys, OfferKey(c, k) PROVE IInv'
<1> USE DEF IInv
<1>1. StoresOK'
  BY OfType DEF OfferKey, StoresOK, pairVars, counts
<1>2. CredsOK'
  BY CredsKept DEF OfferKey
<1>3. LinesOK'
  BY LinesKept DEF OfferKey
<1>4. JobsOK'
  <2>1. "loop" \in Threads /\ "put.cred" \in Steps \ (OtherSteps \cup RequestSteps) /\ Of(c) \in Devices
    BY OfType DEF Threads, Steps, OtherSteps, RequestSteps
  <2> QED BY <2>1, BeginOK, JobsKept DEF OfferKey
<1> QED BY <1>1, <1>2, <1>3, <1>4

LEMMA PutCredOK == ASSUME IInv, NEW t \in Threads, PutCred(t) PROVE IInv'
<1> USE DEF IInv
<1>1. StoresOK'
  BY StoresKept DEF PutCred
<1>2. CredsOK'
  BY CredsKept DEF PutCred
<1>3. LinesOK'
  BY LinesKept DEF PutCred
<1>4. JobsOK'
  BY Held, GotoOK, EndsOK DEF PutCred, At, Steps, Fits, KeySteps, OtherSteps, RequestSteps
<1> QED BY <1>1, <1>2, <1>3, <1>4

LEMMA PutGrantOK == ASSUME IInv, NEW t \in Threads, PutGrant(t) PROVE IInv'
<1> USE DEF IInv
<1>1. StoresOK'
  BY StoresKept DEF PutGrant
<1>2. CredsOK'
  BY CredsKept DEF PutGrant
<1>3. LinesOK'
  BY LinesKept DEF PutGrant
<1>4. JobsOK'
  BY Held, GotoOK, EndsOK DEF PutGrant, At, Steps, Fits, KeySteps, OtherSteps, RequestSteps
<1> QED BY <1>1, <1>2, <1>3, <1>4

LEMMA PutWriteOK == ASSUME IInv, NEW t \in Threads, PutWrite(t) PROVE IInv'
<1> USE DEF IInv
<1>1. StoresOK'
  BY StoresKept DEF PutWrite
<1>2. CredsOK'
  BY CredsKept DEF PutWrite
<1>3. LinesOK'
  <2>1. job[t].dev \in Devices /\ job[t].key \in Keys
    BY Held DEF PutWrite, At, Fits, KeySteps, OtherSteps, RequestSteps
  <2> QED BY <2>1, ReplacedOK DEF PutWrite
<1>4. JobsOK'
  BY EndsOK DEF PutWrite
<1> QED BY <1>1, <1>2, <1>3, <1>4

LEMMA PermitOK == ASSUME IInv, NEW d \in Devices, Permit(d) PROVE IInv'
<1> USE DEF IInv
<1>1. StoresOK'
  BY DEF Permit, StoresOK, pairVars, counts
<1>2. CredsOK'
  BY CredsKept DEF Permit
<1>3. LinesOK'
  BY LinesKept DEF Permit
<1>4. JobsOK'
  <2>1. "local" \in Threads /\ "permit.cred" \in Steps \ RequestSteps
    BY DEF Threads, Steps, RequestSteps
  <2>2. waiting[d] \in Keys /\ OwnersOf(waiting[d]) \subseteq Devices
    BY DEF Permit, StoresOK, OwnersOf, LinesOK, Line
  <2>3. PICK holder \in OwnersOf(waiting[d]) \cup IF OwnersOf(waiting[d]) = {} THEN {d} ELSE {} :
           Begin("local", "permit.cred", d, holder, waiting[d], None, None)
    BY DEF Permit
  <2>4. holder \in Devices
    BY <2>2, <2>3
  <2> QED BY <2>1, <2>2, <2>3, <2>4, BeginOK
<1> QED BY <1>1, <1>2, <1>3, <1>4

LEMMA RejectOK == ASSUME IInv, NEW d \in Devices, Reject(d) PROVE IInv'
<1> USE DEF IInv
<1>1. StoresOK'
  BY DEF Reject, StoresOK, pairVars, counts
<1>2. CredsOK'
  BY CredsKept DEF Reject
<1>3. LinesOK'
  BY LinesKept DEF Reject
<1>4. JobsOK'
  BY JobsKept DEF Reject
<1> QED BY <1>1, <1>2, <1>3, <1>4

LEMMA PermitCredOK == ASSUME IInv, NEW t \in Threads, PermitCred(t) PROVE IInv'
<1> USE DEF IInv
<1>1. StoresOK'
  BY StoresKept DEF PermitCred
<1>2. CredsOK'
  BY CredsKept DEF PermitCred
<1>3. LinesOK'
  BY LinesKept DEF PermitCred
<1>4. JobsOK'
  BY Held, GotoOK, EndsOK DEF PermitCred, At, Steps, Fits, KeySteps, OtherSteps, RequestSteps
<1> QED BY <1>1, <1>2, <1>3, <1>4

LEMMA PermitWriteOK == ASSUME IInv, NEW t \in Threads, PermitWrite(t) PROVE IInv'
<1> USE DEF IInv
<1>1. StoresOK'
  BY StoresKept DEF PermitWrite
<1>2. CredsOK'
  BY CredsKept DEF PermitWrite
<1>3. LinesOK'
  <2>1. job[t].dev \in Devices /\ job[t].key \in Keys
    BY Held DEF PermitWrite, At, Fits, KeySteps, OtherSteps, RequestSteps
  <2> QED BY <2>1, ReplacedOK DEF PermitWrite
<1>4. JobsOK'
  BY Held, GotoOK, EndsOK DEF PermitWrite, At, Steps, Fits, KeySteps, OtherSteps, RequestSteps
<1> QED BY <1>1, <1>2, <1>3, <1>4

LEMMA PermitRecordOK == ASSUME IInv, NEW t \in Threads, PermitRecord(t) PROVE IInv'
<1> USE DEF IInv
<1>1. StoresOK'
  BY RecordedOK DEF PermitRecord, StoresOK, counts
<1>2. CredsOK'
  BY CredsKept DEF PermitRecord
<1>3. LinesOK'
  BY LinesKept DEF PermitRecord
<1>4. JobsOK'
  BY EndsOK DEF PermitRecord
<1> QED BY <1>1, <1>2, <1>3, <1>4

LEMMA PruneOK == ASSUME IInv, NEW d \in Devices, Prune(d) PROVE IInv'
<1> USE DEF IInv
<1>1. StoresOK'
  BY StoresKept DEF Prune
<1>2. CredsOK'
  BY CredsKept DEF Prune
<1>3. LinesOK'
  BY FewerLines DEF Prune, LinesOf
<1>4. JobsOK'
  BY JobsKept DEF Prune
<1> QED BY <1>1, <1>2, <1>3, <1>4

-----------------------------------------------------------------------------
(* Superseding *)

LEMMA SupersedeOK == ASSUME IInv, NEW w \in Workers, NEW old \in Devices, NEW new \in Devices, Supersede(w, old, new) PROVE IInv'
<1> USE DEF IInv
<1>1. StoresOK'
  BY DEF Supersede, StoresOK, pairVars, counts
<1>2. CredsOK'
  BY CredsKept DEF Supersede
<1>3. LinesOK'
  BY LinesKept DEF Supersede
<1>4. JobsOK'
  <2>1. w \in Threads /\ "move" \in Steps \ (KeySteps \cup RequestSteps)
    BY DEF Threads, Steps, KeySteps, RequestSteps
  <2> QED BY <2>1, BeginOK DEF Supersede
<1> QED BY <1>1, <1>2, <1>3, <1>4

LEMMA MoveStartOK == ASSUME IInv, NEW t \in Threads, MoveStart(t) PROVE IInv'
<1> USE DEF IInv
<1>1. StoresOK'
  BY StoresKept DEF MoveStart
<1>2. CredsOK'
  BY CredsKept DEF MoveStart
<1>3. LinesOK'
  BY LinesKept DEF MoveStart
<1>4. JobsOK'
  <2>1. job[t] \in Job /\ job[t].dev \in Devices /\ job[t].other \in Devices
    BY Held DEF MoveStart, At, Fits, KeySteps, OtherSteps, RequestSteps
  <2>2. Offered(job[t].dev) \subseteq Keys \cup {NoKey}
    BY <2>1 DEF Offered, ApprovalsOf, StoresOK, Row
  <2>3. PICK k \in Offered(job[t].dev) :
          IF k # NoKey /\ job[t].other \in OwnersOf(k)
            THEN job' = [job EXCEPT ![t].at = "move.check", ![t].key = k]
            ELSE Retire(t)
    BY DEF MoveStart
  <2>4. CASE k # NoKey /\ job[t].other \in OwnersOf(k)
    <3> DEFINE n == [job[t] EXCEPT !.at = "move.check", !.key = k]
    <3>1. job' = [job EXCEPT ![t] = n]
      BY <2>3, <2>4 DEF JobsOK
    <3>2. n \in Job /\ n.at = "move.check" /\ Fits(n, "move.check")
      BY <2>1, <2>2, <2>4 DEF Job, Steps, Fits, KeySteps, OtherSteps, RequestSteps
    <3> HIDE DEF n
    <3> QED BY <3>1, <3>2, JobSet
  <2>5. CASE ~(k # NoKey /\ job[t].other \in OwnersOf(k))
    BY <2>1, <2>3, <2>5, RetireOK
  <2> QED BY <2>4, <2>5
<1> QED BY <1>1, <1>2, <1>3, <1>4

LEMMA MoveCheckOK == ASSUME IInv, NEW t \in Threads, MoveCheck(t) PROVE IInv'
<1> USE DEF IInv
<1>1. StoresOK'
  BY StoresKept DEF MoveCheck
<1>2. CredsOK'
  BY CredsKept DEF MoveCheck
<1>3. LinesOK'
  BY LinesKept DEF MoveCheck
<1>4. JobsOK'
  <2>1. job[t].other \in Devices /\ Fits(job[t], "move.write") /\ "move.write" \in Steps
    BY Held DEF MoveCheck, At, Steps, Fits, KeySteps, OtherSteps, RequestSteps
  <2> QED BY <2>1, GotoOK, RetireOK DEF MoveCheck
<1> QED BY <1>1, <1>2, <1>3, <1>4

LEMMA MoveWriteOK == ASSUME IInv, NEW t \in Threads, MoveWrite(t) PROVE IInv'
<1> USE DEF IInv
<1>1. StoresOK'
  BY Held DEF MoveWrite, At, StoresOK, pairVars, counts
<1>2. CredsOK'
  BY CredsKept DEF MoveWrite
<1>3. LinesOK'
  <2>1. job[t].dev \in Devices /\ job[t].key \in Keys
    BY Held DEF MoveWrite, At, Fits, KeySteps, OtherSteps, RequestSteps
  <2> QED BY <2>1, ReplacedOK, LinesKept DEF MoveWrite
<1>4. JobsOK'
  <2>1. job[t].other \in Devices /\ Fits(job[t], "move.grant") /\ "move.grant" \in Steps
    BY Held DEF MoveWrite, At, Steps, Fits, KeySteps, OtherSteps, RequestSteps
  <2> QED BY <2>1, GotoOK, RetireOK DEF MoveWrite
<1> QED BY <1>1, <1>2, <1>3, <1>4

LEMMA MoveRecordOK == ASSUME IInv, NEW t \in Threads, MoveRecord(t) PROVE IInv'
<1> USE DEF IInv
<1>1. StoresOK'
  <2>1. rows' \in [Requests -> Row] /\ waiting' \in [Devices -> Keys \cup {NoKey}]
    BY RecordedOK DEF MoveRecord, StoresOK
  <2> QED BY <2>1 DEF MoveRecord, StoresOK, counts
<1>2. CredsOK'
  BY CredsKept DEF MoveRecord
<1>3. LinesOK'
  BY LinesKept DEF MoveRecord
<1>4. JobsOK'
  <2>1. job[t].other \in Devices
    BY Held DEF MoveRecord, At, Fits, KeySteps, OtherSteps, RequestSteps
  <2> QED BY <2>1, RetireOK DEF MoveRecord
<1> QED BY <1>1, <1>2, <1>3, <1>4

-----------------------------------------------------------------------------
(* The revoke *)

LEMMA RevokeOK == ASSUME IInv, NEW d \in Devices, Revoke(d) PROVE IInv'
<1> USE DEF IInv
<1>1. StoresOK'
  BY StoresKept DEF Revoke
<1>2. CredsOK'
  BY CredsKept DEF Revoke
<1>3. LinesOK'
  BY LinesKept DEF Revoke
<1>4. JobsOK'
  <2>1. "local" \in Threads /\ "forget" \in Steps \ (KeySteps \cup OtherSteps \cup RequestSteps)
    BY DEF Threads, Steps, KeySteps, OtherSteps, RequestSteps
  <2> QED BY <2>1, OfType, BeginOK DEF Revoke
<1> QED BY <1>1, <1>2, <1>3, <1>4

LEMMA ForgetOK == ASSUME IInv, NEW t \in Threads, Forget(t) PROVE IInv'
<1> USE DEF IInv
<1>1. StoresOK'
  <2>1. rows' \in [Requests -> Row] /\ faults' \in 0..MaxFaults
    BY WithoutOK DEF Forget, Fails, StoresOK
  <2> QED BY <2>1, Held DEF Forget, At, StoresOK
<1>2. CredsOK'
  BY CredsKept DEF Forget
<1>3. LinesOK'
  BY LinesKept DEF Forget
<1>4. JobsOK'
  BY Held, GotoOK DEF Forget, At, Steps, Fits, KeySteps, OtherSteps, RequestSteps
<1> QED BY <1>1, <1>2, <1>3, <1>4

LEMMA DenyOK == ASSUME IInv, NEW t \in Threads, Deny(t) PROVE IInv'
<1> USE DEF IInv
<1>1. StoresOK'
  BY Held DEF Deny, At, StoresOK, pairVars, counts
<1>2. CredsOK'
  BY CredsKept DEF Deny
<1>3. LinesOK'
  BY LinesKept DEF Deny
<1>4. JobsOK'
  <2>1. PICK finished \in BOOLEAN : job' = [job EXCEPT ![t].at = "creds", ![t].ok = finished]
    BY DEF Deny
  <2> DEFINE n == [job[t] EXCEPT !.at = "creds", !.ok = finished]
  <2>2. job[t] \in Job /\ job' = [job EXCEPT ![t] = n]
    BY <2>1, Held DEF JobsOK
  <2>3. n \in Job /\ n.at = "creds" /\ Fits(n, "creds")
    BY <2>2, Held DEF Deny, At, Job, Steps, Fits, KeySteps, OtherSteps, RequestSteps
  <2> HIDE DEF n
  <2> QED BY <2>2, <2>3, JobSet
<1> QED BY <1>1, <1>2, <1>3, <1>4

LEMMA RevokeCredsOK == ASSUME IInv, NEW t \in Threads, RevokeCreds(t) PROVE IInv'
<1> USE DEF IInv
<1>1. StoresOK'
  BY StoresKept DEF RevokeCreds
<1>2. CredsOK'
  BY DEF RevokeCreds, CredsOf, CredsOK
<1>3. LinesOK'
  BY LinesKept DEF RevokeCreds
<1>4. JobsOK'
  BY Held, GotoOK DEF RevokeCreds, At, Steps, Fits, KeySteps, OtherSteps, RequestSteps
<1> QED BY <1>1, <1>2, <1>3, <1>4

LEMMA RevokeBioOK == ASSUME IInv, NEW t \in Threads, RevokeBio(t) PROVE IInv'
<1> USE DEF IInv
<1>1. StoresOK'
  BY DEF RevokeBio, Fails, StoresOK, pairVars
<1>2. CredsOK'
  BY CredsKept DEF RevokeBio
<1>3. LinesOK'
  BY LinesKept DEF RevokeBio
<1>4. JobsOK'
  BY Held, GotoOK DEF RevokeBio, At, Steps, Fits, KeySteps, OtherSteps, RequestSteps
<1> QED BY <1>1, <1>2, <1>3, <1>4

LEMMA RevokePushOK == ASSUME IInv, NEW t \in Threads, RevokePush(t) PROVE IInv'
<1> USE DEF IInv
<1>1. StoresOK'
  <2>1. waiting' \in [Devices -> Keys \cup {NoKey}]
    BY DEF RevokePush, StoresOK
  <2>2. push' \subseteq Devices /\ faults' \in 0..MaxFaults
    BY DEF RevokePush, Fails, StoresOK
  <2> QED BY <2>1, <2>2 DEF RevokePush, StoresOK, pairVars
<1>2. CredsOK'
  BY CredsKept DEF RevokePush
<1>3. LinesOK'
  BY LinesKept DEF RevokePush
<1>4. JobsOK'
  BY Held, GotoOK DEF RevokePush, At, Steps, Fits, KeySteps, OtherSteps, RequestSteps
<1> QED BY <1>1, <1>2, <1>3, <1>4

LEMMA RevokeLinesOK == ASSUME IInv, NEW t \in Threads, RevokeLines(t) PROVE IInv'
<1> USE DEF IInv
<1>1. StoresOK'
  BY DEF RevokeLines, StoresOK, pairVars, counts
<1>2. CredsOK'
  BY CredsKept DEF RevokeLines
<1>3. LinesOK'
  BY FewerLines DEF RevokeLines
<1>4. JobsOK'
  BY Held, GotoOK, EndsOK DEF RevokeLines, At, Steps, Fits, KeySteps, OtherSteps, RequestSteps
<1> QED BY <1>1, <1>2, <1>3, <1>4

-----------------------------------------------------------------------------
(* The purge *)

LEMMA PurgeOK == ASSUME IInv, NEW d \in Devices, Purge(d) PROVE IInv'
<1> USE DEF IInv
<1>1. StoresOK'
  BY StoresKept DEF Purge
<1>2. CredsOK'
  BY CredsKept DEF Purge
<1>3. LinesOK'
  BY LinesKept DEF Purge
<1>4. JobsOK'
  <2>1. "local" \in Threads /\ "purge.media" \in Steps \ (KeySteps \cup OtherSteps \cup RequestSteps)
    BY DEF Threads, Steps, KeySteps, OtherSteps, RequestSteps
  <2> QED BY <2>1, OfType, BeginOK DEF Purge
<1> QED BY <1>1, <1>2, <1>3, <1>4

LEMMA PurgeMediaOK == ASSUME IInv, NEW t \in Threads, PurgeMedia(t) PROVE IInv'
<1> USE DEF IInv
<1>1. StoresOK'
  BY DEF PurgeMedia, StoresOK, pairVars, counts
<1>2. CredsOK'
  BY CredsKept DEF PurgeMedia
<1>3. LinesOK'
  BY LinesKept DEF PurgeMedia
<1>4. JobsOK'
  BY Held, GotoOK, EndsOK DEF PurgeMedia, At, Steps, Fits, KeySteps, OtherSteps, RequestSteps
<1> QED BY <1>1, <1>2, <1>3, <1>4

LEMMA PurgeCredsOK == ASSUME IInv, NEW t \in Threads, PurgeCreds(t) PROVE IInv'
<1> USE DEF IInv
<1>1. StoresOK'
  BY StoresKept DEF PurgeCreds
<1>2. CredsOK'
  BY DEF PurgeCreds, CredsOf, CredsOK
<1>3. LinesOK'
  BY LinesKept DEF PurgeCreds
<1>4. JobsOK'
  BY Held, GotoOK, EndsOK DEF PurgeCreds, At, Steps, Fits, KeySteps, OtherSteps, RequestSteps
<1> QED BY <1>1, <1>2, <1>3, <1>4

LEMMA PurgeForgetOK == ASSUME IInv, NEW t \in Threads, PurgeForget(t) PROVE IInv'
<1> USE DEF IInv
<1>1. StoresOK'
  <2>1. rows' \in [Requests -> Row]
    BY WithoutOK DEF PurgeForget
  <2> QED BY <2>1 DEF PurgeForget, StoresOK, counts
<1>2. CredsOK'
  BY CredsKept DEF PurgeForget
<1>3. LinesOK'
  BY LinesKept DEF PurgeForget
<1>4. JobsOK'
  BY Held, GotoOK DEF PurgeForget, At, Steps, Fits, KeySteps, OtherSteps, RequestSteps
<1> QED BY <1>1, <1>2, <1>3, <1>4

LEMMA PurgePushOK == ASSUME IInv, NEW t \in Threads, PurgePush(t) PROVE IInv'
<1> USE DEF IInv
<1>1. StoresOK'
  BY DEF PurgePush, StoresOK, pairVars, counts
<1>2. CredsOK'
  BY CredsKept DEF PurgePush
<1>3. LinesOK'
  BY LinesKept DEF PurgePush
<1>4. JobsOK'
  BY EndsOK DEF PurgePush
<1> QED BY <1>1, <1>2, <1>3, <1>4

-----------------------------------------------------------------------------
(* What else a credential is good for, and the restart *)

LEMMA SubscribeOK == ASSUME IInv, NEW w \in Workers, NEW c \in Creds, Subscribe(w, c) PROVE IInv'
<1> USE DEF IInv
<1>1. StoresOK'
  BY StoresKept DEF Subscribe
<1>2. CredsOK'
  BY CredsKept DEF Subscribe
<1>3. LinesOK'
  BY LinesKept DEF Subscribe
<1>4. JobsOK'
  <2>1. w \in Threads /\ "sub.check" \in Steps \ (KeySteps \cup OtherSteps \cup RequestSteps)
    BY DEF Threads, Steps, KeySteps, OtherSteps, RequestSteps
  <2> QED BY <2>1, OfType, BeginOK DEF Subscribe
<1> QED BY <1>1, <1>2, <1>3, <1>4

LEMMA SubCheckOK == ASSUME IInv, NEW t \in Threads, SubCheck(t) PROVE IInv'
<1> USE DEF IInv
<1>1. StoresOK'
  BY StoresKept DEF SubCheck
<1>2. CredsOK'
  BY CredsKept DEF SubCheck
<1>3. LinesOK'
  BY LinesKept DEF SubCheck
<1>4. JobsOK'
  BY Held, GotoOK, EndsOK DEF SubCheck, At, Steps, Fits, KeySteps, OtherSteps, RequestSteps
<1> QED BY <1>1, <1>2, <1>3, <1>4

LEMMA SubWriteOK == ASSUME IInv, NEW t \in Threads, SubWrite(t) PROVE IInv'
<1> USE DEF IInv
<1>1. StoresOK'
  BY Held DEF SubWrite, At, StoresOK, pairVars, counts
<1>2. CredsOK'
  BY CredsKept DEF SubWrite
<1>3. LinesOK'
  BY LinesKept DEF SubWrite
<1>4. JobsOK'
  BY EndsOK DEF SubWrite
<1> QED BY <1>1, <1>2, <1>3, <1>4

LEMMA EnrolOK == ASSUME IInv, NEW c \in Creds, Enrol(c) PROVE IInv'
<1> USE DEF IInv
<1>1. StoresOK'
  BY StoresKept DEF Enrol
<1>2. CredsOK'
  BY CredsKept DEF Enrol
<1>3. LinesOK'
  BY LinesKept DEF Enrol
<1>4. JobsOK'
  <2>1. "loop" \in Threads /\ "enrol.check" \in Steps \ (KeySteps \cup OtherSteps \cup RequestSteps)
    BY DEF Threads, Steps, KeySteps, OtherSteps, RequestSteps
  <2> QED BY <2>1, OfType, BeginOK DEF Enrol
<1> QED BY <1>1, <1>2, <1>3, <1>4

LEMMA EnrolCheckOK == ASSUME IInv, NEW t \in Threads, EnrolCheck(t) PROVE IInv'
<1> USE DEF IInv
<1>1. StoresOK'
  BY StoresKept DEF EnrolCheck
<1>2. CredsOK'
  BY CredsKept DEF EnrolCheck
<1>3. LinesOK'
  BY LinesKept DEF EnrolCheck
<1>4. JobsOK'
  BY Held, GotoOK, EndsOK DEF EnrolCheck, At, Steps, Fits, KeySteps, OtherSteps, RequestSteps
<1> QED BY <1>1, <1>2, <1>3, <1>4

LEMMA EnrolWriteOK == ASSUME IInv, NEW t \in Threads, EnrolWrite(t) PROVE IInv'
<1> USE DEF IInv
<1>1. StoresOK'
  BY Held DEF EnrolWrite, At, StoresOK, pairVars, counts
<1>2. CredsOK'
  BY CredsKept DEF EnrolWrite
<1>3. LinesOK'
  BY LinesKept DEF EnrolWrite
<1>4. JobsOK'
  BY EndsOK DEF EnrolWrite
<1> QED BY <1>1, <1>2, <1>3, <1>4

LEMMA CrashOK == ASSUME IInv, Crash PROVE IInv'
<1> USE DEF IInv
<1>1. StoresOK'
  BY DEF Crash, StoresOK, pairVars
<1>2. CredsOK'
  BY CredsKept DEF Crash
<1>3. LinesOK'
  BY LinesKept DEF Crash
<1>4. JobsOK'
  <2>1. Rest.at = "idle"
    BY DEF Rest
  <2> QED BY <2>1, RestType DEF Crash, JobsOK
<1> QED BY <1>1, <1>2, <1>3, <1>4

-----------------------------------------------------------------------------
(* The theorems *)

LEMMA WorkOK == ASSUME IInv, NEW t \in Threads, Work(t) PROVE IInv'
  BY GrantCheckOK, GrantWriteOK, SshCheckOK, SshWriteOK, GrantRecordOK, ClaimWriteOK,
     PutCredOK, PutGrantOK, PutWriteOK, PermitCredOK, PermitWriteOK, PermitRecordOK,
     MoveStartOK, MoveCheckOK, MoveWriteOK, MoveRecordOK, ForgetOK, DenyOK,
     RevokeCredsOK, RevokeBioOK, RevokePushOK, RevokeLinesOK, PurgeMediaOK, PurgeCredsOK,
     PurgeForgetOK, PurgePushOK, SubCheckOK, SubWriteOK, EnrolCheckOK, EnrolWriteOK
     DEF Work

LEMMA LocalOK == ASSUME IInv, Local PROVE IInv'
<1>1. ASSUME NEW d, Purge(d) PROVE d \in Devices
  BY <1>1, OfType DEF Purge, CredsOf, IInv, CredsOK
<1> QED BY <1>1, ApproveOK, PermitOK, RejectOK, PruneOK, RevokeOK, PurgeOK DEF Local

LEMMA NetworkOK == ASSUME IInv, Network PROVE IInv'
  BY PairRequestOK, ClaimOK, ForgottenOK, RenewOK, EnrolOK, OfferKeyOK, SubscribeOK, SupersedeOK
     DEF Network

LEMMA InitOK == ASSUME Init PROVE IInv
<1>1. StoresOK
  BY DEF Init, StoresOK, Row, NoRow
<1>2. CredsOK
  BY DEF Init, CredsOK
<1>3. LinesOK
  BY DEF Init, LinesOK, OneLinePerKey
<1>4. Rest.at = "idle"
  BY DEF Rest
<1>5. JobsOK
  BY <1>4, RestType DEF Init, JobsOK
<1> QED BY <1>1, <1>2, <1>3, <1>5 DEF IInv

LEMMA NextOK == ASSUME IInv, [Next]_vars PROVE IInv'
<1>1. CASE UNCHANGED vars
  BY <1>1, StoresKept, CredsKept, LinesKept, JobsKept DEF IInv, vars, pairVars, credVars, counts
<1> QED BY <1>1, LocalOK, NetworkOK, WorkOK, CrashOK DEF Next

LEMMA Inductive == Spec => []IInv
  BY InitOK, NextOK, PTL DEF Spec

\* Every store, every job and every line is of its type, whatever the devices, the keys and
\* the threads are: no step of a job meets a device, a key or a request that it lacks.
THEOREM TypeCorrect == Spec => []TypeOK
<1>1. IInv => TypeOK
  BY DEF IInv, StoresOK, CredsOK, LinesOK, JobsOK, TypeOK
<1> QED BY <1>1, Inductive, PTL

\* A token that was revoked never works again: neither the purge that drops its row nor what
\* is issued to the device later gives the token back, with any number of credentials.
THEOREM RevokedRefused == Spec => []RevokedStaysRefused
<1>1. IInv => RevokedStaysRefused
  BY DEF IInv, CredsOK, RevokedStaysRefused, Verifies
<1> QED BY <1>1, Inductive, PTL

\* A key is one line of authorized_keys, whoever writes, moves or prunes lines meanwhile:
\* the half of OneIdentity that does not depend on which writes fail.
THEOREM KeyIsOneLine == Spec => []OneLinePerKey
<1>1. IInv => OneLinePerKey
  BY DEF IInv, LinesOK
<1> QED BY <1>1, Inductive, PTL
=============================================================================
