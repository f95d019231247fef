------------------------------ MODULE Devices ------------------------------
(***************************************************************************)
(* What a paired device holds on this computer, and how it is taken back:  *)
(* the device lifecycle of service.py over the stores of pairing.py,       *)
(* auth.py, media_pairing.py, ssh_keys.py, push.py and biometric.py.       *)
(*                                                                         *)
(* Each store has a lock of its own and none is held over a whole revoke.  *)
(* The rule that makes up for it is written in _revoke_device: a grant     *)
(* asks its source again under the lock it writes with, and the source     *)
(* goes before the store it guards.  So an action here is one hold of a    *)
(* lock, or one read under it: between a check and its write the lock is   *)
(* still held, and everything that needs another lock may happen.          *)
(*                                                                         *)
(* Time is left to Credentials; here a credential works until it is        *)
(* revoked.  A rejected request is one that is gone.                       *)
(***************************************************************************)
EXTENDS Naturals, FiniteSets

CONSTANTS
  Devices, Nobody,      \* device ids
  Keys, NoKey,          \* the bodies of SSH public keys
  Browsers, Phones,     \* devices that subscribe to pushes, that enrol an approval key
  Terminals, Purgeable, \* devices that offer a key after they paired, that the person ever purges
  Workers,              \* threads of asyncio.to_thread besides the local one
  MaxRequests,          \* pairing requests a device ever makes
  MaxCreds,             \* credentials ever minted for a device
  MaxCrashes, MaxFaults \* restarts of the daemon; writes that fail silently

ASSUME DeviceAssumption ==
  /\ NoKey \notin Keys /\ Nobody \notin Devices /\ Workers \cap {"local", "loop"} = {}
  /\ MaxRequests \in Nat /\ MaxCreds \in Nat /\ MaxCrashes \in Nat /\ MaxFaults \in Nat

VARIABLES
  rows,     \* pairing-requests: each request's row
  asked,    \* how many requests each device has made
  minted,   \* how many credentials each device was given
  issued, revoked, \* the credential registry
  allowed,  \* media-pairing: the device's allow flag
  lines,    \* authorized_keys: the lines that are Omodachi's
  waiting,  \* _ssh_pending, in memory
  push, bio,\* devices with a push subscription, with an approval key
  job,      \* what each thread is doing
  cleared,  \* ghost: devices revoked, and not approved again since
  trusted,  \* ghost: devices a local decision gave a terminal
  ever,     \* ghost: credentials ever revoked
  crashes, faults

pairVars == <<rows, asked>>
credVars == <<minted, issued, revoked, ever>>
ghosts   == <<cleared, trusted, ever>>
counts   == <<crashes, faults>>
vars == <<rows, asked, minted, issued, revoked, allowed, lines, waiting, push, bio,
          job, cleared, trusted, ever, crashes, faults>>

Threads  == {"local", "loop"} \cup Workers
\* The device is part of a request and of a token; the numbers make them distinct.
Requests == Devices \X (1..MaxRequests)
Creds    == Devices \X (1..MaxCreds)
Of(x)    == x[1]
None     == <<Nobody, 0>>
Line     == [key : Keys, owner : Devices]
Row      == [status : {"none", "pending", "approved", "claimed"},
             key : Keys \cup {NoKey}, ssh : BOOLEAN]
Steps == {"idle",
          "media", "media.write", "ssh", "ssh.write", "grant",
          "claim.write",
          "put.cred", "put.grant", "put.write",
          "permit.cred", "permit.write", "permit.grant",
          "move", "move.check", "move.write", "move.grant",
          "forget", "deny", "creds", "bio", "push", "lines",
          "purge.media", "purge.creds", "purge.forget", "purge.push",
          "sub.check", "sub.write", "enrol.check", "enrol.write"}
\* other: the older identity of a supersede, or the device whose line may move here.
Job == [at : Steps, dev : Devices \cup {Nobody}, other : Devices \cup {Nobody}, key : Keys \cup {NoKey},
        req : Requests \cup {None}, cred : Creds \cup {None}, ok : BOOLEAN]

-----------------------------------------------------------------------------
(* The questions the stores answer *)

\* The locks held between two steps of a job.
Holds(step) ==
  CASE step = "media.write" -> "media"
    [] step \in {"ssh.write", "put.grant", "put.write", "permit.write", "move.write"} -> "keys"
    [] step = "claim.write" -> "pairing"
    [] step = "sub.write"   -> "push"
    [] step = "enrol.write" -> "bio"
    [] OTHER -> "none"
Free(lock) == \A t \in Threads : Holds(job[t].at) # lock

Verifies(c) == c \in issued \ revoked                         \* _verify_locked
CredsOf(d)  == {c \in issued : Of(c) = d}
HasCredential(d) == \E c \in CredsOf(d) : Verifies(c)         \* active_credentials
Standing(r) == rows[r].status \in {"approved", "claimed"}
HoldsApproval(d, r) == Of(r) = d /\ Standing(r)
ApprovalsOf(d) == {r \in Requests : HoldsApproval(d, r)}
Granted(d)  == \E r \in ApprovalsOf(d) : rows[r].ssh          \* _ssh_grants
OwnersOf(k) == {l.owner : l \in {m \in lines : m.key = k}}
LinesOf(d)  == {l \in lines : l.owner = d}
\* SEC-RENEW-2: the new identity works, and the old one was not revoked.
MayMove(old, new) == /\ HasCredential(new) /\ CredsOf(old) # {}
                     /\ CredsOf(old) \cap revoked = {}

NoRow == [status |-> "none", key |-> NoKey, ssh |-> FALSE]
Rest  == [at |-> "idle", dev |-> Nobody, other |-> Nobody, key |-> NoKey, req |-> None, cred |-> None,
          ok |-> TRUE]
At(t, step) == job[t].at = step
Begin(t, step, d, o, k, r, c) ==
  /\ At(t, "idle")
  /\ job' = [job EXCEPT ![t] = [at |-> step, dev |-> d, other |-> o, key |-> k,
                                req |-> r, cred |-> c, ok |-> TRUE]]
Goto(t, step) == job' = [job EXCEPT ![t].at = step]
Ends(t) == job' = [job EXCEPT ![t] = Rest]

-----------------------------------------------------------------------------
(* Pairing: a request, the local decision with what it hands over, the claim *)

\* request(): a device that asks again replaces what it asked, unless it brings an
\* invitation.
PairRequest(d, k, invited) ==
  /\ At("loop", "idle") /\ Free("pairing") /\ asked[d] < MaxRequests
  /\ asked' = [asked EXCEPT ![d] = @ + 1]
  /\ rows' = [r \in Requests |->
       IF r = <<d, asked'[d]>> THEN [status |-> "pending", key |-> k, ssh |-> FALSE]
       ELSE IF ~invited /\ Of(r) = d /\ rows[r].status = "pending" THEN NoRow ELSE rows[r]]
  /\ UNCHANGED <<credVars, allowed, lines, waiting, push, bio, job, cleared, trusted, counts>>

\* A request that is rejected, or not claimed in time, leaves the file.
Forgotten(r) ==
  /\ Free("pairing") /\ rows[r].status \in {"pending", "approved"} /\ rows' = [rows EXCEPT ![r] = NoRow]
  /\ UNCHANGED <<asked, credVars, allowed, lines, waiting, push, bio, job, cleared, trusted, counts>>

AfterMedia(k) == IF k # NoKey THEN "ssh" ELSE "grant"

\* local.pair.approve: decide(); an approval already given is resumed for its grants.
Approve(r, remote) ==
  /\ Free("pairing") /\ rows[r].status \in {"pending"} \cup IF remote THEN {"approved", "claimed"} ELSE {}
  /\ LET d == Of(r)  k == rows[r].key IN
     /\ Begin("local", IF remote THEN "media" ELSE AfterMedia(k), d, Nobody, k, r, None)
     /\ IF rows[r].status = "pending"
          THEN /\ rows' = [rows EXCEPT ![r].status = "approved"]
               /\ cleared' = cleared \ {d}
               /\ trusted' = IF k # NoKey THEN trusted \cup {d} ELSE trusted
          ELSE UNCHANGED <<rows, cleared, trusted>>
  /\ UNCHANGED <<asked, credVars, allowed, lines, waiting, push, bio, counts>>

\* _grant_remote: the media store asks the approval again under its lock.
GrantCheck(t) ==
  /\ At(t, "media") /\ Free("media") /\ Free("pairing")
  /\ Goto(t, IF HoldsApproval(job[t].dev, job[t].req) THEN "media.write" ELSE AfterMedia(job[t].key))
  /\ UNCHANGED <<pairVars, credVars, allowed, lines, waiting, push, bio, cleared, trusted, counts>>

GrantWrite(t) ==
  /\ At(t, "media.write") /\ allowed' = [allowed EXCEPT ![job[t].dev] = "yes"]
  /\ Goto(t, AfterMedia(job[t].key))
  /\ UNCHANGED <<pairVars, credVars, lines, waiting, push, bio, cleared, trusted, counts>>

\* _authorize_ssh, and authorize() with the same check under the lock of the file.
SshCheck(t) ==
  /\ At(t, "ssh") /\ Free("keys") /\ Free("pairing")
  /\ LET held == HoldsApproval(job[t].dev, job[t].req) IN
     job' = [job EXCEPT ![t].at = IF held THEN "ssh.write" ELSE "grant", ![t].ok = held]
  /\ UNCHANGED <<pairVars, credVars, allowed, lines, waiting, push, bio, cleared, trusted, counts>>

\* Slip: whose the key is already is not asked.
SshWriteAnyway(t) ==
  LET d == job[t].dev  k == job[t].key IN
  /\ At(t, "ssh.write") /\ lines' = lines \cup {[key |-> k, owner |-> d]} /\ Goto(t, "grant")
  /\ UNCHANGED <<pairVars, credVars, allowed, waiting, push, bio, cleared, trusted, counts>>

\* A key that stands on a line of another device is refused.
SshWrite(t) ==
  LET d == job[t].dev  k == job[t].key  mine == OwnersOf(k) \subseteq {d} IN
  /\ At(t, "ssh.write")
  /\ lines' = IF mine THEN lines \cup {[key |-> k, owner |-> d]} ELSE lines
  /\ job' = [job EXCEPT ![t].at = "grant", ![t].ok = mine]
  /\ UNCHANGED <<pairVars, credVars, allowed, waiting, push, bio, cleared, trusted, counts>>

\* Slip: an approval that brought no key records a terminal all the same.
GrantRecordAlways(t) ==
  LET r == job[t].req IN
  /\ At(t, "grant") /\ Free("pairing") /\ Ends(t)
  /\ rows' = IF rows[r].status # "none" THEN [rows EXCEPT ![r].ssh = job[t].ok] ELSE rows
  /\ UNCHANGED <<asked, credVars, allowed, lines, waiting, push, bio, cleared, trusted, counts>>

\* grant(): what landed is written into the approval, if that is still there.
GrantRecord(t) ==
  LET r == job[t].req IN
  /\ At(t, "grant") /\ Free("pairing") /\ Ends(t)
  /\ rows' = IF rows[r].status # "none" /\ job[t].key # NoKey
               THEN [rows EXCEPT ![r].ssh = job[t].ok] ELSE rows
  /\ UNCHANGED <<asked, credVars, allowed, lines, waiting, push, bio, cleared, trusted, counts>>

Mint(d) ==
  /\ minted[d] < MaxCreds /\ minted' = [minted EXCEPT ![d] = @ + 1]
  /\ issued' = issued \cup {<<d, minted'[d]>>}
  /\ UNCHANGED <<revoked, ever>>

\* claim(): the credential is issued inside the transaction that marks the row.
Claim(r) ==
  /\ Free("pairing") /\ rows[r].status = "approved" /\ Mint(Of(r))
  /\ Begin("loop", "claim.write", Of(r), Nobody, NoKey, r, None)
  /\ UNCHANGED <<pairVars, allowed, lines, waiting, push, bio, cleared, trusted, counts>>

ClaimWrite(t) ==
  /\ At(t, "claim.write") /\ rows' = [rows EXCEPT ![job[t].req].status = "claimed"] /\ Ends(t)
  /\ UNCHANGED <<asked, credVars, allowed, lines, waiting, push, bio, cleared, trusted, counts>>

\* renew(): the check and the new credential are one transaction of the registry.
Renew(c) ==
  /\ At("loop", "idle") /\ Verifies(c) /\ Mint(Of(c))
  /\ UNCHANGED <<pairVars, allowed, lines, waiting, push, bio, job, cleared, trusted, counts>>

-----------------------------------------------------------------------------
(* The terminal: a device states its key, or a local decision gives it one *)

\* ssh_key(): without a grant the key waits for `ssh approve`.
OfferKey(c, k) ==
  /\ At("loop", "idle") /\ Free("pairing") /\ Verifies(c)
  /\ IF Granted(Of(c))
       THEN /\ Begin("loop", "put.cred", Of(c), Nobody, k, None, c) /\ UNCHANGED waiting
       ELSE /\ waiting' = [waiting EXCEPT ![Of(c)] = k] /\ UNCHANGED job
  /\ UNCHANGED <<pairVars, credVars, allowed, lines, push, bio, cleared, trusted, counts>>

\* _ssh_still_granted, asked under the lock of the file: the credential, then the grant.
PutCred(t) ==
  /\ At(t, "put.cred") /\ Free("keys")
  /\ IF Verifies(job[t].cred) THEN Goto(t, "put.grant") ELSE Ends(t)
  /\ UNCHANGED <<pairVars, credVars, allowed, lines, waiting, push, bio, cleared, trusted, counts>>

\* Slip: a refusal leaves the lock where it is.
PutGrantHangs(t) ==
  /\ At(t, "put.grant") /\ Free("pairing") /\ Granted(job[t].dev) /\ Goto(t, "put.write")
  /\ UNCHANGED <<pairVars, credVars, allowed, lines, waiting, push, bio, cleared, trusted, counts>>

PutGrant(t) ==
  /\ At(t, "put.grant") /\ Free("pairing")
  /\ IF Granted(job[t].dev) THEN Goto(t, "put.write") ELSE Ends(t)
  /\ UNCHANGED <<pairVars, credVars, allowed, lines, waiting, push, bio, cleared, trusted, counts>>

\* replace(): one line of this device, for this key; from's line for it moves.
Replaced(d, k, from) ==
  IF OwnersOf(k) \subseteq {d, from}
    THEN {l \in lines : l.key # k /\ l.owner # d} \cup {[key |-> k, owner |-> d]} ELSE lines

PutWrite(t) ==
  /\ At(t, "put.write") /\ lines' = Replaced(job[t].dev, job[t].key, job[t].dev) /\ Ends(t)
  /\ UNCHANGED <<pairVars, credVars, allowed, waiting, push, bio, cleared, trusted, counts>>

\* _decide_ssh: who holds the key is read before the lock is taken.
Permit(d) ==
  /\ waiting[d] # NoKey /\ waiting' = [waiting EXCEPT ![d] = NoKey]
  /\ \E holder \in OwnersOf(waiting[d]) \cup IF OwnersOf(waiting[d]) = {} THEN {d} ELSE {} :
       Begin("local", "permit.cred", d, holder, waiting[d], None, None)
  /\ trusted' = trusted \cup {d}
  /\ UNCHANGED <<pairVars, credVars, allowed, lines, push, bio, cleared, counts>>

Reject(d) ==
  /\ At("local", "idle") /\ waiting[d] # NoKey /\ waiting' = [waiting EXCEPT ![d] = NoKey]
  /\ UNCHANGED <<pairVars, credVars, allowed, lines, push, bio, job, cleared, trusted, counts>>

\* _ssh_has_credential, under the lock of the file.
PermitCred(t) ==
  /\ At(t, "permit.cred") /\ Free("keys")
  /\ IF HasCredential(job[t].dev) THEN Goto(t, "permit.write") ELSE Ends(t)
  /\ UNCHANGED <<pairVars, credVars, allowed, lines, waiting, push, bio, cleared, trusted, counts>>

PermitWrite(t) ==
  LET d == job[t].dev  k == job[t].key  from == job[t].other IN
  /\ At(t, "permit.write") /\ lines' = Replaced(d, k, from)
  /\ IF OwnersOf(k) \subseteq {d, from} THEN Goto(t, "permit.grant") ELSE Ends(t)
  /\ UNCHANGED <<pairVars, credVars, allowed, waiting, push, bio, cleared, trusted, counts>>

\* The terminal is recorded in one of the device's approvals, if it has any and the one
\* it asked for is still there.
Recorded(d) ==
  \/ UNCHANGED rows
  \/ \E r \in ApprovalsOf(d) : rows' = [rows EXCEPT ![r].ssh = TRUE]

PermitRecord(t) ==
  /\ At(t, "permit.grant") /\ Free("pairing") /\ Recorded(job[t].dev) /\ Ends(t)
  /\ UNCHANGED <<asked, credVars, allowed, lines, waiting, push, bio, cleared, trusted, counts>>
\* prune(): of several lines of a device the newest stays; their order is abstracted.
Prune(d) ==
  /\ At("local", "idle") /\ Free("keys") /\ Cardinality(LinesOf(d)) > 1
  /\ \E newest \in LinesOf(d) : lines' = (lines \ LinesOf(d)) \cup {newest}
  /\ UNCHANGED <<pairVars, credVars, allowed, waiting, push, bio, job, cleared, trusted, counts>>

-----------------------------------------------------------------------------
(* Superseding: a certificate moved to the identity that proved it, on a thread *)
(* of the media store, and the older identity of the phone is retired.          *)

\* _rebind and media_rebound: old's streaming grant goes with the certificate.
Supersede(w, old, new) ==
  /\ old # new /\ Free("media") /\ allowed[old] # "no" /\ allowed[new] = "yes"
  /\ allowed' = [allowed EXCEPT ![old] = "no"]
  /\ Begin(w, "move", new, old, NoKey, None, None)
  /\ UNCHANGED <<pairVars, credVars, lines, waiting, push, bio, cleared, trusted, counts>>

\* _offered_ssh_key: the key that waits for approval, else that of the latest approval.
Offered(d) == IF waiting[d] # NoKey THEN {waiting[d]}
              ELSE {rows[r].key : r \in ApprovalsOf(d)} \cup
                   IF ApprovalsOf(d) = {} THEN {NoKey} ELSE {}

Retire(t) == job' = [job EXCEPT ![t] = [Rest EXCEPT !.at = "forget", !.dev = job[t].other]]

\* The cheap filter before the lock: the older identity has a line for that key.
MoveStart(t) ==
  /\ At(t, "move") /\ Free("pairing")
  /\ \E k \in Offered(job[t].dev) :
       IF k # NoKey /\ job[t].other \in OwnersOf(k)
         THEN job' = [job EXCEPT ![t].at = "move.check", ![t].key = k]
         ELSE Retire(t)
  /\ UNCHANGED <<pairVars, credVars, allowed, lines, waiting, push, bio, cleared, trusted, counts>>

MoveCheck(t) ==
  /\ At(t, "move.check") /\ Free("keys")
  /\ IF MayMove(job[t].other, job[t].dev) THEN Goto(t, "move.write") ELSE Retire(t)
  /\ UNCHANGED <<pairVars, credVars, allowed, lines, waiting, push, bio, cleared, trusted, counts>>

\* move_only: when the older identity has lost the line, nothing is written.
MoveWrite(t) ==
  LET d == job[t].dev  k == job[t].key  old == job[t].other IN
  /\ At(t, "move.write")
  /\ IF old \in OwnersOf(k)
       THEN /\ lines' = Replaced(d, k, old) /\ Goto(t, "move.grant")
            /\ trusted' = IF old \in trusted THEN trusted \cup {d} ELSE trusted
       ELSE UNCHANGED <<lines, trusted>> /\ Retire(t)
  /\ UNCHANGED <<pairVars, credVars, allowed, waiting, push, bio, cleared, counts>>

MoveRecord(t) ==
  LET d == job[t].dev IN
  /\ At(t, "move.grant") /\ Free("pairing") /\ Recorded(d) /\ Retire(t)
  /\ waiting' = IF waiting[d] = job[t].key THEN [waiting EXCEPT ![d] = NoKey] ELSE waiting
  /\ UNCHANGED <<asked, credVars, allowed, lines, push, bio, cleared, trusted, counts>>

-----------------------------------------------------------------------------
(* _revoke_device: the approval, the streaming grant, the credentials, and then *)
(* everything that was handed out on their account.                             *)

Revoke(d) ==
  /\ Begin("local", "forget", d, Nobody, NoKey, None, None)
  /\ UNCHANGED <<pairVars, credVars, allowed, lines, waiting, push, bio, cleared, trusted, counts>>

Without(d) == [r \in Requests |-> IF Of(r) = d THEN NoRow ELSE rows[r]]

\* A file that cannot be written is passed over in silence.
Fails == faults < MaxFaults /\ faults' = faults + 1

\* forget_device().  cleared is entered here, and left by the next local decision.
Forget(t) ==
  /\ At(t, "forget") /\ Free("pairing") /\ Goto(t, "deny")
  /\ \/ rows' = Without(job[t].dev) /\ UNCHANGED faults
     \/ Fails /\ UNCHANGED rows
  /\ cleared' = cleared \cup {job[t].dev}
  /\ UNCHANGED <<asked, credVars, allowed, lines, waiting, push, bio, trusted, crashes>>

\* MediaPairingBridge.revoke_device; whether the fork really took the certificate back
\* decides whether the device is purged at the end.
Deny(t) ==
  /\ At(t, "deny") /\ Free("media") /\ allowed' = [allowed EXCEPT ![job[t].dev] = "no"]
  /\ \E finished \in BOOLEAN : job' = [job EXCEPT ![t].at = "creds", ![t].ok = finished]
  /\ UNCHANGED <<pairVars, credVars, lines, waiting, push, bio, cleared, trusted, counts>>

RevokeCreds(t) ==
  LET all == CredsOf(job[t].dev) IN
  /\ At(t, "creds") /\ revoked' = revoked \cup all /\ ever' = ever \cup all /\ Goto(t, "bio")
  /\ UNCHANGED <<pairVars, minted, issued, allowed, lines, waiting, push, bio,
                 cleared, trusted, counts>>

RevokeBio(t) ==
  /\ At(t, "bio") /\ Free("bio") /\ Goto(t, "push")
  /\ \/ bio' = bio \ {job[t].dev} /\ UNCHANGED faults
     \/ Fails /\ UNCHANGED bio
  /\ UNCHANGED <<pairVars, credVars, allowed, lines, waiting, push, cleared, trusted, crashes>>

\* _forget_push, and the key that waits for approval.
RevokePush(t) ==
  /\ At(t, "push") /\ Free("push") /\ Goto(t, "lines")
  /\ \/ push' = push \ {job[t].dev} /\ UNCHANGED faults
     \/ Fails /\ UNCHANGED push
  /\ waiting' = [waiting EXCEPT ![job[t].dev] = NoKey]
  /\ UNCHANGED <<pairVars, credVars, allowed, lines, bio, cleared, trusted, crashes>>

\* A decision that is still being carried out outlasts a revoke that overtakes it.
Giving(d) == \E t \in Threads :
  job[t].dev = d /\ job[t].at \in {"permit.cred", "permit.write", "permit.grant", "move.grant"}

RevokeLines(t) ==
  /\ At(t, "lines") /\ Free("keys") /\ lines' = lines \ LinesOf(job[t].dev)
  /\ trusted' = IF job[t].dev \in cleared /\ ~Giving(job[t].dev)
                  THEN trusted \ {job[t].dev} ELSE trusted
  /\ IF job[t].ok THEN Goto(t, "purge.media") ELSE Ends(t)
  /\ UNCHANGED <<pairVars, credVars, allowed, waiting, push, bio, cleared, counts>>

-----------------------------------------------------------------------------
(* _purge_device: a revoked device leaves the registries altogether *)

\* devices purge takes the rows whose credentials are all revoked.
Purge(d) ==
  /\ CredsOf(d) # {} /\ CredsOf(d) \subseteq revoked
  /\ Begin("local", "purge.media", d, Nobody, NoKey, None, None)
  /\ UNCHANGED <<pairVars, credVars, allowed, lines, waiting, push, bio, cleared, trusted, counts>>

\* An authorized device is not purged, and neither is one with a certificate unresolved.
PurgeMedia(t) ==
  LET d == job[t].dev IN
  /\ At(t, "purge.media") /\ Free("media")
  /\ \/ /\ allowed[d] # "yes" /\ allowed' = [allowed EXCEPT ![d] = "none"] /\ Goto(t, "purge.creds")
     \/ UNCHANGED allowed /\ Ends(t)
  /\ UNCHANGED <<pairVars, credVars, lines, waiting, push, bio, cleared, trusted, counts>>

\* Slips: the purge drops the revocation and keeps the row, or the other way round.
PurgeForgives(t) ==
  LET all == CredsOf(job[t].dev) IN
  /\ At(t, "purge.creds") /\ revoked' = revoked \ all /\ Goto(t, "purge.forget")
  /\ UNCHANGED <<pairVars, minted, issued, ever, allowed, lines, waiting, push, bio,
                 cleared, trusted, counts>>
PurgeHalf(t) ==
  LET all == CredsOf(job[t].dev) IN
  /\ At(t, "purge.creds") /\ issued' = issued \ all /\ Goto(t, "purge.forget")
  /\ UNCHANGED <<pairVars, minted, revoked, ever, allowed, lines, waiting, push, bio,
                 cleared, trusted, counts>>

PurgeCreds(t) ==
  LET all == CredsOf(job[t].dev) IN
  /\ At(t, "purge.creds")
  /\ IF all \subseteq revoked
       THEN /\ issued' = issued \ all /\ revoked' = revoked \ all /\ Goto(t, "purge.forget")
       ELSE UNCHANGED <<issued, revoked>> /\ Ends(t)
  /\ UNCHANGED <<pairVars, minted, ever, allowed, lines, waiting, push, bio,
                 cleared, trusted, counts>>

PurgeForget(t) ==
  /\ At(t, "purge.forget") /\ Free("pairing") /\ rows' = Without(job[t].dev) /\ Goto(t, "purge.push")
  /\ UNCHANGED <<asked, credVars, allowed, lines, waiting, push, bio, cleared, trusted, counts>>

PurgePush(t) ==
  /\ At(t, "purge.push") /\ Free("push") /\ push' = push \ {job[t].dev} /\ Ends(t)
  /\ UNCHANGED <<pairVars, credVars, allowed, lines, waiting, bio, cleared, trusted, counts>>

-----------------------------------------------------------------------------
(* What else a credential is good for: a push subscription, an approval key *)

Subscribe(w, c) ==
  /\ Of(c) \in Browsers /\ Verifies(c) /\ Begin(w, "sub.check", Of(c), Nobody, NoKey, None, c)
  /\ UNCHANGED <<pairVars, credVars, allowed, lines, waiting, push, bio, cleared, trusted, counts>>

\* Slip: the credential was good when the call came in.
SubUnchecked(t) ==
  /\ At(t, "sub.check") /\ Free("push") /\ Goto(t, "sub.write")
  /\ UNCHANGED <<pairVars, credVars, allowed, lines, waiting, push, bio, cleared, trusted, counts>>

SubCheck(t) ==
  /\ At(t, "sub.check") /\ Free("push")
  /\ IF Verifies(job[t].cred) THEN Goto(t, "sub.write") ELSE Ends(t)
  /\ UNCHANGED <<pairVars, credVars, allowed, lines, waiting, push, bio, cleared, trusted, counts>>

SubWrite(t) ==
  /\ At(t, "sub.write") /\ push' = push \cup {job[t].dev} /\ Ends(t)
  /\ UNCHANGED <<pairVars, credVars, allowed, lines, waiting, bio, cleared, trusted, counts>>

Enrol(c) ==
  /\ Of(c) \in Phones /\ Verifies(c) /\ Begin("loop", "enrol.check", Of(c), Nobody, NoKey, None, c)
  /\ UNCHANGED <<pairVars, credVars, allowed, lines, waiting, push, bio, cleared, trusted, counts>>

EnrolCheck(t) ==
  /\ At(t, "enrol.check") /\ Free("bio")
  /\ IF Verifies(job[t].cred) THEN Goto(t, "enrol.write") ELSE Ends(t)
  /\ UNCHANGED <<pairVars, credVars, allowed, lines, waiting, push, bio, cleared, trusted, counts>>

EnrolWrite(t) ==
  /\ At(t, "enrol.write") /\ bio' = bio \cup {job[t].dev} /\ Ends(t)
  /\ UNCHANGED <<pairVars, credVars, allowed, lines, waiting, push, cleared, trusted, counts>>

\* The daemon is restarted: the files stay, the threads and what memory held go.  A revoke
\* that was under way did not happen: the person at the computer was told no end of it.
\* What a line without a credential then opens is a matter of its end (Credentials).
Revoking(d) == \E t \in Threads :
  job[t].dev = d /\ job[t].at \in {"deny", "creds", "bio", "push", "lines"}

Crash ==
  /\ crashes < MaxCrashes /\ crashes' = crashes + 1
  /\ job' = [t \in Threads |-> Rest] /\ waiting' = [d \in Devices |-> NoKey]
  /\ cleared' = {d \in cleared : ~Revoking(d)}
  /\ UNCHANGED <<pairVars, credVars, allowed, lines, push, bio, trusted, faults>>

-----------------------------------------------------------------------------
Init ==
  /\ rows = [r \in Requests |-> NoRow] /\ asked = [d \in Devices |-> 0]
  /\ minted = [d \in Devices |-> 0] /\ issued = {} /\ revoked = {}
  /\ allowed = [d \in Devices |-> "none"] /\ lines = {}
  /\ waiting = [d \in Devices |-> NoKey] /\ push = {} /\ bio = {}
  /\ job = [t \in Threads |-> Rest]
  /\ cleared = {} /\ trusted = {} /\ ever = {} /\ crashes = 0 /\ faults = 0

\* The steps of work that was begun.
Work(t) ==
  \/ GrantCheck(t) \/ GrantWrite(t) \/ SshCheck(t) \/ SshWrite(t) \/ GrantRecord(t) \/ ClaimWrite(t)
  \/ PutCred(t) \/ PutGrant(t) \/ PutWrite(t)
  \/ PermitCred(t) \/ PermitWrite(t) \/ PermitRecord(t)
  \/ MoveStart(t) \/ MoveCheck(t) \/ MoveWrite(t) \/ MoveRecord(t)
  \/ Forget(t) \/ Deny(t) \/ RevokeCreds(t) \/ RevokeBio(t) \/ RevokePush(t) \/ RevokeLines(t)
  \/ PurgeMedia(t) \/ PurgeCreds(t) \/ PurgeForget(t) \/ PurgePush(t)
  \/ SubCheck(t) \/ SubWrite(t) \/ EnrolCheck(t) \/ EnrolWrite(t)

Local ==
  \/ \E r \in Requests, remote \in BOOLEAN : Approve(r, remote)
  \/ \E d \in Devices : Permit(d) \/ Reject(d) \/ Prune(d) \/ Revoke(d)
  \/ \E d \in Purgeable : Purge(d)

Network ==
  \/ \E d \in Devices, k \in Keys \cup {NoKey}, invited \in BOOLEAN : PairRequest(d, k, invited)
  \/ \E r \in Requests : Claim(r) \/ Forgotten(r)
  \/ \E c \in Creds : Renew(c) \/ Enrol(c) \/ (Of(c) \in Terminals /\ \E k \in Keys : OfferKey(c, k))
  \/ \E w \in Workers : \/ \E c \in Creds : Subscribe(w, c)
                        \/ \E old, new \in Devices : Supersede(w, old, new)

Next == Local \/ Network \/ (\E t \in Threads : Work(t)) \/ Crash

Spec == Init /\ [][Next]_vars

\* Threads run on; flock() serves those that wait.
FairSpec == Spec /\ \A t \in Threads : SF_vars(Work(t))

-----------------------------------------------------------------------------
(* Properties *)

TypeOK ==
  /\ rows \in [Requests -> Row] /\ asked \in [Devices -> 0..MaxRequests]
  /\ minted \in [Devices -> 0..MaxCreds]
  /\ revoked \subseteq issued /\ issued \subseteq Creds /\ ever \subseteq Creds
  /\ allowed \in [Devices -> {"none", "yes", "no"}] /\ lines \subseteq Line
  /\ waiting \in [Devices -> Keys \cup {NoKey}] /\ push \subseteq Devices /\ bio \subseteq Devices
  /\ job \in [Threads -> Job] /\ cleared \subseteq Devices /\ trusted \subseteq Devices
  /\ crashes \in 0..MaxCrashes /\ faults \in 0..MaxFaults

\* A revoke takes back every grant: once one is over, whatever else was under way on other
\* threads when it passed, the device has no credential that works, no streaming grant, no
\* line, no subscription, no approval key and no approval to get one by - until the person
\* at the computer approves it again.
RevokedKeepsNothing ==
  \A d \in cleared : Revoking(d) \/
    /\ ~HasCredential(d) /\ allowed[d] # "yes" /\ LinesOf(d) = {}
    /\ d \notin push /\ d \notin bio /\ ApprovalsOf(d) = {}

\* A credential alone is no login: a line stands only for a device that someone at the
\* computer gave a terminal, or whose older identity had been given one.
LinesGranted == \A l \in lines : l.owner \in trusted

\* One key is one line: an sshd that reads the file meets one answer for it, and taking
\* back its owner takes back the login.
OneLinePerKey == \A l, m \in lines : l.key = m.key => l = m
\* A phone that paired again has one line, the newer identity's, and the revoke of either
\* identity takes what it still had, whichever of the two the line went to meanwhile.
OneIdentity == OneLinePerKey /\ RevokedKeepsNothing

\* A token that was revoked never works again, the purge that drops its row and what is
\* issued later notwithstanding.
RevokedStaysRefused == \A c \in ever : ~Verifies(c)

\* Whatever a thread began it ends, every refusal on the way included: no lock is left
\* held and no two threads wait for each other's.
JobsEnd == \A t \in Threads : ~At(t, "idle") ~> At(t, "idle")
=============================================================================
