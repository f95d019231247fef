---------------------------- MODULE MediaPairing ----------------------------
(***************************************************************************)
(* Pairing a phone's certificate with the Sunshine fork, and taking it     *)
(* back: MediaPairingBridge and its store, media_pairing.py.               *)
(*                                                                         *)
(* Every operation runs under the store's lock and asks the fork inside    *)
(* it; the fork, the phone and a crash do not wait for the lock.  The one  *)
(* commit in the middle is the barrier before the PIN is sent: hand is the *)
(* attempt behind it.  Cancelled, failed and expired are one status here,  *)
(* "over".  The fork is external, known by its answers.                    *)
(***************************************************************************)
EXTENDS Naturals, FiniteSets

CONSTANTS
  Devices, Certs,             \* identities; certificates of phones
  MaxRequests, MaxTroubles    \* requests of each certificate; answers that are lost and ends of the daemon

VARIABLES
  allowed,        \* devices: "none", "yes" or "no" (an explicit deny)
  att,            \* attempts: [st, dev] of each request
  bind,           \* bindings: [st, dev] of each certificate
  pins, auths,    \* memory: requests with a PIN, with a device's authorization
  hand,           \* the attempt between the barrier and the answer to its PIN
  late,           \* attempts whose time is over
  req, trust,     \* the fork: its requests; those its store got a certificate from
  canRevoke,      \* the fork is one that can revoke
  pinned,         \* ghost: how often the fork was sent a PIN for a request
  dropped,        \* ghost: attempts under way whose record went with the older identity's
  troubles

file   == <<allowed, att, bind>>
memory == <<pins, auths, hand>>
env    == <<late, canRevoke, dropped>>
mediaVars == <<file, memory, env, req, trust, pinned, troubles>>

Requests == Certs \X (1..MaxRequests)
Nil      == [st |-> "none", dev |-> "none"]
Nobody   == <<>>
Terminal == {"paired", "over", "revocation_pending"}
Live(a, r) == a[r].st \notin Terminal \cup {"none"}
Allowed(d) == allowed[d] = "yes"
Locked == hand = Nobody

\* _expire(): what is late is to be cancelled; its PIN is wiped.
Past == {r \in late : Live(att, r)}
Aged == [r \in Requests |-> IF r \in Past THEN [att[r] EXCEPT !.st = "cancellation_pending"] ELSE att[r]]

\* An answer of the fork that does not come.
Trouble == troubles < MaxTroubles /\ troubles' = troubles + 1

\* Slip: a certificate moves whoever took it from its owner.
MayRebindAlways(b, d) == b.st # "none" /\ b.dev # d
\* _may_rebind()
MayRebind(b, d) == b.st = "paired" /\ b.dev # d /\ allowed[b.dev] # "no"

-----------------------------------------------------------------------------
(* Taking certificates back *)

\* _revoke_certificate() of each of cs; gone: those of which the fork says so.  It may have
\* taken more, when its answer was lost.
TakeBack(cs, gone) ==
  \E took \in SUBSET cs :
    /\ gone \subseteq took /\ (took # {} => canRevoke)
    /\ trust' = {r \in trust : r[1] \notin took}
    /\ IF canRevoke /\ gone # cs THEN Trouble ELSE UNCHANGED troubles

\* _mark_revocation() of the attempts rs; a certificate another identity holds keeps its binding.
Marked(a, b, rs, gone) ==
  /\ att' = [r \in Requests |-> IF r \notin rs THEN a[r] ELSE IF r[1] \in gone THEN Nil
                                ELSE [a[r] EXCEPT !.st = "revocation_pending"]]
  /\ bind' = [c \in Certs |->
       IF c \in gone THEN Nil
       ELSE IF \E r \in rs : r[1] = c /\ b[c].dev \in {"none", a[r].dev}
            THEN [st |-> "revocation_pending", dev |-> a[CHOOSE r \in rs : r[1] = c].dev]
       ELSE b[c]]

\* _reconcile(): bindings that are gone, and the attempts that only waited for them.
Pending(b) == {c \in Certs : b[c].st = "revocation_pending"}
Swept(a, b) == [r \in Requests |-> IF a[r].st = "revocation_pending" /\ b[r[1]].st = "none" THEN Nil ELSE a[r]]
Without(b, gone) == [c \in Certs |-> IF c \in gone THEN Nil ELSE b[c]]

\* _cancel(): the fork cancels, or it says what became of the request, or nothing is known.
Cancelled(r, a) ==
  \/ /\ req[r] \in {"pending", "proof", "over"} /\ req' = [req EXCEPT ![r] = "over"]
     /\ att' = [a EXCEPT ![r].st = "over"] /\ UNCHANGED <<bind, trust, troubles>>
  \/ /\ IF req[r] = "gone" THEN UNCHANGED <<req, troubles>>
        ELSE Trouble /\ req' \in {req} \cup (IF req[r] \in {"pending", "proof"} THEN {[req EXCEPT ![r] = "over"]} ELSE {})
     /\ att' = [a EXCEPT ![r].st = "cancellation_pending"] /\ UNCHANGED <<bind, trust>>
  \/ req[r] = "paired" /\ UNCHANGED req /\ \E gone \in SUBSET {r[1]} : TakeBack({r[1]}, gone) /\ Marked(a, bind, {r}, gone)
Cancel(r, a) ==
  /\ IF a[r].st = "paired" THEN UNCHANGED req /\ \E gone \in SUBSET {r[1]} : TakeBack({r[1]}, gone) /\ Marked(a, bind, {r}, gone)
     ELSE IF a[r].st \in Terminal THEN att' = a /\ UNCHANGED <<bind, req, trust, troubles>>
     ELSE Cancelled(r, a)
  /\ pins' = pins \ {r} /\ auths' = auths \ {r} /\ UNCHANGED <<hand, pinned>>

-----------------------------------------------------------------------------
(* Approving *)

Out(r) == pinned' = [pinned EXCEPT ![r] = @ + 1]
Reach(r) == req' = [req EXCEPT ![r] = "proof"] /\ Out(r)

\* _approve(), as far as the commit that makes the PIN a thing to be sent once.
Barrier(r, a, p) ==
  IF req[r] = "pending" /\ r \notin late
  THEN \/ /\ r \in p /\ att' = [a EXCEPT ![r].st = "submitting"] /\ pins' = p \ {r} /\ hand' = r
          /\ UNCHANGED <<auths, bind, req, trust, pinned, troubles>>
       \/ /\ r \notin p /\ att' = [a EXCEPT ![r].st = "awaiting_local_approval"] /\ pins' = p /\ auths' = auths \ {r}
          /\ UNCHANGED <<bind, hand, req, trust, pinned, troubles>>
       \/ Trouble /\ att' = a /\ pins' = p /\ UNCHANGED <<auths, bind, hand, req, trust, pinned>>
  ELSE Cancel(r, a)

\* The PIN goes out; an answer that does not come leaves it spent or not, and never sent again.
Send ==
  /\ ~Locked /\ hand' = Nobody /\ UNCHANGED <<allowed, pins, env>>
  /\ \/ UNCHANGED troubles /\ IF req[hand] = "pending" THEN Reach(hand) ELSE Out(hand) /\ UNCHANGED req
     \/ Trouble /\ Out(hand) /\ req' \in {req} \cup IF req[hand] = "pending" THEN {[req EXCEPT ![hand] = "proof"]} ELSE {}
  /\ att' = [att EXCEPT ![hand].st = "awaiting_client_proof"] /\ UNCHANGED <<auths, bind, trust>>

\* The credential went while the PIN was on its way: what was sent is cancelled.
SendRefused ==
  /\ ~Locked /\ hand' = Nobody
  /\ req[hand] = "pending" /\ Out(hand)
  /\ \/ req' = [req EXCEPT ![hand] = "over"] /\ att' = [att EXCEPT ![hand].st = "over"] /\ UNCHANGED troubles
     \/ req' = [req EXCEPT ![hand] = "proof"] /\ att' = [att EXCEPT ![hand].st = "cancellation_pending"] /\ Trouble
  /\ auths' = auths \ {hand} /\ UNCHANGED <<allowed, pins, bind, trust, env>>

\* submit(): a request seen before is the same attempt, never a second PIN.
Submit(d, r) ==
  LET b == bind[r[1]] IN
  /\ Locked /\ UNCHANGED <<allowed, env>>
  /\ Aged[r].st = "none" /\ (b.st = "none" \/ MayRebind(b, d)) /\ req[r] = "pending"
  /\ LET a(st) == [Aged EXCEPT ![r] = [st |-> st, dev |-> d]]  p == (pins \ Past) \cup {r} IN
     /\ IF Allowed(d)
        THEN \/ att' = a("submitting") /\ pins' = p \ {r} /\ hand' = r /\ UNCHANGED troubles
             \/ att' = a("pending") /\ pins' = p /\ Trouble /\ UNCHANGED hand
        ELSE att' = a("awaiting_local_approval") /\ pins' = p /\ UNCHANGED <<hand, troubles>>
     /\ auths' = (auths \ Past) \cup {r} /\ UNCHANGED <<bind, req, trust, pinned>>
Resubmit(d, r) ==
  /\ Locked /\ UNCHANGED <<allowed, env>>
  /\ Past = {} /\ att[r] = [st |-> "awaiting_local_approval", dev |-> d]
  /\ IF Allowed(d) THEN Barrier(r, att, pins \cup {r})
     ELSE pins' = pins \cup {r} /\ auths' = auths \cup {r} /\ UNCHANGED <<att, bind, hand, req, trust, pinned, troubles>>

\* approve_local() and grant_remote(): the person at the computer.
ApproveLocal(r) ==
  /\ Locked /\ r \notin Past /\ att[r].st = "awaiting_local_approval" /\ r \in auths
  /\ allowed' = [allowed EXCEPT ![att[r].dev] = "yes"] /\ Past = {} /\ Barrier(r, att, pins) /\ UNCHANGED env
GrantRemote(d) ==
  /\ Locked /\ ~Allowed(d) /\ allowed' = [allowed EXCEPT ![d] = "yes"]
  /\ UNCHANGED <<att, bind, memory, env, req, trust, pinned, troubles>>

-----------------------------------------------------------------------------
(* Looking again: status() of the device, and maintenance() *)

\* _bind() of a proof: a certificate moves from its older identity, which is retired here.
Proved(r) ==
  LET c == r[1]  b == bind[c]  d == att[r].dev IN
  IF b.st # "none" /\ b.dev # d /\ ~MayRebind(b, d) THEN UNCHANGED <<file, pins, auths>>
  ELSE LET moves == b.st # "none" /\ b.dev # d
           stale == IF moves THEN {q \in Requests : q[1] = c /\ att[q].dev = b.dev} ELSE {} IN
       /\ allowed' = IF moves THEN [allowed EXCEPT ![b.dev] = "no"] ELSE allowed
       /\ att' = [[q \in Requests |-> IF q \in stale THEN Nil ELSE att[q]] EXCEPT ![r].st = "paired"]
       /\ bind' = [bind EXCEPT ![c] = [st |-> "paired", dev |-> d]]
       /\ pins' = pins \ (stale \cup {r}) /\ auths' = auths \ (stale \cup {r})

Seen(r) ==
  \/ /\ req[r] = "paired" /\ att[r].st \in {"submitting", "awaiting_client_proof"} /\ Proved(r)
     /\ UNCHANGED <<hand, req, trust, pinned, troubles>>
  \/ /\ req[r] = "paired" /\ att[r].st \notin {"submitting", "awaiting_client_proof"}
     /\ \E gone \in SUBSET {r[1]} : TakeBack({r[1]}, gone) /\ Marked(att, bind, {r}, gone)
     /\ pins' = pins \ {r} /\ auths' = auths \ {r} /\ UNCHANGED <<allowed, hand, req, pinned>>
  \/ /\ req[r] = "over" /\ att' = [att EXCEPT ![r].st = "over"] /\ pins' = pins \ {r} /\ auths' = auths \ {r}
     /\ UNCHANGED <<allowed, bind, hand, req, trust, pinned, troubles>>
\* Whoever asked may have lost the credential since: then what was begun is cancelled.
Poll(r) ==
  LET st == att[r].st  d == att[r].dev IN
  /\ Locked /\ Live(att, r) /\ UNCHANGED <<late, canRevoke>>
  /\ \/ (st = "cancellation_pending" \/ r \in auths) /\ Cancel(r, att) /\ UNCHANGED allowed
     \/ /\ st = "awaiting_local_approval" /\ Allowed(d) /\ r \in pins /\ Barrier(r, att, pins) /\ UNCHANGED allowed
     \/ /\ st \in {"pending", "submitting", "awaiting_client_proof"}
        /\ IF ~Allowed(d) \/ r \in late THEN Cancel(r, att) /\ UNCHANGED allowed ELSE Seen(r)
  /\ dropped' = dropped \cup {q \in Requests \ {r} : Live(att, q) /\ att'[q] = Nil}

\* The rest of maintenance(), and pending_local(): what is late, and what older revokes left.
Tidy ==
  /\ Locked /\ (Past # {} \/ Pending(bind) # {}) /\ UNCHANGED <<allowed, hand, env, req, pinned>>
  /\ \E gone \in SUBSET Pending(bind) :
       TakeBack(Pending(bind), gone) /\ bind' = Without(bind, gone) /\ att' = Swept(Aged, bind')
  /\ pins' = pins \ Past /\ auths' = auths \ Past

-----------------------------------------------------------------------------
(* Taking it back *)

CancelCall(r) ==
  /\ Locked /\ att[r].st \notin {"none", "over", "revocation_pending"} /\ Cancel(r, att) /\ UNCHANGED <<allowed, env>>

\* revoke_device(): denied first, then what can be taken back is.
Revoke(d) ==
  LET mine == {r \in Requests : att[r].dev = d}
      paired == {r \in mine : att[r].st = "paired"}
      denied == [r \in Requests |-> IF r \in mine /\ Live(att, r) THEN [att[r] EXCEPT !.st = "cancellation_pending"] ELSE att[r]]
      left == [c \in Certs |-> IF bind[c].dev = d THEN [bind[c] EXCEPT !.st = "revocation_pending"] ELSE bind[c]]
      cs == Pending(left) \cup {r[1] : r \in paired} IN
  /\ Locked /\ allowed[d] # "no" /\ allowed' = [allowed EXCEPT ![d] = "no"]
  /\ pins' = pins \ mine /\ auths' = auths \ mine /\ UNCHANGED <<hand, env, req, pinned>>
  /\ \E gone \in SUBSET cs :
       /\ TakeBack(cs, gone)
       /\ bind' = [c \in Certs |-> IF c \in gone THEN Nil
                     ELSE IF left[c].st = "none" /\ c \in cs THEN [st |-> "revocation_pending", dev |-> d] ELSE left[c]]
       /\ att' = Swept([r \in Requests |-> IF r \in paired THEN [att[r] EXCEPT !.st = "revocation_pending"] ELSE denied[r]], bind')

\* purge_device(): what is finished goes; the deny goes with the last of it.
Purge(d) ==
  LET cs == {c \in Certs : bind[c].dev = d} IN
  /\ Locked /\ allowed[d] = "no" /\ UNCHANGED <<hand, env, req, pinned>>
  /\ \E gone \in SUBSET cs :
       /\ TakeBack(cs, gone) /\ bind' = Without(bind, gone)
       /\ att' = [r \in Requests |-> IF att[r].dev = d /\ ~Live(att, r) /\ bind'[r[1]].st = "none" THEN Nil ELSE att[r]]
       /\ allowed' = IF gone = cs /\ \A r \in Requests : att[r].dev = d => ~Live(att, r)
                     THEN [allowed EXCEPT ![d] = "none"] ELSE allowed
  /\ pins' = {r \in pins : att'[r] # Nil} /\ auths' = {r \in auths : att'[r] # Nil}

-----------------------------------------------------------------------------
(* The fork, the phone and time *)

Outside == UNCHANGED <<file, pins, auths, hand, troubles>>
Open(r) == req[r] = "none" /\ req' = [req EXCEPT ![r] = "pending"] /\ UNCHANGED <<env, trust, pinned>> /\ Outside
Prove(r) ==
  /\ req[r] = "proof" /\ req' = [req EXCEPT ![r] = "paired"] /\ trust' = trust \cup {r}
  /\ UNCHANGED <<env, pinned>> /\ Outside
Lapse(r) ==
  /\ req[r] \in {"pending", "proof"} /\ req' = [req EXCEPT ![r] = "over"] /\ UNCHANGED <<env, trust, pinned>> /\ Outside
\* The fork starts again, as one that can revoke: the requests it had are unknown to it.
Upgrade ==
  /\ ~canRevoke /\ canRevoke' = TRUE /\ req' = [r \in Requests |-> IF req[r] = "none" THEN "none" ELSE "gone"]
  /\ UNCHANGED <<late, dropped, trust, pinned>> /\ Outside
Late(r) == Live(att, r) /\ r \notin late /\ late' = late \cup {r} /\ UNCHANGED <<canRevoke, dropped, req, trust, pinned>> /\ Outside

\* The daemon ends, perhaps with the PIN sent and not recorded.
Crash ==
  /\ Trouble /\ hand' = Nobody /\ pins' = {} /\ auths' = {}
  /\ \/ UNCHANGED <<req, pinned>>
     \/ ~Locked /\ Out(hand) /\ req' \in {req} \cup IF req[hand] = "pending" THEN {[req EXCEPT ![hand] = "proof"]} ELSE {}
  /\ UNCHANGED <<file, env, trust>>

-----------------------------------------------------------------------------
Init ==
  /\ allowed = [d \in Devices |-> "none"] /\ att = [r \in Requests |-> Nil] /\ bind = [c \in Certs |-> Nil]
  /\ pins = {} /\ auths = {} /\ hand = Nobody /\ late = {}
  /\ req = [r \in Requests |-> "none"] /\ trust = {} /\ canRevoke \in BOOLEAN
  /\ pinned = [r \in Requests |-> 0] /\ dropped = {} /\ troubles = 0

Next ==
  \/ \E d \in Devices : GrantRemote(d) \/ Revoke(d) \/ Purge(d)
                        \/ \E r \in Requests : Submit(d, r) \/ Resubmit(d, r)
  \/ \E r \in Requests : ApproveLocal(r) \/ Poll(r) \/ CancelCall(r) \/ Open(r) \/ Prove(r) \/ Lapse(r) \/ Late(r)
  \/ Send \/ SendRefused \/ Tidy \/ Upgrade \/ Crash

Spec == Init /\ [][Next]_mediaVars

-----------------------------------------------------------------------------
(* Properties *)

Statuses == {"none", "awaiting_local_approval", "pending", "submitting", "awaiting_client_proof",
             "cancellation_pending"} \cup Terminal
Attempts == [st : Statuses, dev : Devices \cup {"none"}]
Bindings == [st : {"none", "paired", "revocation_pending"}, dev : Devices \cup {"none"}]
Answers == {"none", "pending", "proof", "paired", "over", "gone"}
ShapesOK ==
  /\ att \in [Requests -> Attempts] /\ bind \in [Certs -> Bindings]
  /\ hand \in Requests \cup {Nobody} /\ trust \subseteq Requests /\ pinned \in [Requests -> Nat]
  /\ req \in [Requests -> Answers]
TypeOK ==
  /\ ShapesOK /\ allowed \in [Devices -> {"none", "yes", "no"}]
  /\ pins \subseteq Requests /\ auths \subseteq Requests /\ late \subseteq Requests
  /\ dropped \subseteq Requests /\ canRevoke \in BOOLEAN /\ troubles \in 0..MaxTroubles

\* The fork is sent one PIN for a request, through retries, restarts and answers that were
\* lost, unless another request's proof took the attempt off the record while it was under way.
PinSentOnce == \A r \in Requests \ dropped : pinned[r] <= 1

\* Nothing the fork authorizes is forgotten: while what it got with a request opens the stream
\* core holds the certificate's binding or follows that request up, with the same exception.
TrustIsOnRecord == \A r \in trust \ dropped : bind[r[1]].st # "none" \/ Live(att, r)

\* Re-pairing is not a way to undo a revoke.
NotUndone ==
  \A c \in Certs : bind[c].st = "revocation_pending" \/ (bind[c].st = "paired" /\ allowed[bind[c].dev] = "no")
    => bind'[c].dev \in {bind[c].dev, "none"}
RevokeStands == [][NotUndone]_mediaVars

\* A certificate leaves an identity by a revoke or a cancel of its own, or by a proof of its key.
BindingKept ==
  [][\A c \in Certs : LET d == bind[c].dev IN
       bind[c].st = "paired" /\ Allowed(d) /\ bind'[c].dev # d
       => allowed'[d] = "no" \/ \E r \in Requests : r[1] = c /\ att[r].dev = d /\ att'[r] # att[r]]_mediaVars

\* What keeps them: a PIN goes out behind the barrier only, where none was sent; an attempt is of
\* a request, and ends when the fork is through with it; and until then it is followed up.
BarrierOK ==
  hand # Nobody => att[hand].st = "submitting" /\ (hand \in dropped \/ pinned[hand] = 0)
UnsentOK ==
  \A r \in Requests \ dropped :
    \/ att[r].st \in {"awaiting_local_approval", "pending"}
    \/ att[r].st = "none" /\ req[r] \in {"none", "pending"}
    => pinned[r] = 0
EndedOK ==
  /\ \A r \in Requests : att[r].st # "none" => req[r] # "none"
  /\ \A r \in Requests : att[r].st \in Terminal => req[r] \in {"paired", "over", "gone"}
  /\ \A r \in trust : req[r] \in {"paired", "gone"}
ProofOK ==
  \A r \in Requests \ dropped : req[r] = "proof" => Live(att, r)
BoundOK ==
  /\ \A r \in Requests : (att[r].st = "none") <=> (att[r].dev = "none")
  /\ \A c \in Certs : (bind[c].st = "none") <=> (bind[c].dev = "none")
MediaInv == ShapesOK /\ PinSentOnce /\ BarrierOK /\ UnsentOK /\ EndedOK /\ ProofOK /\ TrustIsOnRecord /\ BoundOK
=============================================================================
