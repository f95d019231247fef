---------------------------- MODULE Credentials ----------------------------
(***************************************************************************)
(* The life of a device's credential, in days: auth.py with the claim of   *)
(* pairing.py, the renewal of network.py and the end each change gives to  *)
(* the device's line in authorized_keys (ssh_keys.py, service.py).         *)
(*                                                                         *)
(* The registry keeps devices apart by name, so the model has one; Devices *)
(* has the locks and the stores, and here every transaction is a step.  A  *)
(* request lives for minutes: none outlasts a tick of this clock.          *)
(***************************************************************************)
EXTENDS Integers, FiniteSets

CONSTANTS
  Ttl, Window, Grace,  \* a credential's days; its last days, to renew in; the days of a replaced one
  MaxTime, MaxCreds, MaxRequests, MaxCrashes

\* A replaced credential's days are fewer than those it could still be renewed in.
DaysOk ==
  /\ Ttl \in Nat /\ Window \in 1..Ttl /\ Grace \in 1..Window
  /\ MaxTime \in Nat /\ MaxCreds \in Nat \ {0} /\ MaxRequests \in Nat /\ MaxCrashes \in Nat

VARIABLES
  now,
  iat,      \* the day each token was signed; the tokens are the numbers of its domain
  issued, revoked, \* hashes in the registry
  known,    \* those whose day the registry has written down
  retire,   \* when a replaced credential ends
  asks,     \* pairing requests: [status, already]
  line,     \* the end of the device's line, Never when there is none
  extend,   \* a renewal whose line is still to be extended: its end, or Never
  held,     \* the token the device works with, 0 before it has one
  lost,     \* since when replies to a renewal or a claim were lost, Never when the last was not
  shut,     \* ghost: the line that stands was shut at a start, cut before a claim, or left by an approval
  purged,   \* ghost: tokens a purge took
  crashes

vars == <<now, iat, issued, revoked, known, retire, asks, line, extend, held, lost, shut, purged, crashes>>
registry == <<iat, issued, revoked, known, retire>>

Never   == -1
Creds   == 1..MaxCreds
Requests == 1..MaxRequests
Days    == 0..(MaxTime + Ttl + Grace)
NoAsk   == [status |-> "none", already |-> FALSE]
Minted  == {c \in Creds : iat[c] # Never}
Least(a, b) == IF a = Never \/ (b # Never /\ b < a) THEN b ELSE a

-----------------------------------------------------------------------------
(* The registry *)

\* _expires_locked: Never is an end the registry does not know.
Ends(c) == Least(IF c \in known THEN iat[c] + Ttl ELSE Never, retire[c])
TooOld(c) == now - iat[c] >= Ttl

\* _verify_locked: why a token of this host is refused, in the order of what to do about it.
Reason(c) ==
  IF c \in revoked THEN "credential_revoked"
  ELSE IF c \notin issued THEN IF TooOld(c) THEN "credential_expired" ELSE "device_purged"
  ELSE IF TooOld(c) \/ (retire[c] # Never /\ now >= retire[c]) THEN "credential_expired" ELSE "none"
Verifies(c) == c \in Minted /\ Reason(c) = "none"

\* list_devices: a credential of which no end is known, or none passed, counts as active.
Active == {c \in issued \ revoked : Ends(c) = Never \/ now < Ends(c)}
Latest == IF \E c \in Active : Ends(c) = Never THEN Never
          ELSE CHOOSE e \in {Ends(c) : c \in Active} : \A c \in Active : Ends(c) <= e

\* Slip: the new credential ends the others at once.
RetiredAtOnce(others) == [c \in Creds |->
  IF c \in others \ revoked THEN Least(retire[c], now) ELSE retire[c]]

\* What issue() and renew() do to the others: grace from now, and the dead leave.  A hash
\* whose replacement date has passed is dead as well, however young its token.
Retired(others) == [c \in Creds |->
  IF c \in others \ revoked THEN Least(retire[c], now + Grace) ELSE retire[c]]
Dead(ends, met) == {c \in issued \ revoked :
  LET e == Least(IF c \in known \cup met THEN iat[c] + Ttl ELSE Never, ends[c]) IN e # Never /\ now >= e}

\* _mint and what is written with it; met: the token that was verified in this transaction.
Issue(others, met) ==
  \E c \in Creds :
    /\ iat[c] = Never /\ \A b \in 1..(c - 1) : iat[b] # Never
    /\ iat' = [iat EXCEPT ![c] = now]
    /\ LET ends == Retired(others)  dead == Dead(ends, met) IN
       /\ issued' = (issued \ dead) \cup {c} /\ known' = ((known \cup met) \ dead) \cup {c}
       /\ retire' = [b \in Creds |-> IF b \in dead THEN Never ELSE ends[b]]
    /\ UNCHANGED revoked

\* The reply with the new token reaches the device, or it is lost on the way.
Reply ==
  \/ /\ held' = CHOOSE c \in Creds : iat[c] = Never /\ iat'[c] # Never
     /\ lost' = Never
  \/ /\ UNCHANGED held /\ lost' = IF lost = Never THEN now ELSE lost

-----------------------------------------------------------------------------
(* Pairing again *)

\* already_paired is read when the device asks, and used when it claims.
Ask(r) ==
  /\ asks[r].status = "none" /\ asks' = [asks EXCEPT ![r] = [status |-> "pending", already |-> Active # {}]]
  /\ UNCHANGED <<now, registry, line, extend, held, lost, shut, purged, crashes>>

\* The line of an approval ends a full term and the day of grace from now: _ssh_expiry(None).
\* One whose request has no key, or that cannot write the line, leaves what there is.
Approve(r) ==
  /\ asks[r].status = "pending" /\ asks' = [asks EXCEPT ![r].status = "approved"]
  /\ \/ line' = now + Ttl + Grace /\ shut' = FALSE
     \/ UNCHANGED line /\ shut' = (line # Never)
  /\ UNCHANGED <<now, registry, extend, held, lost, purged, crashes>>

Unclaimed == \E r \in Requests : asks[r].status = "approved"

\* claim(): issue() retires the others only if there were others when the device asked.
Claim(r) ==
  /\ asks[r].status = "approved" /\ asks' = [asks EXCEPT ![r].status = "claimed"]
  /\ Issue(IF asks[r].already THEN issued ELSE {}, {}) /\ Reply
  /\ UNCHANGED <<now, line, extend, shut, purged, crashes>>

\* renew(): the last days of a credential, or the grace of a replaced one.  The line is
\* extended by the same request, after the registry's lock is given back.
Renewable(c) == Verifies(c) /\ now >= Least(iat[c] + Ttl, retire[c]) - Window
Renew(c) ==
  /\ extend = Never /\ Renewable(c) /\ Issue(issued, {c}) /\ Reply
  /\ extend' = now + Ttl + Grace
  /\ UNCHANGED <<now, asks, line, shut, purged, crashes>>

\* ssh_key_renewed(), refresh_expiry(): it gives an end to a line, it never writes one.
Extend ==
  /\ extend # Never /\ extend' = Never
  /\ IF line = Never THEN UNCHANGED <<line, shut>> ELSE line' = extend /\ shut' = FALSE
  /\ UNCHANGED <<now, registry, asks, held, lost, purged, crashes>>

\* The first call with a credential older than the registry's book of days writes its day.
Meet(c) ==
  /\ Verifies(c) /\ c \notin known /\ known' = known \cup {c}
  /\ UNCHANGED <<now, iat, issued, revoked, retire, asks, line, extend, held, lost, shut, purged, crashes>>

\* PUT of the terminal's key by a device with a grant: _ssh_expiry(device).  It is the end of
\* the credentials there are: the line of an approval is cut to it until the claim was made.
OfferKey(c) ==
  /\ Verifies(c) /\ c \in known /\ line # Never
  /\ line' = (IF Latest = Never THEN now + Ttl ELSE Latest) + Grace /\ shut' = Unclaimed
  /\ UNCHANGED <<now, registry, asks, extend, held, lost, purged, crashes>>

-----------------------------------------------------------------------------
(* Taking it back, and time *)

Revoke ==
  /\ issued # {} /\ revoked' = revoked \cup issued
  /\ line' = Never /\ shut' = FALSE /\ asks' = [r \in Requests |-> NoAsk]
  /\ UNCHANGED <<now, iat, issued, known, retire, extend, held, lost, purged, crashes>>

\* Slip: the hashes go, that they were revoked stays.
PurgeHalf ==
  /\ issued # {} /\ issued \subseteq revoked
  /\ purged' = purged \cup issued /\ issued' = {} /\ known' = known \ issued
  /\ asks' = [r \in Requests |-> NoAsk]
  /\ UNCHANGED <<now, iat, revoked, retire, line, extend, held, lost, shut, crashes>>
\* purge_device(): the hashes go, and that they were revoked.
Purge ==
  /\ issued # {} /\ issued \subseteq revoked
  /\ purged' = purged \cup issued /\ issued' = {} /\ revoked' = revoked \ issued
  /\ known' = known \ issued /\ retire' = [c \in Creds |-> IF c \in issued THEN Never ELSE retire[c]]
  /\ asks' = [r \in Requests |-> NoAsk]
  /\ UNCHANGED <<now, iat, line, extend, held, lost, shut, crashes>>

\* ssh_keys_reconcile() at the start: a line whose device has no credential with a known end
\* is shut where it stands.
Restart ==
  /\ crashes < MaxCrashes /\ crashes' = crashes + 1 /\ extend' = Never
  /\ LET ends == Active # {} /\ Latest # Never IN
     /\ line' = IF line = Never THEN Never ELSE IF ends THEN Latest + Grace ELSE Least(line, now)
     /\ shut' = (line # Never /\ (~ends \/ Unclaimed))
  /\ UNCHANGED <<now, registry, asks, held, lost, purged>>

\* A device that is on renews when it may, and hears within the grace of the first answer
\* that was lost; its requests are claimed within minutes or not at all.
Attended == /\ (held # 0 /\ Renewable(held) => lost # Never) /\ (lost # Never => now + 1 < lost + Grace)
Tick ==
  /\ now < MaxTime /\ extend = Never /\ Attended /\ now' = now + 1
  /\ asks' = [r \in Requests |-> IF asks[r].status = "claimed" THEN asks[r] ELSE NoAsk]
  /\ UNCHANGED <<registry, line, extend, held, lost, shut, purged, crashes>>

-----------------------------------------------------------------------------
\* A new host, or one with a device of the time before the registry wrote days down.
Init ==
  /\ now = 0 /\ \E old \in BOOLEAN :
       /\ iat = [c \in Creds |-> IF old /\ c = 1 THEN 0 ELSE Never]
       /\ issued = IF old THEN {1} ELSE {}
       /\ held = IF old THEN 1 ELSE 0
       /\ line = IF old THEN Ttl + Grace ELSE Never
  /\ revoked = {} /\ known = {} /\ retire = [c \in Creds |-> Never]
  /\ asks = [r \in Requests |-> NoAsk] /\ extend = Never /\ lost = Never /\ shut = FALSE
  /\ purged = {} /\ crashes = 0

Next ==
  \/ \E r \in Requests : Ask(r) \/ Approve(r) \/ Claim(r)
  \/ \E c \in Minted : Meet(c)
  \/ held # 0 /\ (Renew(held) \/ OfferKey(held))
  \/ Extend \/ Revoke \/ Purge \/ Restart \/ Tick

Spec == Init /\ [][Next]_vars

-----------------------------------------------------------------------------
(* Properties *)

TypeOK ==
  /\ now \in 0..MaxTime /\ iat \in [Creds -> {Never} \cup Days]
  /\ issued \subseteq Minted /\ revoked \subseteq issued /\ known \subseteq issued
  /\ retire \in [Creds -> {Never} \cup Days]
  /\ asks \in [Requests -> [status : {"none", "pending", "approved", "claimed"}, already : BOOLEAN]]
  /\ line \in {Never} \cup Days /\ extend \in {Never} \cup Days
  /\ held \in {0} \cup Minted /\ lost \in {Never} \cup Days /\ purged \subseteq Minted /\ shut \in BOOLEAN
  /\ crashes \in 0..MaxCrashes

\* A device that is on, renews when it may and hears one answer within the grace of the
\* first that was lost always holds a credential that works, until the host takes it back -
\* through renewals, lost replies, pairing again and restarts.
NeverStranded ==
  held # 0 => Verifies(held) \/ held \in revoked \cup purged

\* "device_purged" is what a purge leaves behind.
PurgedMeansPurged == \A c \in Minted : Reason(c) = "device_purged" => c \in purged

\* A device ends with one credential: of those that work, at most one is not on its way out.
OneLasts == Cardinality({c \in Minted : Verifies(c) /\ retire[c] = Never}) <= 1

\* While a credential works the terminal that goes with it opens, unless a start of the
\* daemon shut it, its line was cut between an approval and the claim, or an approval that
\* grants no terminal left the line of an earlier one: every renewal and every other claim
\* ends no later than the line it found or moved, a crash included.
LineCovers ==
  \A c \in Minted : Verifies(c) /\ line # Never /\ extend = Never /\ ~shut => now < line

\* What keeps them: the token a device works with is not retired before its reply was lost,
\* and was due for renewal no earlier; a line reaches as far as every credential there is,
\* and as far as the one an approval will lead to.
Live  == held # 0 /\ held \notin revoked \cup purged
HeldOK ==
  /\ lost # Never => lost <= now /\ now < lost + Grace
  /\ Live => /\ held \in issued
             /\ iat[held] + Ttl - Window >= (IF lost = Never THEN now ELSE lost)
             /\ retire[held] = Never \/ (lost # Never /\ retire[held] >= lost + Grace)
DaysOK ==
  /\ \A c \in Minted : iat[c] \in 0..now
  /\ \A c \in Creds \ Minted : retire[c] = Never
  /\ \A c \in Creds : retire[c] <= now + Grace
Reaches(c) ==
  \/ line >= iat[c] + Ttl \/ now >= iat[c] + Ttl
  \/ retire[c] # Never /\ (line >= retire[c] \/ now >= retire[c])
LineOK ==
  /\ extend # Never => extend = now + Ttl + Grace
  /\ line # Never /\ ~shut =>
       /\ extend = Never => \A c \in issued \ revoked : Reaches(c)
       /\ Unclaimed => line >= now + Ttl
CredInv == TypeOK /\ DaysOK /\ HeldOK /\ LineOK
=============================================================================
