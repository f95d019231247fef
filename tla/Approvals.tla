----------------------------- MODULE Approvals -----------------------------
(***************************************************************************)
(* A password prompt of the host answered by a fingerprint on a device:    *)
(* biometric.py (the keys devices registered, and the broker of prompts),  *)
(* pam_helper.py (root's process, one per prompt) and pam_enroll.py (the   *)
(* keys root has enrolled).                                                *)
(*                                                                         *)
(* A key is a number, a new one when the person changes the prints of the  *)
(* device.  A signature is of a device, a prompt and a key, and verifies   *)
(* with that key only.  The daemon is one loop, beside which a revocation  *)
(* runs on a thread of its own.  Which devices are connected, the switch   *)
(* of the host and the time a prompt is given are choices.                 *)
(***************************************************************************)
EXTENDS Naturals, FiniteSets

CONSTANTS
  Devices, NoDevice,
  Prompts,
  MaxKeys,    \* keys a device makes
  MaxPending, \* ApprovalBroker.MAX_PENDING
  MaxActs     \* bound on what people do besides answering

VARIABLES
  paired,  \* devices whose credential is active
  held,    \* the key each device holds
  store,   \* biometric-keys.json: the key, and the device's own switch
  lock,    \* the device whose enrolment holds the store's lock
  enrol,   \* each device's enrolment: its step and the key it is for
  revoke,  \* each device's revocation
  root,    \* root's keys.json
  offer,   \* the owner's command: what it showed before the password
  helper,  \* the helper of each prompt: its step, root's keys as it read them, who it believed
  record,  \* the broker's record of each prompt
  cards,   \* the devices that show a prompt
  answers, \* answers devices gave
  told,    \* what devices were told became of a prompt
  acts

approvalVars == <<paired, held, store, lock, enrol, revoke, root, offer, helper, record, cards, answers, told, acts>>
keyVars    == <<store, lock, enrol>>
rootVars   == <<root, offer>>
promptVars == <<helper, record, cards, answers, told>>

Keys    == 0..MaxKeys
NoKey   == [key |-> 0, on |-> FALSE]
NoEnrol == [at |-> "idle", key |-> 0]
None    == [d \in Devices |-> 0]
Unasked == [at |-> "none", devices |-> {}, outcome |-> "none", device |-> NoDevice, key |-> 0]
Act     == acts < MaxActs /\ acts' = acts + 1
Loop    == \A p \in Prompts : record[p].at # "reading"

-----------------------------------------------------------------------------
(* The devices and their keys *)

Pair(d) ==
  /\ d \notin paired /\ revoke[d] = "idle" /\ paired' = paired \cup {d}
  /\ UNCHANGED <<held, keyVars, revoke, rootVars, promptVars, acts>>
NewKey(d) ==
  /\ Act /\ held[d] < MaxKeys /\ held' = [held EXCEPT ![d] = @ + 1]
  /\ UNCHANGED <<paired, keyVars, revoke, rootVars, promptVars>>

\* The challenge is signed with the key the device holds; the request is authenticated.
EnrolAsk(d) ==
  /\ Act /\ d \in paired /\ enrol[d] = NoEnrol
  /\ enrol' = [enrol EXCEPT ![d] = [at |-> "sent", key |-> held[d]]]
  /\ UNCHANGED <<paired, held, store, lock, revoke, rootVars, promptVars>>

\* BiometricKeyStore.enroll: the credential is asked again under the lock.
EnrolCheck(d) ==
  /\ enrol[d].at = "sent" /\ lock = NoDevice /\ Loop
  /\ IF d \in paired THEN lock' = d /\ enrol' = [enrol EXCEPT ![d].at = "write"]
     ELSE enrol' = [enrol EXCEPT ![d] = NoEnrol] /\ UNCHANGED lock
  /\ UNCHANGED <<paired, held, store, revoke, rootVars, promptVars, acts>>
EnrolWrite(d) ==
  /\ enrol[d].at = "write" /\ lock' = NoDevice /\ enrol' = [enrol EXCEPT ![d] = NoEnrol]
  /\ \E on \in BOOLEAN : store' = [store EXCEPT ![d] = [key |-> enrol[d].key, on |-> on]]
  /\ UNCHANGED <<paired, held, revoke, rootVars, promptVars, acts>>
Switch(d) ==
  /\ Act /\ d \in paired /\ store[d] # NoKey /\ lock = NoDevice /\ Loop
  /\ store' = [store EXCEPT ![d].on = ~@]
  /\ UNCHANGED <<paired, held, lock, enrol, revoke, rootVars, promptVars>>

\* The owner revokes a device: its credential, then its key, then what it is asked.
\* A device that takes its key back does the last two.
Revoke(d) ==
  /\ Act /\ d \in paired /\ revoke[d] = "idle" /\ revoke' = [revoke EXCEPT ![d] = "key"]
  /\ paired' \in {paired, paired \ {d}}
  /\ UNCHANGED <<held, keyVars, rootVars, promptVars>>
RevokeKey(d) ==
  /\ revoke[d] = "key" /\ lock = NoDevice /\ revoke' = [revoke EXCEPT ![d] = "records"]
  /\ store' = [store EXCEPT ![d] = NoKey]
  /\ UNCHANGED <<paired, held, lock, enrol, rootVars, promptVars, acts>>
RevokeRecords(d) ==
  /\ revoke[d] = "records" /\ revoke' = [revoke EXCEPT ![d] = "idle"]
  /\ record' = [p \in Prompts |-> IF record[p].at \in {"pending", "waking"}
                                    THEN [record[p] EXCEPT !.devices = @ \ {d}] ELSE record[p]]
  /\ UNCHANGED <<paired, held, keyVars, rootVars, helper, cards, answers, told, acts>>

-----------------------------------------------------------------------------
(* pam_enroll: the owner enrols, as root, what collect_request read before the password *)

Offer ==
  /\ Act /\ offer = None /\ offer' = [d \in Devices |-> IF store[d].on THEN store[d].key ELSE 0]
  /\ UNCHANGED <<paired, held, keyVars, revoke, root, promptVars>>
EnrolRoot ==
  /\ offer # None /\ offer' = None
  /\ root' \in {root, [d \in Devices |-> IF offer[d] # 0 THEN offer[d] ELSE root[d]]}
  /\ UNCHANGED <<paired, held, keyVars, revoke, promptVars, acts>>
Unenrol(d) ==
  /\ Act /\ root[d] # 0 /\ offer = None /\ root' = [root EXCEPT ![d] = 0]
  /\ UNCHANGED <<paired, held, keyVars, revoke, offer, promptVars>>

-----------------------------------------------------------------------------
(* A prompt *)

\* The helper reads root's keys and asks; without any it does not ask.
Start(p) ==
  /\ helper[p].at = "none" /\ root # None
  /\ helper' = [helper EXCEPT ![p] = [at |-> "asked", keys |-> root, by |-> NoDevice]]
  /\ UNCHANGED <<paired, held, keyVars, revoke, rootVars, record, cards, answers, told, acts>>

Pending == {p \in Prompts : record[p].at \in {"pending", "waking"}}

\* _eligible, and of those the devices whose key is the one root holds.
Eligible(p) == {d \in paired : store[d].on /\ store[d].key = helper[p].keys[d]}
RequestRead(p) ==
  /\ helper[p].at = "asked" /\ record[p] = Unasked /\ Loop
  /\ \E connected \in SUBSET Devices :
       LET ds == Eligible(p) \cap connected IN
       record' = [record EXCEPT ![p] =
         IF ds = {} \/ Cardinality(Pending) >= MaxPending THEN [Unasked EXCEPT !.at = "refused"]
         ELSE [Unasked EXCEPT !.at = "reading", !.devices = ds]]
  /\ UNCHANGED <<paired, held, keyVars, revoke, rootVars, helper, cards, answers, told, acts>>
Request(p) ==
  /\ record[p].at = "reading" /\ record' = [record EXCEPT ![p].at = "pending"]
  /\ cards' = [cards EXCEPT ![p] = record[p].devices]
  /\ UNCHANGED <<paired, held, keyVars, revoke, rootVars, helper, answers, told, acts>>

\* A device answers the card it shows, with the key it has then; again when it hears nothing.
Answer(d, p) ==
  /\ d \in cards[p]
  /\ \E yes \in BOOLEAN :
       answers' = answers \cup {[device |-> d, prompt |-> p, yes |-> yes, key |-> IF yes THEN held[d] ELSE 0]}
  /\ answers' # answers
  /\ UNCHANGED <<paired, held, keyVars, revoke, rootVars, helper, record, cards, told, acts>>

\* resolve: an unknown approval and a spent one answer identically.
Open(p, d) == p \in Pending /\ record[p].outcome = "none" /\ d \in record[p].devices

\* Past its time it is refused, if the clock says so.  A yes is verified with the key
\* the store has now.
Resolve(a) ==
  LET p == a.prompt
      d == a.device IN
  /\ Open(p, d) /\ Loop /\ lock = NoDevice /\ d \in paired
  /\ a.yes => store[d].key = a.key /\ a.key # 0
  /\ LET outcome == IF a.yes THEN "approved" ELSE "declined" IN
     /\ record' = [record EXCEPT ![p].outcome = outcome, ![p].device = d, ![p].key = a.key]
     /\ told' = [told EXCEPT ![p] = @ \cup {outcome}]
  /\ UNCHANGED <<paired, held, keyVars, revoke, rootVars, helper, cards, answers, acts>>

\* The event is set or the time is over; the loop comes to it later.
Wake(p) ==
  /\ record[p].at = "pending" /\ record' = [record EXCEPT ![p].at = "waking"]
  /\ UNCHANGED <<paired, held, keyVars, revoke, rootVars, helper, cards, answers, told, acts>>
\* The record is popped, its outcome read, and every device that was asked is told it.
Decided(p) ==
  /\ record[p].at = "waking" /\ Loop
  /\ LET outcome == IF record[p].outcome = "none" THEN "timeout" ELSE record[p].outcome IN
     /\ record' = [record EXCEPT ![p].at = "decided", ![p].outcome = outcome]
     /\ told' = [told EXCEPT ![p] = IF record[p].devices = {} THEN @ ELSE @ \cup {outcome}]
     /\ cards' = [cards EXCEPT ![p] = @ \ record[p].devices]
  /\ UNCHANGED <<paired, held, keyVars, revoke, rootVars, helper, answers, acts>>
\* The daemon ends: what is pending is gone, and the store's lock with it.  A revocation
\* it cut short is asked for again.
Restart ==
  /\ \E p \in Prompts : record[p].at \in {"reading", "pending", "waking"}
  /\ record' = [p \in Prompts |-> IF record[p].at \in {"reading", "pending", "waking"}
                                    THEN [record[p] EXCEPT !.at = "lost"] ELSE record[p]]
  /\ lock' = NoDevice /\ enrol' = [d \in Devices |-> NoEnrol]
  /\ revoke' = [d \in Devices |-> IF revoke[d] = "idle" THEN "idle" ELSE "key"]
  /\ UNCHANGED <<paired, held, store, rootVars, helper, cards, answers, told, acts>>

\* Slip: the daemon says that it was approved.
Believed(p) == record[p].at = "decided" /\ record[p].outcome = "approved" /\ record[p].device # NoDevice
\* decide: the signature verifies with the key of root's store.
Verified(p) ==
  /\ record[p].at = "decided" /\ record[p].outcome = "approved" /\ record[p].device # NoDevice
  /\ helper[p].keys[record[p].device] # 0 /\ helper[p].keys[record[p].device] = record[p].key

Reply(p) ==
  /\ helper[p].at = "asked" /\ record[p].at \in {"decided", "refused", "lost"}
  /\ helper' = [helper EXCEPT ![p].at = IF Verified(p) THEN "granted" ELSE "password",
                              ![p].by = IF Verified(p) THEN record[p].device ELSE NoDevice]
  /\ UNCHANGED <<paired, held, keyVars, revoke, rootVars, record, cards, answers, told, acts>>
GiveUp(p) ==
  /\ helper[p].at = "asked" /\ helper' = [helper EXCEPT ![p].at = "password"]
  /\ UNCHANGED <<paired, held, keyVars, revoke, rootVars, record, cards, answers, told, acts>>

-----------------------------------------------------------------------------
Init ==
  /\ paired = Devices /\ held = [d \in Devices |-> 1]
  /\ store = [d \in Devices |-> [key |-> 1, on |-> TRUE]]
  /\ lock = NoDevice /\ enrol = [d \in Devices |-> NoEnrol] /\ revoke = [d \in Devices |-> "idle"]
  /\ root = [d \in Devices |-> 1] /\ offer = None
  /\ helper = [p \in Prompts |-> [at |-> "none", keys |-> None, by |-> NoDevice]]
  /\ record = [p \in Prompts |-> Unasked] /\ cards = [p \in Prompts |-> {}]
  /\ answers = {} /\ told = [p \in Prompts |-> {}] /\ acts = 0

Next ==
  \/ \E d \in Devices :
       \/ Pair(d) \/ NewKey(d) \/ EnrolAsk(d) \/ EnrolCheck(d) \/ EnrolWrite(d) \/ Switch(d)
       \/ Revoke(d) \/ RevokeKey(d) \/ RevokeRecords(d) \/ Unenrol(d)
       \/ \E p \in Prompts : Answer(d, p)
  \/ Offer \/ EnrolRoot \/ Restart
  \/ \E p \in Prompts :
       Start(p) \/ RequestRead(p) \/ Request(p) \/ Wake(p) \/ Decided(p) \/ Reply(p) \/ GiveUp(p)
  \/ \E a \in answers : Resolve(a)
Spec == Init /\ [][Next]_approvalVars

TypeOK ==
  /\ acts \in 0..MaxActs
  /\ paired \subseteq Devices /\ held \in [Devices -> Keys] /\ lock \in Devices \cup {NoDevice}
  /\ store \in [Devices -> [key : Keys, on : BOOLEAN]]
  /\ root \in [Devices -> Keys] /\ offer \in [Devices -> Keys]
  /\ \A p \in Prompts :
       /\ record[p].devices \subseteq Devices /\ record[p].key \in Keys
       /\ cards[p] \subseteq Devices /\ told[p] \subseteq {"approved", "declined", "timeout"}

\* A device that was revoked leaves no key behind, however its enrolment was on its way.
RevokedHasNoKey == \A d \in Devices : d \notin paired /\ revoke[d] = "idle" => store[d] = NoKey

\* Two devices that answer at once, late or twice are told one outcome, the one that
\* the helper is handed.
OneOutcome == \A p \in Prompts :
  /\ Cardinality(told[p]) <= 1
  /\ record[p].at \in {"decided", "lost"} => told[p] \subseteq {record[p].outcome}

\* A prompt is granted only by a device that showed it and signed it, with the key root had
\* enrolled when the prompt began, and that was told so.
GrantIsSigned == \A p \in Prompts : helper[p].at = "granted" =>
  LET d == helper[p].by IN
  /\ [device |-> d, prompt |-> p, yes |-> TRUE, key |-> helper[p].keys[d]] \in answers
  /\ told[p] = {"approved"}

\* What keeps them: an enrolment writes only under the lock, which a revocation waits for;
\* what devices are told is the outcome of the record; a yes is in the record only as it
\* was signed, and what the helper believed does not change.
Enrolments == [at : {"idle", "sent", "write"}, key : Keys]
Helpers == [at : {"none", "asked", "granted", "password"}, keys : [Devices -> Keys],
            by : Devices \cup {NoDevice}]
Records == [at : {"none", "reading", "pending", "waking", "decided", "refused", "lost"},
            devices : SUBSET Devices, device : Devices \cup {NoDevice}, key : Keys,
            outcome : {"none", "approved", "declined", "timeout"}]
EnrolOK  == enrol \in [Devices -> Enrolments] /\ revoke \in [Devices -> {"idle", "key", "records"}]
HelperOK == helper \in [Prompts -> Helpers]
RecordOK == record \in [Prompts -> Records]
ToldOK   == /\ cards \in [Prompts -> SUBSET Devices]
            /\ told \in [Prompts -> SUBSET {"approved", "declined", "timeout"}]
            /\ answers \subseteq [device : Devices, prompt : Prompts, yes : BOOLEAN, key : Keys]
WriteIsLocked == \A d \in Devices :
  enrol[d].at = "write" => lock = d /\ (d \in paired \/ revoke[d] = "key")
KeyIsGone == \A d \in Devices : d \notin paired /\ revoke[d] # "key" => store[d] = NoKey
ToldOutcome == \A p \in Prompts : told[p] \subseteq {record[p].outcome}
YesIsSigned == \A p \in Prompts : record[p].outcome = "approved" =>
  /\ [device |-> record[p].device, prompt |-> p, yes |-> TRUE, key |-> record[p].key] \in answers
  /\ told[p] = {"approved"}
GrantStands == \A p \in Prompts : helper[p].at = "granted" =>
  /\ record[p].at = "decided" /\ record[p].outcome = "approved"
  /\ helper[p].by = record[p].device /\ helper[p].keys[record[p].device] = record[p].key
ApprovalInv ==
  TypeOK /\ EnrolOK /\ HelperOK /\ RecordOK /\ ToldOK /\ WriteIsLocked /\ KeyIsGone /\ ToldOutcome /\ YesIsSigned /\ GrantStands
=============================================================================
