----------------------------- MODULE HostProofs -----------------------------
(***************************************************************************)
(* Proofs about the parts of MCHost: for each, that an invariant of its    *)
(* module is inductive (ApprovalInv, MicInv, TreesInv, PamInv, FileInv,    *)
(* ServeInv, SunInv, SocketInv, CondInv, LayoutInv, ProbeInv, CallInv),    *)
(* one lemma for each step, and of every behaviour what it is for; at the  *)
(* end, the types. The parts share no state: a step of another one leaves  *)
(* part, and so the claim, alone.                                          *)
(***************************************************************************)
EXTENDS MCHost, FiniteSetTheorems, TLAPS

-----------------------------------------------------------------------------
(* Approvals: each step keeps ApprovalInv. *)

LEMMA ApprovePair ==
  ASSUME Approve!ApprovalInv, NEW d \in Phones, Approve!Pair(d)
  PROVE  Approve!ApprovalInv'
  BY SMTT(10), ApproveAssumption DEF Approve!Pair, Approve!keyVars, Approve!rootVars,
     Approve!promptVars, Approve!ApprovalInv, Approve!TypeOK, Approve!EnrolOK, Approve!HelperOK,
     Approve!RecordOK, Approve!ToldOK, Approve!WriteIsLocked, Approve!KeyIsGone,
     Approve!ToldOutcome, Approve!YesIsSigned, Approve!GrantStands, Approve!Keys,
     Approve!Enrolments, Approve!Helpers, Approve!Records, Approve!NoKey

LEMMA ApproveNewKey ==
  ASSUME Approve!ApprovalInv, NEW d \in Phones, Approve!NewKey(d)
  PROVE  Approve!ApprovalInv'
  BY SMTT(10), ApproveAssumption DEF Approve!NewKey, Approve!Act, Approve!keyVars,
     Approve!rootVars, Approve!promptVars, Approve!ApprovalInv, Approve!TypeOK, Approve!EnrolOK,
     Approve!HelperOK, Approve!RecordOK, Approve!ToldOK, Approve!WriteIsLocked,
     Approve!KeyIsGone, Approve!ToldOutcome, Approve!YesIsSigned, Approve!GrantStands,
     Approve!Keys, Approve!Enrolments, Approve!Helpers, Approve!Records, Approve!NoKey

LEMMA ApproveEnrolAsk ==
  ASSUME Approve!ApprovalInv, NEW d \in Phones, Approve!EnrolAsk(d)
  PROVE  Approve!ApprovalInv'
  BY SMTT(10), ApproveAssumption DEF Approve!EnrolAsk, Approve!Act, Approve!NoEnrol,
     Approve!rootVars, Approve!promptVars, Approve!ApprovalInv, Approve!TypeOK, Approve!EnrolOK,
     Approve!HelperOK, Approve!RecordOK, Approve!ToldOK, Approve!WriteIsLocked,
     Approve!KeyIsGone, Approve!ToldOutcome, Approve!YesIsSigned, Approve!GrantStands,
     Approve!Keys, Approve!Enrolments, Approve!Helpers, Approve!Records, Approve!NoKey

LEMMA ApproveEnrolCheck ==
  ASSUME Approve!ApprovalInv, NEW d \in Phones, Approve!EnrolCheck(d)
  PROVE  Approve!ApprovalInv'
<1>1. Approve!TypeOK'
  BY SMTT(10), ApproveAssumption DEF Approve!EnrolCheck, Approve!Loop, Approve!NoEnrol,
     Approve!rootVars, Approve!promptVars, Approve!ApprovalInv, Approve!TypeOK, Approve!Keys
<1>2. Approve!EnrolOK'
  <2>1. [x5[d] EXCEPT !.at = "write"] \in Approve!Enrolments /\ Approve!NoEnrol \in Approve!Enrolments
    BY ApproveAssumption DEF Approve!ApprovalInv, Approve!EnrolOK, Approve!Enrolments,
       Approve!NoEnrol, Approve!Keys
  <2> QED BY <2>1 DEF Approve!ApprovalInv, Approve!EnrolOK, Approve!EnrolCheck
<1>3. Approve!HelperOK'
  BY SMTT(10), ApproveAssumption DEF Approve!EnrolCheck, Approve!Loop, Approve!NoEnrol,
     Approve!rootVars, Approve!promptVars, Approve!ApprovalInv, Approve!HelperOK,
     Approve!Helpers, Approve!Keys, Approve!TypeOK
<1>4. Approve!RecordOK'
  BY SMTT(10), ApproveAssumption DEF Approve!EnrolCheck, Approve!Loop, Approve!NoEnrol,
     Approve!rootVars, Approve!promptVars, Approve!ApprovalInv, Approve!RecordOK,
     Approve!Records, Approve!Keys, Approve!TypeOK
<1>5. Approve!ToldOK'
  BY SMTT(10), ApproveAssumption DEF Approve!EnrolCheck, Approve!Loop, Approve!NoEnrol,
     Approve!rootVars, Approve!promptVars, Approve!ApprovalInv, Approve!ToldOK, Approve!Keys,
     Approve!TypeOK
<1>6. Approve!WriteIsLocked'
  <2>1. \A e \in Phones : x5[e].at # "write"
    BY ApproveAssumption DEF Approve!ApprovalInv, Approve!EnrolCheck, Approve!WriteIsLocked
  <2>2. \A e \in Phones : e # d => x5'[e] = x5[e]
    BY DEF Approve!ApprovalInv, Approve!EnrolCheck, Approve!EnrolOK
  <2>3. x5'[d].at = "write" => d \in x1 /\ x4' = d
    BY DEF Approve!ApprovalInv, Approve!EnrolCheck, Approve!EnrolOK, Approve!NoEnrol
  <2> QED BY <2>1, <2>2, <2>3 DEF Approve!EnrolCheck, Approve!WriteIsLocked
<1>7. Approve!KeyIsGone'
  BY SMTT(10), ApproveAssumption DEF Approve!EnrolCheck, Approve!Loop, Approve!NoEnrol,
     Approve!rootVars, Approve!promptVars, Approve!ApprovalInv, Approve!KeyIsGone,
     Approve!NoKey, Approve!TypeOK, Approve!Keys
<1>8. Approve!ToldOutcome'
  BY SMTT(10), ApproveAssumption DEF Approve!EnrolCheck, Approve!Loop, Approve!NoEnrol,
     Approve!rootVars, Approve!promptVars, Approve!ApprovalInv, Approve!ToldOutcome,
     Approve!TypeOK, Approve!Keys
<1>9. Approve!YesIsSigned'
  BY SMTT(10), ApproveAssumption DEF Approve!EnrolCheck, Approve!Loop, Approve!NoEnrol,
     Approve!rootVars, Approve!promptVars, Approve!ApprovalInv, Approve!YesIsSigned,
     Approve!TypeOK, Approve!Keys
<1>10. Approve!GrantStands'
  BY SMTT(10), ApproveAssumption DEF Approve!EnrolCheck, Approve!Loop, Approve!NoEnrol,
     Approve!rootVars, Approve!promptVars, Approve!ApprovalInv, Approve!GrantStands,
     Approve!TypeOK, Approve!Keys
<1> QED BY <1>1, <1>2, <1>3, <1>4, <1>5, <1>6, <1>7, <1>8, <1>9, <1>10 DEF Approve!ApprovalInv

LEMMA ApproveEnrolWrite ==
  ASSUME Approve!ApprovalInv, NEW d \in Phones, Approve!EnrolWrite(d)
  PROVE  Approve!ApprovalInv'
<1>1. Approve!TypeOK'
  BY SMTT(10), ApproveAssumption DEF Approve!EnrolWrite, Approve!NoEnrol, Approve!rootVars,
     Approve!promptVars, Approve!ApprovalInv, Approve!TypeOK, Approve!EnrolOK, Approve!HelperOK,
     Approve!RecordOK, Approve!ToldOK, Approve!WriteIsLocked, Approve!KeyIsGone,
     Approve!ToldOutcome, Approve!YesIsSigned, Approve!GrantStands, Approve!Keys,
     Approve!Enrolments, Approve!Helpers, Approve!Records, Approve!NoKey
<1>2. Approve!EnrolOK'
  BY SMTT(10), ApproveAssumption DEF Approve!EnrolWrite, Approve!NoEnrol, Approve!rootVars,
     Approve!promptVars, Approve!ApprovalInv, Approve!EnrolOK, Approve!Enrolments, Approve!Keys,
     Approve!TypeOK
<1>3. Approve!HelperOK'
  BY SMTT(10), ApproveAssumption DEF Approve!EnrolWrite, Approve!NoEnrol, Approve!rootVars,
     Approve!promptVars, Approve!ApprovalInv, Approve!HelperOK, Approve!Helpers, Approve!Keys,
     Approve!TypeOK
<1>4. Approve!RecordOK'
  BY SMTT(10), ApproveAssumption DEF Approve!EnrolWrite, Approve!NoEnrol, Approve!rootVars,
     Approve!promptVars, Approve!ApprovalInv, Approve!RecordOK, Approve!Records, Approve!Keys,
     Approve!TypeOK
<1>5. Approve!ToldOK'
  BY SMTT(10), ApproveAssumption DEF Approve!EnrolWrite, Approve!NoEnrol, Approve!rootVars,
     Approve!promptVars, Approve!ApprovalInv, Approve!ToldOK, Approve!Keys, Approve!TypeOK
<1>6. Approve!WriteIsLocked'
  BY SMTT(10), ApproveAssumption DEF Approve!EnrolWrite, Approve!NoEnrol, Approve!rootVars,
     Approve!promptVars, Approve!ApprovalInv, Approve!TypeOK, Approve!EnrolOK, Approve!HelperOK,
     Approve!RecordOK, Approve!ToldOK, Approve!WriteIsLocked, Approve!KeyIsGone,
     Approve!ToldOutcome, Approve!YesIsSigned, Approve!GrantStands, Approve!Keys,
     Approve!Enrolments, Approve!Helpers, Approve!Records, Approve!NoKey
<1>7. Approve!KeyIsGone'
  <2>1. d \in x1 \/ x6[d] = "key"
    BY DEF Approve!ApprovalInv, Approve!EnrolWrite, Approve!WriteIsLocked
  <2>2. \A e \in Phones : e # d => x3'[e] = x3[e]
    BY DEF Approve!ApprovalInv, Approve!EnrolWrite, Approve!TypeOK
  <2> QED BY <2>1, <2>2 DEF Approve!ApprovalInv, Approve!EnrolWrite, Approve!KeyIsGone
<1>8. Approve!ToldOutcome'
  BY SMTT(10), ApproveAssumption DEF Approve!EnrolWrite, Approve!NoEnrol, Approve!rootVars,
     Approve!promptVars, Approve!ApprovalInv, Approve!ToldOutcome, Approve!TypeOK, Approve!Keys
<1>9. Approve!YesIsSigned'
  BY SMTT(10), ApproveAssumption DEF Approve!EnrolWrite, Approve!NoEnrol, Approve!rootVars,
     Approve!promptVars, Approve!ApprovalInv, Approve!YesIsSigned, Approve!TypeOK, Approve!Keys
<1>10. Approve!GrantStands'
  BY SMTT(10), ApproveAssumption DEF Approve!EnrolWrite, Approve!NoEnrol, Approve!rootVars,
     Approve!promptVars, Approve!ApprovalInv, Approve!GrantStands, Approve!TypeOK, Approve!Keys
<1> QED BY <1>1, <1>2, <1>3, <1>4, <1>5, <1>6, <1>7, <1>8, <1>9, <1>10 DEF Approve!ApprovalInv

LEMMA ApproveSwitch ==
  ASSUME Approve!ApprovalInv, NEW d \in Phones, Approve!Switch(d)
  PROVE  Approve!ApprovalInv'
<1>1. Approve!TypeOK'
  <2>1. x3' \in [Phones -> [key : Approve!Keys, on : BOOLEAN]]
    <3>1. [x3[d] EXCEPT !.on = ~x3[d].on] \in [key : Approve!Keys, on : BOOLEAN]
      BY DEF Approve!ApprovalInv, Approve!TypeOK
    <3> QED BY <3>1 DEF Approve!ApprovalInv, Approve!TypeOK, Approve!Switch
  <2> QED BY <2>1, ApproveAssumption DEF Approve!ApprovalInv, Approve!TypeOK, Approve!Switch,
     Approve!Act, Approve!rootVars, Approve!promptVars
<1>2. Approve!EnrolOK'
  BY SMTT(10), ApproveAssumption DEF Approve!Switch, Approve!Act, Approve!NoKey, Approve!Loop,
     Approve!rootVars, Approve!promptVars, Approve!ApprovalInv, Approve!EnrolOK,
     Approve!Enrolments, Approve!Keys, Approve!TypeOK
<1>3. Approve!HelperOK'
  BY SMTT(10), ApproveAssumption DEF Approve!Switch, Approve!Act, Approve!NoKey, Approve!Loop,
     Approve!rootVars, Approve!promptVars, Approve!ApprovalInv, Approve!HelperOK,
     Approve!Helpers, Approve!Keys, Approve!TypeOK
<1>4. Approve!RecordOK'
  BY SMTT(10), ApproveAssumption DEF Approve!Switch, Approve!Act, Approve!NoKey, Approve!Loop,
     Approve!rootVars, Approve!promptVars, Approve!ApprovalInv, Approve!RecordOK,
     Approve!Records, Approve!Keys, Approve!TypeOK
<1>5. Approve!ToldOK'
  BY SMTT(10), ApproveAssumption DEF Approve!Switch, Approve!Act, Approve!NoKey, Approve!Loop,
     Approve!rootVars, Approve!promptVars, Approve!ApprovalInv, Approve!ToldOK, Approve!Keys,
     Approve!TypeOK
<1>6. Approve!WriteIsLocked'
  BY SMTT(10), ApproveAssumption DEF Approve!Switch, Approve!Act, Approve!NoKey, Approve!Loop,
     Approve!rootVars, Approve!promptVars, Approve!ApprovalInv, Approve!WriteIsLocked,
     Approve!TypeOK, Approve!Keys
<1>7. Approve!KeyIsGone'
  <2>1. \A e \in Phones : e # d => x3'[e] = x3[e]
    BY DEF Approve!ApprovalInv, Approve!Switch, Approve!TypeOK
  <2> QED BY <2>1 DEF Approve!ApprovalInv, Approve!Switch, Approve!KeyIsGone
<1>8. Approve!ToldOutcome'
  BY SMTT(10), ApproveAssumption DEF Approve!Switch, Approve!Act, Approve!NoKey, Approve!Loop,
     Approve!rootVars, Approve!promptVars, Approve!ApprovalInv, Approve!ToldOutcome,
     Approve!TypeOK, Approve!Keys
<1>9. Approve!YesIsSigned'
  BY SMTT(10), ApproveAssumption DEF Approve!Switch, Approve!Act, Approve!NoKey, Approve!Loop,
     Approve!rootVars, Approve!promptVars, Approve!ApprovalInv, Approve!YesIsSigned,
     Approve!TypeOK, Approve!Keys
<1>10. Approve!GrantStands'
  BY SMTT(10), ApproveAssumption DEF Approve!Switch, Approve!Act, Approve!NoKey, Approve!Loop,
     Approve!rootVars, Approve!promptVars, Approve!ApprovalInv, Approve!GrantStands,
     Approve!TypeOK, Approve!Keys
<1> QED BY <1>1, <1>2, <1>3, <1>4, <1>5, <1>6, <1>7, <1>8, <1>9, <1>10 DEF Approve!ApprovalInv

LEMMA ApproveRevoke ==
  ASSUME Approve!ApprovalInv, NEW d \in Phones, Approve!Revoke(d)
  PROVE  Approve!ApprovalInv'
  BY SMTT(10), ApproveAssumption DEF Approve!Revoke, Approve!Act, Approve!keyVars,
     Approve!rootVars, Approve!promptVars, Approve!ApprovalInv, Approve!TypeOK, Approve!EnrolOK,
     Approve!HelperOK, Approve!RecordOK, Approve!ToldOK, Approve!WriteIsLocked,
     Approve!KeyIsGone, Approve!ToldOutcome, Approve!YesIsSigned, Approve!GrantStands,
     Approve!Keys, Approve!Enrolments, Approve!Helpers, Approve!Records, Approve!NoKey

LEMMA ApproveRevokeKey ==
  ASSUME Approve!ApprovalInv, NEW d \in Phones, Approve!RevokeKey(d)
  PROVE  Approve!ApprovalInv'
<1>1. Approve!TypeOK'
  BY SMTT(10), ApproveAssumption DEF Approve!RevokeKey, Approve!NoKey, Approve!rootVars,
     Approve!promptVars, Approve!ApprovalInv, Approve!TypeOK, Approve!Keys
<1>2. Approve!EnrolOK'
  BY SMTT(10), ApproveAssumption DEF Approve!RevokeKey, Approve!NoKey, Approve!rootVars,
     Approve!promptVars, Approve!ApprovalInv, Approve!EnrolOK, Approve!Enrolments, Approve!Keys,
     Approve!TypeOK
<1>3. Approve!HelperOK'
  BY SMTT(10), ApproveAssumption DEF Approve!RevokeKey, Approve!NoKey, Approve!rootVars,
     Approve!promptVars, Approve!ApprovalInv, Approve!HelperOK, Approve!Helpers, Approve!Keys,
     Approve!TypeOK
<1>4. Approve!RecordOK'
  BY SMTT(10), ApproveAssumption DEF Approve!RevokeKey, Approve!NoKey, Approve!rootVars,
     Approve!promptVars, Approve!ApprovalInv, Approve!RecordOK, Approve!Records, Approve!Keys,
     Approve!TypeOK
<1>5. Approve!ToldOK'
  BY SMTT(10), ApproveAssumption DEF Approve!RevokeKey, Approve!NoKey, Approve!rootVars,
     Approve!promptVars, Approve!ApprovalInv, Approve!ToldOK, Approve!Keys, Approve!TypeOK
<1>6. Approve!WriteIsLocked'
  BY SMTT(10), ApproveAssumption DEF Approve!RevokeKey, Approve!NoKey, Approve!rootVars,
     Approve!promptVars, Approve!ApprovalInv, Approve!WriteIsLocked, Approve!TypeOK,
     Approve!Keys
<1>7. Approve!KeyIsGone'
  <2>1. \A e \in Phones : x3'[e] = IF e = d THEN Approve!NoKey ELSE x3[e]
    BY DEF Approve!ApprovalInv, Approve!RevokeKey, Approve!TypeOK
  <2>2. \A e \in Phones : x6'[e] = IF e = d THEN "records" ELSE x6[e]
    BY DEF Approve!ApprovalInv, Approve!RevokeKey, Approve!EnrolOK
  <2> QED BY <2>1, <2>2 DEF Approve!ApprovalInv, Approve!RevokeKey, Approve!KeyIsGone
<1>8. Approve!ToldOutcome'
  BY SMTT(10), ApproveAssumption DEF Approve!RevokeKey, Approve!NoKey, Approve!rootVars,
     Approve!promptVars, Approve!ApprovalInv, Approve!ToldOutcome, Approve!TypeOK, Approve!Keys
<1>9. Approve!YesIsSigned'
  BY SMTT(10), ApproveAssumption DEF Approve!RevokeKey, Approve!NoKey, Approve!rootVars,
     Approve!promptVars, Approve!ApprovalInv, Approve!YesIsSigned, Approve!TypeOK, Approve!Keys
<1>10. Approve!GrantStands'
  BY SMTT(10), ApproveAssumption DEF Approve!RevokeKey, Approve!NoKey, Approve!rootVars,
     Approve!promptVars, Approve!ApprovalInv, Approve!GrantStands, Approve!TypeOK, Approve!Keys
<1> QED BY <1>1, <1>2, <1>3, <1>4, <1>5, <1>6, <1>7, <1>8, <1>9, <1>10 DEF Approve!ApprovalInv

LEMMA ApproveRevokeRecords ==
  ASSUME Approve!ApprovalInv, NEW d \in Phones, Approve!RevokeRecords(d)
  PROVE  Approve!ApprovalInv'
<1>1. Approve!TypeOK'
  BY SMTT(10), ApproveAssumption DEF Approve!RevokeRecords, Approve!keyVars, Approve!rootVars,
     Approve!ApprovalInv, Approve!TypeOK, Approve!Keys
<1>2. Approve!EnrolOK'
  BY SMTT(10), ApproveAssumption DEF Approve!RevokeRecords, Approve!keyVars, Approve!rootVars,
     Approve!ApprovalInv, Approve!EnrolOK, Approve!Enrolments, Approve!Keys, Approve!TypeOK
<1>3. Approve!HelperOK'
  BY SMTT(10), ApproveAssumption DEF Approve!RevokeRecords, Approve!keyVars, Approve!rootVars,
     Approve!ApprovalInv, Approve!HelperOK, Approve!Helpers, Approve!Keys, Approve!TypeOK
<1>4. Approve!RecordOK'
  <2>1. \A p \in Prompts : [x10[p] EXCEPT !.devices = @ \ {d}] \in Approve!Records
    BY DEF Approve!ApprovalInv, Approve!RecordOK, Approve!Records
  <2> QED BY <2>1 DEF Approve!ApprovalInv, Approve!RecordOK, Approve!RevokeRecords
<1>5. Approve!ToldOK'
  BY SMTT(10), ApproveAssumption DEF Approve!RevokeRecords, Approve!keyVars, Approve!rootVars,
     Approve!ApprovalInv, Approve!ToldOK, Approve!Keys, Approve!TypeOK
<1>6. Approve!WriteIsLocked'
  BY SMTT(10), ApproveAssumption DEF Approve!RevokeRecords, Approve!keyVars, Approve!rootVars,
     Approve!ApprovalInv, Approve!WriteIsLocked, Approve!TypeOK, Approve!Keys
<1>7. Approve!KeyIsGone'
  BY SMTT(10), ApproveAssumption DEF Approve!RevokeRecords, Approve!keyVars, Approve!rootVars,
     Approve!ApprovalInv, Approve!KeyIsGone, Approve!NoKey, Approve!TypeOK, Approve!Keys
<1>8. Approve!ToldOutcome'
  BY SMTT(10), ApproveAssumption DEF Approve!RevokeRecords, Approve!keyVars, Approve!rootVars,
     Approve!ApprovalInv, Approve!ToldOutcome, Approve!TypeOK, Approve!Keys
<1>9. Approve!YesIsSigned'
  BY SMTT(10), ApproveAssumption DEF Approve!RevokeRecords, Approve!keyVars, Approve!rootVars,
     Approve!ApprovalInv, Approve!YesIsSigned, Approve!TypeOK, Approve!Keys
<1>10. Approve!GrantStands'
  BY SMTT(10), ApproveAssumption DEF Approve!RevokeRecords, Approve!keyVars, Approve!rootVars,
     Approve!ApprovalInv, Approve!GrantStands, Approve!TypeOK, Approve!Keys
<1> QED BY <1>1, <1>2, <1>3, <1>4, <1>5, <1>6, <1>7, <1>8, <1>9, <1>10 DEF Approve!ApprovalInv

LEMMA ApproveUnenrol ==
  ASSUME Approve!ApprovalInv, NEW d \in Phones, Approve!Unenrol(d)
  PROVE  Approve!ApprovalInv'
  BY SMTT(10), ApproveAssumption DEF Approve!Unenrol, Approve!Act, Approve!None,
     Approve!keyVars, Approve!promptVars, Approve!ApprovalInv, Approve!TypeOK, Approve!EnrolOK,
     Approve!HelperOK, Approve!RecordOK, Approve!ToldOK, Approve!WriteIsLocked,
     Approve!KeyIsGone, Approve!ToldOutcome, Approve!YesIsSigned, Approve!GrantStands,
     Approve!Keys, Approve!Enrolments, Approve!Helpers, Approve!Records, Approve!NoKey

LEMMA ApproveAnswer ==
  ASSUME Approve!ApprovalInv, NEW d \in Phones, NEW p \in Prompts, Approve!Answer(d, p)
  PROVE  Approve!ApprovalInv'
  BY SMTT(10), ApproveAssumption DEF Approve!Answer, Approve!keyVars, Approve!rootVars,
     Approve!ApprovalInv, Approve!TypeOK, Approve!EnrolOK, Approve!HelperOK, Approve!RecordOK,
     Approve!ToldOK, Approve!WriteIsLocked, Approve!KeyIsGone, Approve!ToldOutcome,
     Approve!YesIsSigned, Approve!GrantStands, Approve!Keys, Approve!Enrolments,
     Approve!Helpers, Approve!Records, Approve!NoKey

LEMMA ApproveOffer ==
  ASSUME Approve!ApprovalInv, Approve!Offer
  PROVE  Approve!ApprovalInv'
  BY SMTT(10), ApproveAssumption DEF Approve!Offer, Approve!Act, Approve!None, Approve!keyVars,
     Approve!promptVars, Approve!ApprovalInv, Approve!TypeOK, Approve!EnrolOK, Approve!HelperOK,
     Approve!RecordOK, Approve!ToldOK, Approve!WriteIsLocked, Approve!KeyIsGone,
     Approve!ToldOutcome, Approve!YesIsSigned, Approve!GrantStands, Approve!Keys,
     Approve!Enrolments, Approve!Helpers, Approve!Records, Approve!NoKey

LEMMA ApproveEnrolRoot ==
  ASSUME Approve!ApprovalInv, Approve!EnrolRoot
  PROVE  Approve!ApprovalInv'
<1>1. Approve!TypeOK'
  BY SMTT(10), ApproveAssumption DEF Approve!EnrolRoot, Approve!None, Approve!keyVars,
     Approve!promptVars, Approve!ApprovalInv, Approve!TypeOK, Approve!Keys
<1>2. Approve!EnrolOK'
  BY SMTT(10), ApproveAssumption DEF Approve!EnrolRoot, Approve!None, Approve!keyVars,
     Approve!promptVars, Approve!ApprovalInv, Approve!EnrolOK, Approve!Enrolments, Approve!Keys,
     Approve!TypeOK
<1>3. Approve!HelperOK'
  BY SMTT(10), ApproveAssumption DEF Approve!EnrolRoot, Approve!None, Approve!keyVars,
     Approve!promptVars, Approve!ApprovalInv, Approve!HelperOK, Approve!Helpers, Approve!Keys,
     Approve!TypeOK
<1>4. Approve!RecordOK'
  BY SMTT(10), ApproveAssumption DEF Approve!EnrolRoot, Approve!None, Approve!keyVars,
     Approve!promptVars, Approve!ApprovalInv, Approve!RecordOK, Approve!Records, Approve!Keys,
     Approve!TypeOK
<1>5. Approve!ToldOK'
  BY SMTT(10), ApproveAssumption DEF Approve!EnrolRoot, Approve!None, Approve!keyVars,
     Approve!promptVars, Approve!ApprovalInv, Approve!ToldOK, Approve!Keys, Approve!TypeOK
<1>6. Approve!WriteIsLocked'
  BY SMTT(10), ApproveAssumption DEF Approve!EnrolRoot, Approve!None, Approve!keyVars,
     Approve!promptVars, Approve!ApprovalInv, Approve!WriteIsLocked, Approve!TypeOK,
     Approve!Keys
<1>7. Approve!KeyIsGone'
  BY SMTT(10), ApproveAssumption DEF Approve!EnrolRoot, Approve!None, Approve!keyVars,
     Approve!promptVars, Approve!ApprovalInv, Approve!KeyIsGone, Approve!NoKey, Approve!TypeOK,
     Approve!Keys
<1>8. Approve!ToldOutcome'
  BY SMTT(10), ApproveAssumption DEF Approve!EnrolRoot, Approve!None, Approve!keyVars,
     Approve!promptVars, Approve!ApprovalInv, Approve!ToldOutcome, Approve!TypeOK, Approve!Keys
<1>9. Approve!YesIsSigned'
  BY SMTT(10), ApproveAssumption DEF Approve!EnrolRoot, Approve!None, Approve!keyVars,
     Approve!promptVars, Approve!ApprovalInv, Approve!YesIsSigned, Approve!TypeOK, Approve!Keys
<1>10. Approve!GrantStands'
  BY SMTT(10), ApproveAssumption DEF Approve!EnrolRoot, Approve!None, Approve!keyVars,
     Approve!promptVars, Approve!ApprovalInv, Approve!GrantStands, Approve!TypeOK, Approve!Keys
<1> QED BY <1>1, <1>2, <1>3, <1>4, <1>5, <1>6, <1>7, <1>8, <1>9, <1>10 DEF Approve!ApprovalInv

LEMMA ApproveRestart ==
  ASSUME Approve!ApprovalInv, Approve!Restart
  PROVE  Approve!ApprovalInv'
<1>1. Approve!TypeOK'
  BY SMTT(10), ApproveAssumption DEF Approve!Restart, Approve!NoEnrol, Approve!rootVars,
     Approve!ApprovalInv, Approve!TypeOK, Approve!Keys
<1>2. Approve!EnrolOK'
  BY SMTT(10), ApproveAssumption DEF Approve!Restart, Approve!NoEnrol, Approve!rootVars,
     Approve!ApprovalInv, Approve!EnrolOK, Approve!Enrolments, Approve!Keys, Approve!TypeOK
<1>3. Approve!HelperOK'
  BY SMTT(10), ApproveAssumption DEF Approve!Restart, Approve!NoEnrol, Approve!rootVars,
     Approve!ApprovalInv, Approve!HelperOK, Approve!Helpers, Approve!Keys, Approve!TypeOK
<1>4. Approve!RecordOK'
  <2>1. \A p \in Prompts : [x10[p] EXCEPT !.at = "lost"] \in Approve!Records
    BY DEF Approve!ApprovalInv, Approve!RecordOK, Approve!Records
  <2> QED BY <2>1 DEF Approve!ApprovalInv, Approve!RecordOK, Approve!Restart
<1>5. Approve!ToldOK'
  BY SMTT(10), ApproveAssumption DEF Approve!Restart, Approve!NoEnrol, Approve!rootVars,
     Approve!ApprovalInv, Approve!ToldOK, Approve!Keys, Approve!TypeOK
<1>6. Approve!WriteIsLocked'
  BY SMTT(10), ApproveAssumption DEF Approve!Restart, Approve!NoEnrol, Approve!rootVars,
     Approve!ApprovalInv, Approve!WriteIsLocked, Approve!TypeOK, Approve!Keys
<1>7. Approve!KeyIsGone'
  BY SMTT(10), ApproveAssumption DEF Approve!Restart, Approve!NoEnrol, Approve!rootVars,
     Approve!ApprovalInv, Approve!KeyIsGone, Approve!NoKey, Approve!TypeOK, Approve!Keys
<1>8. Approve!ToldOutcome'
  BY SMTT(10), ApproveAssumption DEF Approve!Restart, Approve!NoEnrol, Approve!rootVars,
     Approve!ApprovalInv, Approve!ToldOutcome, Approve!TypeOK, Approve!Keys
<1>9. Approve!YesIsSigned'
  BY SMTT(10), ApproveAssumption DEF Approve!Restart, Approve!NoEnrol, Approve!rootVars,
     Approve!ApprovalInv, Approve!YesIsSigned, Approve!TypeOK, Approve!Keys
<1>10. Approve!GrantStands'
  BY SMTT(10), ApproveAssumption DEF Approve!Restart, Approve!NoEnrol, Approve!rootVars,
     Approve!ApprovalInv, Approve!GrantStands, Approve!TypeOK, Approve!Keys
<1> QED BY <1>1, <1>2, <1>3, <1>4, <1>5, <1>6, <1>7, <1>8, <1>9, <1>10 DEF Approve!ApprovalInv

LEMMA ApproveStart ==
  ASSUME Approve!ApprovalInv, NEW p \in Prompts, Approve!Start(p)
  PROVE  Approve!ApprovalInv'
  BY SMTT(10), ApproveAssumption DEF Approve!Start, Approve!None, Approve!keyVars,
     Approve!rootVars, Approve!ApprovalInv, Approve!TypeOK, Approve!EnrolOK, Approve!HelperOK,
     Approve!RecordOK, Approve!ToldOK, Approve!WriteIsLocked, Approve!KeyIsGone,
     Approve!ToldOutcome, Approve!YesIsSigned, Approve!GrantStands, Approve!Keys,
     Approve!Enrolments, Approve!Helpers, Approve!Records, Approve!NoKey

LEMMA ApproveRequestRead ==
  ASSUME Approve!ApprovalInv, NEW p \in Prompts, Approve!RequestRead(p)
  PROVE  Approve!ApprovalInv'
<1>1. Approve!TypeOK'
  BY SMTT(10), ApproveAssumption DEF Approve!RequestRead, Approve!Unasked, Approve!Loop,
     Approve!Eligible, Approve!Pending, Approve!keyVars, Approve!rootVars, Approve!ApprovalInv,
     Approve!TypeOK, Approve!Keys
<1>2. Approve!EnrolOK'
  BY SMTT(10), ApproveAssumption DEF Approve!RequestRead, Approve!Unasked, Approve!Loop,
     Approve!Eligible, Approve!Pending, Approve!keyVars, Approve!rootVars, Approve!ApprovalInv,
     Approve!EnrolOK, Approve!Enrolments, Approve!Keys, Approve!TypeOK
<1>3. Approve!HelperOK'
  BY SMTT(10), ApproveAssumption DEF Approve!RequestRead, Approve!Unasked, Approve!Loop,
     Approve!Eligible, Approve!Pending, Approve!keyVars, Approve!rootVars, Approve!ApprovalInv,
     Approve!HelperOK, Approve!Helpers, Approve!Keys, Approve!TypeOK
<1>4. Approve!RecordOK'
  <2> DEFINE off == [Approve!Unasked EXCEPT !.at = "refused"]
             busy == [Approve!Unasked EXCEPT !.at = "reading"]
             on(ds) == [Approve!Unasked EXCEPT !.at = "reading", !.devices = ds]
  <2>1. off \in Approve!Records /\ busy \in Approve!Records
    BY ApproveAssumption DEF Approve!Records, Approve!Unasked, Approve!Keys
  <2>2. \A ds \in SUBSET Phones : [busy EXCEPT !.devices = ds] \in Approve!Records
    <3> HIDE DEF busy
    <3> QED BY <2>1 DEF Approve!Records
  <2>3. Approve!Eligible(p) \subseteq Phones
    BY DEF Approve!ApprovalInv, Approve!TypeOK, Approve!Eligible
  <2>4. \E ds \in SUBSET Phones : x10' = [x10 EXCEPT ![p] = off] \/ x10' = [x10 EXCEPT ![p] = on(ds)]
    BY <2>3 DEF Approve!RequestRead
  <2>5. \A ds \in SUBSET Phones : on(ds) \in Approve!Records
    BY <2>2
  <2> HIDE DEF off, on
  <2> QED BY <2>1, <2>5, <2>4 DEF Approve!ApprovalInv, Approve!RecordOK
<1>5. Approve!ToldOK'
  BY SMTT(10), ApproveAssumption DEF Approve!RequestRead, Approve!Unasked, Approve!Loop,
     Approve!Eligible, Approve!Pending, Approve!keyVars, Approve!rootVars, Approve!ApprovalInv,
     Approve!ToldOK, Approve!Keys, Approve!TypeOK
<1>6. Approve!WriteIsLocked'
  BY SMTT(10), ApproveAssumption DEF Approve!RequestRead, Approve!Unasked, Approve!Loop,
     Approve!Eligible, Approve!Pending, Approve!keyVars, Approve!rootVars, Approve!ApprovalInv,
     Approve!WriteIsLocked, Approve!TypeOK, Approve!Keys
<1>7. Approve!KeyIsGone'
  BY SMTT(10), ApproveAssumption DEF Approve!RequestRead, Approve!Unasked, Approve!Loop,
     Approve!Eligible, Approve!Pending, Approve!keyVars, Approve!rootVars, Approve!ApprovalInv,
     Approve!KeyIsGone, Approve!NoKey, Approve!TypeOK, Approve!Keys
<1>8. Approve!ToldOutcome'
  BY SMTT(10), ApproveAssumption DEF Approve!RequestRead, Approve!Unasked, Approve!Loop,
     Approve!Eligible, Approve!Pending, Approve!keyVars, Approve!rootVars, Approve!ApprovalInv,
     Approve!ToldOutcome, Approve!TypeOK, Approve!Keys
<1>9. Approve!YesIsSigned'
  BY SMTT(10), ApproveAssumption DEF Approve!RequestRead, Approve!Unasked, Approve!Loop,
     Approve!Eligible, Approve!Pending, Approve!keyVars, Approve!rootVars, Approve!ApprovalInv,
     Approve!YesIsSigned, Approve!TypeOK, Approve!Keys
<1>10. Approve!GrantStands'
  BY SMTT(10), ApproveAssumption DEF Approve!RequestRead, Approve!Unasked, Approve!Loop,
     Approve!Eligible, Approve!Pending, Approve!keyVars, Approve!rootVars, Approve!ApprovalInv,
     Approve!GrantStands, Approve!TypeOK, Approve!Keys
<1> QED BY <1>1, <1>2, <1>3, <1>4, <1>5, <1>6, <1>7, <1>8, <1>9, <1>10 DEF Approve!ApprovalInv

LEMMA ApproveRequest ==
  ASSUME Approve!ApprovalInv, NEW p \in Prompts, Approve!Request(p)
  PROVE  Approve!ApprovalInv'
<1>1. Approve!TypeOK'
  BY SMTT(10), ApproveAssumption DEF Approve!Request, Approve!keyVars, Approve!rootVars,
     Approve!ApprovalInv, Approve!TypeOK, Approve!Keys
<1>2. Approve!EnrolOK'
  BY SMTT(10), ApproveAssumption DEF Approve!Request, Approve!keyVars, Approve!rootVars,
     Approve!ApprovalInv, Approve!EnrolOK, Approve!Enrolments, Approve!Keys, Approve!TypeOK
<1>3. Approve!HelperOK'
  BY SMTT(10), ApproveAssumption DEF Approve!Request, Approve!keyVars, Approve!rootVars,
     Approve!ApprovalInv, Approve!HelperOK, Approve!Helpers, Approve!Keys, Approve!TypeOK
<1>4. Approve!RecordOK'
  BY SMTT(10), ApproveAssumption DEF Approve!Request, Approve!keyVars, Approve!rootVars,
     Approve!ApprovalInv, Approve!RecordOK, Approve!Records, Approve!Keys, Approve!TypeOK
<1>5. Approve!ToldOK'
  BY SMTT(10), ApproveAssumption DEF Approve!Request, Approve!keyVars, Approve!rootVars,
     Approve!ApprovalInv, Approve!ToldOK, Approve!Keys, Approve!TypeOK
<1>6. Approve!WriteIsLocked'
  BY SMTT(10), ApproveAssumption DEF Approve!Request, Approve!keyVars, Approve!rootVars,
     Approve!ApprovalInv, Approve!WriteIsLocked, Approve!TypeOK, Approve!Keys
<1>7. Approve!KeyIsGone'
  BY SMTT(10), ApproveAssumption DEF Approve!Request, Approve!keyVars, Approve!rootVars,
     Approve!ApprovalInv, Approve!KeyIsGone, Approve!NoKey, Approve!TypeOK, Approve!Keys
<1>8. Approve!ToldOutcome'
  BY SMTT(10), ApproveAssumption DEF Approve!Request, Approve!keyVars, Approve!rootVars,
     Approve!ApprovalInv, Approve!ToldOutcome, Approve!TypeOK, Approve!Keys
<1>9. Approve!YesIsSigned'
  BY SMTT(10), ApproveAssumption DEF Approve!Request, Approve!keyVars, Approve!rootVars,
     Approve!ApprovalInv, Approve!YesIsSigned, Approve!TypeOK, Approve!Keys
<1>10. Approve!GrantStands'
  BY SMTT(10), ApproveAssumption DEF Approve!Request, Approve!keyVars, Approve!rootVars,
     Approve!ApprovalInv, Approve!GrantStands, Approve!TypeOK, Approve!Keys
<1> QED BY <1>1, <1>2, <1>3, <1>4, <1>5, <1>6, <1>7, <1>8, <1>9, <1>10 DEF Approve!ApprovalInv

LEMMA ApproveWake ==
  ASSUME Approve!ApprovalInv, NEW p \in Prompts, Approve!Wake(p)
  PROVE  Approve!ApprovalInv'
<1>1. Approve!TypeOK'
  BY SMTT(10), ApproveAssumption DEF Approve!Wake, Approve!keyVars, Approve!rootVars,
     Approve!ApprovalInv, Approve!TypeOK, Approve!Keys
<1>2. Approve!EnrolOK'
  BY SMTT(10), ApproveAssumption DEF Approve!Wake, Approve!keyVars, Approve!rootVars,
     Approve!ApprovalInv, Approve!EnrolOK, Approve!Enrolments, Approve!Keys, Approve!TypeOK
<1>3. Approve!HelperOK'
  BY SMTT(10), ApproveAssumption DEF Approve!Wake, Approve!keyVars, Approve!rootVars,
     Approve!ApprovalInv, Approve!HelperOK, Approve!Helpers, Approve!Keys, Approve!TypeOK
<1>4. Approve!RecordOK'
  <2>1. [x10[p] EXCEPT !.at = "waking"] \in Approve!Records
    BY DEF Approve!ApprovalInv, Approve!RecordOK, Approve!Records
  <2> QED BY <2>1 DEF Approve!ApprovalInv, Approve!RecordOK, Approve!Wake
<1>5. Approve!ToldOK'
  BY SMTT(10), ApproveAssumption DEF Approve!Wake, Approve!keyVars, Approve!rootVars,
     Approve!ApprovalInv, Approve!ToldOK, Approve!Keys, Approve!TypeOK
<1>6. Approve!WriteIsLocked'
  BY SMTT(10), ApproveAssumption DEF Approve!Wake, Approve!keyVars, Approve!rootVars,
     Approve!ApprovalInv, Approve!WriteIsLocked, Approve!TypeOK, Approve!Keys
<1>7. Approve!KeyIsGone'
  BY SMTT(10), ApproveAssumption DEF Approve!Wake, Approve!keyVars, Approve!rootVars,
     Approve!ApprovalInv, Approve!KeyIsGone, Approve!NoKey, Approve!TypeOK, Approve!Keys
<1>8. Approve!ToldOutcome'
  BY SMTT(10), ApproveAssumption DEF Approve!Wake, Approve!keyVars, Approve!rootVars,
     Approve!ApprovalInv, Approve!ToldOutcome, Approve!TypeOK, Approve!Keys
<1>9. Approve!YesIsSigned'
  BY SMTT(10), ApproveAssumption DEF Approve!Wake, Approve!keyVars, Approve!rootVars,
     Approve!ApprovalInv, Approve!YesIsSigned, Approve!TypeOK, Approve!Keys
<1>10. Approve!GrantStands'
  BY SMTT(10), ApproveAssumption DEF Approve!Wake, Approve!keyVars, Approve!rootVars,
     Approve!ApprovalInv, Approve!GrantStands, Approve!TypeOK, Approve!Keys
<1> QED BY <1>1, <1>2, <1>3, <1>4, <1>5, <1>6, <1>7, <1>8, <1>9, <1>10 DEF Approve!ApprovalInv

LEMMA ApproveDecided ==
  ASSUME Approve!ApprovalInv, NEW p \in Prompts, Approve!Decided(p)
  PROVE  Approve!ApprovalInv'
<1>1. Approve!TypeOK'
  BY SMTT(10), ApproveAssumption DEF Approve!Decided, Approve!Loop, Approve!keyVars,
     Approve!rootVars, Approve!ApprovalInv, Approve!TypeOK, Approve!EnrolOK, Approve!HelperOK,
     Approve!RecordOK, Approve!ToldOK, Approve!WriteIsLocked, Approve!KeyIsGone,
     Approve!ToldOutcome, Approve!YesIsSigned, Approve!GrantStands, Approve!Keys,
     Approve!Enrolments, Approve!Helpers, Approve!Records, Approve!NoKey
<1>2. Approve!EnrolOK'
  BY SMTT(10), ApproveAssumption DEF Approve!Decided, Approve!Loop, Approve!keyVars,
     Approve!rootVars, Approve!ApprovalInv, Approve!EnrolOK, Approve!Enrolments, Approve!Keys,
     Approve!TypeOK
<1>3. Approve!HelperOK'
  BY SMTT(10), ApproveAssumption DEF Approve!Decided, Approve!Loop, Approve!keyVars,
     Approve!rootVars, Approve!ApprovalInv, Approve!HelperOK, Approve!Helpers, Approve!Keys,
     Approve!TypeOK
<1>4. Approve!RecordOK'
  <2>1. \A o \in {"approved", "declined", "timeout"} :
          [[x10[p] EXCEPT !.at = "decided"] EXCEPT !.outcome = o] \in Approve!Records
    BY DEF Approve!ApprovalInv, Approve!RecordOK, Approve!Records
  <2>2. x10[p].outcome # "none" => x10[p].outcome \in {"approved", "declined", "timeout"}
    BY DEF Approve!ApprovalInv, Approve!RecordOK, Approve!Records
  <2> QED BY <2>1, <2>2 DEF Approve!ApprovalInv, Approve!RecordOK, Approve!Decided
<1>5. Approve!ToldOK'
  <2>1. x10[p].outcome # "none" => x10[p].outcome \in {"approved", "declined", "timeout"}
    BY DEF Approve!ApprovalInv, Approve!RecordOK, Approve!Records
  <2> QED BY <2>1 DEF Approve!ApprovalInv, Approve!ToldOK, Approve!Decided
<1>6. Approve!WriteIsLocked'
  BY SMTT(10), ApproveAssumption DEF Approve!Decided, Approve!Loop, Approve!keyVars,
     Approve!rootVars, Approve!ApprovalInv, Approve!WriteIsLocked, Approve!TypeOK, Approve!Keys
<1>7. Approve!KeyIsGone'
  BY SMTT(10), ApproveAssumption DEF Approve!Decided, Approve!Loop, Approve!keyVars,
     Approve!rootVars, Approve!ApprovalInv, Approve!KeyIsGone, Approve!NoKey, Approve!TypeOK,
     Approve!Keys
<1>8. Approve!ToldOutcome'
  BY SMTT(10), ApproveAssumption DEF Approve!Decided, Approve!Loop, Approve!keyVars,
     Approve!rootVars, Approve!ApprovalInv, Approve!TypeOK, Approve!EnrolOK, Approve!HelperOK,
     Approve!RecordOK, Approve!ToldOK, Approve!WriteIsLocked, Approve!KeyIsGone,
     Approve!ToldOutcome, Approve!YesIsSigned, Approve!GrantStands, Approve!Keys,
     Approve!Enrolments, Approve!Helpers, Approve!Records, Approve!NoKey
<1>9. Approve!YesIsSigned'
  BY SMTT(10), ApproveAssumption DEF Approve!Decided, Approve!Loop, Approve!keyVars,
     Approve!rootVars, Approve!ApprovalInv, Approve!TypeOK, Approve!EnrolOK, Approve!HelperOK,
     Approve!RecordOK, Approve!ToldOK, Approve!WriteIsLocked, Approve!KeyIsGone,
     Approve!ToldOutcome, Approve!YesIsSigned, Approve!GrantStands, Approve!Keys,
     Approve!Enrolments, Approve!Helpers, Approve!Records, Approve!NoKey
<1>10. Approve!GrantStands'
  BY SMTT(10), ApproveAssumption DEF Approve!Decided, Approve!Loop, Approve!keyVars,
     Approve!rootVars, Approve!ApprovalInv, Approve!TypeOK, Approve!EnrolOK, Approve!HelperOK,
     Approve!RecordOK, Approve!ToldOK, Approve!WriteIsLocked, Approve!KeyIsGone,
     Approve!ToldOutcome, Approve!YesIsSigned, Approve!GrantStands, Approve!Keys,
     Approve!Enrolments, Approve!Helpers, Approve!Records, Approve!NoKey
<1> QED BY <1>1, <1>2, <1>3, <1>4, <1>5, <1>6, <1>7, <1>8, <1>9, <1>10 DEF Approve!ApprovalInv

LEMMA ApproveReply ==
  ASSUME Approve!ApprovalInv, NEW p \in Prompts, Approve!Reply(p)
  PROVE  Approve!ApprovalInv'
<1>1. Approve!TypeOK'
  BY SMTT(10), ApproveAssumption DEF Approve!Reply, Approve!Verified, Approve!keyVars,
     Approve!rootVars, Approve!ApprovalInv, Approve!TypeOK, Approve!Keys
<1>2. Approve!EnrolOK'
  BY SMTT(10), ApproveAssumption DEF Approve!Reply, Approve!Verified, Approve!keyVars,
     Approve!rootVars, Approve!ApprovalInv, Approve!EnrolOK, Approve!Enrolments, Approve!Keys,
     Approve!TypeOK
<1>3. Approve!HelperOK'
  <2>1. \A b \in Phones \cup {NoDevice} :
          /\ [[x9[p] EXCEPT !.at = "granted"] EXCEPT !.by = b] \in Approve!Helpers
          /\ [[x9[p] EXCEPT !.at = "password"] EXCEPT !.by = b] \in Approve!Helpers
    BY DEF Approve!ApprovalInv, Approve!HelperOK, Approve!Helpers
  <2>2. x10[p].device \in Phones \cup {NoDevice}
    BY DEF Approve!ApprovalInv, Approve!RecordOK, Approve!Records
  <2> QED BY <2>1, <2>2 DEF Approve!ApprovalInv, Approve!HelperOK, Approve!Reply
<1>4. Approve!RecordOK'
  BY SMTT(10), ApproveAssumption DEF Approve!Reply, Approve!Verified, Approve!keyVars,
     Approve!rootVars, Approve!ApprovalInv, Approve!RecordOK, Approve!Records, Approve!Keys,
     Approve!TypeOK
<1>5. Approve!ToldOK'
  BY SMTT(10), ApproveAssumption DEF Approve!Reply, Approve!Verified, Approve!keyVars,
     Approve!rootVars, Approve!ApprovalInv, Approve!ToldOK, Approve!Keys, Approve!TypeOK
<1>6. Approve!WriteIsLocked'
  BY SMTT(10), ApproveAssumption DEF Approve!Reply, Approve!Verified, Approve!keyVars,
     Approve!rootVars, Approve!ApprovalInv, Approve!WriteIsLocked, Approve!TypeOK, Approve!Keys
<1>7. Approve!KeyIsGone'
  BY SMTT(10), ApproveAssumption DEF Approve!Reply, Approve!Verified, Approve!keyVars,
     Approve!rootVars, Approve!ApprovalInv, Approve!KeyIsGone, Approve!NoKey, Approve!TypeOK,
     Approve!Keys
<1>8. Approve!ToldOutcome'
  BY SMTT(10), ApproveAssumption DEF Approve!Reply, Approve!Verified, Approve!keyVars,
     Approve!rootVars, Approve!ApprovalInv, Approve!ToldOutcome, Approve!TypeOK, Approve!Keys
<1>9. Approve!YesIsSigned'
  BY SMTT(10), ApproveAssumption DEF Approve!Reply, Approve!Verified, Approve!keyVars,
     Approve!rootVars, Approve!ApprovalInv, Approve!YesIsSigned, Approve!TypeOK, Approve!Keys
<1>10. Approve!GrantStands'
  BY SMTT(10), ApproveAssumption DEF Approve!Reply, Approve!Verified, Approve!keyVars,
     Approve!rootVars, Approve!ApprovalInv, Approve!TypeOK, Approve!EnrolOK, Approve!HelperOK,
     Approve!RecordOK, Approve!ToldOK, Approve!WriteIsLocked, Approve!KeyIsGone,
     Approve!ToldOutcome, Approve!YesIsSigned, Approve!GrantStands, Approve!Keys,
     Approve!Enrolments, Approve!Helpers, Approve!Records, Approve!NoKey
<1> QED BY <1>1, <1>2, <1>3, <1>4, <1>5, <1>6, <1>7, <1>8, <1>9, <1>10 DEF Approve!ApprovalInv

LEMMA ApproveGiveUp ==
  ASSUME Approve!ApprovalInv, NEW p \in Prompts, Approve!GiveUp(p)
  PROVE  Approve!ApprovalInv'
<1>1. Approve!TypeOK'
  BY SMTT(10), ApproveAssumption DEF Approve!GiveUp, Approve!keyVars, Approve!rootVars,
     Approve!ApprovalInv, Approve!TypeOK, Approve!Keys
<1>2. Approve!EnrolOK'
  BY SMTT(10), ApproveAssumption DEF Approve!GiveUp, Approve!keyVars, Approve!rootVars,
     Approve!ApprovalInv, Approve!EnrolOK, Approve!Enrolments, Approve!Keys, Approve!TypeOK
<1>3. Approve!HelperOK'
  BY SMTT(10), ApproveAssumption DEF Approve!GiveUp, Approve!keyVars, Approve!rootVars,
     Approve!ApprovalInv, Approve!HelperOK, Approve!Helpers, Approve!Keys, Approve!TypeOK
<1>4. Approve!RecordOK'
  BY SMTT(10), ApproveAssumption DEF Approve!GiveUp, Approve!keyVars, Approve!rootVars,
     Approve!ApprovalInv, Approve!RecordOK, Approve!Records, Approve!Keys, Approve!TypeOK
<1>5. Approve!ToldOK'
  BY SMTT(10), ApproveAssumption DEF Approve!GiveUp, Approve!keyVars, Approve!rootVars,
     Approve!ApprovalInv, Approve!ToldOK, Approve!Keys, Approve!TypeOK
<1>6. Approve!WriteIsLocked'
  BY SMTT(10), ApproveAssumption DEF Approve!GiveUp, Approve!keyVars, Approve!rootVars,
     Approve!ApprovalInv, Approve!WriteIsLocked, Approve!TypeOK, Approve!Keys
<1>7. Approve!KeyIsGone'
  BY SMTT(10), ApproveAssumption DEF Approve!GiveUp, Approve!keyVars, Approve!rootVars,
     Approve!ApprovalInv, Approve!KeyIsGone, Approve!NoKey, Approve!TypeOK, Approve!Keys
<1>8. Approve!ToldOutcome'
  BY SMTT(10), ApproveAssumption DEF Approve!GiveUp, Approve!keyVars, Approve!rootVars,
     Approve!ApprovalInv, Approve!ToldOutcome, Approve!TypeOK, Approve!Keys
<1>9. Approve!YesIsSigned'
  BY SMTT(10), ApproveAssumption DEF Approve!GiveUp, Approve!keyVars, Approve!rootVars,
     Approve!ApprovalInv, Approve!YesIsSigned, Approve!TypeOK, Approve!Keys
<1>10. Approve!GrantStands'
  BY SMTT(10), ApproveAssumption DEF Approve!GiveUp, Approve!keyVars, Approve!rootVars,
     Approve!ApprovalInv, Approve!GrantStands, Approve!TypeOK, Approve!Keys
<1> QED BY <1>1, <1>2, <1>3, <1>4, <1>5, <1>6, <1>7, <1>8, <1>9, <1>10 DEF Approve!ApprovalInv

LEMMA ApproveResolve ==
  ASSUME Approve!ApprovalInv, NEW a \in x12, Approve!Resolve(a)
  PROVE  Approve!ApprovalInv'
<1>1. Approve!TypeOK'
  BY SMTT(10), ApproveAssumption DEF Approve!Resolve, Approve!Open, Approve!Loop,
     Approve!keyVars, Approve!rootVars, Approve!Pending, Approve!ApprovalInv, Approve!TypeOK,
     Approve!EnrolOK, Approve!HelperOK, Approve!RecordOK, Approve!ToldOK, Approve!WriteIsLocked,
     Approve!KeyIsGone, Approve!ToldOutcome, Approve!YesIsSigned, Approve!GrantStands,
     Approve!Keys, Approve!Enrolments, Approve!Helpers, Approve!Records, Approve!NoKey
<1>2. Approve!EnrolOK'
  BY SMTT(10), ApproveAssumption DEF Approve!Resolve, Approve!Open, Approve!Loop,
     Approve!keyVars, Approve!rootVars, Approve!Pending, Approve!ApprovalInv, Approve!EnrolOK,
     Approve!Enrolments, Approve!Keys, Approve!TypeOK
<1>3. Approve!HelperOK'
  BY SMTT(10), ApproveAssumption DEF Approve!Resolve, Approve!Open, Approve!Loop,
     Approve!keyVars, Approve!rootVars, Approve!Pending, Approve!ApprovalInv, Approve!HelperOK,
     Approve!Helpers, Approve!Keys, Approve!TypeOK
<1>4. Approve!RecordOK'
  BY SMTT(10), ApproveAssumption DEF Approve!Resolve, Approve!Open, Approve!Loop,
     Approve!keyVars, Approve!rootVars, Approve!Pending, Approve!ApprovalInv, Approve!RecordOK,
     Approve!Records, Approve!Keys, Approve!TypeOK
<1>5. Approve!ToldOK'
  BY SMTT(10), ApproveAssumption DEF Approve!Resolve, Approve!Open, Approve!Loop,
     Approve!keyVars, Approve!rootVars, Approve!Pending, Approve!ApprovalInv, Approve!ToldOK,
     Approve!Keys, Approve!TypeOK
<1>6. Approve!WriteIsLocked'
  BY SMTT(10), ApproveAssumption DEF Approve!Resolve, Approve!Open, Approve!Loop,
     Approve!keyVars, Approve!rootVars, Approve!Pending, Approve!ApprovalInv,
     Approve!WriteIsLocked, Approve!TypeOK, Approve!Keys
<1>7. Approve!KeyIsGone'
  BY SMTT(10), ApproveAssumption DEF Approve!Resolve, Approve!Open, Approve!Loop,
     Approve!keyVars, Approve!rootVars, Approve!Pending, Approve!ApprovalInv, Approve!KeyIsGone,
     Approve!NoKey, Approve!TypeOK, Approve!Keys
<1>8. Approve!ToldOutcome'
  BY SMTT(10), ApproveAssumption DEF Approve!Resolve, Approve!Open, Approve!Loop,
     Approve!keyVars, Approve!rootVars, Approve!Pending, Approve!ApprovalInv, Approve!TypeOK,
     Approve!EnrolOK, Approve!HelperOK, Approve!RecordOK, Approve!ToldOK, Approve!WriteIsLocked,
     Approve!KeyIsGone, Approve!ToldOutcome, Approve!YesIsSigned, Approve!GrantStands,
     Approve!Keys, Approve!Enrolments, Approve!Helpers, Approve!Records, Approve!NoKey
<1>9. Approve!YesIsSigned'
  <2> DEFINE q == a.prompt
             o == IF a.yes THEN "approved" ELSE "declined"
  <2>1. /\ q \in Prompts /\ a.yes \in BOOLEAN /\ x10[q].outcome = "none" /\ x12' = x12
        /\ a = [device |-> a.device, prompt |-> q, yes |-> a.yes, key |-> a.key]
    BY DEF Approve!ApprovalInv, Approve!ToldOK, Approve!Resolve, Approve!Open, Approve!Pending
  <2>2. /\ x10'[q].outcome = o /\ x10'[q].device = a.device /\ x10'[q].key = a.key
        /\ \A p \in Prompts : p # q => x10'[p] = x10[p]
    BY <2>1 DEF Approve!ApprovalInv, Approve!RecordOK, Approve!Records, Approve!Resolve
  <2>3. x13[q] = {}
    BY <2>1 DEF Approve!ApprovalInv, Approve!ToldOK, Approve!ToldOutcome
  <2>4. x13'[q] = {o} /\ \A p \in Prompts : p # q => x13'[p] = x13[p]
    BY <2>1, <2>3 DEF Approve!ApprovalInv, Approve!ToldOK, Approve!Resolve
  <2>5. o = "approved" => a.yes = TRUE
    BY <2>1
  <2> QED BY <2>1, <2>2, <2>4, <2>5 DEF Approve!ApprovalInv, Approve!YesIsSigned
<1>10. Approve!GrantStands'
  BY SMTT(10), ApproveAssumption DEF Approve!Resolve, Approve!Open, Approve!Loop,
     Approve!keyVars, Approve!rootVars, Approve!Pending, Approve!ApprovalInv, Approve!TypeOK,
     Approve!EnrolOK, Approve!HelperOK, Approve!RecordOK, Approve!ToldOK, Approve!WriteIsLocked,
     Approve!KeyIsGone, Approve!ToldOutcome, Approve!YesIsSigned, Approve!GrantStands,
     Approve!Keys, Approve!Enrolments, Approve!Helpers, Approve!Records, Approve!NoKey
<1> QED BY <1>1, <1>2, <1>3, <1>4, <1>5, <1>6, <1>7, <1>8, <1>9, <1>10 DEF Approve!ApprovalInv

-----------------------------------------------------------------------------
(* Approvals: every behaviour. *)

LEMMA ApproveNext ==
  ASSUME Approve!ApprovalInv, Approve!Next
  PROVE  Approve!ApprovalInv'
<1>1. ASSUME NEW d \in Phones,
             \/ Approve!Pair(d) \/ Approve!NewKey(d) \/ Approve!EnrolAsk(d) \/ Approve!EnrolCheck(d)
             \/ Approve!EnrolWrite(d) \/ Approve!Switch(d) \/ Approve!Revoke(d) \/ Approve!RevokeKey(d)
             \/ Approve!RevokeRecords(d) \/ Approve!Unenrol(d)
      PROVE  Approve!ApprovalInv'
  BY <1>1, ApprovePair, ApproveNewKey, ApproveEnrolAsk, ApproveEnrolCheck, ApproveEnrolWrite,
     ApproveSwitch,
     ApproveRevoke, ApproveRevokeKey, ApproveRevokeRecords, ApproveUnenrol
<1>2. ASSUME NEW d \in Phones, NEW p \in Prompts, Approve!Answer(d, p) PROVE Approve!ApprovalInv'
  BY <1>2, ApproveAnswer
<1>3. CASE Approve!Offer \/ Approve!EnrolRoot \/ Approve!Restart
  BY <1>3, ApproveOffer, ApproveEnrolRoot, ApproveRestart
<1>4. ASSUME NEW p \in Prompts,
             \/ Approve!Start(p) \/ Approve!RequestRead(p) \/ Approve!Request(p) \/ Approve!Wake(p)
             \/ Approve!Decided(p) \/ Approve!Reply(p) \/ Approve!GiveUp(p)
      PROVE  Approve!ApprovalInv'
  BY <1>4, ApproveStart, ApproveRequestRead, ApproveRequest, ApproveWake, ApproveDecided,
     ApproveReply,
     ApproveGiveUp
<1>5. ASSUME NEW a \in x12, Approve!Resolve(a) PROVE Approve!ApprovalInv'
  BY <1>5, ApproveResolve
<1> QED BY <1>1, <1>2, <1>3, <1>4, <1>5 DEF Approve!Next

LEMMA ApproveInit ==
  ASSUME Approve!Init
  PROVE  Approve!ApprovalInv
<1> USE ApproveAssumption DEF Approve!Init
<1>1. Approve!TypeOK
  BY DEF Approve!TypeOK, Approve!Keys, Approve!None, Approve!Unasked
<1>2. Approve!EnrolOK /\ Approve!HelperOK /\ Approve!RecordOK /\ Approve!ToldOK
  BY DEF Approve!EnrolOK, Approve!Enrolments, Approve!NoEnrol, Approve!HelperOK, Approve!Helpers,
     Approve!RecordOK, Approve!Records, Approve!ToldOK, Approve!Keys, Approve!None, Approve!Unasked
<1>3. Approve!WriteIsLocked /\ Approve!KeyIsGone /\ Approve!ToldOutcome /\ Approve!YesIsSigned
        /\ Approve!GrantStands
  BY DEF Approve!WriteIsLocked, Approve!KeyIsGone, Approve!ToldOutcome, Approve!YesIsSigned,
     Approve!GrantStands, Approve!NoEnrol, Approve!Unasked
<1> QED BY <1>1, <1>2, <1>3 DEF Approve!ApprovalInv

\* The two modules mean one Cardinality.
LEMMA ApproveCardinality == \A S : Approve!Cardinality(S) = Cardinality(S)
  BY DEF Approve!Cardinality, Cardinality

LEMMA ApproveSound ==
  ASSUME Approve!ApprovalInv
  PROVE  Approve!RevokedHasNoKey /\ Approve!OneOutcome /\ Approve!GrantIsSigned
<1>1. Approve!RevokedHasNoKey
  BY DEF Approve!RevokedHasNoKey, Approve!ApprovalInv, Approve!KeyIsGone
<1>2. Approve!OneOutcome
  <2> SUFFICES ASSUME NEW p \in Prompts PROVE Cardinality(x13[p]) <= 1 /\ x13[p] \subseteq {x10[p].outcome}
    BY ApproveCardinality DEF Approve!OneOutcome
  <2>1. x13[p] \subseteq {x10[p].outcome}
    BY DEF Approve!ApprovalInv, Approve!ToldOutcome
  <2>2. PICK one : one = {x10[p].outcome}
    OBVIOUS
  <2>3. IsFiniteSet(one) /\ Cardinality(one) = 1
    BY <2>2, FS_Singleton
  <2>4. Cardinality(x13[p]) <= 1
    <3>1. Cardinality(x13[p]) <= Cardinality(one)
      BY <2>1, <2>2, <2>3, FS_Subset
    <3> QED BY <3>1, <2>3
  <2> QED BY <2>1, <2>4
<1>3. Approve!GrantIsSigned
  BY DEF Approve!GrantIsSigned, Approve!ApprovalInv, Approve!GrantStands, Approve!YesIsSigned
<1> QED BY <1>1, <1>2, <1>3

\* Every behaviour: the part that is of approvals keeps its invariant.
ApprovalsInv == part = "approve" => Approve!ApprovalInv

LEMMA ApprovalsAlways == Spec => []ApprovalsInv
<1> USE DEF ApprovalsInv
<1>1. Init => ApprovalsInv
  BY ApproveInit DEF Init
<1>2. ApprovalsInv /\ [Next]_all => ApprovalsInv'
  <2> SUFFICES ASSUME ApprovalsInv, [Next]_all, part' = "approve" PROVE Approve!ApprovalInv'
    OBVIOUS
  <2>1. CASE UNCHANGED all
    BY <2>1 DEF all, Approve!ApprovalInv, Approve!TypeOK, Approve!EnrolOK, Approve!HelperOK,
       Approve!RecordOK, Approve!ToldOK, Approve!WriteIsLocked, Approve!KeyIsGone, Approve!ToldOutcome,
       Approve!YesIsSigned, Approve!GrantStands
  <2>2. CASE Next
    <3>1. part = "approve" /\ Approve!Next
      BY <2>2 DEF Next
    <3> QED BY <3>1, ApproveNext
  <2> QED BY <2>1, <2>2
<1> QED BY <1>1, <1>2, PTL DEF Spec

\* Of biometric.py, pam_helper.py and pam_enroll.py: a device that was revoked has no key in
\* the store, however far its enrolment was; a prompt has one outcome for all devices; and
\* root's helper grants only what a device signed with the key root had enrolled.
THEOREM ApprovalsAreSound == Spec => []ApprovalIsSound
<1>1. ApprovalsInv => ApprovalIsSound
  BY ApproveSound DEF ApprovalsInv, ApprovalIsSound
<1> QED BY <1>1, ApprovalsAlways, PTL

-----------------------------------------------------------------------------
(* Microphone: each step keeps MicInv. *)

\* A socket that was opened goes on; a side may let go of its own.
LEMMA MicSockMoves ==
  ASSUME Mic!MicInv, NEW c, NEW to \in Mic!SockSteps \ {"new"},
         c \notin Mic!Sockets \/ x4[c].at # "new",
         x4' = [x4 EXCEPT ![c].at = to], x2' = x2,
         \A s \in Mic!Sides : x9'[s].chan \in {x9[s].chan, 0}
  PROVE  Mic!SockOK' /\ Mic!ChanOpen'
<1>1. \A d \in Mic!Sockets : x4'[d] = IF d = c THEN [x4[d] EXCEPT !.at = to] ELSE x4[d]
  BY DEF Mic!MicInv, Mic!SockOK, Mic!Socks, Mic!SockSteps
<1>2. \A d \in Mic!Sockets : [x4[d] EXCEPT !.at = to] \in Mic!Socks
  BY DEF Mic!MicInv, Mic!SockOK, Mic!Socks, Mic!SockSteps
<1>3. \A d \in Mic!Sockets : x4'[d].at = "new" => x4[d].at = "new" /\ x4'[d] = x4[d]
  BY <1>1, <1>2 DEF Mic!MicInv, Mic!SockOK, Mic!Socks, Mic!SockSteps
<1>4. Mic!SockOK'
  <2>1. x4' \in [Mic!Sockets -> Mic!Socks]
    BY <1>1, <1>2 DEF Mic!MicInv, Mic!SockOK, Mic!Socks, Mic!SockSteps
  <2>2. \A d \in Mic!Sockets : x4'[d].at # "new" => x4'[d].side \in Mic!Sides
    BY <1>1, <1>2 DEF Mic!MicInv, Mic!SockOK, Mic!Socks, Mic!SockSteps
  <2> QED BY <2>1, <2>2 DEF Mic!SockOK, Mic!Socks, Mic!SockSteps
<1>5. \A d \in Mic!Sockets : x4[d].at # "new" => x4'[d].at # "new"
  BY <1>3
<1>6. Mic!ChanOpen'
  BY <1>5 DEF Mic!MicInv, Mic!ChanOpen, Mic!Sockets
<1> QED BY <1>4, <1>6

\* A cleanup leaves a side idle, or pending with the modules it could not unload.
LEMMA MicCleaned ==
  ASSUME Mic!MicInv, NEW s \in Mic!Sides, NEW m, Mic!Cleaned(s, m)
  PROVE  /\ Mic!MicOK'
         /\ \A r \in Mic!Sides : x9'[r].chan \in {x9[r].chan, 0}
  BY MicAssumption DEF Mic!MicInv, Mic!MicOK, Mic!MicSteps, Mic!Cleaned, Mic!Idle, Mic!Served

LEMMA MicReclaim ==
  ASSUME Mic!MicInv, NEW s \in Mic!Sides, Mic!Reclaim(s)
  PROVE  Mic!MicInv'
  BY SMTT(10), MicAssumption DEF Mic!Reclaim, Mic!Served, Mic!Kinds, Mic!leaseVars,
     Mic!chanVars, Mic!dictVars, Mic!MicInv, Mic!TypeOK, Mic!SockOK, Mic!MicOK, Mic!ChanOpen,
     Mic!DictOK, Mic!FileOK, Mic!HolderHasIt, Mic!LoadedInTurn, Mic!CopyIsKept, Mic!Unspoiled,
     Mic!Sides, Mic!Sockets, Mic!Socks, Mic!MicSteps, Mic!DictSteps, Mic!NoDict, Mic!Copies,
     Mic!Idle, Mic!NoCopy, Mic!SockSteps

LEMMA MicBegun ==
  ASSUME Mic!MicInv, NEW s \in Mic!Sides, Mic!Begun(s)
  PROVE  Mic!MicInv'
<1>1. Mic!TypeOK'
  BY SMTT(10), MicAssumption DEF Mic!Begun, Mic!Allowed, Mic!leaseVars, Mic!dictVars,
     Mic!MicInv, Mic!TypeOK, Mic!SockOK, Mic!MicOK, Mic!DictOK, Mic!Sides, Mic!Kinds,
     Mic!Sockets, Mic!Socks, Mic!MicSteps, Mic!DictSteps, Mic!NoDict, Mic!SockSteps
<1>2. Mic!SockOK'
  <2>0. PICK c : c = x9[s].chan
    OBVIOUS
  <2>1. x2' = x2 /\ x4' = [x4 EXCEPT ![c].at = "begun"]
    BY <2>0 DEF Mic!Begun, Mic!leaseVars
  <2>2. c \notin Mic!Sockets \/ x4[c].at # "new"
    BY <2>0 DEF Mic!Begun, Mic!MicInv, Mic!ChanOpen
  <2>3. \A r \in Mic!Sides : x9'[r].chan \in {x9[r].chan, 0}
    BY DEF Mic!Begun, Mic!MicInv, Mic!MicOK
  <2> QED BY <2>1, <2>2, <2>3, MicSockMoves DEF Mic!SockSteps
<1>3. Mic!MicOK'
  BY SMTT(10), MicAssumption DEF Mic!Begun, Mic!Allowed, Mic!leaseVars, Mic!dictVars,
     Mic!MicInv, Mic!MicOK, Mic!SockOK, Mic!Sides, Mic!MicSteps, Mic!Sockets, Mic!Socks,
     Mic!SockSteps, Mic!TypeOK, Mic!Kinds
<1>4. Mic!ChanOpen'
  <2>0. PICK c : c = x9[s].chan
    OBVIOUS
  <2>1. x2' = x2 /\ x4' = [x4 EXCEPT ![c].at = "begun"]
    BY <2>0 DEF Mic!Begun, Mic!leaseVars
  <2>2. c \notin Mic!Sockets \/ x4[c].at # "new"
    BY <2>0 DEF Mic!Begun, Mic!MicInv, Mic!ChanOpen
  <2>3. \A r \in Mic!Sides : x9'[r].chan \in {x9[r].chan, 0}
    BY DEF Mic!Begun, Mic!MicInv, Mic!MicOK
  <2> QED BY <2>1, <2>2, <2>3, MicSockMoves DEF Mic!SockSteps
<1>5. Mic!DictOK'
  BY SMTT(10), MicAssumption DEF Mic!Begun, Mic!Allowed, Mic!leaseVars, Mic!dictVars,
     Mic!MicInv, Mic!DictOK, Mic!DictSteps, Mic!NoDict, Mic!TypeOK, Mic!Sides, Mic!Kinds
<1>6. Mic!FileOK'
  BY SMTT(10), MicAssumption DEF Mic!Begun, Mic!Allowed, Mic!leaseVars, Mic!dictVars,
     Mic!MicInv, Mic!FileOK, Mic!Copies, Mic!TypeOK, Mic!Sides, Mic!Kinds
<1>7. Mic!HolderHasIt'
  BY SMTT(10), MicAssumption DEF Mic!Begun, Mic!Allowed, Mic!leaseVars, Mic!dictVars,
     Mic!MicInv, Mic!HolderHasIt, Mic!MicOK, Mic!LoadedInTurn, Mic!SockOK, Mic!Sides, Mic!Idle,
     Mic!MicSteps, Mic!Kinds, Mic!Sockets, Mic!Socks, Mic!SockSteps, Mic!TypeOK
<1>8. Mic!LoadedInTurn'
  BY SMTT(10), MicAssumption DEF Mic!Begun, Mic!Allowed, Mic!leaseVars, Mic!dictVars,
     Mic!MicInv, Mic!LoadedInTurn, Mic!HolderHasIt, Mic!MicOK, Mic!Sides, Mic!Kinds, Mic!Idle,
     Mic!MicSteps, Mic!TypeOK
<1>9. Mic!CopyIsKept'
  BY SMTT(10), MicAssumption DEF Mic!Begun, Mic!Allowed, Mic!leaseVars, Mic!dictVars,
     Mic!MicInv, Mic!CopyIsKept, Mic!FileOK, Mic!DictOK, Mic!Copies, Mic!DictSteps, Mic!NoDict,
     Mic!TypeOK, Mic!Sides, Mic!Kinds
<1>10. Mic!Unspoiled'
  BY SMTT(10), MicAssumption DEF Mic!Begun, Mic!Allowed, Mic!leaseVars, Mic!dictVars,
     Mic!MicInv, Mic!Unspoiled, Mic!CopyIsKept, Mic!FileOK, Mic!DictOK, Mic!NoDict, Mic!NoCopy,
     Mic!Copies, Mic!DictSteps, Mic!TypeOK, Mic!Sides, Mic!Kinds
<1> QED BY <1>1, <1>2, <1>3, <1>4, <1>5, <1>6, <1>7, <1>8, <1>9, <1>10 DEF Mic!MicInv

LEMMA MicBeginFails ==
  ASSUME Mic!MicInv, NEW s \in Mic!Sides, Mic!BeginFails(s)
  PROVE  Mic!MicInv'
<1>1. Mic!TypeOK'
  BY SMTT(10), MicAssumption DEF Mic!BeginFails, Mic!Tries, Mic!Cleaned, Mic!Detached, Mic!Idle,
     Mic!Served, Mic!Kinds, Mic!leaseVars, Mic!dictVars, Mic!Without, Mic!MicInv, Mic!TypeOK,
     Mic!SockOK, Mic!MicOK, Mic!DictOK, Mic!Sides, Mic!Sockets, Mic!Socks, Mic!MicSteps,
     Mic!DictSteps, Mic!NoDict, Mic!SockSteps
<1>2. Mic!SockOK'
  <2>0. PICK c : c = x9[s].chan
    OBVIOUS
  <2>1. x2' = x2 /\ x4' = [x4 EXCEPT ![c].at = "ending"]
    BY <2>0 DEF Mic!BeginFails, Mic!leaseVars
  <2>2. c \notin Mic!Sockets \/ x4[c].at # "new"
    BY <2>0 DEF Mic!BeginFails, Mic!MicInv, Mic!ChanOpen
  <2>3. \A r \in Mic!Sides : x9'[r].chan \in {x9[r].chan, 0}
    <3>1. PICK m \in Mic!Tries(s) : IF s = "remote" THEN Mic!Cleaned(s, m)
                                   ELSE x9' = [x9 EXCEPT ![s] = Mic!Idle]
      BY DEF Mic!BeginFails
    <3> QED BY <3>1, MicCleaned DEF Mic!MicInv, Mic!MicOK, Mic!Idle
  <2> QED BY <2>1, <2>2, <2>3, MicSockMoves DEF Mic!SockSteps
<1>3. Mic!MicOK'
  BY SMTT(10), MicAssumption DEF Mic!BeginFails, Mic!Tries, Mic!Cleaned, Mic!Detached, Mic!Idle,
     Mic!Served, Mic!Kinds, Mic!leaseVars, Mic!dictVars, Mic!Without, Mic!MicInv, Mic!MicOK,
     Mic!SockOK, Mic!Sides, Mic!MicSteps, Mic!Sockets, Mic!Socks, Mic!SockSteps, Mic!TypeOK
<1>4. Mic!ChanOpen'
  <2>0. PICK c : c = x9[s].chan
    OBVIOUS
  <2>1. x2' = x2 /\ x4' = [x4 EXCEPT ![c].at = "ending"]
    BY <2>0 DEF Mic!BeginFails, Mic!leaseVars
  <2>2. c \notin Mic!Sockets \/ x4[c].at # "new"
    BY <2>0 DEF Mic!BeginFails, Mic!MicInv, Mic!ChanOpen
  <2>3. \A r \in Mic!Sides : x9'[r].chan \in {x9[r].chan, 0}
    <3>1. PICK m \in Mic!Tries(s) : IF s = "remote" THEN Mic!Cleaned(s, m)
                                   ELSE x9' = [x9 EXCEPT ![s] = Mic!Idle]
      BY DEF Mic!BeginFails
    <3> QED BY <3>1, MicCleaned DEF Mic!MicInv, Mic!MicOK, Mic!Idle
  <2> QED BY <2>1, <2>2, <2>3, MicSockMoves DEF Mic!SockSteps
<1>5. Mic!DictOK'
  BY SMTT(10), MicAssumption DEF Mic!BeginFails, Mic!Tries, Mic!Cleaned, Mic!Detached, Mic!Idle,
     Mic!Served, Mic!Kinds, Mic!leaseVars, Mic!dictVars, Mic!Without, Mic!MicInv, Mic!DictOK,
     Mic!DictSteps, Mic!NoDict, Mic!TypeOK, Mic!Sides
<1>6. Mic!FileOK'
  BY SMTT(10), MicAssumption DEF Mic!BeginFails, Mic!Tries, Mic!Cleaned, Mic!Detached, Mic!Idle,
     Mic!Served, Mic!Kinds, Mic!leaseVars, Mic!dictVars, Mic!Without, Mic!MicInv, Mic!FileOK,
     Mic!Copies, Mic!TypeOK, Mic!Sides
<1>7. Mic!HolderHasIt'
  BY SMTT(10), MicAssumption DEF Mic!BeginFails, Mic!Tries, Mic!Cleaned, Mic!Detached, Mic!Idle,
     Mic!Served, Mic!Kinds, Mic!leaseVars, Mic!dictVars, Mic!Without, Mic!MicInv,
     Mic!HolderHasIt, Mic!MicOK, Mic!LoadedInTurn, Mic!SockOK, Mic!Sides, Mic!MicSteps,
     Mic!Sockets, Mic!Socks, Mic!SockSteps, Mic!TypeOK
<1>8. Mic!LoadedInTurn'
  BY SMTT(10), MicAssumption DEF Mic!BeginFails, Mic!Tries, Mic!Cleaned, Mic!Detached, Mic!Idle,
     Mic!Served, Mic!Kinds, Mic!leaseVars, Mic!dictVars, Mic!Without, Mic!MicInv,
     Mic!LoadedInTurn, Mic!HolderHasIt, Mic!MicOK, Mic!Sides, Mic!MicSteps, Mic!TypeOK
<1>9. Mic!CopyIsKept'
  BY SMTT(10), MicAssumption DEF Mic!BeginFails, Mic!Tries, Mic!Cleaned, Mic!Detached, Mic!Idle,
     Mic!Served, Mic!Kinds, Mic!leaseVars, Mic!dictVars, Mic!Without, Mic!MicInv,
     Mic!CopyIsKept, Mic!FileOK, Mic!DictOK, Mic!Copies, Mic!DictSteps, Mic!NoDict, Mic!TypeOK,
     Mic!Sides
<1>10. Mic!Unspoiled'
  BY SMTT(10), MicAssumption DEF Mic!BeginFails, Mic!Tries, Mic!Cleaned, Mic!Detached, Mic!Idle,
     Mic!Served, Mic!Kinds, Mic!leaseVars, Mic!dictVars, Mic!Without, Mic!MicInv, Mic!Unspoiled,
     Mic!CopyIsKept, Mic!FileOK, Mic!DictOK, Mic!NoDict, Mic!NoCopy, Mic!Copies, Mic!DictSteps,
     Mic!TypeOK, Mic!Sides
<1> QED BY <1>1, <1>2, <1>3, <1>4, <1>5, <1>6, <1>7, <1>8, <1>9, <1>10 DEF Mic!MicInv

LEMMA MicLoad ==
  ASSUME Mic!MicInv, NEW s \in Mic!Sides, NEW k \in Mic!Kinds, Mic!Load(s, k)
  PROVE  Mic!MicInv'
  BY SMTT(10), MicAssumption DEF Mic!Load, Mic!leaseVars, Mic!chanVars, Mic!dictVars,
     Mic!MicInv, Mic!TypeOK, Mic!SockOK, Mic!MicOK, Mic!ChanOpen, Mic!DictOK, Mic!FileOK,
     Mic!HolderHasIt, Mic!LoadedInTurn, Mic!CopyIsKept, Mic!Unspoiled, Mic!Sides, Mic!Kinds,
     Mic!Sockets, Mic!Socks, Mic!MicSteps, Mic!DictSteps, Mic!NoDict, Mic!Copies, Mic!Idle,
     Mic!NoCopy, Mic!SockSteps

LEMMA MicAttach ==
  ASSUME Mic!MicInv, NEW c \in Mic!Sockets, Mic!Attach(c)
  PROVE  Mic!MicInv'
  BY SMTT(10), MicAssumption DEF Mic!Attach, Mic!Allowed, Mic!Idle, Mic!leaseVars, Mic!dictVars,
     Mic!MicInv, Mic!TypeOK, Mic!SockOK, Mic!MicOK, Mic!ChanOpen, Mic!DictOK, Mic!FileOK,
     Mic!HolderHasIt, Mic!LoadedInTurn, Mic!CopyIsKept, Mic!Unspoiled, Mic!Sides, Mic!Kinds,
     Mic!Sockets, Mic!Socks, Mic!MicSteps, Mic!DictSteps, Mic!NoDict, Mic!Copies, Mic!NoCopy,
     Mic!SockSteps

LEMMA MicBeginRemote ==
  ASSUME Mic!MicInv, NEW c \in Mic!Sockets, Mic!BeginRemote(c)
  PROVE  Mic!MicInv'
  BY SMTT(10), MicAssumption DEF Mic!BeginRemote, Mic!MayBegin, Mic!Free, Mic!Idle, Mic!Allowed, Mic!Starts,
     Mic!Claim, Mic!leaseVars, Mic!dictVars, Mic!MicInv, Mic!TypeOK, Mic!SockOK, Mic!MicOK,
     Mic!ChanOpen, Mic!DictOK, Mic!FileOK, Mic!HolderHasIt, Mic!LoadedInTurn, Mic!CopyIsKept,
     Mic!Unspoiled, Mic!Sides, Mic!Kinds, Mic!Sockets, Mic!Socks, Mic!MicSteps, Mic!DictSteps,
     Mic!NoDict, Mic!Copies, Mic!NoCopy, Mic!SockSteps

LEMMA MicNoBackend ==
  ASSUME Mic!MicInv, NEW c \in Mic!Sockets, Mic!NoBackend(c)
  PROVE  Mic!MicInv'
  BY SMTT(10), MicAssumption DEF Mic!NoBackend, Mic!MayBegin, Mic!Free, Mic!Idle, Mic!Allowed,
     Mic!Claim, Mic!leaseVars, Mic!dictVars, Mic!MicInv, Mic!TypeOK, Mic!SockOK, Mic!MicOK,
     Mic!ChanOpen, Mic!DictOK, Mic!FileOK, Mic!HolderHasIt, Mic!LoadedInTurn, Mic!CopyIsKept,
     Mic!Unspoiled, Mic!Sides, Mic!Kinds, Mic!Sockets, Mic!Socks, Mic!MicSteps, Mic!DictSteps,
     Mic!NoDict, Mic!Copies, Mic!NoCopy, Mic!SockSteps

LEMMA MicBeginVoice ==
  ASSUME Mic!MicInv, NEW c \in Mic!Sockets, Mic!BeginVoice(c)
  PROVE  Mic!MicInv'
  BY SMTT(10), MicAssumption DEF Mic!BeginVoice, Mic!Free, Mic!Idle, Mic!Starts, Mic!Claim,
     Mic!leaseVars, Mic!dictVars, Mic!MicInv, Mic!TypeOK, Mic!SockOK, Mic!MicOK, Mic!ChanOpen,
     Mic!DictOK, Mic!FileOK, Mic!HolderHasIt, Mic!LoadedInTurn, Mic!CopyIsKept, Mic!Unspoiled,
     Mic!Sides, Mic!Kinds, Mic!Sockets, Mic!Socks, Mic!MicSteps, Mic!DictSteps, Mic!NoDict,
     Mic!Copies, Mic!NoCopy, Mic!SockSteps

LEMMA MicLeaves ==
  ASSUME Mic!MicInv, NEW c \in Mic!Sockets, Mic!Leaves(c)
  PROVE  Mic!MicInv'
<1>1. Mic!TypeOK'
  BY SMTT(10), MicAssumption DEF Mic!Leaves, Mic!Sides, Mic!Free, Mic!leaseVars, Mic!dictVars,
     Mic!MicInv, Mic!TypeOK, Mic!SockOK, Mic!MicOK, Mic!DictOK, Mic!Kinds, Mic!Sockets,
     Mic!Socks, Mic!MicSteps, Mic!DictSteps, Mic!NoDict, Mic!SockSteps
<1>2. Mic!SockOK'
  BY SMTT(10), MicAssumption DEF Mic!Leaves, Mic!Sides, Mic!Free, Mic!leaseVars, Mic!dictVars,
     Mic!MicInv, Mic!SockOK, Mic!MicOK, Mic!ChanOpen, Mic!Sockets, Mic!Socks, Mic!MicSteps,
     Mic!SockSteps, Mic!TypeOK, Mic!Kinds
<1>3. Mic!MicOK'
  BY SMTT(10), MicAssumption DEF Mic!Leaves, Mic!Sides, Mic!Free, Mic!leaseVars, Mic!dictVars,
     Mic!MicInv, Mic!MicOK, Mic!SockOK, Mic!MicSteps, Mic!Sockets, Mic!Socks, Mic!SockSteps,
     Mic!TypeOK, Mic!Kinds
<1>4. Mic!ChanOpen'
  BY SMTT(10), MicAssumption DEF Mic!Leaves, Mic!Sides, Mic!Free, Mic!leaseVars, Mic!dictVars,
     Mic!MicInv, Mic!ChanOpen, Mic!SockOK, Mic!MicOK, Mic!Sockets, Mic!Socks, Mic!MicSteps,
     Mic!SockSteps, Mic!TypeOK, Mic!Kinds
<1>5. Mic!DictOK'
  BY SMTT(10), MicAssumption DEF Mic!Leaves, Mic!Sides, Mic!Free, Mic!leaseVars, Mic!dictVars,
     Mic!MicInv, Mic!DictOK, Mic!DictSteps, Mic!NoDict, Mic!TypeOK, Mic!Kinds
<1>6. Mic!FileOK'
  BY SMTT(10), MicAssumption DEF Mic!Leaves, Mic!Sides, Mic!Free, Mic!leaseVars, Mic!dictVars,
     Mic!MicInv, Mic!FileOK, Mic!Copies, Mic!TypeOK, Mic!Kinds
<1>7. Mic!HolderHasIt'
  BY SMTT(10), MicAssumption DEF Mic!Leaves, Mic!Sides, Mic!Free, Mic!leaseVars, Mic!dictVars,
     Mic!MicInv, Mic!HolderHasIt, Mic!MicOK, Mic!LoadedInTurn, Mic!SockOK, Mic!Idle,
     Mic!MicSteps, Mic!Kinds, Mic!Sockets, Mic!Socks, Mic!SockSteps, Mic!TypeOK
<1>8. Mic!LoadedInTurn'
  BY SMTT(10), MicAssumption DEF Mic!Leaves, Mic!Sides, Mic!Free, Mic!leaseVars, Mic!dictVars,
     Mic!MicInv, Mic!LoadedInTurn, Mic!HolderHasIt, Mic!MicOK, Mic!Kinds, Mic!Idle,
     Mic!MicSteps, Mic!TypeOK
<1>9. Mic!CopyIsKept'
  BY SMTT(10), MicAssumption DEF Mic!Leaves, Mic!Sides, Mic!Free, Mic!leaseVars, Mic!dictVars,
     Mic!MicInv, Mic!CopyIsKept, Mic!FileOK, Mic!DictOK, Mic!Copies, Mic!DictSteps, Mic!NoDict,
     Mic!TypeOK, Mic!Kinds
<1>10. Mic!Unspoiled'
  BY SMTT(10), MicAssumption DEF Mic!Leaves, Mic!Sides, Mic!Free, Mic!leaseVars, Mic!dictVars,
     Mic!MicInv, Mic!Unspoiled, Mic!CopyIsKept, Mic!FileOK, Mic!DictOK, Mic!NoDict, Mic!NoCopy,
     Mic!Copies, Mic!DictSteps, Mic!TypeOK, Mic!Kinds
<1> QED BY <1>1, <1>2, <1>3, <1>4, <1>5, <1>6, <1>7, <1>8, <1>9, <1>10 DEF Mic!MicInv

LEMMA MicEnd ==
  ASSUME Mic!MicInv, NEW c \in Mic!Sockets, Mic!End(c)
  PROVE  Mic!MicInv'
<1>1. Mic!TypeOK'
  BY SMTT(10), MicAssumption DEF Mic!End, Mic!Free, Mic!Allowed, Mic!Tries, Mic!Cleaned,
     Mic!Detached, Mic!leaseVars, Mic!dictVars, Mic!Without, Mic!Kinds, Mic!Idle, Mic!Served,
     Mic!MicInv, Mic!TypeOK, Mic!SockOK, Mic!MicOK, Mic!DictOK, Mic!Sides, Mic!Sockets,
     Mic!Socks, Mic!MicSteps, Mic!DictSteps, Mic!NoDict, Mic!SockSteps
<1>2. Mic!SockOK'
  <2>1. x2' = x2 /\ x4' = [x4 EXCEPT ![c].at = "ending"]
    BY DEF Mic!End, Mic!leaseVars
  <2>2. c \notin Mic!Sockets \/ x4[c].at # "new"
    BY DEF Mic!End, Mic!MicInv, Mic!ChanOpen
  <2>3. \A r \in Mic!Sides : x9'[r].chan \in {x9[r].chan, 0}
    <3>1. x4[c].side \in Mic!Sides
      BY DEF Mic!End, Mic!MicInv, Mic!SockOK, Mic!Socks, Mic!SockSteps
    <3>2. CASE UNCHANGED x9
      BY <3>2
    <3>3. CASE \E m \in Mic!Tries(x4[c].side) : Mic!Cleaned(x4[c].side, m)
      BY <3>1, <3>3, MicCleaned
    <3> QED BY <3>2, <3>3 DEF Mic!End
  <2> QED BY <2>1, <2>2, <2>3, MicSockMoves DEF Mic!SockSteps
<1>3. Mic!MicOK'
  <2>1. x4[c].side \in Mic!Sides
    BY DEF Mic!End, Mic!MicInv, Mic!SockOK, Mic!Socks, Mic!SockSteps
  <2> QED BY <2>1, MicCleaned DEF Mic!End
<1>4. Mic!ChanOpen'
  <2>1. x2' = x2 /\ x4' = [x4 EXCEPT ![c].at = "ending"]
    BY DEF Mic!End, Mic!leaseVars
  <2>2. c \notin Mic!Sockets \/ x4[c].at # "new"
    BY DEF Mic!End, Mic!MicInv, Mic!ChanOpen
  <2>3. \A r \in Mic!Sides : x9'[r].chan \in {x9[r].chan, 0}
    <3>1. x4[c].side \in Mic!Sides
      BY DEF Mic!End, Mic!MicInv, Mic!SockOK, Mic!Socks, Mic!SockSteps
    <3>2. CASE UNCHANGED x9
      BY <3>2
    <3>3. CASE \E m \in Mic!Tries(x4[c].side) : Mic!Cleaned(x4[c].side, m)
      BY <3>1, <3>3, MicCleaned
    <3> QED BY <3>2, <3>3 DEF Mic!End
  <2> QED BY <2>1, <2>2, <2>3, MicSockMoves DEF Mic!SockSteps
<1>5. Mic!DictOK'
  BY SMTT(10), MicAssumption DEF Mic!End, Mic!Free, Mic!Allowed, Mic!Tries, Mic!Cleaned,
     Mic!Detached, Mic!leaseVars, Mic!dictVars, Mic!Without, Mic!Kinds, Mic!Idle, Mic!Served,
     Mic!MicInv, Mic!DictOK, Mic!DictSteps, Mic!NoDict, Mic!TypeOK, Mic!Sides
<1>6. Mic!FileOK'
  BY SMTT(10), MicAssumption DEF Mic!End, Mic!Free, Mic!Allowed, Mic!Tries, Mic!Cleaned,
     Mic!Detached, Mic!leaseVars, Mic!dictVars, Mic!Without, Mic!Kinds, Mic!Idle, Mic!Served,
     Mic!MicInv, Mic!FileOK, Mic!Copies, Mic!TypeOK, Mic!Sides
<1>7. Mic!HolderHasIt'
  BY SMTT(10), MicAssumption DEF Mic!End, Mic!Free, Mic!Allowed, Mic!Tries, Mic!Cleaned,
     Mic!Detached, Mic!leaseVars, Mic!dictVars, Mic!Without, Mic!Kinds, Mic!Idle, Mic!Served,
     Mic!MicInv, Mic!HolderHasIt, Mic!MicOK, Mic!LoadedInTurn, Mic!SockOK, Mic!Sides,
     Mic!MicSteps, Mic!Sockets, Mic!Socks, Mic!SockSteps, Mic!TypeOK
<1>8. Mic!LoadedInTurn'
  BY SMTT(10), MicAssumption DEF Mic!End, Mic!Free, Mic!Allowed, Mic!Tries, Mic!Cleaned,
     Mic!Detached, Mic!leaseVars, Mic!dictVars, Mic!Without, Mic!Kinds, Mic!Idle, Mic!Served,
     Mic!MicInv, Mic!LoadedInTurn, Mic!HolderHasIt, Mic!MicOK, Mic!Sides, Mic!MicSteps,
     Mic!TypeOK
<1>9. Mic!CopyIsKept'
  BY SMTT(10), MicAssumption DEF Mic!End, Mic!Free, Mic!Allowed, Mic!Tries, Mic!Cleaned,
     Mic!Detached, Mic!leaseVars, Mic!dictVars, Mic!Without, Mic!Kinds, Mic!Idle, Mic!Served,
     Mic!MicInv, Mic!CopyIsKept, Mic!FileOK, Mic!DictOK, Mic!Copies, Mic!DictSteps, Mic!NoDict,
     Mic!TypeOK, Mic!Sides
<1>10. Mic!Unspoiled'
  BY SMTT(10), MicAssumption DEF Mic!End, Mic!Free, Mic!Allowed, Mic!Tries, Mic!Cleaned,
     Mic!Detached, Mic!leaseVars, Mic!dictVars, Mic!Without, Mic!Kinds, Mic!Idle, Mic!Served,
     Mic!MicInv, Mic!Unspoiled, Mic!CopyIsKept, Mic!FileOK, Mic!DictOK, Mic!NoDict, Mic!NoCopy,
     Mic!Copies, Mic!DictSteps, Mic!TypeOK, Mic!Sides
<1> QED BY <1>1, <1>2, <1>3, <1>4, <1>5, <1>6, <1>7, <1>8, <1>9, <1>10 DEF Mic!MicInv

LEMMA MicClose ==
  ASSUME Mic!MicInv, NEW c \in Mic!Sockets, Mic!Close(c)
  PROVE  Mic!MicInv'
<1>1. Mic!TypeOK'
  <2>1. CASE Mic!ItsOwn(c)
    BY MicAssumption, <2>1 DEF Mic!Close, Mic!leaseVars, Mic!dictVars, Mic!Tries, Mic!Cleaned,
       Mic!Served, Mic!Without, Mic!Detached, Mic!Idle, Mic!Kinds, Mic!Sides, Mic!Sockets,
       Mic!MicInv, Mic!TypeOK, Mic!SockOK, Mic!MicOK, Mic!MicSteps, Mic!Socks, Mic!SockSteps
  <2>2. CASE ~Mic!ItsOwn(c)
    BY MicAssumption, <2>2 DEF Mic!Close, Mic!leaseVars, Mic!dictVars, Mic!MicInv, Mic!TypeOK,
       Mic!SockOK, Mic!MicOK, Mic!Socks, Mic!SockSteps
  <2> QED BY <2>1, <2>2
<1>2. Mic!SockOK'
  <2>1. x2' = x2 /\ x4' = [x4 EXCEPT ![c].at = "gone"]
    BY DEF Mic!Close, Mic!leaseVars
  <2>2. c \notin Mic!Sockets \/ x4[c].at # "new"
    BY DEF Mic!Close, Mic!MicInv, Mic!ChanOpen
  <2>3. \A r \in Mic!Sides : x9'[r].chan \in {x9[r].chan, 0}
    <3>1. x4[c].side \in Mic!Sides
      BY DEF Mic!Close, Mic!MicInv, Mic!SockOK, Mic!Socks, Mic!SockSteps
    <3>2. CASE UNCHANGED x9
      BY <3>2
    <3>3. CASE \E m \in Mic!Tries(x4[c].side) : Mic!Cleaned(x4[c].side, m)
      BY <3>1, <3>3, MicCleaned
    <3> QED BY <3>2, <3>3 DEF Mic!Close
  <2> QED BY <2>1, <2>2, <2>3, MicSockMoves DEF Mic!SockSteps
<1>3. Mic!MicOK'
  BY SMTT(10), MicAssumption DEF Mic!Close, Mic!Free, Mic!ItsOwn, Mic!Tries, Mic!Cleaned,
     Mic!Detached, Mic!leaseVars, Mic!dictVars, Mic!Without, Mic!Kinds, Mic!Idle, Mic!Served,
     Mic!MicInv, Mic!MicOK, Mic!SockOK, Mic!Sides, Mic!MicSteps, Mic!Sockets, Mic!Socks,
     Mic!SockSteps, Mic!TypeOK
<1>4. Mic!ChanOpen'
  <2>1. x2' = x2 /\ x4' = [x4 EXCEPT ![c].at = "gone"]
    BY DEF Mic!Close, Mic!leaseVars
  <2>2. c \notin Mic!Sockets \/ x4[c].at # "new"
    BY DEF Mic!Close, Mic!MicInv, Mic!ChanOpen
  <2>3. \A r \in Mic!Sides : x9'[r].chan \in {x9[r].chan, 0}
    <3>1. x4[c].side \in Mic!Sides
      BY DEF Mic!Close, Mic!MicInv, Mic!SockOK, Mic!Socks, Mic!SockSteps
    <3>2. CASE UNCHANGED x9
      BY <3>2
    <3>3. CASE \E m \in Mic!Tries(x4[c].side) : Mic!Cleaned(x4[c].side, m)
      BY <3>1, <3>3, MicCleaned
    <3> QED BY <3>2, <3>3 DEF Mic!Close
  <2> QED BY <2>1, <2>2, <2>3, MicSockMoves DEF Mic!SockSteps
<1>5. Mic!DictOK'
  BY SMTT(10), MicAssumption DEF Mic!Close, Mic!Free, Mic!ItsOwn, Mic!Tries, Mic!Cleaned,
     Mic!Detached, Mic!leaseVars, Mic!dictVars, Mic!Without, Mic!Kinds, Mic!Idle, Mic!Served,
     Mic!MicInv, Mic!DictOK, Mic!DictSteps, Mic!NoDict, Mic!TypeOK, Mic!Sides
<1>6. Mic!FileOK'
  BY SMTT(10), MicAssumption DEF Mic!Close, Mic!Free, Mic!ItsOwn, Mic!Tries, Mic!Cleaned,
     Mic!Detached, Mic!leaseVars, Mic!dictVars, Mic!Without, Mic!Kinds, Mic!Idle, Mic!Served,
     Mic!MicInv, Mic!FileOK, Mic!Copies, Mic!TypeOK, Mic!Sides
<1>7. Mic!HolderHasIt'
  BY SMTT(10), MicAssumption DEF Mic!Close, Mic!Free, Mic!ItsOwn, Mic!Tries, Mic!Cleaned,
     Mic!Detached, Mic!leaseVars, Mic!dictVars, Mic!Without, Mic!Kinds, Mic!Idle, Mic!Served,
     Mic!MicInv, Mic!HolderHasIt, Mic!MicOK, Mic!LoadedInTurn, Mic!SockOK, Mic!Sides,
     Mic!MicSteps, Mic!Sockets, Mic!Socks, Mic!SockSteps, Mic!TypeOK
<1>8. Mic!LoadedInTurn'
  BY SMTT(10), MicAssumption DEF Mic!Close, Mic!Free, Mic!ItsOwn, Mic!Tries, Mic!Cleaned,
     Mic!Detached, Mic!leaseVars, Mic!dictVars, Mic!Without, Mic!Kinds, Mic!Idle, Mic!Served,
     Mic!MicInv, Mic!LoadedInTurn, Mic!HolderHasIt, Mic!MicOK, Mic!Sides, Mic!MicSteps,
     Mic!TypeOK
<1>9. Mic!CopyIsKept'
  BY SMTT(10), MicAssumption DEF Mic!Close, Mic!Free, Mic!ItsOwn, Mic!Tries, Mic!Cleaned,
     Mic!Detached, Mic!leaseVars, Mic!dictVars, Mic!Without, Mic!Kinds, Mic!Idle, Mic!Served,
     Mic!MicInv, Mic!CopyIsKept, Mic!FileOK, Mic!DictOK, Mic!Copies, Mic!DictSteps, Mic!NoDict,
     Mic!TypeOK, Mic!Sides
<1>10. Mic!Unspoiled'
  BY SMTT(10), MicAssumption DEF Mic!Close, Mic!Free, Mic!ItsOwn, Mic!Tries, Mic!Cleaned,
     Mic!Detached, Mic!leaseVars, Mic!dictVars, Mic!Without, Mic!Kinds, Mic!Idle, Mic!Served,
     Mic!MicInv, Mic!Unspoiled, Mic!CopyIsKept, Mic!FileOK, Mic!DictOK, Mic!NoDict, Mic!NoCopy,
     Mic!Copies, Mic!DictSteps, Mic!TypeOK, Mic!Sides
<1> QED BY <1>1, <1>2, <1>3, <1>4, <1>5, <1>6, <1>7, <1>8, <1>9, <1>10 DEF Mic!MicInv

LEMMA MicOpen ==
  ASSUME Mic!MicInv, NEW c \in Mic!Sockets, NEW s \in Mic!Sides, Mic!Open(c, s)
  PROVE  Mic!MicInv'
  BY SMTT(10), MicAssumption DEF Mic!Open, Mic!leaseVars, Mic!dictVars, Mic!MicInv, Mic!TypeOK,
     Mic!SockOK, Mic!MicOK, Mic!ChanOpen, Mic!DictOK, Mic!FileOK, Mic!HolderHasIt,
     Mic!LoadedInTurn, Mic!CopyIsKept, Mic!Unspoiled, Mic!Sides, Mic!Kinds, Mic!Sockets,
     Mic!Socks, Mic!MicSteps, Mic!DictSteps, Mic!NoDict, Mic!Copies, Mic!Idle, Mic!NoCopy,
     Mic!SockSteps

LEMMA MicMaintain ==
  ASSUME Mic!MicInv, Mic!Maintain
  PROVE  Mic!MicInv'
  BY SMTT(10), MicAssumption DEF Mic!Maintain, Mic!Tries, Mic!Cleaned, Mic!Detached,
     Mic!leaseVars, Mic!dictVars, Mic!Without, Mic!Kinds, Mic!Idle, Mic!Served, Mic!MicInv,
     Mic!TypeOK, Mic!SockOK, Mic!MicOK, Mic!ChanOpen, Mic!DictOK, Mic!FileOK, Mic!HolderHasIt,
     Mic!LoadedInTurn, Mic!CopyIsKept, Mic!Unspoiled, Mic!Sides, Mic!Sockets, Mic!Socks,
     Mic!MicSteps, Mic!DictSteps, Mic!NoDict, Mic!Copies, Mic!NoCopy, Mic!SockSteps

LEMMA MicPrune ==
  ASSUME Mic!MicInv, Mic!Prune
  PROVE  Mic!MicInv'
  BY SMTT(10), MicAssumption DEF Mic!Prune, Mic!Idle, Mic!leaseVars, Mic!dictVars, Mic!MicInv,
     Mic!TypeOK, Mic!SockOK, Mic!MicOK, Mic!ChanOpen, Mic!DictOK, Mic!FileOK, Mic!HolderHasIt,
     Mic!LoadedInTurn, Mic!CopyIsKept, Mic!Unspoiled, Mic!Sides, Mic!Kinds, Mic!Sockets,
     Mic!Socks, Mic!MicSteps, Mic!DictSteps, Mic!NoDict, Mic!Copies, Mic!NoCopy, Mic!SockSteps

LEMMA MicDictationStart ==
  ASSUME Mic!MicInv, Mic!DictationStart
  PROVE  Mic!MicInv'
<1>1. Mic!TypeOK'
  BY SMTT(10), MicAssumption DEF Mic!DictationStart, Mic!Free, Mic!NoDict, Mic!Unsaved,
     Mic!leaseVars, Mic!chanVars, Mic!NoCopy, Mic!MicInv, Mic!TypeOK, Mic!SockOK, Mic!MicOK,
     Mic!DictOK, Mic!Sides, Mic!Kinds, Mic!Sockets, Mic!Socks, Mic!MicSteps, Mic!DictSteps,
     Mic!SockSteps
<1>2. Mic!SockOK'
  BY SMTT(10), MicAssumption DEF Mic!DictationStart, Mic!Free, Mic!NoDict, Mic!Unsaved,
     Mic!leaseVars, Mic!chanVars, Mic!NoCopy, Mic!MicInv, Mic!SockOK, Mic!MicOK, Mic!ChanOpen,
     Mic!Sockets, Mic!Socks, Mic!Sides, Mic!MicSteps, Mic!SockSteps, Mic!TypeOK, Mic!Kinds
<1>3. Mic!MicOK'
  BY SMTT(10), MicAssumption DEF Mic!DictationStart, Mic!Free, Mic!NoDict, Mic!Unsaved,
     Mic!leaseVars, Mic!chanVars, Mic!NoCopy, Mic!MicInv, Mic!MicOK, Mic!SockOK, Mic!Sides,
     Mic!MicSteps, Mic!Sockets, Mic!Socks, Mic!SockSteps, Mic!TypeOK, Mic!Kinds
<1>4. Mic!ChanOpen'
  BY SMTT(10), MicAssumption DEF Mic!DictationStart, Mic!Free, Mic!NoDict, Mic!Unsaved,
     Mic!leaseVars, Mic!chanVars, Mic!NoCopy, Mic!MicInv, Mic!ChanOpen, Mic!SockOK, Mic!MicOK,
     Mic!Sides, Mic!Sockets, Mic!Socks, Mic!MicSteps, Mic!SockSteps, Mic!TypeOK, Mic!Kinds
<1>5. Mic!DictOK'
  <2> DEFINE r == [Mic!NoDict EXCEPT !.at = "saved"]
             saved == [Mic!NoDict EXCEPT !.at = "saved", !.route = "config"]
  <2>1. r \in [at : {"saved"}, route : {"none"}, prev : {"none"}]
    BY DEF Mic!NoDict
  <2>2. [r EXCEPT !.route = "config"] \in [at : {"saved"}, route : {"config"}, prev : {"none"}]
    <3> HIDE DEF r
    <3> QED BY <2>1
  <2>3. saved \in [at : {"saved"}, route : {"config"}, prev : {"none"}]
    BY <2>2
  <2>4. /\ x11 = Mic!NoDict
        /\ \/ Mic!Unsaved /\ x15' = x14 /\ x11' = saved
           \/ /\ x15' = x15
              /\ \E prev \in {x16, "unknown"} : x11' = [at |-> "set", route |-> "source", prev |-> prev]
        /\ UNCHANGED <<x12, x13, x14, x16, x17>>
    BY DEF Mic!DictationStart
  <2> HIDE DEF saved
  <2> QED BY <2>3, <2>4, MicAssumption DEF Mic!MicInv, Mic!DictOK, Mic!TypeOK, Mic!DictSteps
<1>6. Mic!FileOK'
  BY SMTT(10), MicAssumption DEF Mic!DictationStart, Mic!Free, Mic!NoDict, Mic!Unsaved,
     Mic!leaseVars, Mic!chanVars, Mic!NoCopy, Mic!MicInv, Mic!FileOK, Mic!Copies, Mic!TypeOK,
     Mic!Sides, Mic!Kinds
<1>7. Mic!HolderHasIt'
  BY SMTT(10), MicAssumption DEF Mic!DictationStart, Mic!Free, Mic!NoDict, Mic!Unsaved,
     Mic!leaseVars, Mic!chanVars, Mic!NoCopy, Mic!MicInv, Mic!HolderHasIt, Mic!MicOK,
     Mic!LoadedInTurn, Mic!SockOK, Mic!Sides, Mic!Idle, Mic!MicSteps, Mic!Kinds, Mic!Sockets,
     Mic!Socks, Mic!SockSteps, Mic!TypeOK
<1>8. Mic!LoadedInTurn'
  BY SMTT(10), MicAssumption DEF Mic!DictationStart, Mic!Free, Mic!NoDict, Mic!Unsaved,
     Mic!leaseVars, Mic!chanVars, Mic!NoCopy, Mic!MicInv, Mic!LoadedInTurn, Mic!HolderHasIt,
     Mic!MicOK, Mic!Sides, Mic!Kinds, Mic!Idle, Mic!MicSteps, Mic!TypeOK
<1>9. Mic!CopyIsKept'
  <2> DEFINE r == [Mic!NoDict EXCEPT !.at = "saved"]
             saved == [Mic!NoDict EXCEPT !.at = "saved", !.route = "config"]
  <2>1. r \in [at : {"saved"}, route : {"none"}, prev : {"none"}]
    BY DEF Mic!NoDict
  <2>2. [r EXCEPT !.route = "config"] \in [at : {"saved"}, route : {"config"}, prev : {"none"}]
    <3> HIDE DEF r
    <3> QED BY <2>1
  <2>3. saved \in [at : {"saved"}, route : {"config"}, prev : {"none"}]
    BY <2>2
  <2>4. /\ x11 = Mic!NoDict
        /\ \/ Mic!Unsaved /\ x15' = x14 /\ x11' = saved
           \/ /\ x15' = x15
              /\ \E prev \in {x16, "unknown"} : x11' = [at |-> "set", route |-> "source", prev |-> prev]
        /\ UNCHANGED <<x12, x13, x14, x16, x17>>
    BY DEF Mic!DictationStart
  <2> HIDE DEF saved
  <2> QED BY <2>3, <2>4, MicAssumption DEF Mic!MicInv, Mic!CopyIsKept, Mic!FileOK, Mic!Unsaved,
     Mic!NoCopy, Mic!Copies, Mic!TypeOK
<1>10. Mic!Unspoiled'
  <2> DEFINE r == [Mic!NoDict EXCEPT !.at = "saved"]
             saved == [Mic!NoDict EXCEPT !.at = "saved", !.route = "config"]
  <2>1. r \in [at : {"saved"}, route : {"none"}, prev : {"none"}]
    BY DEF Mic!NoDict
  <2>2. [r EXCEPT !.route = "config"] \in [at : {"saved"}, route : {"config"}, prev : {"none"}]
    <3> HIDE DEF r
    <3> QED BY <2>1
  <2>3. saved \in [at : {"saved"}, route : {"config"}, prev : {"none"}]
    BY <2>2
  <2>4. /\ x11 = Mic!NoDict
        /\ \/ Mic!Unsaved /\ x15' = x14 /\ x11' = saved
           \/ /\ x15' = x15
              /\ \E prev \in {x16, "unknown"} : x11' = [at |-> "set", route |-> "source", prev |-> prev]
        /\ UNCHANGED <<x12, x13, x14, x16, x17>>
    BY DEF Mic!DictationStart
  <2> HIDE DEF saved
  <2> QED BY <2>3, <2>4, MicAssumption DEF Mic!MicInv, Mic!Unspoiled, Mic!Unsaved, Mic!NoCopy,
     Mic!NoDict
<1> QED BY <1>1, <1>2, <1>3, <1>4, <1>5, <1>6, <1>7, <1>8, <1>9, <1>10 DEF Mic!MicInv

LEMMA MicPointAt ==
  ASSUME Mic!MicInv, Mic!PointAt
  PROVE  Mic!MicInv'
<1>1. Mic!TypeOK'
  <2>1. x17' \in BOOLEAN
    BY DEF Mic!PointAt, Mic!MicInv, Mic!TypeOK
  <2> QED BY <2>1, MicAssumption DEF Mic!MicInv, Mic!TypeOK, Mic!PointAt, Mic!leaseVars,
     Mic!chanVars
<1>2. Mic!SockOK'
  BY SMTT(10), MicAssumption DEF Mic!PointAt, Mic!NoDict, Mic!leaseVars, Mic!chanVars,
     Mic!MicInv, Mic!SockOK, Mic!MicOK, Mic!ChanOpen, Mic!Sockets, Mic!Socks, Mic!Sides,
     Mic!MicSteps, Mic!SockSteps, Mic!TypeOK, Mic!Kinds
<1>3. Mic!MicOK'
  BY SMTT(10), MicAssumption DEF Mic!PointAt, Mic!NoDict, Mic!leaseVars, Mic!chanVars,
     Mic!MicInv, Mic!MicOK, Mic!SockOK, Mic!Sides, Mic!MicSteps, Mic!Sockets, Mic!Socks,
     Mic!SockSteps, Mic!TypeOK, Mic!Kinds
<1>4. Mic!ChanOpen'
  BY SMTT(10), MicAssumption DEF Mic!PointAt, Mic!NoDict, Mic!leaseVars, Mic!chanVars,
     Mic!MicInv, Mic!ChanOpen, Mic!SockOK, Mic!MicOK, Mic!Sides, Mic!Sockets, Mic!Socks,
     Mic!MicSteps, Mic!SockSteps, Mic!TypeOK, Mic!Kinds
<1>5. Mic!DictOK'
  BY SMTT(10), MicAssumption DEF Mic!PointAt, Mic!NoDict, Mic!leaseVars, Mic!chanVars,
     Mic!MicInv, Mic!DictOK, Mic!DictSteps, Mic!TypeOK, Mic!Sides, Mic!Kinds
<1>6. Mic!FileOK'
  <2>1. [x14 EXCEPT !.ours = TRUE] \in Mic!Copies
    BY DEF Mic!MicInv, Mic!FileOK, Mic!Copies
  <2> QED BY <2>1 DEF Mic!PointAt, Mic!MicInv, Mic!FileOK
<1>7. Mic!HolderHasIt'
  BY SMTT(10), MicAssumption DEF Mic!PointAt, Mic!NoDict, Mic!leaseVars, Mic!chanVars,
     Mic!MicInv, Mic!HolderHasIt, Mic!MicOK, Mic!LoadedInTurn, Mic!SockOK, Mic!Sides, Mic!Idle,
     Mic!MicSteps, Mic!Kinds, Mic!Sockets, Mic!Socks, Mic!SockSteps, Mic!TypeOK
<1>8. Mic!LoadedInTurn'
  BY SMTT(10), MicAssumption DEF Mic!PointAt, Mic!NoDict, Mic!leaseVars, Mic!chanVars,
     Mic!MicInv, Mic!LoadedInTurn, Mic!HolderHasIt, Mic!MicOK, Mic!Sides, Mic!Kinds, Mic!Idle,
     Mic!MicSteps, Mic!TypeOK
<1>9. Mic!CopyIsKept'
  BY SMTT(10), MicAssumption DEF Mic!PointAt, Mic!NoDict, Mic!leaseVars, Mic!chanVars,
     Mic!MicInv, Mic!CopyIsKept, Mic!FileOK, Mic!DictOK, Mic!Copies, Mic!DictSteps, Mic!TypeOK,
     Mic!Sides, Mic!Kinds
<1>10. Mic!Unspoiled'
  BY SMTT(10), MicAssumption DEF Mic!PointAt, Mic!NoDict, Mic!leaseVars, Mic!chanVars,
     Mic!MicInv, Mic!Unspoiled, Mic!CopyIsKept, Mic!FileOK, Mic!DictOK, Mic!NoCopy, Mic!Copies,
     Mic!DictSteps, Mic!TypeOK, Mic!Sides, Mic!Kinds
<1> QED BY <1>1, <1>2, <1>3, <1>4, <1>5, <1>6, <1>7, <1>8, <1>9, <1>10 DEF Mic!MicInv

LEMMA MicSetDefault ==
  ASSUME Mic!MicInv, Mic!SetDefault
  PROVE  Mic!MicInv'
<1>1. Mic!TypeOK'
  BY SMTT(10), MicAssumption DEF Mic!SetDefault, Mic!leaseVars, Mic!chanVars, Mic!MicInv,
     Mic!TypeOK, Mic!SockOK, Mic!MicOK, Mic!DictOK, Mic!Sides, Mic!Kinds, Mic!Sockets,
     Mic!Socks, Mic!MicSteps, Mic!DictSteps, Mic!NoDict, Mic!SockSteps
<1>2. Mic!SockOK'
  BY SMTT(10), MicAssumption DEF Mic!SetDefault, Mic!leaseVars, Mic!chanVars, Mic!MicInv,
     Mic!SockOK, Mic!MicOK, Mic!ChanOpen, Mic!Sockets, Mic!Socks, Mic!Sides, Mic!MicSteps,
     Mic!SockSteps, Mic!TypeOK, Mic!Kinds
<1>3. Mic!MicOK'
  BY SMTT(10), MicAssumption DEF Mic!SetDefault, Mic!leaseVars, Mic!chanVars, Mic!MicInv,
     Mic!MicOK, Mic!SockOK, Mic!Sides, Mic!MicSteps, Mic!Sockets, Mic!Socks, Mic!SockSteps,
     Mic!TypeOK, Mic!Kinds
<1>4. Mic!ChanOpen'
  BY SMTT(10), MicAssumption DEF Mic!SetDefault, Mic!leaseVars, Mic!chanVars, Mic!MicInv,
     Mic!ChanOpen, Mic!SockOK, Mic!MicOK, Mic!Sides, Mic!Sockets, Mic!Socks, Mic!MicSteps,
     Mic!SockSteps, Mic!TypeOK, Mic!Kinds
<1>5. Mic!DictOK'
  BY SMTT(10), MicAssumption DEF Mic!SetDefault, Mic!leaseVars, Mic!chanVars, Mic!MicInv,
     Mic!DictOK, Mic!DictSteps, Mic!NoDict, Mic!TypeOK, Mic!Sides, Mic!Kinds
<1>6. Mic!FileOK'
  BY SMTT(10), MicAssumption DEF Mic!SetDefault, Mic!leaseVars, Mic!chanVars, Mic!MicInv,
     Mic!FileOK, Mic!Copies, Mic!TypeOK, Mic!Sides, Mic!Kinds
<1>7. Mic!HolderHasIt'
  BY SMTT(10), MicAssumption DEF Mic!SetDefault, Mic!leaseVars, Mic!chanVars, Mic!MicInv,
     Mic!HolderHasIt, Mic!MicOK, Mic!LoadedInTurn, Mic!SockOK, Mic!Sides, Mic!Idle,
     Mic!MicSteps, Mic!Kinds, Mic!Sockets, Mic!Socks, Mic!SockSteps, Mic!TypeOK
<1>8. Mic!LoadedInTurn'
  BY SMTT(10), MicAssumption DEF Mic!SetDefault, Mic!leaseVars, Mic!chanVars, Mic!MicInv,
     Mic!LoadedInTurn, Mic!HolderHasIt, Mic!MicOK, Mic!Sides, Mic!Kinds, Mic!Idle, Mic!MicSteps,
     Mic!TypeOK
<1>9. Mic!CopyIsKept'
  BY SMTT(10), MicAssumption DEF Mic!SetDefault, Mic!leaseVars, Mic!chanVars, Mic!MicInv,
     Mic!CopyIsKept, Mic!FileOK, Mic!DictOK, Mic!Copies, Mic!DictSteps, Mic!NoDict, Mic!TypeOK,
     Mic!Sides, Mic!Kinds
<1>10. Mic!Unspoiled'
  BY SMTT(10), MicAssumption DEF Mic!SetDefault, Mic!leaseVars, Mic!chanVars, Mic!MicInv,
     Mic!Unspoiled, Mic!CopyIsKept, Mic!FileOK, Mic!DictOK, Mic!NoDict, Mic!NoCopy, Mic!Copies,
     Mic!DictSteps, Mic!TypeOK, Mic!Sides, Mic!Kinds
<1> QED BY <1>1, <1>2, <1>3, <1>4, <1>5, <1>6, <1>7, <1>8, <1>9, <1>10 DEF Mic!MicInv

LEMMA MicRecording ==
  ASSUME Mic!MicInv, Mic!Recording
  PROVE  Mic!MicInv'
<1>1. Mic!TypeOK'
  BY SMTT(10), MicAssumption DEF Mic!Recording, Mic!leaseVars, Mic!chanVars, Mic!MicInv,
     Mic!TypeOK, Mic!SockOK, Mic!MicOK, Mic!DictOK, Mic!Sides, Mic!Kinds, Mic!Sockets,
     Mic!Socks, Mic!MicSteps, Mic!DictSteps, Mic!NoDict, Mic!SockSteps
<1>2. Mic!SockOK'
  BY SMTT(10), MicAssumption DEF Mic!Recording, Mic!leaseVars, Mic!chanVars, Mic!MicInv,
     Mic!SockOK, Mic!MicOK, Mic!ChanOpen, Mic!Sockets, Mic!Socks, Mic!Sides, Mic!MicSteps,
     Mic!SockSteps, Mic!TypeOK, Mic!Kinds
<1>3. Mic!MicOK'
  BY SMTT(10), MicAssumption DEF Mic!Recording, Mic!leaseVars, Mic!chanVars, Mic!MicInv,
     Mic!MicOK, Mic!SockOK, Mic!Sides, Mic!MicSteps, Mic!Sockets, Mic!Socks, Mic!SockSteps,
     Mic!TypeOK, Mic!Kinds
<1>4. Mic!ChanOpen'
  BY SMTT(10), MicAssumption DEF Mic!Recording, Mic!leaseVars, Mic!chanVars, Mic!MicInv,
     Mic!ChanOpen, Mic!SockOK, Mic!MicOK, Mic!Sides, Mic!Sockets, Mic!Socks, Mic!MicSteps,
     Mic!SockSteps, Mic!TypeOK, Mic!Kinds
<1>5. Mic!DictOK'
  BY SMTT(10), MicAssumption DEF Mic!Recording, Mic!leaseVars, Mic!chanVars, Mic!MicInv,
     Mic!DictOK, Mic!DictSteps, Mic!NoDict, Mic!TypeOK, Mic!Sides, Mic!Kinds
<1>6. Mic!FileOK'
  BY SMTT(10), MicAssumption DEF Mic!Recording, Mic!leaseVars, Mic!chanVars, Mic!MicInv,
     Mic!FileOK, Mic!Copies, Mic!TypeOK, Mic!Sides, Mic!Kinds
<1>7. Mic!HolderHasIt'
  BY SMTT(10), MicAssumption DEF Mic!Recording, Mic!leaseVars, Mic!chanVars, Mic!MicInv,
     Mic!HolderHasIt, Mic!MicOK, Mic!LoadedInTurn, Mic!SockOK, Mic!Sides, Mic!Idle,
     Mic!MicSteps, Mic!Kinds, Mic!Sockets, Mic!Socks, Mic!SockSteps, Mic!TypeOK
<1>8. Mic!LoadedInTurn'
  BY SMTT(10), MicAssumption DEF Mic!Recording, Mic!leaseVars, Mic!chanVars, Mic!MicInv,
     Mic!LoadedInTurn, Mic!HolderHasIt, Mic!MicOK, Mic!Sides, Mic!Kinds, Mic!Idle, Mic!MicSteps,
     Mic!TypeOK
<1>9. Mic!CopyIsKept'
  BY SMTT(10), MicAssumption DEF Mic!Recording, Mic!leaseVars, Mic!chanVars, Mic!MicInv,
     Mic!CopyIsKept, Mic!FileOK, Mic!DictOK, Mic!Copies, Mic!DictSteps, Mic!NoDict, Mic!TypeOK,
     Mic!Sides, Mic!Kinds
<1>10. Mic!Unspoiled'
  BY SMTT(10), MicAssumption DEF Mic!Recording, Mic!leaseVars, Mic!chanVars, Mic!MicInv,
     Mic!Unspoiled, Mic!CopyIsKept, Mic!FileOK, Mic!DictOK, Mic!NoDict, Mic!NoCopy, Mic!Copies,
     Mic!DictSteps, Mic!TypeOK, Mic!Sides, Mic!Kinds
<1> QED BY <1>1, <1>2, <1>3, <1>4, <1>5, <1>6, <1>7, <1>8, <1>9, <1>10 DEF Mic!MicInv

LEMMA MicDictationStop ==
  ASSUME Mic!MicInv, Mic!DictationStop
  PROVE  Mic!MicInv'
<1>1. Mic!TypeOK'
  BY SMTT(10), MicAssumption DEF Mic!DictationStop, Mic!Free, Mic!leaseVars, Mic!chanVars,
     Mic!MicInv, Mic!TypeOK, Mic!SockOK, Mic!MicOK, Mic!DictOK, Mic!Sides, Mic!Kinds,
     Mic!Sockets, Mic!Socks, Mic!MicSteps, Mic!DictSteps, Mic!NoDict, Mic!SockSteps
<1>2. Mic!SockOK'
  BY SMTT(10), MicAssumption DEF Mic!DictationStop, Mic!Free, Mic!leaseVars, Mic!chanVars,
     Mic!MicInv, Mic!SockOK, Mic!MicOK, Mic!ChanOpen, Mic!Sockets, Mic!Socks, Mic!Sides,
     Mic!MicSteps, Mic!SockSteps, Mic!TypeOK, Mic!Kinds
<1>3. Mic!MicOK'
  BY SMTT(10), MicAssumption DEF Mic!DictationStop, Mic!Free, Mic!leaseVars, Mic!chanVars,
     Mic!MicInv, Mic!MicOK, Mic!SockOK, Mic!Sides, Mic!MicSteps, Mic!Sockets, Mic!Socks,
     Mic!SockSteps, Mic!TypeOK, Mic!Kinds
<1>4. Mic!ChanOpen'
  BY SMTT(10), MicAssumption DEF Mic!DictationStop, Mic!Free, Mic!leaseVars, Mic!chanVars,
     Mic!MicInv, Mic!ChanOpen, Mic!SockOK, Mic!MicOK, Mic!Sides, Mic!Sockets, Mic!Socks,
     Mic!MicSteps, Mic!SockSteps, Mic!TypeOK, Mic!Kinds
<1>5. Mic!DictOK'
  BY SMTT(10), MicAssumption DEF Mic!DictationStop, Mic!Free, Mic!leaseVars, Mic!chanVars,
     Mic!MicInv, Mic!DictOK, Mic!DictSteps, Mic!NoDict, Mic!TypeOK, Mic!Sides, Mic!Kinds
<1>6. Mic!FileOK'
  BY SMTT(10), MicAssumption DEF Mic!DictationStop, Mic!Free, Mic!leaseVars, Mic!chanVars,
     Mic!MicInv, Mic!FileOK, Mic!Copies, Mic!TypeOK, Mic!Sides, Mic!Kinds
<1>7. Mic!HolderHasIt'
  BY SMTT(10), MicAssumption DEF Mic!DictationStop, Mic!Free, Mic!leaseVars, Mic!chanVars,
     Mic!MicInv, Mic!HolderHasIt, Mic!MicOK, Mic!LoadedInTurn, Mic!SockOK, Mic!Sides, Mic!Idle,
     Mic!MicSteps, Mic!Kinds, Mic!Sockets, Mic!Socks, Mic!SockSteps, Mic!TypeOK
<1>8. Mic!LoadedInTurn'
  BY SMTT(10), MicAssumption DEF Mic!DictationStop, Mic!Free, Mic!leaseVars, Mic!chanVars,
     Mic!MicInv, Mic!LoadedInTurn, Mic!HolderHasIt, Mic!MicOK, Mic!Sides, Mic!Kinds, Mic!Idle,
     Mic!MicSteps, Mic!TypeOK
<1>9. Mic!CopyIsKept'
  BY SMTT(10), MicAssumption DEF Mic!DictationStop, Mic!Free, Mic!leaseVars, Mic!chanVars,
     Mic!MicInv, Mic!CopyIsKept, Mic!FileOK, Mic!DictOK, Mic!Copies, Mic!DictSteps, Mic!NoDict,
     Mic!TypeOK, Mic!Sides, Mic!Kinds
<1>10. Mic!Unspoiled'
  BY SMTT(10), MicAssumption DEF Mic!DictationStop, Mic!Free, Mic!leaseVars, Mic!chanVars,
     Mic!MicInv, Mic!Unspoiled, Mic!CopyIsKept, Mic!FileOK, Mic!DictOK, Mic!NoDict, Mic!NoCopy,
     Mic!Copies, Mic!DictSteps, Mic!TypeOK, Mic!Sides, Mic!Kinds
<1> QED BY <1>1, <1>2, <1>3, <1>4, <1>5, <1>6, <1>7, <1>8, <1>9, <1>10 DEF Mic!MicInv

LEMMA MicRestoreConfig ==
  ASSUME Mic!MicInv, Mic!RestoreConfig
  PROVE  Mic!MicInv'
<1>1. Mic!TypeOK'
  <2>1. x17' \in BOOLEAN
    BY DEF Mic!RestoreConfig, Mic!MicInv, Mic!TypeOK
  <2> QED BY <2>1, MicAssumption DEF Mic!MicInv, Mic!TypeOK, Mic!RestoreConfig, Mic!leaseVars,
     Mic!chanVars
<1>2. Mic!SockOK'
  BY SMTT(10), MicAssumption DEF Mic!RestoreConfig, Mic!NoDict, Mic!leaseVars, Mic!chanVars,
     Mic!MicInv, Mic!SockOK, Mic!MicOK, Mic!ChanOpen, Mic!Sockets, Mic!Socks, Mic!Sides,
     Mic!MicSteps, Mic!SockSteps, Mic!TypeOK, Mic!Kinds
<1>3. Mic!MicOK'
  BY SMTT(10), MicAssumption DEF Mic!RestoreConfig, Mic!NoDict, Mic!leaseVars, Mic!chanVars,
     Mic!MicInv, Mic!MicOK, Mic!SockOK, Mic!Sides, Mic!MicSteps, Mic!Sockets, Mic!Socks,
     Mic!SockSteps, Mic!TypeOK, Mic!Kinds
<1>4. Mic!ChanOpen'
  BY SMTT(10), MicAssumption DEF Mic!RestoreConfig, Mic!NoDict, Mic!leaseVars, Mic!chanVars,
     Mic!MicInv, Mic!ChanOpen, Mic!SockOK, Mic!MicOK, Mic!Sides, Mic!Sockets, Mic!Socks,
     Mic!MicSteps, Mic!SockSteps, Mic!TypeOK, Mic!Kinds
<1>5. Mic!DictOK'
  BY SMTT(10), MicAssumption DEF Mic!RestoreConfig, Mic!NoDict, Mic!leaseVars, Mic!chanVars,
     Mic!MicInv, Mic!DictOK, Mic!DictSteps, Mic!TypeOK, Mic!Sides, Mic!Kinds
<1>6. Mic!FileOK'
  BY SMTT(10), MicAssumption DEF Mic!RestoreConfig, Mic!NoDict, Mic!leaseVars, Mic!chanVars,
     Mic!MicInv, Mic!FileOK, Mic!Copies, Mic!TypeOK, Mic!Sides, Mic!Kinds
<1>7. Mic!HolderHasIt'
  BY SMTT(10), MicAssumption DEF Mic!RestoreConfig, Mic!NoDict, Mic!leaseVars, Mic!chanVars,
     Mic!MicInv, Mic!HolderHasIt, Mic!MicOK, Mic!LoadedInTurn, Mic!SockOK, Mic!Sides, Mic!Idle,
     Mic!MicSteps, Mic!Kinds, Mic!Sockets, Mic!Socks, Mic!SockSteps, Mic!TypeOK
<1>8. Mic!LoadedInTurn'
  BY SMTT(10), MicAssumption DEF Mic!RestoreConfig, Mic!NoDict, Mic!leaseVars, Mic!chanVars,
     Mic!MicInv, Mic!LoadedInTurn, Mic!HolderHasIt, Mic!MicOK, Mic!Sides, Mic!Kinds, Mic!Idle,
     Mic!MicSteps, Mic!TypeOK
<1>9. Mic!CopyIsKept'
  <2>1. x11.at = "restore" /\ x11.route = "config" /\ UNCHANGED <<x12, x13, x15>>
    BY DEF Mic!RestoreConfig
  <2>2. x15.edit >= x13 /\ x15.ours = FALSE
    BY <2>1 DEF Mic!MicInv, Mic!CopyIsKept, Mic!FileOK, Mic!Copies
  <2>3. CASE x14' = x15 /\ x11' = [x11 EXCEPT !.at = "unlink"]
    BY <2>1, <2>2, <2>3 DEF Mic!MicInv, Mic!CopyIsKept, Mic!FileOK, Mic!Copies, Mic!DictOK
  <2>4. CASE x14' = x14 /\ x11' = Mic!NoDict
    BY <2>1, <2>2, <2>4 DEF Mic!MicInv, Mic!CopyIsKept, Mic!FileOK, Mic!Copies, Mic!NoDict
  <2> QED BY <2>3, <2>4 DEF Mic!RestoreConfig
<1>10. Mic!Unspoiled'
  BY SMTT(10), MicAssumption DEF Mic!RestoreConfig, Mic!NoDict, Mic!leaseVars, Mic!chanVars,
     Mic!MicInv, Mic!Unspoiled, Mic!CopyIsKept, Mic!FileOK, Mic!DictOK, Mic!NoCopy, Mic!Copies,
     Mic!DictSteps, Mic!TypeOK, Mic!Sides, Mic!Kinds
<1> QED BY <1>1, <1>2, <1>3, <1>4, <1>5, <1>6, <1>7, <1>8, <1>9, <1>10 DEF Mic!MicInv

LEMMA MicUnlink ==
  ASSUME Mic!MicInv, Mic!Unlink
  PROVE  Mic!MicInv'
  BY SMTT(10), MicAssumption DEF Mic!Unlink, Mic!NoCopy, Mic!NoDict, Mic!leaseVars,
     Mic!chanVars, Mic!MicInv, Mic!TypeOK, Mic!SockOK, Mic!MicOK, Mic!ChanOpen, Mic!DictOK,
     Mic!FileOK, Mic!HolderHasIt, Mic!LoadedInTurn, Mic!CopyIsKept, Mic!Unspoiled, Mic!Sides,
     Mic!Kinds, Mic!Sockets, Mic!Socks, Mic!MicSteps, Mic!DictSteps, Mic!Copies, Mic!Idle,
     Mic!SockSteps

LEMMA MicRestoreDefault ==
  ASSUME Mic!MicInv, Mic!RestoreDefault
  PROVE  Mic!MicInv'
<1>1. Mic!TypeOK'
  <2>1. x17' \in BOOLEAN
    BY DEF Mic!RestoreDefault, Mic!MicInv, Mic!TypeOK
  <2>2. x16' \in {"own", "mic", "other"}
    BY DEF Mic!RestoreDefault, Mic!MicInv, Mic!TypeOK, Mic!DictOK
  <2> QED BY <2>1, <2>2, MicAssumption DEF Mic!MicInv, Mic!TypeOK, Mic!RestoreDefault,
     Mic!leaseVars, Mic!chanVars
<1>2. Mic!SockOK'
  BY SMTT(10), MicAssumption DEF Mic!RestoreDefault, Mic!NoDict, Mic!leaseVars, Mic!chanVars,
     Mic!MicInv, Mic!SockOK, Mic!MicOK, Mic!ChanOpen, Mic!Sockets, Mic!Socks, Mic!Sides,
     Mic!MicSteps, Mic!SockSteps, Mic!TypeOK, Mic!Kinds
<1>3. Mic!MicOK'
  BY SMTT(10), MicAssumption DEF Mic!RestoreDefault, Mic!NoDict, Mic!leaseVars, Mic!chanVars,
     Mic!MicInv, Mic!MicOK, Mic!SockOK, Mic!Sides, Mic!MicSteps, Mic!Sockets, Mic!Socks,
     Mic!SockSteps, Mic!TypeOK, Mic!Kinds
<1>4. Mic!ChanOpen'
  BY SMTT(10), MicAssumption DEF Mic!RestoreDefault, Mic!NoDict, Mic!leaseVars, Mic!chanVars,
     Mic!MicInv, Mic!ChanOpen, Mic!SockOK, Mic!MicOK, Mic!Sides, Mic!Sockets, Mic!Socks,
     Mic!MicSteps, Mic!SockSteps, Mic!TypeOK, Mic!Kinds
<1>5. Mic!DictOK'
  BY SMTT(10), MicAssumption DEF Mic!RestoreDefault, Mic!NoDict, Mic!leaseVars, Mic!chanVars,
     Mic!MicInv, Mic!DictOK, Mic!DictSteps, Mic!TypeOK, Mic!Sides, Mic!Kinds
<1>6. Mic!FileOK'
  BY SMTT(10), MicAssumption DEF Mic!RestoreDefault, Mic!NoDict, Mic!leaseVars, Mic!chanVars,
     Mic!MicInv, Mic!FileOK, Mic!Copies, Mic!TypeOK, Mic!Sides, Mic!Kinds
<1>7. Mic!HolderHasIt'
  BY SMTT(10), MicAssumption DEF Mic!RestoreDefault, Mic!NoDict, Mic!leaseVars, Mic!chanVars,
     Mic!MicInv, Mic!HolderHasIt, Mic!MicOK, Mic!LoadedInTurn, Mic!SockOK, Mic!Sides, Mic!Idle,
     Mic!MicSteps, Mic!Kinds, Mic!Sockets, Mic!Socks, Mic!SockSteps, Mic!TypeOK
<1>8. Mic!LoadedInTurn'
  BY SMTT(10), MicAssumption DEF Mic!RestoreDefault, Mic!NoDict, Mic!leaseVars, Mic!chanVars,
     Mic!MicInv, Mic!LoadedInTurn, Mic!HolderHasIt, Mic!MicOK, Mic!Sides, Mic!Kinds, Mic!Idle,
     Mic!MicSteps, Mic!TypeOK
<1>9. Mic!CopyIsKept'
  BY SMTT(10), MicAssumption DEF Mic!RestoreDefault, Mic!NoDict, Mic!leaseVars, Mic!chanVars,
     Mic!MicInv, Mic!CopyIsKept, Mic!FileOK, Mic!DictOK, Mic!Copies, Mic!DictSteps, Mic!TypeOK,
     Mic!Sides, Mic!Kinds
<1>10. Mic!Unspoiled'
  BY SMTT(10), MicAssumption DEF Mic!RestoreDefault, Mic!NoDict, Mic!leaseVars, Mic!chanVars,
     Mic!MicInv, Mic!Unspoiled, Mic!CopyIsKept, Mic!FileOK, Mic!DictOK, Mic!NoCopy, Mic!Copies,
     Mic!DictSteps, Mic!TypeOK, Mic!Sides, Mic!Kinds
<1> QED BY <1>1, <1>2, <1>3, <1>4, <1>5, <1>6, <1>7, <1>8, <1>9, <1>10 DEF Mic!MicInv

LEMMA MicLeaseBegins ==
  ASSUME Mic!MicInv, Mic!LeaseBegins
  PROVE  Mic!MicInv'
  BY SMTT(10), MicAssumption DEF Mic!LeaseBegins, Mic!chanVars, Mic!dictVars, Mic!MicInv,
     Mic!TypeOK, Mic!SockOK, Mic!MicOK, Mic!ChanOpen, Mic!DictOK, Mic!FileOK, Mic!HolderHasIt,
     Mic!LoadedInTurn, Mic!CopyIsKept, Mic!Unspoiled, Mic!Sides, Mic!Kinds, Mic!Sockets,
     Mic!Socks, Mic!MicSteps, Mic!DictSteps, Mic!NoDict, Mic!Copies, Mic!Idle, Mic!NoCopy,
     Mic!SockSteps

LEMMA MicLeaseEnds ==
  ASSUME Mic!MicInv, Mic!LeaseEnds
  PROVE  Mic!MicInv'
<1>1. Mic!TypeOK'
  <2>1. x3' \in BOOLEAN
    BY DEF Mic!LeaseEnds, Mic!MicInv, Mic!TypeOK
  <2> QED BY <2>1, MicAssumption DEF Mic!MicInv, Mic!TypeOK, Mic!LeaseEnds, Mic!chanVars,
     Mic!dictVars
<1>2. Mic!SockOK'
  BY SMTT(10), MicAssumption DEF Mic!LeaseEnds, Mic!chanVars, Mic!dictVars, Mic!MicInv,
     Mic!SockOK, Mic!MicOK, Mic!ChanOpen, Mic!Sockets, Mic!Socks, Mic!Sides, Mic!MicSteps,
     Mic!SockSteps, Mic!TypeOK, Mic!Kinds
<1>3. Mic!MicOK'
  BY SMTT(10), MicAssumption DEF Mic!LeaseEnds, Mic!chanVars, Mic!dictVars, Mic!MicInv,
     Mic!MicOK, Mic!SockOK, Mic!Sides, Mic!MicSteps, Mic!Sockets, Mic!Socks, Mic!SockSteps,
     Mic!TypeOK, Mic!Kinds
<1>4. Mic!ChanOpen'
  BY SMTT(10), MicAssumption DEF Mic!LeaseEnds, Mic!chanVars, Mic!dictVars, Mic!MicInv,
     Mic!ChanOpen, Mic!SockOK, Mic!MicOK, Mic!Sides, Mic!Sockets, Mic!Socks, Mic!MicSteps,
     Mic!SockSteps, Mic!TypeOK, Mic!Kinds
<1>5. Mic!DictOK'
  BY SMTT(10), MicAssumption DEF Mic!LeaseEnds, Mic!chanVars, Mic!dictVars, Mic!MicInv,
     Mic!DictOK, Mic!DictSteps, Mic!NoDict, Mic!TypeOK, Mic!Sides, Mic!Kinds
<1>6. Mic!FileOK'
  BY SMTT(10), MicAssumption DEF Mic!LeaseEnds, Mic!chanVars, Mic!dictVars, Mic!MicInv,
     Mic!FileOK, Mic!Copies, Mic!TypeOK, Mic!Sides, Mic!Kinds
<1>7. Mic!HolderHasIt'
  BY SMTT(10), MicAssumption DEF Mic!LeaseEnds, Mic!chanVars, Mic!dictVars, Mic!MicInv,
     Mic!HolderHasIt, Mic!MicOK, Mic!LoadedInTurn, Mic!SockOK, Mic!Sides, Mic!Idle,
     Mic!MicSteps, Mic!Kinds, Mic!Sockets, Mic!Socks, Mic!SockSteps, Mic!TypeOK
<1>8. Mic!LoadedInTurn'
  BY SMTT(10), MicAssumption DEF Mic!LeaseEnds, Mic!chanVars, Mic!dictVars, Mic!MicInv,
     Mic!LoadedInTurn, Mic!HolderHasIt, Mic!MicOK, Mic!Sides, Mic!Kinds, Mic!Idle, Mic!MicSteps,
     Mic!TypeOK
<1>9. Mic!CopyIsKept'
  BY SMTT(10), MicAssumption DEF Mic!LeaseEnds, Mic!chanVars, Mic!dictVars, Mic!MicInv,
     Mic!CopyIsKept, Mic!FileOK, Mic!DictOK, Mic!Copies, Mic!DictSteps, Mic!NoDict, Mic!TypeOK,
     Mic!Sides, Mic!Kinds
<1>10. Mic!Unspoiled'
  BY SMTT(10), MicAssumption DEF Mic!LeaseEnds, Mic!chanVars, Mic!dictVars, Mic!MicInv,
     Mic!Unspoiled, Mic!CopyIsKept, Mic!FileOK, Mic!DictOK, Mic!NoDict, Mic!NoCopy, Mic!Copies,
     Mic!DictSteps, Mic!TypeOK, Mic!Sides, Mic!Kinds
<1> QED BY <1>1, <1>2, <1>3, <1>4, <1>5, <1>6, <1>7, <1>8, <1>9, <1>10 DEF Mic!MicInv

LEMMA MicUserWrites ==
  ASSUME Mic!MicInv, Mic!UserWrites
  PROVE  Mic!MicInv'
<1>1. Mic!TypeOK'
  BY SMTT(10), MicAssumption DEF Mic!UserWrites, Mic!NoDict, Mic!leaseVars, Mic!chanVars,
     Mic!MicInv, Mic!TypeOK, Mic!SockOK, Mic!MicOK, Mic!DictOK, Mic!Sides, Mic!Kinds,
     Mic!Sockets, Mic!Socks, Mic!MicSteps, Mic!DictSteps, Mic!SockSteps
<1>2. Mic!SockOK'
  BY SMTT(10), MicAssumption DEF Mic!UserWrites, Mic!NoDict, Mic!leaseVars, Mic!chanVars,
     Mic!MicInv, Mic!SockOK, Mic!MicOK, Mic!ChanOpen, Mic!Sockets, Mic!Socks, Mic!Sides,
     Mic!MicSteps, Mic!SockSteps, Mic!TypeOK, Mic!Kinds
<1>3. Mic!MicOK'
  BY SMTT(10), MicAssumption DEF Mic!UserWrites, Mic!NoDict, Mic!leaseVars, Mic!chanVars,
     Mic!MicInv, Mic!MicOK, Mic!SockOK, Mic!Sides, Mic!MicSteps, Mic!Sockets, Mic!Socks,
     Mic!SockSteps, Mic!TypeOK, Mic!Kinds
<1>4. Mic!ChanOpen'
  BY SMTT(10), MicAssumption DEF Mic!UserWrites, Mic!NoDict, Mic!leaseVars, Mic!chanVars,
     Mic!MicInv, Mic!ChanOpen, Mic!SockOK, Mic!MicOK, Mic!Sides, Mic!Sockets, Mic!Socks,
     Mic!MicSteps, Mic!SockSteps, Mic!TypeOK, Mic!Kinds
<1>5. Mic!DictOK'
  BY SMTT(10), MicAssumption DEF Mic!UserWrites, Mic!NoDict, Mic!leaseVars, Mic!chanVars,
     Mic!MicInv, Mic!DictOK, Mic!DictSteps, Mic!TypeOK, Mic!Sides, Mic!Kinds
<1>6. Mic!FileOK'
  BY SMTT(10), MicAssumption DEF Mic!UserWrites, Mic!NoDict, Mic!leaseVars, Mic!chanVars,
     Mic!MicInv, Mic!FileOK, Mic!Copies, Mic!TypeOK, Mic!Sides, Mic!Kinds
<1>7. Mic!HolderHasIt'
  BY SMTT(10), MicAssumption DEF Mic!UserWrites, Mic!NoDict, Mic!leaseVars, Mic!chanVars,
     Mic!MicInv, Mic!HolderHasIt, Mic!MicOK, Mic!LoadedInTurn, Mic!SockOK, Mic!Sides, Mic!Idle,
     Mic!MicSteps, Mic!Kinds, Mic!Sockets, Mic!Socks, Mic!SockSteps, Mic!TypeOK
<1>8. Mic!LoadedInTurn'
  BY SMTT(10), MicAssumption DEF Mic!UserWrites, Mic!NoDict, Mic!leaseVars, Mic!chanVars,
     Mic!MicInv, Mic!LoadedInTurn, Mic!HolderHasIt, Mic!MicOK, Mic!Sides, Mic!Kinds, Mic!Idle,
     Mic!MicSteps, Mic!TypeOK
<1>9. Mic!CopyIsKept'
  BY SMTT(10), MicAssumption DEF Mic!UserWrites, Mic!NoDict, Mic!leaseVars, Mic!chanVars,
     Mic!MicInv, Mic!TypeOK, Mic!SockOK, Mic!MicOK, Mic!ChanOpen, Mic!DictOK, Mic!FileOK,
     Mic!HolderHasIt, Mic!LoadedInTurn, Mic!CopyIsKept, Mic!Unspoiled, Mic!Sides, Mic!Kinds,
     Mic!Sockets, Mic!Socks, Mic!MicSteps, Mic!DictSteps, Mic!Copies, Mic!Idle, Mic!NoCopy,
     Mic!SockSteps
<1>10. Mic!Unspoiled'
  BY SMTT(10), MicAssumption DEF Mic!UserWrites, Mic!NoDict, Mic!leaseVars, Mic!chanVars,
     Mic!MicInv, Mic!Unspoiled, Mic!CopyIsKept, Mic!FileOK, Mic!DictOK, Mic!NoCopy, Mic!Copies,
     Mic!DictSteps, Mic!TypeOK, Mic!Sides, Mic!Kinds
<1> QED BY <1>1, <1>2, <1>3, <1>4, <1>5, <1>6, <1>7, <1>8, <1>9, <1>10 DEF Mic!MicInv

LEMMA MicRestart ==
  ASSUME Mic!MicInv, Mic!Restart
  PROVE  Mic!MicInv'
<1>1. Mic!TypeOK'
  BY SMTT(10), MicAssumption DEF Mic!Restart, Mic!Sides, Mic!Idle, Mic!Sockets, Mic!NoDict,
     Mic!Kinds, Mic!MicInv, Mic!TypeOK, Mic!SockOK, Mic!MicOK, Mic!DictOK, Mic!Socks,
     Mic!MicSteps, Mic!DictSteps, Mic!SockSteps
<1>2. Mic!SockOK'
  <2>1. \A c \in Mic!Sockets : [x4[c] EXCEPT !.at = "gone"] \in Mic!Socks
    BY DEF Mic!MicInv, Mic!SockOK, Mic!Socks, Mic!SockSteps
  <2>2. \A c \in Mic!Sockets : x4'[c] = IF x4[c].at = "new" THEN x4[c] ELSE [x4[c] EXCEPT !.at = "gone"]
    BY DEF Mic!Restart
  <2>3. \A c \in Mic!Sockets : x4'[c].side = x4[c].side /\ (x4'[c].at # "new" => x4[c].at # "new")
    BY <2>2 DEF Mic!MicInv, Mic!SockOK, Mic!Socks, Mic!SockSteps
  <2> QED BY <2>1, <2>2, <2>3 DEF Mic!MicInv, Mic!SockOK, Mic!Restart, Mic!Socks, Mic!SockSteps
<1>3. Mic!MicOK'
  BY SMTT(10), MicAssumption DEF Mic!Restart, Mic!Sides, Mic!Idle, Mic!Sockets, Mic!NoDict,
     Mic!Kinds, Mic!MicInv, Mic!MicOK, Mic!SockOK, Mic!MicSteps, Mic!Socks, Mic!SockSteps,
     Mic!TypeOK
<1>4. Mic!ChanOpen'
  BY SMTT(10), MicAssumption DEF Mic!Restart, Mic!Sides, Mic!Idle, Mic!Sockets, Mic!NoDict,
     Mic!Kinds, Mic!MicInv, Mic!ChanOpen, Mic!SockOK, Mic!MicOK, Mic!Socks, Mic!MicSteps,
     Mic!SockSteps, Mic!TypeOK
<1>5. Mic!DictOK'
  BY SMTT(10), MicAssumption DEF Mic!Restart, Mic!Sides, Mic!Idle, Mic!Sockets, Mic!NoDict,
     Mic!Kinds, Mic!MicInv, Mic!DictOK, Mic!DictSteps, Mic!TypeOK
<1>6. Mic!FileOK'
  BY SMTT(10), MicAssumption DEF Mic!Restart, Mic!Sides, Mic!Idle, Mic!Sockets, Mic!NoDict,
     Mic!Kinds, Mic!MicInv, Mic!FileOK, Mic!Copies, Mic!TypeOK
<1>7. Mic!HolderHasIt'
  BY SMTT(10), MicAssumption DEF Mic!Restart, Mic!Sides, Mic!Idle, Mic!Sockets, Mic!NoDict,
     Mic!Kinds, Mic!MicInv, Mic!HolderHasIt, Mic!MicOK, Mic!LoadedInTurn, Mic!SockOK,
     Mic!MicSteps, Mic!Socks, Mic!SockSteps, Mic!TypeOK
<1>8. Mic!LoadedInTurn'
  BY SMTT(10), MicAssumption DEF Mic!Restart, Mic!Sides, Mic!Idle, Mic!Sockets, Mic!NoDict,
     Mic!Kinds, Mic!MicInv, Mic!LoadedInTurn, Mic!HolderHasIt, Mic!MicOK, Mic!MicSteps,
     Mic!TypeOK
<1>9. Mic!CopyIsKept'
  BY SMTT(10), MicAssumption DEF Mic!Restart, Mic!Sides, Mic!Idle, Mic!Sockets, Mic!NoDict,
     Mic!Kinds, Mic!MicInv, Mic!CopyIsKept, Mic!FileOK, Mic!DictOK, Mic!Copies, Mic!DictSteps,
     Mic!TypeOK
<1>10. Mic!Unspoiled'
  <2>1. ~x17' => ~x17 /\ x11 = Mic!NoDict
    BY DEF Mic!Restart
  <2> QED BY <2>1 DEF Mic!MicInv, Mic!Unspoiled, Mic!Restart, Mic!NoDict
<1> QED BY <1>1, <1>2, <1>3, <1>4, <1>5, <1>6, <1>7, <1>8, <1>9, <1>10 DEF Mic!MicInv

-----------------------------------------------------------------------------
(* Microphone: every behaviour. *)

LEMMA MicNext ==
  ASSUME Mic!MicInv, Mic!Next
  PROVE  Mic!MicInv'
<1>1. ASSUME NEW s \in Mic!Sides, Mic!Reclaim(s) \/ Mic!Begun(s) \/ Mic!BeginFails(s) PROVE Mic!MicInv'
  BY <1>1, MicReclaim, MicBegun, MicBeginFails
<1>2. ASSUME NEW s \in Mic!Sides, NEW k \in Mic!Kinds, Mic!Load(s, k) PROVE Mic!MicInv'
  BY <1>2, MicLoad
<1>3. ASSUME NEW c \in Mic!Sockets,
             \/ Mic!Attach(c) \/ Mic!BeginRemote(c) \/ Mic!NoBackend(c) \/ Mic!BeginVoice(c)
             \/ Mic!Leaves(c) \/ Mic!End(c) \/ Mic!Close(c)
      PROVE  Mic!MicInv'
  BY <1>3, MicAttach, MicBeginRemote, MicNoBackend, MicBeginVoice, MicLeaves, MicEnd, MicClose
<1>4. ASSUME NEW c \in Mic!Sockets, NEW s \in Mic!Sides, Mic!Open(c, s) PROVE Mic!MicInv'
  BY <1>4, MicOpen
<1>5. CASE Mic!Maintain \/ Mic!Prune \/ Mic!LeaseBegins \/ Mic!LeaseEnds \/ Mic!UserWrites \/ Mic!Restart
  BY <1>5, MicMaintain, MicPrune, MicLeaseBegins, MicLeaseEnds, MicUserWrites, MicRestart
<1>6. CASE \/ Mic!DictationStart \/ Mic!PointAt \/ Mic!SetDefault \/ Mic!Recording \/ Mic!DictationStop
           \/ Mic!RestoreConfig \/ Mic!Unlink \/ Mic!RestoreDefault
  BY <1>6, MicDictationStart, MicPointAt, MicSetDefault, MicRecording, MicDictationStop,
     MicRestoreConfig,
     MicUnlink, MicRestoreDefault
<1> QED BY <1>1, <1>2, <1>3, <1>4, <1>5, <1>6 DEF Mic!Next

LEMMA MicInit ==
  ASSUME Mic!Init
  PROVE  Mic!MicInv
<1> USE MicAssumption DEF Mic!Init
<1>1. Mic!TypeOK /\ Mic!MicOK /\ Mic!DictOK /\ Mic!FileOK
  <2>1. Mic!TypeOK
    <3>1. \A s \in Mic!Sides : x9[s].chan = 0
      BY DEF Mic!Idle
    <3>2. x10 \in [Mic!Kinds -> Mic!Sides \cup {"none", "stray"}]
      OBVIOUS
    <3>3. 0 \in 0..MaxLeases /\ 0 \in 0..MaxSockets /\ 1 \in 1..MaxVoiceEdits
      OBVIOUS
    <3> QED BY <3>1, <3>2, <3>3 DEF Mic!TypeOK
  <2>2. Mic!MicOK
    BY DEF Mic!MicOK, Mic!Idle, Mic!MicSteps
  <2>3. Mic!DictOK
    BY DEF Mic!DictOK, Mic!NoDict, Mic!DictSteps
  <2>4. Mic!FileOK
    BY DEF Mic!FileOK, Mic!NoCopy, Mic!Copies
  <2> QED BY <2>1, <2>2, <2>3, <2>4
<1>2. Mic!SockOK
  BY DEF Mic!SockOK, Mic!Socks, Mic!SockSteps
<1>3. Mic!ChanOpen
  <2>1. \A s \in Mic!Sides : x9[s].chan = 0
    BY DEF Mic!Idle
  <2> QED BY <2>1 DEF Mic!ChanOpen, Mic!Sockets
<1>4. Mic!HolderHasIt /\ Mic!LoadedInTurn
  BY DEF Mic!HolderHasIt, Mic!LoadedInTurn, Mic!Idle, Mic!Sides, Mic!Kinds
<1>5. Mic!CopyIsKept /\ Mic!Unspoiled
  BY DEF Mic!CopyIsKept, Mic!Unspoiled, Mic!NoDict, Mic!NoCopy
<1> QED BY <1>1, <1>2, <1>3, <1>4, <1>5 DEF Mic!MicInv

LEMMA MicKept ==
  ASSUME Mic!MicInv
  PROVE  Mic!OneMicrophone /\ Mic!ConfigIsSafe /\ Mic!DictationRestores
<1>1. Mic!OneMicrophone
  BY DEF Mic!OneMicrophone, Mic!MicInv, Mic!HolderHasIt, Mic!LoadedInTurn
<1>2. Mic!ConfigIsSafe
  BY DEF Mic!ConfigIsSafe, Mic!MicInv, Mic!CopyIsKept
<1>3. Mic!DictationRestores
  BY DEF Mic!DictationRestores, Mic!MicInv, Mic!Unspoiled
<1> QED BY <1>1, <1>2, <1>3

\* The same of the microphone.
MicrophoneInv == part = "mic" => Mic!MicInv

LEMMA MicrophoneAlways == Spec => []MicrophoneInv
<1> USE DEF MicrophoneInv
<1>1. Init => MicrophoneInv
  BY MicInit DEF Init
<1>2. MicrophoneInv /\ [Next]_all => MicrophoneInv'
  <2> SUFFICES ASSUME MicrophoneInv, [Next]_all, part' = "mic" PROVE Mic!MicInv'
    OBVIOUS
  <2>1. CASE UNCHANGED all
    BY <2>1 DEF all, Mic!MicInv, Mic!TypeOK, Mic!SockOK, Mic!MicOK, Mic!ChanOpen, Mic!DictOK,
       Mic!FileOK,
       Mic!HolderHasIt, Mic!LoadedInTurn, Mic!CopyIsKept, Mic!Unspoiled
  <2>2. CASE Next
    <3>1. part = "mic" /\ Mic!Next
      BY <2>2 DEF Next
    <3> QED BY <3>1, MicNext
  <2> QED BY <2>1, <2>2
<1> QED BY <1>1, <1>2, PTL DEF Spec

\* Of microphone.py and voice.py: whatever step of loading, unloading or a dictation fails and
\* whenever a socket, the lease or the daemon ends, the open source is of one session that
\* has both its modules, what the user wrote in Voxtype's file is in it or in its copy, and a
\* dictation that met no fault leaves the file and the default source as it found them.
THEOREM MicrophoneIsKept == Spec => []MicrophoneKept
<1>1. MicrophoneInv => MicrophoneKept
  BY MicKept DEF MicrophoneInv, MicrophoneKept
<1> QED BY <1>1, MicrophoneAlways, PTL

-----------------------------------------------------------------------------
(* The directories the installer replaces: each step keeps TreesInv, and moves nothing of a person's. *)

LEMMA TreesInit == Tree!Init => Tree!TreesInv
<1> SUFFICES ASSUME Tree!Init PROVE Tree!TreesInv
  OBVIOUS
<1>1. \A p \in Tree!Venvs : x1[p].by # "person" /\ x1[p] \in Tree!Virtualenvs
  <2> DEFINE earlier == [Tree!NoVenv EXCEPT !.by = "us", !.whole = TRUE]
  <2>1. earlier \in Tree!Virtualenvs /\ earlier.by # "person"
    <3>1. Tree!NoVenv \in Tree!Virtualenvs
      BY DEF Tree!NoVenv, Tree!Virtualenvs
    <3> QED BY <3>1 DEF Tree!Virtualenvs
  <2>2. /\ Tree!NoVenv \in Tree!Virtualenvs /\ Tree!NoVenv.by # "person"
        /\ earlier \in Tree!Virtualenvs /\ earlier.by # "person"
    BY <2>1 DEF Tree!NoVenv, Tree!Virtualenvs
  <2> HIDE DEF earlier
  <2>3. \A p \in Tree!Venvs : x1[p] \in {Tree!NoVenv, earlier}
    BY DEF Tree!Init, Tree!Venvs, earlier
  <2> QED BY <2>2, <2>3
<1>2. x1 \in [Tree!Venvs -> Tree!Virtualenvs]
  BY <1>1 DEF Tree!Init
<1>3. x3 \in [Tree!Trees -> Tree!Checkouts] /\ x3["src"].work = {} /\ x3["cache"].work = {}
  BY DEF Tree!Init, Tree!NoTree, Tree!Trees, Tree!Checkouts
<1> QED BY <1>1, <1>2, <1>3 DEF Tree!Init, Tree!TreesInv, Tree!ShapesOK, Tree!Virtualenvs,
   Tree!Checkouts, Tree!RunOK, Tree!PersonsOK, Tree!InitOK, Tree!WorkIsKept,
   Tree!FailedUpdateKeeps, Tree!NoRun

LEMMA TreesInstall ==
  ASSUME Tree!TreesInv, Tree!Install
  PROVE  Tree!TreesInv' /\ Tree!NotMoved
  BY DEF Tree!Install, Tree!Resting, Tree!TreesInv, Tree!ShapesOK, Tree!Virtualenvs,
     Tree!Checkouts, Tree!RunOK, Tree!PersonsOK, Tree!InitOK, Tree!WorkIsKept,
     Tree!FailedUpdateKeeps, Tree!NotMoved, Tree!NoVenv, Tree!NoTree, Tree!NoRun, Tree!Venvs,
     Tree!Trees, Tree!workVars, Tree!Ownership, Tree!Earlier

LEMMA TreesDropPrevious ==
  ASSUME Tree!TreesInv, Tree!DropPrevious
  PROVE  Tree!TreesInv' /\ Tree!NotMoved
  BY DEF Tree!DropPrevious, Tree!Resting, Tree!TreesInv, Tree!ShapesOK, Tree!Virtualenvs,
     Tree!Checkouts, Tree!RunOK, Tree!PersonsOK, Tree!InitOK, Tree!WorkIsKept,
     Tree!FailedUpdateKeeps, Tree!NotMoved, Tree!NoVenv, Tree!NoTree, Tree!NoRun, Tree!Venvs,
     Tree!Trees, Tree!workVars

LEMMA TreesMoveAside ==
  ASSUME Tree!TreesInv, Tree!MoveAside
  PROVE  Tree!TreesInv' /\ Tree!NotMoved
  BY DEF Tree!MoveAside, Tree!Resting, Tree!TreesInv, Tree!ShapesOK, Tree!Virtualenvs,
     Tree!Checkouts, Tree!RunOK, Tree!PersonsOK, Tree!InitOK, Tree!WorkIsKept,
     Tree!FailedUpdateKeeps, Tree!NotMoved, Tree!NoVenv, Tree!NoTree, Tree!NoRun, Tree!Venvs,
     Tree!Trees, Tree!workVars

LEMMA TreesRecord ==
  ASSUME Tree!TreesInv, Tree!Record
  PROVE  Tree!TreesInv' /\ Tree!NotMoved
  BY DEF Tree!Record, Tree!Resting, Tree!TreesInv, Tree!ShapesOK, Tree!Virtualenvs,
     Tree!Checkouts, Tree!RunOK, Tree!PersonsOK, Tree!InitOK, Tree!WorkIsKept,
     Tree!FailedUpdateKeeps, Tree!NotMoved, Tree!NoVenv, Tree!NoTree, Tree!NoRun, Tree!Venvs,
     Tree!Trees, Tree!workVars

LEMMA TreesMake ==
  ASSUME Tree!TreesInv, Tree!Make
  PROVE  Tree!TreesInv' /\ Tree!NotMoved
<1>1. /\ x1'["venv"].by = "us" /\ x1'["venv"].whole = FALSE /\ x1'["previous"] = x1["previous"]
     /\ x1' \in [Tree!Venvs -> Tree!Virtualenvs]
  BY DEF Tree!Make, Tree!TreesInv, Tree!ShapesOK, Tree!Virtualenvs, Tree!Checkouts,
     Tree!NoVenv, Tree!Venvs
<1> QED BY <1>1 DEF Tree!Make, Tree!Resting, Tree!TreesInv, Tree!ShapesOK, Tree!Virtualenvs,
   Tree!Checkouts, Tree!RunOK, Tree!PersonsOK, Tree!InitOK, Tree!WorkIsKept,
   Tree!FailedUpdateKeeps, Tree!NotMoved, Tree!NoVenv, Tree!NoTree, Tree!NoRun, Tree!Venvs,
   Tree!Trees, Tree!workVars

LEMMA TreesMark ==
  ASSUME Tree!TreesInv, Tree!Mark
  PROVE  Tree!TreesInv' /\ Tree!NotMoved
<1>1. /\ x1'["venv"].by = x1["venv"].by /\ x1'["venv"].whole = x1["venv"].whole
     /\ x1'["previous"] = x1["previous"]
     /\ x1' \in [Tree!Venvs -> Tree!Virtualenvs]
  BY DEF Tree!Mark, Tree!TreesInv, Tree!ShapesOK, Tree!Virtualenvs, Tree!Checkouts, Tree!Venvs
<1> QED BY <1>1 DEF Tree!Mark, Tree!Resting, Tree!TreesInv, Tree!ShapesOK, Tree!Virtualenvs,
   Tree!Checkouts, Tree!RunOK, Tree!PersonsOK, Tree!InitOK, Tree!WorkIsKept,
   Tree!FailedUpdateKeeps, Tree!NotMoved, Tree!NoVenv, Tree!NoTree, Tree!NoRun, Tree!Venvs,
   Tree!Trees, Tree!workVars

LEMMA TreesFill ==
  ASSUME Tree!TreesInv, Tree!Fill
  PROVE  Tree!TreesInv' /\ Tree!NotMoved
<1>1. /\ x1'["venv"].by = x1["venv"].by /\ x1'["previous"] = x1["previous"]
     /\ x1' \in [Tree!Venvs -> Tree!Virtualenvs]
  BY DEF Tree!Fill, Tree!TreesInv, Tree!ShapesOK, Tree!Virtualenvs, Tree!Checkouts, Tree!Venvs
<1> QED BY <1>1 DEF Tree!Fill, Tree!Resting, Tree!TreesInv, Tree!ShapesOK, Tree!Virtualenvs,
   Tree!Checkouts, Tree!RunOK, Tree!PersonsOK, Tree!InitOK, Tree!WorkIsKept,
   Tree!FailedUpdateKeeps, Tree!NotMoved, Tree!NoVenv, Tree!NoTree, Tree!NoRun, Tree!Venvs,
   Tree!Trees, Tree!workVars

LEMMA TreesClean ==
  ASSUME Tree!TreesInv, Tree!Clean
  PROVE  Tree!TreesInv' /\ Tree!NotMoved
  BY DEF Tree!Clean, Tree!Resting, Tree!TreesInv, Tree!ShapesOK, Tree!Virtualenvs,
     Tree!Checkouts, Tree!RunOK, Tree!PersonsOK, Tree!InitOK, Tree!WorkIsKept,
     Tree!FailedUpdateKeeps, Tree!NotMoved, Tree!NoVenv, Tree!NoTree, Tree!NoRun, Tree!Venvs,
     Tree!Trees, Tree!workVars

LEMMA TreesForget ==
  ASSUME Tree!TreesInv, Tree!Forget
  PROVE  Tree!TreesInv' /\ Tree!NotMoved
  BY DEF Tree!Forget, Tree!Resting, Tree!TreesInv, Tree!ShapesOK, Tree!Virtualenvs,
     Tree!Checkouts, Tree!RunOK, Tree!PersonsOK, Tree!InitOK, Tree!WorkIsKept,
     Tree!FailedUpdateKeeps, Tree!NotMoved, Tree!NoVenv, Tree!NoTree, Tree!NoRun, Tree!Venvs,
     Tree!Trees, Tree!workVars

LEMMA TreesFails ==
  ASSUME Tree!TreesInv, Tree!Fails
  PROVE  Tree!TreesInv' /\ Tree!NotMoved
<1>1. x1' \in [Tree!Venvs -> Tree!Virtualenvs]
  BY DEF Tree!Fails, Tree!PutBack, Tree!TreesInv, Tree!ShapesOK, Tree!Virtualenvs,
     Tree!Checkouts, Tree!NoVenv, Tree!Venvs
<1>2. /\ \A p \in Tree!Venvs : x1'[p] \in {Tree!NoVenv, x1["previous"]}
     /\ x1'["venv"] = IF x6.moved THEN x1["previous"] ELSE Tree!NoVenv
  BY DEF Tree!Fails, Tree!PutBack, Tree!Venvs
<1>3. \A p \in Tree!Venvs : x1[p].by # "person" /\ x1'[p].by # "person"
  BY <1>2 DEF Tree!Fails, Tree!TreesInv, Tree!FailedUpdateKeeps, Tree!NoVenv, Tree!Venvs
<1>4. x1'["venv"].whole = x6.worked
  <2>1. IF x6.moved THEN x1["previous"].whole = x6.worked ELSE x6.worked = FALSE
    BY DEF Tree!Fails, Tree!TreesInv, Tree!ShapesOK, Tree!Virtualenvs, Tree!Checkouts, Tree!RunOK
  <2>2. Tree!NoVenv.whole = FALSE
    BY DEF Tree!NoVenv
  <2>3. CASE x6.moved
    BY <1>2, <2>1, <2>3
  <2>4. CASE ~x6.moved
    BY <1>2, <2>1, <2>2, <2>4
  <2> QED BY <2>3, <2>4
<1>5. Tree!NotMoved /\ Tree!PersonsOK' /\ Tree!FailedUpdateKeeps'
  BY <1>3, <1>4 DEF Tree!Fails, Tree!NotMoved, Tree!PersonsOK, Tree!FailedUpdateKeeps,
     Tree!TreesInv, Tree!ShapesOK
<1> QED BY <1>1, <1>5 DEF Tree!Fails, Tree!TreesInv, Tree!ShapesOK, Tree!Virtualenvs,
   Tree!Checkouts, Tree!RunOK, Tree!InitOK, Tree!WorkIsKept, Tree!workVars

LEMMA TreesUndo ==
  ASSUME Tree!TreesInv, Tree!Undo
  PROVE  Tree!TreesInv' /\ Tree!NotMoved
  BY DEF Tree!Undo, Tree!Resting, Tree!TreesInv, Tree!ShapesOK, Tree!Virtualenvs,
     Tree!Checkouts, Tree!RunOK, Tree!PersonsOK, Tree!InitOK, Tree!WorkIsKept,
     Tree!FailedUpdateKeeps, Tree!NotMoved, Tree!NoVenv, Tree!NoTree, Tree!NoRun, Tree!Venvs,
     Tree!Trees, Tree!workVars

LEMMA TreesFetch ==
  ASSUME Tree!TreesInv, Tree!Fetch
  PROVE  Tree!TreesInv' /\ Tree!NotMoved
  BY DEF Tree!Fetch, Tree!Resting, Tree!TreesInv, Tree!ShapesOK, Tree!Virtualenvs,
     Tree!Checkouts, Tree!RunOK, Tree!PersonsOK, Tree!InitOK, Tree!WorkIsKept,
     Tree!FailedUpdateKeeps, Tree!NotMoved, Tree!NoVenv, Tree!NoTree, Tree!NoRun, Tree!Venvs,
     Tree!Trees, Tree!workVars, Tree!State, Tree!Differs

LEMMA TreesGitInit ==
  ASSUME Tree!TreesInv, Tree!GitInit
  PROVE  Tree!TreesInv' /\ Tree!NotMoved
<1>1. /\ x3' \in [Tree!Trees -> Tree!Checkouts] /\ x3'["src"] = x3["src"] /\ x3'["cache"].work = {}
     /\ x3["cache"].work = {}
  <2> DEFINE made == [Tree!NoTree EXCEPT !.by = "us"]
  <2>1. made \in Tree!Checkouts /\ made.work = {}
    BY DEF Tree!NoTree, Tree!Checkouts
  <2> QED BY <2>1 DEF Tree!GitInit, Tree!TreesInv, Tree!ShapesOK, Tree!Virtualenvs,
     Tree!Checkouts, Tree!InitOK, Tree!NoTree, Tree!Trees
<1> QED BY <1>1 DEF Tree!GitInit, Tree!Resting, Tree!TreesInv, Tree!ShapesOK, Tree!Virtualenvs,
   Tree!Checkouts, Tree!RunOK, Tree!PersonsOK, Tree!InitOK, Tree!WorkIsKept,
   Tree!FailedUpdateKeeps, Tree!NotMoved, Tree!NoVenv, Tree!NoTree, Tree!NoRun, Tree!Venvs,
   Tree!Trees, Tree!workVars

LEMMA TreesWriteMarker ==
  ASSUME Tree!TreesInv, Tree!WriteMarker
  PROVE  Tree!TreesInv' /\ Tree!NotMoved
<1>1. /\ x3' \in [Tree!Trees -> Tree!Checkouts] /\ x3'["src"] = x3["src"]
     /\ x3'["cache"].work = x3["cache"].work
  BY DEF Tree!WriteMarker, Tree!TreesInv, Tree!ShapesOK, Tree!Virtualenvs, Tree!Checkouts,
     Tree!Trees
<1> QED BY <1>1 DEF Tree!WriteMarker, Tree!Resting, Tree!TreesInv, Tree!ShapesOK,
   Tree!Virtualenvs, Tree!Checkouts, Tree!RunOK, Tree!PersonsOK, Tree!InitOK, Tree!WorkIsKept,
   Tree!FailedUpdateKeeps, Tree!NotMoved, Tree!NoVenv, Tree!NoTree, Tree!NoRun, Tree!Venvs,
   Tree!Trees, Tree!workVars

LEMMA TreesCheckout ==
  ASSUME Tree!TreesInv, Tree!Checkout
  PROVE  Tree!TreesInv' /\ Tree!NotMoved
  BY DEF Tree!Checkout, Tree!Resting, Tree!TreesInv, Tree!ShapesOK, Tree!Virtualenvs,
     Tree!Checkouts, Tree!RunOK, Tree!PersonsOK, Tree!InitOK, Tree!WorkIsKept,
     Tree!FailedUpdateKeeps, Tree!NotMoved, Tree!NoVenv, Tree!NoTree, Tree!NoRun, Tree!Venvs,
     Tree!Trees, Tree!workVars

LEMMA TreesBootstrap ==
  ASSUME Tree!TreesInv, Tree!Bootstrap
  PROVE  Tree!TreesInv' /\ Tree!NotMoved
  BY DEF Tree!Bootstrap, Tree!Resting, Tree!TreesInv, Tree!ShapesOK, Tree!Virtualenvs,
     Tree!Checkouts, Tree!RunOK, Tree!PersonsOK, Tree!InitOK, Tree!WorkIsKept,
     Tree!FailedUpdateKeeps, Tree!NotMoved, Tree!NoVenv, Tree!NoTree, Tree!NoRun, Tree!Venvs,
     Tree!Trees, Tree!workVars

LEMMA TreesRemove ==
  ASSUME Tree!TreesInv, Tree!Remove
  PROVE  Tree!TreesInv' /\ Tree!NotMoved
  BY DEF Tree!Remove, Tree!Resting, Tree!TreesInv, Tree!ShapesOK, Tree!Virtualenvs,
     Tree!Checkouts, Tree!RunOK, Tree!PersonsOK, Tree!InitOK, Tree!WorkIsKept,
     Tree!FailedUpdateKeeps, Tree!NotMoved, Tree!NoVenv, Tree!NoTree, Tree!NoRun, Tree!Venvs,
     Tree!Trees, Tree!workVars

LEMMA TreesRemoveVenvs ==
  ASSUME Tree!TreesInv, Tree!RemoveVenvs
  PROVE  Tree!TreesInv' /\ Tree!NotMoved
  BY DEF Tree!RemoveVenvs, Tree!Resting, Tree!TreesInv, Tree!ShapesOK, Tree!Virtualenvs,
     Tree!Checkouts, Tree!RunOK, Tree!PersonsOK, Tree!InitOK, Tree!WorkIsKept,
     Tree!FailedUpdateKeeps, Tree!NotMoved, Tree!NoVenv, Tree!NoTree, Tree!NoRun, Tree!Venvs,
     Tree!Trees, Tree!workVars, Tree!Ownership, Tree!Earlier

LEMMA TreesRemoveTrees ==
  ASSUME Tree!TreesInv, Tree!RemoveTrees
  PROVE  Tree!TreesInv' /\ Tree!NotMoved
  BY DEF Tree!RemoveTrees, Tree!Resting, Tree!TreesInv, Tree!ShapesOK, Tree!Virtualenvs,
     Tree!Checkouts, Tree!RunOK, Tree!PersonsOK, Tree!InitOK, Tree!WorkIsKept,
     Tree!FailedUpdateKeeps, Tree!NotMoved, Tree!NoVenv, Tree!NoTree, Tree!NoRun, Tree!Venvs,
     Tree!Trees, Tree!workVars, Tree!State, Tree!Differs

LEMMA TreesKilled ==
  ASSUME Tree!TreesInv, Tree!Killed
  PROVE  Tree!TreesInv' /\ Tree!NotMoved
  BY DEF Tree!Killed, Tree!Resting, Tree!TreesInv, Tree!ShapesOK, Tree!Virtualenvs,
     Tree!Checkouts, Tree!RunOK, Tree!PersonsOK, Tree!InitOK, Tree!WorkIsKept,
     Tree!FailedUpdateKeeps, Tree!NotMoved, Tree!NoVenv, Tree!NoTree, Tree!NoRun, Tree!Venvs,
     Tree!Trees, Tree!workVars

LEMMA TreesLosesRecord ==
  ASSUME Tree!TreesInv, Tree!LosesRecord
  PROVE  Tree!TreesInv' /\ Tree!NotMoved
  BY DEF Tree!LosesRecord, Tree!Resting, Tree!TreesInv, Tree!ShapesOK, Tree!Virtualenvs,
     Tree!Checkouts, Tree!RunOK, Tree!PersonsOK, Tree!InitOK, Tree!WorkIsKept,
     Tree!FailedUpdateKeeps, Tree!NotMoved, Tree!NoVenv, Tree!NoTree, Tree!NoRun, Tree!Venvs,
     Tree!Trees, Tree!workVars

LEMMA TreesPersonsVenv ==
  ASSUME Tree!TreesInv, NEW p \in Tree!Venvs, Tree!PersonsVenv(p)
  PROVE  Tree!TreesInv' /\ Tree!NotMoved
  BY DEF Tree!PersonsVenv, Tree!Resting, Tree!TreesInv, Tree!ShapesOK, Tree!Virtualenvs,
     Tree!Checkouts, Tree!RunOK, Tree!PersonsOK, Tree!InitOK, Tree!WorkIsKept,
     Tree!FailedUpdateKeeps, Tree!NotMoved, Tree!NoVenv, Tree!NoTree, Tree!NoRun, Tree!Venvs,
     Tree!Trees, Tree!workVars

LEMMA TreesWorks ==
  ASSUME Tree!TreesInv, NEW t \in Tree!Trees, Tree!Works(t)
  PROVE  Tree!TreesInv' /\ Tree!NotMoved
  BY DEF Tree!Works, Tree!Resting, Tree!TreesInv, Tree!ShapesOK, Tree!Virtualenvs,
     Tree!Checkouts, Tree!RunOK, Tree!PersonsOK, Tree!InitOK, Tree!WorkIsKept,
     Tree!FailedUpdateKeeps, Tree!NotMoved, Tree!NoVenv, Tree!NoTree, Tree!NoRun, Tree!Venvs,
     Tree!Trees, Tree!workVars

LEMMA TreesStutter ==
  ASSUME Tree!TreesInv, UNCHANGED Tree!treeVars
  PROVE  Tree!TreesInv' /\ Tree!NotMoved
  BY DEF Tree!treeVars, Tree!TreesInv, Tree!ShapesOK, Tree!RunOK, Tree!PersonsOK, Tree!InitOK,
     Tree!WorkIsKept, Tree!FailedUpdateKeeps, Tree!NotMoved

LEMMA TreesNext ==
  ASSUME Tree!TreesInv, Tree!Next
  PROVE  Tree!TreesInv' /\ Tree!NotMoved
  BY TreesInstall, TreesDropPrevious, TreesMoveAside, TreesRecord, TreesMake, TreesMark,
     TreesFill, TreesClean, TreesForget, TreesFails, TreesUndo, TreesFetch, TreesGitInit,
     TreesWriteMarker, TreesCheckout, TreesBootstrap, TreesRemove, TreesRemoveVenvs,
     TreesRemoveTrees, TreesKilled, TreesLosesRecord, TreesPersonsVenv, TreesWorks DEF
     Tree!Next

-----------------------------------------------------------------------------
(* One file of /etc/pam.d: each step keeps PamInv. *)

LEMMA PamInit == Pam!Init => Pam!PamInv
  BY DEF Pam!Init, Pam!PamInv, Pam!PamShapesOK, Pam!FreshOK, Pam!SaysOK, Pam!ReadOK,
     Pam!HelperOK, Pam!CopyOK, Pam!GoneOK, Pam!TheirsKept, Pam!RemovedIsGone,
     Pam!LinesHaveHelper, Pam!Removing, Pam!At, Pam!To, Pam!Text, Pam!Runs, Pam!Lines,
     Pam!NoFile, Pam!NoRun, Pam!Unmarked, Pam!hostVars, Pam!recordVars, Pam!placeVars

LEMMA PamEdits ==
  ASSUME Pam!PamInv, Pam!Edits
  PROVE  Pam!PamInv'
<1>1. Pam!PamShapesOK'
  BY DEF Pam!Edits, Pam!PamInv, Pam!PamShapesOK, Pam!FreshOK, Pam!SaysOK, Pam!ReadOK,
     Pam!HelperOK, Pam!CopyOK, Pam!GoneOK, Pam!TheirsKept, Pam!RemovedIsGone,
     Pam!LinesHaveHelper, Pam!Removing, Pam!At, Pam!To, Pam!Text, Pam!Runs, Pam!Lines,
     Pam!NoFile, Pam!NoRun, Pam!Unmarked, Pam!hostVars, Pam!recordVars, Pam!placeVars
<1>2. Pam!FreshOK'
  BY DEF Pam!Edits, Pam!PamInv, Pam!PamShapesOK, Pam!FreshOK, Pam!SaysOK, Pam!ReadOK,
     Pam!HelperOK, Pam!CopyOK, Pam!GoneOK, Pam!TheirsKept, Pam!RemovedIsGone,
     Pam!LinesHaveHelper, Pam!Removing, Pam!At, Pam!To, Pam!Text, Pam!Runs, Pam!Lines,
     Pam!NoFile, Pam!NoRun, Pam!Unmarked, Pam!hostVars, Pam!recordVars, Pam!placeVars
<1>3. Pam!ReadOK'
  BY DEF Pam!Edits, Pam!PamInv, Pam!PamShapesOK, Pam!FreshOK, Pam!SaysOK, Pam!ReadOK,
     Pam!HelperOK, Pam!CopyOK, Pam!GoneOK, Pam!TheirsKept, Pam!RemovedIsGone,
     Pam!LinesHaveHelper, Pam!Removing, Pam!At, Pam!To, Pam!Text, Pam!Runs, Pam!Lines,
     Pam!NoFile, Pam!NoRun, Pam!Unmarked, Pam!hostVars, Pam!recordVars, Pam!placeVars
<1>4. Pam!HelperOK'
  BY DEF Pam!Edits, Pam!PamInv, Pam!PamShapesOK, Pam!FreshOK, Pam!SaysOK, Pam!ReadOK,
     Pam!HelperOK, Pam!CopyOK, Pam!GoneOK, Pam!TheirsKept, Pam!RemovedIsGone,
     Pam!LinesHaveHelper, Pam!Removing, Pam!At, Pam!To, Pam!Text, Pam!Runs, Pam!Lines,
     Pam!NoFile, Pam!NoRun, Pam!Unmarked, Pam!hostVars, Pam!recordVars, Pam!placeVars
<1>5. Pam!CopyOK'
  <2> SUFFICES ASSUME ~x14', x13' = 0, ~x16', ~(x15' /\ x17') PROVE Pam!CopyOK'
    BY DEF Pam!CopyOK
  <2>1. ~x14 /\ ~x16 /\ ~(x15 /\ x17) /\ x9.at # "write"
    <3>1. ~x14 /\ x9.at # "write"
      BY Zenon DEF Pam!Edits
    <3>2. (x16 => x16') /\ UNCHANGED <<x15, x17>>
      BY DEF Pam!Edits
    <3> QED BY <3>1, <3>2
  <2>2. x13 = 0 /\ x2.line = "ours" /\ x2'.says = x2.says /\ x2 # Pam!NoFile /\ x2' # Pam!NoFile
    <3>1. x2.line = "ours" /\ UNCHANGED x13 /\ \E l \in {"none", "edited"} : x2' = [x2 EXCEPT !.line = l]
      BY DEF Pam!Edits, Pam!PamInv, Pam!FreshOK
    <3>2. x13 = 0 /\ x2'.says = x2.says
      BY <3>1 DEF Pam!PamInv, Pam!PamShapesOK, Pam!Text
    <3>3. x2.says # 0
      BY <3>1 DEF Pam!PamInv, Pam!SaysOK, Pam!NoFile
    <3> QED BY <3>1, <3>2, <3>3 DEF Pam!NoFile
  <2> QED BY <2>1, <2>2 DEF Pam!Edits, Pam!PamInv, Pam!CopyOK, Pam!Removing, Pam!At,
     Pam!recordVars
<1>6. Pam!GoneOK'
  BY DEF Pam!Edits, Pam!PamInv, Pam!PamShapesOK, Pam!FreshOK, Pam!SaysOK, Pam!ReadOK,
     Pam!HelperOK, Pam!CopyOK, Pam!GoneOK, Pam!TheirsKept, Pam!RemovedIsGone,
     Pam!LinesHaveHelper, Pam!Removing, Pam!At, Pam!To, Pam!Text, Pam!Runs, Pam!Lines,
     Pam!NoFile, Pam!NoRun, Pam!Unmarked, Pam!hostVars, Pam!recordVars, Pam!placeVars
<1>7. Pam!TheirsKept'
  BY DEF Pam!Edits, Pam!PamInv, Pam!PamShapesOK, Pam!FreshOK, Pam!SaysOK, Pam!ReadOK,
     Pam!HelperOK, Pam!CopyOK, Pam!GoneOK, Pam!TheirsKept, Pam!RemovedIsGone,
     Pam!LinesHaveHelper, Pam!Removing, Pam!At, Pam!To, Pam!Text, Pam!Runs, Pam!Lines,
     Pam!NoFile, Pam!NoRun, Pam!Unmarked, Pam!hostVars, Pam!recordVars, Pam!placeVars
<1>8. Pam!RemovedIsGone'
  <2>1. x10' = x10 /\ UNCHANGED <<x5, x6, x7>> /\ (x14 => x14') /\ (x16 => x16')
    <3>1. x14 => x14'
      BY Zenon DEF Pam!Edits
    <3>3. x16 => x16'
      BY DEF Pam!Edits
    <3>2. x10' = x10 /\ UNCHANGED <<x5, x6, x7>>
      BY DEF Pam!Edits, Pam!placeVars
    <3> QED BY <3>1, <3>2, <3>3
  <2>2. UNCHANGED <<x15, x17>>
    BY DEF Pam!Edits
  <2>3. x2.line # "ours" => x2'.line # "ours"
    BY DEF Pam!Edits, Pam!PamInv, Pam!PamShapesOK, Pam!Text, Pam!NoFile
  <2>4. x2.line # "ours" /\ x13' = 0 => x16'
    <3>1. x12 + 1 # 0
      BY DEF Pam!PamInv, Pam!FreshOK
    <3> QED BY <3>1 DEF Pam!Edits
  <2> QED BY <2>1, <2>2, <2>3, <2>4 DEF Pam!PamInv, Pam!RemovedIsGone
<1>9. Pam!LinesHaveHelper'
  BY DEF Pam!Edits, Pam!PamInv, Pam!PamShapesOK, Pam!FreshOK, Pam!SaysOK, Pam!ReadOK,
     Pam!HelperOK, Pam!CopyOK, Pam!GoneOK, Pam!TheirsKept, Pam!RemovedIsGone,
     Pam!LinesHaveHelper, Pam!Removing, Pam!At, Pam!To, Pam!Text, Pam!Runs, Pam!Lines,
     Pam!NoFile, Pam!NoRun, Pam!Unmarked, Pam!hostVars, Pam!recordVars, Pam!placeVars
<1>10. Pam!SaysOK'
  BY DEF Pam!Edits, Pam!PamInv, Pam!PamShapesOK, Pam!FreshOK, Pam!SaysOK, Pam!ReadOK,
     Pam!HelperOK, Pam!CopyOK, Pam!GoneOK, Pam!TheirsKept, Pam!RemovedIsGone,
     Pam!LinesHaveHelper, Pam!Removing, Pam!At, Pam!To, Pam!Text, Pam!Runs, Pam!Lines,
     Pam!NoFile, Pam!NoRun, Pam!Unmarked, Pam!hostVars, Pam!recordVars, Pam!placeVars
<1> QED BY <1>10, <1>1, <1>2, <1>3, <1>4, <1>5, <1>6, <1>7, <1>8, <1>9 DEF Pam!PamInv

LEMMA PamUpdate ==
  ASSUME Pam!PamInv, Pam!Update
  PROVE  Pam!PamInv'
  BY DEF Pam!Update, Pam!PamInv, Pam!PamShapesOK, Pam!FreshOK, Pam!SaysOK, Pam!ReadOK,
     Pam!HelperOK, Pam!CopyOK, Pam!GoneOK, Pam!TheirsKept, Pam!RemovedIsGone,
     Pam!LinesHaveHelper, Pam!Removing, Pam!At, Pam!To, Pam!Text, Pam!Runs, Pam!Lines,
     Pam!NoFile, Pam!NoRun, Pam!Unmarked, Pam!hostVars, Pam!recordVars, Pam!placeVars

LEMMA PamEnrols ==
  ASSUME Pam!PamInv, Pam!Enrols
  PROVE  Pam!PamInv'
  BY DEF Pam!Enrols, Pam!PamInv, Pam!PamShapesOK, Pam!FreshOK, Pam!SaysOK, Pam!ReadOK,
     Pam!HelperOK, Pam!CopyOK, Pam!GoneOK, Pam!TheirsKept, Pam!RemovedIsGone,
     Pam!LinesHaveHelper, Pam!Removing, Pam!At, Pam!To, Pam!Text, Pam!Runs, Pam!Lines,
     Pam!NoFile, Pam!NoRun, Pam!Unmarked, Pam!hostVars, Pam!recordVars, Pam!placeVars

LEMMA PamWriteHelper ==
  ASSUME Pam!PamInv, Pam!WriteHelper
  PROVE  Pam!PamInv'
  BY DEF Pam!WriteHelper, Pam!PamInv, Pam!PamShapesOK, Pam!FreshOK, Pam!SaysOK, Pam!ReadOK,
     Pam!HelperOK, Pam!CopyOK, Pam!GoneOK, Pam!TheirsKept, Pam!RemovedIsGone,
     Pam!LinesHaveHelper, Pam!Removing, Pam!At, Pam!To, Pam!Text, Pam!Runs, Pam!Lines,
     Pam!NoFile, Pam!NoRun, Pam!Unmarked, Pam!hostVars, Pam!recordVars, Pam!placeVars

LEMMA PamBackup ==
  ASSUME Pam!PamInv, Pam!Backup
  PROVE  Pam!PamInv'
<1>1. Pam!PamShapesOK'
  <2>1. [Pam!Unmarked EXCEPT !.on = TRUE] \in [on : BOOLEAN, seed : Nat]
    <3>1. Pam!Unmarked \in [on : BOOLEAN, seed : Nat]
      BY DEF Pam!Unmarked
    <3> QED BY <3>1
  <2>2. x3' \in Pam!Text /\ x4' \in [on : BOOLEAN, seed : Nat]
    BY <2>1 DEF Pam!Backup, Pam!PamInv, Pam!PamShapesOK
  <2>3. x9'.op = "install" /\ x9'.at = "seed" /\ x9'.text = x9.text /\ x9 # Pam!NoRun /\ x9' # Pam!NoRun
    BY DEF Pam!Backup, Pam!At, Pam!To, Pam!NoRun
  <2>4. x9' \in Pam!Runs
    BY DEF Pam!Backup, Pam!To, Pam!PamInv, Pam!PamShapesOK, Pam!Runs
  <2> QED BY <2>2, <2>3, <2>4 DEF Pam!Backup, Pam!PamInv, Pam!PamShapesOK, Pam!hostVars, Pam!At
<1>2. Pam!FreshOK'
  BY DEF Pam!Backup, Pam!PamInv, Pam!PamShapesOK, Pam!FreshOK, Pam!SaysOK, Pam!ReadOK,
     Pam!HelperOK, Pam!CopyOK, Pam!GoneOK, Pam!TheirsKept, Pam!RemovedIsGone,
     Pam!LinesHaveHelper, Pam!Removing, Pam!At, Pam!To, Pam!Text, Pam!Runs, Pam!Lines,
     Pam!NoFile, Pam!NoRun, Pam!Unmarked, Pam!hostVars, Pam!recordVars, Pam!placeVars
<1>3. Pam!ReadOK'
  BY DEF Pam!Backup, Pam!PamInv, Pam!PamShapesOK, Pam!FreshOK, Pam!SaysOK, Pam!ReadOK,
     Pam!HelperOK, Pam!CopyOK, Pam!GoneOK, Pam!TheirsKept, Pam!RemovedIsGone,
     Pam!LinesHaveHelper, Pam!Removing, Pam!At, Pam!To, Pam!Text, Pam!Runs, Pam!Lines,
     Pam!NoFile, Pam!NoRun, Pam!Unmarked, Pam!hostVars, Pam!recordVars, Pam!placeVars
<1>4. Pam!HelperOK'
  BY DEF Pam!Backup, Pam!PamInv, Pam!PamShapesOK, Pam!FreshOK, Pam!SaysOK, Pam!ReadOK,
     Pam!HelperOK, Pam!CopyOK, Pam!GoneOK, Pam!TheirsKept, Pam!RemovedIsGone,
     Pam!LinesHaveHelper, Pam!Removing, Pam!At, Pam!To, Pam!Text, Pam!Runs, Pam!Lines,
     Pam!NoFile, Pam!NoRun, Pam!Unmarked, Pam!hostVars, Pam!recordVars, Pam!placeVars
<1>5. Pam!CopyOK'
  BY DEF Pam!Backup, Pam!PamInv, Pam!PamShapesOK, Pam!FreshOK, Pam!SaysOK, Pam!ReadOK,
     Pam!HelperOK, Pam!CopyOK, Pam!GoneOK, Pam!TheirsKept, Pam!RemovedIsGone,
     Pam!LinesHaveHelper, Pam!Removing, Pam!At, Pam!To, Pam!Text, Pam!Runs, Pam!Lines,
     Pam!NoFile, Pam!NoRun, Pam!Unmarked, Pam!hostVars, Pam!recordVars, Pam!placeVars
<1>6. Pam!GoneOK'
  BY DEF Pam!Backup, Pam!PamInv, Pam!PamShapesOK, Pam!FreshOK, Pam!SaysOK, Pam!ReadOK,
     Pam!HelperOK, Pam!CopyOK, Pam!GoneOK, Pam!TheirsKept, Pam!RemovedIsGone,
     Pam!LinesHaveHelper, Pam!Removing, Pam!At, Pam!To, Pam!Text, Pam!Runs, Pam!Lines,
     Pam!NoFile, Pam!NoRun, Pam!Unmarked, Pam!hostVars, Pam!recordVars, Pam!placeVars
<1>7. Pam!TheirsKept'
  BY DEF Pam!Backup, Pam!PamInv, Pam!PamShapesOK, Pam!FreshOK, Pam!SaysOK, Pam!ReadOK,
     Pam!HelperOK, Pam!CopyOK, Pam!GoneOK, Pam!TheirsKept, Pam!RemovedIsGone,
     Pam!LinesHaveHelper, Pam!Removing, Pam!At, Pam!To, Pam!Text, Pam!Runs, Pam!Lines,
     Pam!NoFile, Pam!NoRun, Pam!Unmarked, Pam!hostVars, Pam!recordVars, Pam!placeVars
<1>8. Pam!RemovedIsGone'
  BY DEF Pam!Backup, Pam!PamInv, Pam!PamShapesOK, Pam!FreshOK, Pam!SaysOK, Pam!ReadOK,
     Pam!HelperOK, Pam!CopyOK, Pam!GoneOK, Pam!TheirsKept, Pam!RemovedIsGone,
     Pam!LinesHaveHelper, Pam!Removing, Pam!At, Pam!To, Pam!Text, Pam!Runs, Pam!Lines,
     Pam!NoFile, Pam!NoRun, Pam!Unmarked, Pam!hostVars, Pam!recordVars, Pam!placeVars
<1>9. Pam!LinesHaveHelper'
  BY DEF Pam!Backup, Pam!PamInv, Pam!PamShapesOK, Pam!FreshOK, Pam!SaysOK, Pam!ReadOK,
     Pam!HelperOK, Pam!CopyOK, Pam!GoneOK, Pam!TheirsKept, Pam!RemovedIsGone,
     Pam!LinesHaveHelper, Pam!Removing, Pam!At, Pam!To, Pam!Text, Pam!Runs, Pam!Lines,
     Pam!NoFile, Pam!NoRun, Pam!Unmarked, Pam!hostVars, Pam!recordVars, Pam!placeVars
<1>10. Pam!SaysOK'
  BY DEF Pam!Backup, Pam!PamInv, Pam!PamShapesOK, Pam!FreshOK, Pam!SaysOK, Pam!ReadOK,
     Pam!HelperOK, Pam!CopyOK, Pam!GoneOK, Pam!TheirsKept, Pam!RemovedIsGone,
     Pam!LinesHaveHelper, Pam!Removing, Pam!At, Pam!To, Pam!Text, Pam!Runs, Pam!Lines,
     Pam!NoFile, Pam!NoRun, Pam!Unmarked, Pam!hostVars, Pam!recordVars, Pam!placeVars
<1> QED BY <1>10, <1>1, <1>2, <1>3, <1>4, <1>5, <1>6, <1>7, <1>8, <1>9 DEF Pam!PamInv

LEMMA PamSeed ==
  ASSUME Pam!PamInv, Pam!Seed
  PROVE  Pam!PamInv'
<1>1. CASE x2 # Pam!NoFile
  <2>1. x9' = [x9 EXCEPT !.at = "read"] /\ UNCHANGED x2
    BY <1>1 DEF Pam!Seed, Pam!To
  <2>2. x9' \in Pam!Runs
    BY <2>1 DEF Pam!PamInv, Pam!PamShapesOK, Pam!Runs
  <2> QED BY <1>1, <2>1, <2>2 DEF Pam!Seed, Pam!NoRun, Pam!PamInv, Pam!PamShapesOK,
     Pam!FreshOK, Pam!SaysOK, Pam!ReadOK, Pam!HelperOK, Pam!CopyOK, Pam!GoneOK,
     Pam!TheirsKept, Pam!RemovedIsGone, Pam!LinesHaveHelper, Pam!Removing, Pam!At,
     Pam!hostVars, Pam!recordVars, Pam!placeVars
<1>2. CASE x2 = Pam!NoFile
  <2>a. x2' = [says |-> x1, line |-> "none"] /\ x2' # Pam!NoFile
    BY <1>2 DEF Pam!Seed, Pam!NoFile, Pam!PamInv, Pam!FreshOK
  <2>b. /\ x9'.op = "install" /\ x9'.at = "digest" /\ x9'.text = x2' /\ x9 # Pam!NoRun /\ x9' # Pam!NoRun
    <3>1. x9' = [x9 EXCEPT !.at = "digest", !.text = x2']
      BY <1>2 DEF Pam!Seed, Pam!NoFile
    <3>2. x9.op = "install"
      BY DEF Pam!Seed, Pam!At
    <3>3. x9'.op = x9.op /\ x9'.at = "digest"
      BY <3>1
    <3>4. x9'.text = x2'
      BY <3>1 DEF Pam!PamInv, Pam!PamShapesOK, Pam!Runs
    <3> QED BY <3>2, <3>3, <3>4 DEF Pam!NoRun
  <2>1. Pam!PamShapesOK'
    BY <1>2, <2>a, <2>b DEF Pam!Seed, Pam!NoFile, Pam!NoRun, Pam!Text, Pam!Runs, Pam!Lines,
       Pam!PamInv, Pam!PamShapesOK, Pam!FreshOK, Pam!SaysOK, Pam!ReadOK, Pam!HelperOK,
       Pam!CopyOK, Pam!GoneOK, Pam!TheirsKept, Pam!RemovedIsGone, Pam!LinesHaveHelper,
       Pam!Removing, Pam!At, Pam!hostVars, Pam!recordVars, Pam!placeVars
  <2>2. Pam!FreshOK'
    BY <1>2, <2>a, <2>b DEF Pam!Seed, Pam!NoFile, Pam!NoRun, Pam!Text, Pam!Runs, Pam!Lines,
       Pam!PamInv, Pam!PamShapesOK, Pam!FreshOK, Pam!SaysOK, Pam!ReadOK, Pam!HelperOK,
       Pam!CopyOK, Pam!GoneOK, Pam!TheirsKept, Pam!RemovedIsGone, Pam!LinesHaveHelper,
       Pam!Removing, Pam!At, Pam!hostVars, Pam!recordVars, Pam!placeVars
  <2>3. Pam!SaysOK'
    BY <1>2, <2>a, <2>b DEF Pam!Seed, Pam!NoFile, Pam!NoRun, Pam!Text, Pam!Runs, Pam!Lines,
       Pam!PamInv, Pam!PamShapesOK, Pam!FreshOK, Pam!SaysOK, Pam!ReadOK, Pam!HelperOK,
       Pam!CopyOK, Pam!GoneOK, Pam!TheirsKept, Pam!RemovedIsGone, Pam!LinesHaveHelper,
       Pam!Removing, Pam!At, Pam!hostVars, Pam!recordVars, Pam!placeVars
  <2>4. Pam!ReadOK'
    BY <1>2, <2>a, <2>b DEF Pam!Seed, Pam!NoFile, Pam!NoRun, Pam!Text, Pam!Runs, Pam!Lines,
       Pam!PamInv, Pam!PamShapesOK, Pam!FreshOK, Pam!SaysOK, Pam!ReadOK, Pam!HelperOK,
       Pam!CopyOK, Pam!GoneOK, Pam!TheirsKept, Pam!RemovedIsGone, Pam!LinesHaveHelper,
       Pam!Removing, Pam!At, Pam!hostVars, Pam!recordVars, Pam!placeVars
  <2>5. Pam!HelperOK'
    BY <1>2, <2>a, <2>b DEF Pam!Seed, Pam!NoFile, Pam!NoRun, Pam!Text, Pam!Runs, Pam!Lines,
       Pam!PamInv, Pam!PamShapesOK, Pam!FreshOK, Pam!SaysOK, Pam!ReadOK, Pam!HelperOK,
       Pam!CopyOK, Pam!GoneOK, Pam!TheirsKept, Pam!RemovedIsGone, Pam!LinesHaveHelper,
       Pam!Removing, Pam!At, Pam!hostVars, Pam!recordVars, Pam!placeVars
  <2>6. Pam!CopyOK'
    BY <1>2, <2>a, <2>b DEF Pam!Seed, Pam!NoFile, Pam!NoRun, Pam!Text, Pam!Runs, Pam!Lines,
       Pam!PamInv, Pam!PamShapesOK, Pam!FreshOK, Pam!SaysOK, Pam!ReadOK, Pam!HelperOK,
       Pam!CopyOK, Pam!GoneOK, Pam!TheirsKept, Pam!RemovedIsGone, Pam!LinesHaveHelper,
       Pam!Removing, Pam!At, Pam!hostVars, Pam!recordVars, Pam!placeVars
  <2>7. Pam!GoneOK'
    BY <1>2, <2>a, <2>b DEF Pam!Seed, Pam!NoFile, Pam!NoRun, Pam!Text, Pam!Runs, Pam!Lines,
       Pam!PamInv, Pam!PamShapesOK, Pam!FreshOK, Pam!SaysOK, Pam!ReadOK, Pam!HelperOK,
       Pam!CopyOK, Pam!GoneOK, Pam!TheirsKept, Pam!RemovedIsGone, Pam!LinesHaveHelper,
       Pam!Removing, Pam!At, Pam!hostVars, Pam!recordVars, Pam!placeVars
  <2>8. Pam!TheirsKept'
    BY <1>2, <2>a, <2>b DEF Pam!Seed, Pam!NoFile, Pam!NoRun, Pam!Text, Pam!Runs, Pam!Lines,
       Pam!PamInv, Pam!PamShapesOK, Pam!FreshOK, Pam!SaysOK, Pam!ReadOK, Pam!HelperOK,
       Pam!CopyOK, Pam!GoneOK, Pam!TheirsKept, Pam!RemovedIsGone, Pam!LinesHaveHelper,
       Pam!Removing, Pam!At, Pam!hostVars, Pam!recordVars, Pam!placeVars
  <2>9. Pam!RemovedIsGone'
    BY <1>2, <2>a, <2>b DEF Pam!Seed, Pam!NoFile, Pam!NoRun, Pam!Text, Pam!Runs, Pam!Lines,
       Pam!PamInv, Pam!PamShapesOK, Pam!FreshOK, Pam!SaysOK, Pam!ReadOK, Pam!HelperOK,
       Pam!CopyOK, Pam!GoneOK, Pam!TheirsKept, Pam!RemovedIsGone, Pam!LinesHaveHelper,
       Pam!Removing, Pam!At, Pam!hostVars, Pam!recordVars, Pam!placeVars
  <2>10. Pam!LinesHaveHelper'
    BY <1>2, <2>a, <2>b DEF Pam!Seed, Pam!NoFile, Pam!NoRun, Pam!Text, Pam!Runs, Pam!Lines,
       Pam!PamInv, Pam!PamShapesOK, Pam!FreshOK, Pam!SaysOK, Pam!ReadOK, Pam!HelperOK,
       Pam!CopyOK, Pam!GoneOK, Pam!TheirsKept, Pam!RemovedIsGone, Pam!LinesHaveHelper,
       Pam!Removing, Pam!At, Pam!hostVars, Pam!recordVars, Pam!placeVars
  <2> QED BY <2>1, <2>2, <2>3, <2>4, <2>5, <2>6, <2>7, <2>8, <2>9, <2>10 DEF Pam!PamInv
<1> QED BY <1>1, <1>2

LEMMA PamDigest ==
  ASSUME Pam!PamInv, Pam!Digest
  PROVE  Pam!PamInv'
<1>1. Pam!PamShapesOK'
  BY DEF Pam!Digest, Pam!PamInv, Pam!PamShapesOK, Pam!FreshOK, Pam!SaysOK, Pam!ReadOK,
     Pam!HelperOK, Pam!CopyOK, Pam!GoneOK, Pam!TheirsKept, Pam!RemovedIsGone,
     Pam!LinesHaveHelper, Pam!Removing, Pam!At, Pam!To, Pam!Text, Pam!Runs, Pam!Lines,
     Pam!NoFile, Pam!NoRun, Pam!Unmarked, Pam!hostVars, Pam!recordVars, Pam!placeVars
<1>2. Pam!FreshOK'
  BY DEF Pam!Digest, Pam!PamInv, Pam!PamShapesOK, Pam!FreshOK, Pam!SaysOK, Pam!ReadOK,
     Pam!HelperOK, Pam!CopyOK, Pam!GoneOK, Pam!TheirsKept, Pam!RemovedIsGone,
     Pam!LinesHaveHelper, Pam!Removing, Pam!At, Pam!To, Pam!Text, Pam!Runs, Pam!Lines,
     Pam!NoFile, Pam!NoRun, Pam!Unmarked, Pam!hostVars, Pam!recordVars, Pam!placeVars
<1>3. Pam!ReadOK'
  BY DEF Pam!Digest, Pam!PamInv, Pam!PamShapesOK, Pam!FreshOK, Pam!SaysOK, Pam!ReadOK,
     Pam!HelperOK, Pam!CopyOK, Pam!GoneOK, Pam!TheirsKept, Pam!RemovedIsGone,
     Pam!LinesHaveHelper, Pam!Removing, Pam!At, Pam!To, Pam!Text, Pam!Runs, Pam!Lines,
     Pam!NoFile, Pam!NoRun, Pam!Unmarked, Pam!hostVars, Pam!recordVars, Pam!placeVars
<1>4. Pam!HelperOK'
  BY DEF Pam!Digest, Pam!PamInv, Pam!PamShapesOK, Pam!FreshOK, Pam!SaysOK, Pam!ReadOK,
     Pam!HelperOK, Pam!CopyOK, Pam!GoneOK, Pam!TheirsKept, Pam!RemovedIsGone,
     Pam!LinesHaveHelper, Pam!Removing, Pam!At, Pam!To, Pam!Text, Pam!Runs, Pam!Lines,
     Pam!NoFile, Pam!NoRun, Pam!Unmarked, Pam!hostVars, Pam!recordVars, Pam!placeVars
<1>5. Pam!CopyOK'
  BY DEF Pam!Digest, Pam!PamInv, Pam!PamShapesOK, Pam!FreshOK, Pam!SaysOK, Pam!ReadOK,
     Pam!HelperOK, Pam!CopyOK, Pam!GoneOK, Pam!TheirsKept, Pam!RemovedIsGone,
     Pam!LinesHaveHelper, Pam!Removing, Pam!At, Pam!To, Pam!Text, Pam!Runs, Pam!Lines,
     Pam!NoFile, Pam!NoRun, Pam!Unmarked, Pam!hostVars, Pam!recordVars, Pam!placeVars
<1>6. Pam!GoneOK'
  BY DEF Pam!Digest, Pam!PamInv, Pam!PamShapesOK, Pam!FreshOK, Pam!SaysOK, Pam!ReadOK,
     Pam!HelperOK, Pam!CopyOK, Pam!GoneOK, Pam!TheirsKept, Pam!RemovedIsGone,
     Pam!LinesHaveHelper, Pam!Removing, Pam!At, Pam!To, Pam!Text, Pam!Runs, Pam!Lines,
     Pam!NoFile, Pam!NoRun, Pam!Unmarked, Pam!hostVars, Pam!recordVars, Pam!placeVars
<1>7. Pam!TheirsKept'
  BY DEF Pam!Digest, Pam!PamInv, Pam!PamShapesOK, Pam!FreshOK, Pam!SaysOK, Pam!ReadOK,
     Pam!HelperOK, Pam!CopyOK, Pam!GoneOK, Pam!TheirsKept, Pam!RemovedIsGone,
     Pam!LinesHaveHelper, Pam!Removing, Pam!At, Pam!To, Pam!Text, Pam!Runs, Pam!Lines,
     Pam!NoFile, Pam!NoRun, Pam!Unmarked, Pam!hostVars, Pam!recordVars, Pam!placeVars
<1>8. Pam!RemovedIsGone'
  BY DEF Pam!Digest, Pam!PamInv, Pam!PamShapesOK, Pam!FreshOK, Pam!SaysOK, Pam!ReadOK,
     Pam!HelperOK, Pam!CopyOK, Pam!GoneOK, Pam!TheirsKept, Pam!RemovedIsGone,
     Pam!LinesHaveHelper, Pam!Removing, Pam!At, Pam!To, Pam!Text, Pam!Runs, Pam!Lines,
     Pam!NoFile, Pam!NoRun, Pam!Unmarked, Pam!hostVars, Pam!recordVars, Pam!placeVars
<1>9. Pam!LinesHaveHelper'
  BY DEF Pam!Digest, Pam!PamInv, Pam!PamShapesOK, Pam!FreshOK, Pam!SaysOK, Pam!ReadOK,
     Pam!HelperOK, Pam!CopyOK, Pam!GoneOK, Pam!TheirsKept, Pam!RemovedIsGone,
     Pam!LinesHaveHelper, Pam!Removing, Pam!At, Pam!To, Pam!Text, Pam!Runs, Pam!Lines,
     Pam!NoFile, Pam!NoRun, Pam!Unmarked, Pam!hostVars, Pam!recordVars, Pam!placeVars
<1>10. Pam!SaysOK'
  BY DEF Pam!Digest, Pam!PamInv, Pam!PamShapesOK, Pam!FreshOK, Pam!SaysOK, Pam!ReadOK,
     Pam!HelperOK, Pam!CopyOK, Pam!GoneOK, Pam!TheirsKept, Pam!RemovedIsGone,
     Pam!LinesHaveHelper, Pam!Removing, Pam!At, Pam!To, Pam!Text, Pam!Runs, Pam!Lines,
     Pam!NoFile, Pam!NoRun, Pam!Unmarked, Pam!hostVars, Pam!recordVars, Pam!placeVars
<1> QED BY <1>10, <1>1, <1>2, <1>3, <1>4, <1>5, <1>6, <1>7, <1>8, <1>9 DEF Pam!PamInv

LEMMA PamReadFile ==
  ASSUME Pam!PamInv, Pam!ReadFile
  PROVE  Pam!PamInv'
<1>1. x9' = [x9 EXCEPT !.at = "write", !.text = x2]
  BY DEF Pam!ReadFile
<1>2. x9' \in Pam!Runs
  BY <1>1 DEF Pam!PamInv, Pam!PamShapesOK, Pam!Runs
<1>3. x9'.op = x9.op /\ x9'.at = "write" /\ x9'.text = x2
  BY <1>1 DEF Pam!PamInv, Pam!PamShapesOK, Pam!Runs
<1>4. x9 # Pam!NoRun /\ x9' # Pam!NoRun /\ x9.op # "none"
  <2>1. x9 # Pam!NoRun
    BY DEF Pam!ReadFile, Pam!NoRun
  <2>2. x9' # Pam!NoRun
    BY <1>3 DEF Pam!NoRun
  <2> QED BY <2>1, <2>2 DEF Pam!PamInv, Pam!PamShapesOK
<1> QED BY <1>2, <1>3, <1>4 DEF Pam!ReadFile, Pam!PamInv, Pam!PamShapesOK, Pam!FreshOK,
   Pam!SaysOK, Pam!ReadOK, Pam!HelperOK, Pam!CopyOK, Pam!GoneOK, Pam!TheirsKept,
   Pam!RemovedIsGone, Pam!LinesHaveHelper, Pam!Removing, Pam!At, Pam!hostVars, Pam!recordVars,
   Pam!placeVars

LEMMA PamInsert ==
  ASSUME Pam!PamInv, Pam!Insert
  PROVE  Pam!PamInv'
  BY DEF Pam!Insert, Pam!PamInv, Pam!PamShapesOK, Pam!FreshOK, Pam!SaysOK, Pam!ReadOK,
     Pam!HelperOK, Pam!CopyOK, Pam!GoneOK, Pam!TheirsKept, Pam!RemovedIsGone,
     Pam!LinesHaveHelper, Pam!Removing, Pam!At, Pam!To, Pam!Text, Pam!Runs, Pam!Lines,
     Pam!NoFile, Pam!NoRun, Pam!Unmarked, Pam!hostVars, Pam!recordVars, Pam!placeVars

LEMMA PamDropIn ==
  ASSUME Pam!PamInv, Pam!DropIn
  PROVE  Pam!PamInv'
  BY DEF Pam!DropIn, Pam!PamInv, Pam!PamShapesOK, Pam!FreshOK, Pam!SaysOK, Pam!ReadOK,
     Pam!HelperOK, Pam!CopyOK, Pam!GoneOK, Pam!TheirsKept, Pam!RemovedIsGone,
     Pam!LinesHaveHelper, Pam!Removing, Pam!At, Pam!To, Pam!Text, Pam!Runs, Pam!Lines,
     Pam!NoFile, Pam!NoRun, Pam!Unmarked, Pam!hostVars, Pam!recordVars, Pam!placeVars

LEMMA PamManifest ==
  ASSUME Pam!PamInv, Pam!Manifest
  PROVE  Pam!PamInv'
  BY DEF Pam!Manifest, Pam!PamInv, Pam!PamShapesOK, Pam!FreshOK, Pam!SaysOK, Pam!ReadOK,
     Pam!HelperOK, Pam!CopyOK, Pam!GoneOK, Pam!TheirsKept, Pam!RemovedIsGone,
     Pam!LinesHaveHelper, Pam!Removing, Pam!At, Pam!To, Pam!Text, Pam!Runs, Pam!Lines,
     Pam!NoFile, Pam!NoRun, Pam!Unmarked, Pam!hostVars, Pam!recordVars, Pam!placeVars

LEMMA PamInstall ==
  ASSUME Pam!PamInv, Pam!Install
  PROVE  Pam!PamInv'
<1>1. x9' = [op |-> "install", at |-> "helper", text |-> Pam!NoFile]
  BY DEF Pam!Install, Pam!Begin, Pam!NoRun
<1>2. /\ x9' \in Pam!Runs /\ x9'.op = "install" /\ x9'.at = "helper"
     /\ x9'.text = Pam!NoFile /\ x9' # Pam!NoRun
  BY <1>1 DEF Pam!Runs, Pam!Text, Pam!Lines, Pam!NoFile, Pam!NoRun
<1>3. x9 = Pam!NoRun /\ x10' = "none" /\ UNCHANGED <<Pam!hostVars, x2, Pam!recordVars, Pam!placeVars>>
  BY DEF Pam!Install, Pam!Begin
<1> QED BY <1>2, <1>3 DEF Pam!NoRun, Pam!PamInv, Pam!PamShapesOK, Pam!FreshOK, Pam!SaysOK,
   Pam!ReadOK, Pam!HelperOK, Pam!CopyOK, Pam!GoneOK, Pam!TheirsKept, Pam!RemovedIsGone,
   Pam!LinesHaveHelper, Pam!Removing, Pam!At, Pam!hostVars, Pam!recordVars, Pam!placeVars

LEMMA PamRemove ==
  ASSUME Pam!PamInv, Pam!Remove
  PROVE  Pam!PamInv'
<1>1. \E first \in {"read", "dropin"} : x9' = [op |-> "remove", at |-> first, text |-> Pam!NoFile]
  BY DEF Pam!Remove, Pam!Begin, Pam!NoRun
<1>2. x9'.at = "dropin" => x2.line = "none" /\ x3 = Pam!NoFile /\ ~x4.on
  BY DEF Pam!Remove, Pam!Begin, Pam!NoRun
<1>3. /\ x9' \in Pam!Runs /\ x9'.op = "remove" /\ x9'.at \in {"read", "dropin"}
     /\ x9'.text = Pam!NoFile /\ x9' # Pam!NoRun
  BY <1>1 DEF Pam!Runs, Pam!Text, Pam!Lines, Pam!NoFile, Pam!NoRun
<1>4. x9 = Pam!NoRun /\ x10' = "none" /\ UNCHANGED <<Pam!hostVars, x2, Pam!recordVars, Pam!placeVars>>
  BY DEF Pam!Remove, Pam!Begin
<1> QED BY <1>2, <1>3, <1>4 DEF Pam!NoRun, Pam!PamInv, Pam!PamShapesOK, Pam!FreshOK, Pam!SaysOK,
   Pam!ReadOK, Pam!HelperOK, Pam!CopyOK, Pam!GoneOK, Pam!TheirsKept, Pam!RemovedIsGone,
   Pam!LinesHaveHelper, Pam!Removing, Pam!At, Pam!hostVars, Pam!recordVars, Pam!placeVars

LEMMA PamStrip ==
  ASSUME Pam!PamInv, Pam!Strip
  PROVE  Pam!PamInv'
  BY DEF Pam!Strip, Pam!PamInv, Pam!PamShapesOK, Pam!FreshOK, Pam!SaysOK, Pam!ReadOK,
     Pam!HelperOK, Pam!CopyOK, Pam!GoneOK, Pam!TheirsKept, Pam!RemovedIsGone,
     Pam!LinesHaveHelper, Pam!Removing, Pam!At, Pam!To, Pam!Text, Pam!Runs, Pam!Lines,
     Pam!NoFile, Pam!NoRun, Pam!Unmarked, Pam!hostVars, Pam!recordVars, Pam!placeVars,
     Pam!OurCopy, Pam!Stripped, Pam!Conflict

LEMMA PamDropBackup ==
  ASSUME Pam!PamInv, Pam!DropBackup
  PROVE  Pam!PamInv'
  BY DEF Pam!DropBackup, Pam!PamInv, Pam!PamShapesOK, Pam!FreshOK, Pam!SaysOK, Pam!ReadOK,
     Pam!HelperOK, Pam!CopyOK, Pam!GoneOK, Pam!TheirsKept, Pam!RemovedIsGone,
     Pam!LinesHaveHelper, Pam!Removing, Pam!At, Pam!To, Pam!Text, Pam!Runs, Pam!Lines,
     Pam!NoFile, Pam!NoRun, Pam!Unmarked, Pam!hostVars, Pam!recordVars, Pam!placeVars

LEMMA PamDropMarker ==
  ASSUME Pam!PamInv, Pam!DropMarker
  PROVE  Pam!PamInv'
  BY DEF Pam!DropMarker, Pam!PamInv, Pam!PamShapesOK, Pam!FreshOK, Pam!SaysOK, Pam!ReadOK,
     Pam!HelperOK, Pam!CopyOK, Pam!GoneOK, Pam!TheirsKept, Pam!RemovedIsGone,
     Pam!LinesHaveHelper, Pam!Removing, Pam!At, Pam!To, Pam!Text, Pam!Runs, Pam!Lines,
     Pam!NoFile, Pam!NoRun, Pam!Unmarked, Pam!hostVars, Pam!recordVars, Pam!placeVars

LEMMA PamRemoveDropIn ==
  ASSUME Pam!PamInv, Pam!RemoveDropIn
  PROVE  Pam!PamInv'
  BY DEF Pam!RemoveDropIn, Pam!PamInv, Pam!PamShapesOK, Pam!FreshOK, Pam!SaysOK, Pam!ReadOK,
     Pam!HelperOK, Pam!CopyOK, Pam!GoneOK, Pam!TheirsKept, Pam!RemovedIsGone,
     Pam!LinesHaveHelper, Pam!Removing, Pam!At, Pam!To, Pam!Text, Pam!Runs, Pam!Lines,
     Pam!NoFile, Pam!NoRun, Pam!Unmarked, Pam!hostVars, Pam!recordVars, Pam!placeVars

LEMMA PamRemoveKeys ==
  ASSUME Pam!PamInv, Pam!RemoveKeys
  PROVE  Pam!PamInv'
  BY DEF Pam!RemoveKeys, Pam!PamInv, Pam!PamShapesOK, Pam!FreshOK, Pam!SaysOK, Pam!ReadOK,
     Pam!HelperOK, Pam!CopyOK, Pam!GoneOK, Pam!TheirsKept, Pam!RemovedIsGone,
     Pam!LinesHaveHelper, Pam!Removing, Pam!At, Pam!To, Pam!Text, Pam!Runs, Pam!Lines,
     Pam!NoFile, Pam!NoRun, Pam!Unmarked, Pam!hostVars, Pam!recordVars, Pam!placeVars

LEMMA PamRemoveHelper ==
  ASSUME Pam!PamInv, Pam!RemoveHelper
  PROVE  Pam!PamInv'
  BY DEF Pam!RemoveHelper, Pam!PamInv, Pam!PamShapesOK, Pam!FreshOK, Pam!SaysOK, Pam!ReadOK,
     Pam!HelperOK, Pam!CopyOK, Pam!GoneOK, Pam!TheirsKept, Pam!RemovedIsGone,
     Pam!LinesHaveHelper, Pam!Removing, Pam!At, Pam!To, Pam!Text, Pam!Runs, Pam!Lines,
     Pam!NoFile, Pam!NoRun, Pam!Unmarked, Pam!hostVars, Pam!recordVars, Pam!placeVars

LEMMA PamRemoveManifest ==
  ASSUME Pam!PamInv, Pam!RemoveManifest
  PROVE  Pam!PamInv'
<1>1. Pam!PamShapesOK'
  BY DEF Pam!RemoveManifest, Pam!PamInv, Pam!PamShapesOK, Pam!FreshOK, Pam!SaysOK, Pam!ReadOK,
     Pam!HelperOK, Pam!CopyOK, Pam!GoneOK, Pam!TheirsKept, Pam!RemovedIsGone,
     Pam!LinesHaveHelper, Pam!Removing, Pam!At, Pam!To, Pam!Text, Pam!Runs, Pam!Lines,
     Pam!NoFile, Pam!NoRun, Pam!Unmarked, Pam!hostVars, Pam!recordVars, Pam!placeVars
<1>2. Pam!FreshOK'
  BY DEF Pam!RemoveManifest, Pam!PamInv, Pam!PamShapesOK, Pam!FreshOK, Pam!SaysOK, Pam!ReadOK,
     Pam!HelperOK, Pam!CopyOK, Pam!GoneOK, Pam!TheirsKept, Pam!RemovedIsGone,
     Pam!LinesHaveHelper, Pam!Removing, Pam!At, Pam!To, Pam!Text, Pam!Runs, Pam!Lines,
     Pam!NoFile, Pam!NoRun, Pam!Unmarked, Pam!hostVars, Pam!recordVars, Pam!placeVars
<1>3. Pam!ReadOK'
  BY DEF Pam!RemoveManifest, Pam!PamInv, Pam!PamShapesOK, Pam!FreshOK, Pam!SaysOK, Pam!ReadOK,
     Pam!HelperOK, Pam!CopyOK, Pam!GoneOK, Pam!TheirsKept, Pam!RemovedIsGone,
     Pam!LinesHaveHelper, Pam!Removing, Pam!At, Pam!To, Pam!Text, Pam!Runs, Pam!Lines,
     Pam!NoFile, Pam!NoRun, Pam!Unmarked, Pam!hostVars, Pam!recordVars, Pam!placeVars
<1>4. Pam!HelperOK'
  BY DEF Pam!RemoveManifest, Pam!PamInv, Pam!PamShapesOK, Pam!FreshOK, Pam!SaysOK, Pam!ReadOK,
     Pam!HelperOK, Pam!CopyOK, Pam!GoneOK, Pam!TheirsKept, Pam!RemovedIsGone,
     Pam!LinesHaveHelper, Pam!Removing, Pam!At, Pam!To, Pam!Text, Pam!Runs, Pam!Lines,
     Pam!NoFile, Pam!NoRun, Pam!Unmarked, Pam!hostVars, Pam!recordVars, Pam!placeVars
<1>5. Pam!CopyOK'
  BY DEF Pam!RemoveManifest, Pam!PamInv, Pam!PamShapesOK, Pam!FreshOK, Pam!SaysOK, Pam!ReadOK,
     Pam!HelperOK, Pam!CopyOK, Pam!GoneOK, Pam!TheirsKept, Pam!RemovedIsGone,
     Pam!LinesHaveHelper, Pam!Removing, Pam!At, Pam!To, Pam!Text, Pam!Runs, Pam!Lines,
     Pam!NoFile, Pam!NoRun, Pam!Unmarked, Pam!hostVars, Pam!recordVars, Pam!placeVars
<1>6. Pam!GoneOK'
  BY DEF Pam!RemoveManifest, Pam!PamInv, Pam!PamShapesOK, Pam!FreshOK, Pam!SaysOK, Pam!ReadOK,
     Pam!HelperOK, Pam!CopyOK, Pam!GoneOK, Pam!TheirsKept, Pam!RemovedIsGone,
     Pam!LinesHaveHelper, Pam!Removing, Pam!At, Pam!To, Pam!Text, Pam!Runs, Pam!Lines,
     Pam!NoFile, Pam!NoRun, Pam!Unmarked, Pam!hostVars, Pam!recordVars, Pam!placeVars
<1>7. Pam!TheirsKept'
  BY DEF Pam!RemoveManifest, Pam!PamInv, Pam!PamShapesOK, Pam!FreshOK, Pam!SaysOK, Pam!ReadOK,
     Pam!HelperOK, Pam!CopyOK, Pam!GoneOK, Pam!TheirsKept, Pam!RemovedIsGone,
     Pam!LinesHaveHelper, Pam!Removing, Pam!At, Pam!To, Pam!Text, Pam!Runs, Pam!Lines,
     Pam!NoFile, Pam!NoRun, Pam!Unmarked, Pam!hostVars, Pam!recordVars, Pam!placeVars
<1>8. Pam!RemovedIsGone'
  BY DEF Pam!RemoveManifest, Pam!PamInv, Pam!PamShapesOK, Pam!FreshOK, Pam!SaysOK, Pam!ReadOK,
     Pam!HelperOK, Pam!CopyOK, Pam!GoneOK, Pam!TheirsKept, Pam!RemovedIsGone,
     Pam!LinesHaveHelper, Pam!Removing, Pam!At, Pam!To, Pam!Text, Pam!Runs, Pam!Lines,
     Pam!NoFile, Pam!NoRun, Pam!Unmarked, Pam!hostVars, Pam!recordVars, Pam!placeVars
<1>9. Pam!LinesHaveHelper'
  BY DEF Pam!RemoveManifest, Pam!PamInv, Pam!PamShapesOK, Pam!FreshOK, Pam!SaysOK, Pam!ReadOK,
     Pam!HelperOK, Pam!CopyOK, Pam!GoneOK, Pam!TheirsKept, Pam!RemovedIsGone,
     Pam!LinesHaveHelper, Pam!Removing, Pam!At, Pam!To, Pam!Text, Pam!Runs, Pam!Lines,
     Pam!NoFile, Pam!NoRun, Pam!Unmarked, Pam!hostVars, Pam!recordVars, Pam!placeVars
<1>10. Pam!SaysOK'
  BY DEF Pam!RemoveManifest, Pam!PamInv, Pam!PamShapesOK, Pam!FreshOK, Pam!SaysOK, Pam!ReadOK,
     Pam!HelperOK, Pam!CopyOK, Pam!GoneOK, Pam!TheirsKept, Pam!RemovedIsGone,
     Pam!LinesHaveHelper, Pam!Removing, Pam!At, Pam!To, Pam!Text, Pam!Runs, Pam!Lines,
     Pam!NoFile, Pam!NoRun, Pam!Unmarked, Pam!hostVars, Pam!recordVars, Pam!placeVars
<1> QED BY <1>10, <1>1, <1>2, <1>3, <1>4, <1>5, <1>6, <1>7, <1>8, <1>9 DEF Pam!PamInv

LEMMA PamKilled ==
  ASSUME Pam!PamInv, Pam!Killed
  PROVE  Pam!PamInv'
  BY DEF Pam!Killed, Pam!PamInv, Pam!PamShapesOK, Pam!FreshOK, Pam!SaysOK, Pam!ReadOK,
     Pam!HelperOK, Pam!CopyOK, Pam!GoneOK, Pam!TheirsKept, Pam!RemovedIsGone,
     Pam!LinesHaveHelper, Pam!Removing, Pam!At, Pam!To, Pam!Text, Pam!Runs, Pam!Lines,
     Pam!NoFile, Pam!NoRun, Pam!Unmarked, Pam!hostVars, Pam!recordVars, Pam!placeVars

LEMMA PamStutter ==
  ASSUME Pam!PamInv, UNCHANGED Pam!pamVars
  PROVE  Pam!PamInv'
  BY DEF Pam!pamVars, Pam!PamInv, Pam!PamShapesOK, Pam!FreshOK, Pam!SaysOK, Pam!ReadOK,
     Pam!HelperOK, Pam!CopyOK, Pam!GoneOK, Pam!TheirsKept, Pam!RemovedIsGone,
     Pam!LinesHaveHelper, Pam!Removing, Pam!At

LEMMA PamNext ==
  ASSUME Pam!PamInv, Pam!Next
  PROVE  Pam!PamInv'
  BY PamEdits, PamUpdate, PamEnrols, PamWriteHelper, PamBackup, PamSeed, PamDigest,
     PamReadFile, PamInsert, PamDropIn, PamManifest, PamInstall, PamRemove, PamStrip,
     PamDropBackup, PamDropMarker, PamRemoveDropIn, PamRemoveKeys, PamRemoveHelper,
     PamRemoveManifest, PamKilled DEF Pam!Next

-----------------------------------------------------------------------------
(* The files shared with a person: each step keeps FileInv. *)

LEMMA FileInit == File!Init => File!FileInv
<1> SUFFICES ASSUME File!Init PROVE File!FileInv
  OBVIOUS
<1>1. File!FileShapesOK
  BY DEF File!Init, File!FileInv, File!FileShapesOK, File!SeenOK, File!LeftOK,
     File!PersonsFileStays, File!AppsKept, File!PamNeedsSources, File!RemovedIsComplete,
     File!Places, File!Reads, File!At, File!To, File!Ends, File!NoRun, File!NoApps,
     File!placeVars, File!appVars, File!grantVars, File!boundVars
<1>2. File!SeenOK
  BY DEF File!Init, File!FileInv, File!FileShapesOK, File!SeenOK, File!LeftOK,
     File!PersonsFileStays, File!AppsKept, File!PamNeedsSources, File!RemovedIsComplete,
     File!Places, File!Reads, File!At, File!To, File!Ends, File!NoRun, File!NoApps,
     File!placeVars, File!appVars, File!grantVars, File!boundVars
<1>3. File!LeftOK
  BY DEF File!Init, File!FileInv, File!FileShapesOK, File!SeenOK, File!LeftOK,
     File!PersonsFileStays, File!AppsKept, File!PamNeedsSources, File!RemovedIsComplete,
     File!Places, File!Reads, File!At, File!To, File!Ends, File!NoRun, File!NoApps,
     File!placeVars, File!appVars, File!grantVars, File!boundVars
<1>4. File!PersonsFileStays
  BY DEF File!Init, File!FileInv, File!FileShapesOK, File!SeenOK, File!LeftOK,
     File!PersonsFileStays, File!AppsKept, File!PamNeedsSources, File!RemovedIsComplete,
     File!Places, File!Reads, File!At, File!To, File!Ends, File!NoRun, File!NoApps,
     File!placeVars, File!appVars, File!grantVars, File!boundVars
<1>5. File!AppsKept
  BY DEF File!Init, File!FileInv, File!FileShapesOK, File!SeenOK, File!LeftOK,
     File!PersonsFileStays, File!AppsKept, File!PamNeedsSources, File!RemovedIsComplete,
     File!Places, File!Reads, File!At, File!To, File!Ends, File!NoRun, File!NoApps,
     File!placeVars, File!appVars, File!grantVars, File!boundVars
<1>6. File!PamNeedsSources
  BY DEF File!Init, File!FileInv, File!FileShapesOK, File!SeenOK, File!LeftOK,
     File!PersonsFileStays, File!AppsKept, File!PamNeedsSources, File!RemovedIsComplete,
     File!Places, File!Reads, File!At, File!To, File!Ends, File!NoRun, File!NoApps,
     File!placeVars, File!appVars, File!grantVars, File!boundVars
<1>7. File!RemovedIsComplete
  BY DEF File!Init, File!FileInv, File!FileShapesOK, File!SeenOK, File!LeftOK,
     File!PersonsFileStays, File!AppsKept, File!PamNeedsSources, File!RemovedIsComplete,
     File!Places, File!Reads, File!At, File!To, File!Ends, File!NoRun, File!NoApps,
     File!placeVars, File!appVars, File!grantVars, File!boundVars
<1> QED BY <1>1, <1>2, <1>3, <1>4, <1>5, <1>6, <1>7 DEF File!FileInv

LEMMA FilePerson ==
  ASSUME File!FileInv, NEW p \in File!Places, File!Person(p)
  PROVE  File!FileInv'
<1>1. File!FileShapesOK'
  BY DEF File!Person, File!FileInv, File!FileShapesOK, File!SeenOK, File!LeftOK,
     File!PersonsFileStays, File!AppsKept, File!PamNeedsSources, File!RemovedIsComplete,
     File!Places, File!Reads, File!At, File!To, File!Ends, File!NoRun, File!NoApps,
     File!placeVars, File!appVars, File!grantVars, File!boundVars
<1>2. File!SeenOK'
  BY DEF File!Person, File!FileInv, File!FileShapesOK, File!SeenOK, File!LeftOK,
     File!PersonsFileStays, File!AppsKept, File!PamNeedsSources, File!RemovedIsComplete,
     File!Places, File!Reads, File!At, File!To, File!Ends, File!NoRun, File!NoApps,
     File!placeVars, File!appVars, File!grantVars, File!boundVars
<1>3. File!LeftOK'
  BY DEF File!Person, File!FileInv, File!FileShapesOK, File!SeenOK, File!LeftOK,
     File!PersonsFileStays, File!AppsKept, File!PamNeedsSources, File!RemovedIsComplete,
     File!Places, File!Reads, File!At, File!To, File!Ends, File!NoRun, File!NoApps,
     File!placeVars, File!appVars, File!grantVars, File!boundVars
<1>4. File!PersonsFileStays'
  BY DEF File!Person, File!FileInv, File!FileShapesOK, File!SeenOK, File!LeftOK,
     File!PersonsFileStays, File!AppsKept, File!PamNeedsSources, File!RemovedIsComplete,
     File!Places, File!Reads, File!At, File!To, File!Ends, File!NoRun, File!NoApps,
     File!placeVars, File!appVars, File!grantVars, File!boundVars
<1>5. File!AppsKept'
  BY DEF File!Person, File!FileInv, File!FileShapesOK, File!SeenOK, File!LeftOK,
     File!PersonsFileStays, File!AppsKept, File!PamNeedsSources, File!RemovedIsComplete,
     File!Places, File!Reads, File!At, File!To, File!Ends, File!NoRun, File!NoApps,
     File!placeVars, File!appVars, File!grantVars, File!boundVars
<1>6. File!PamNeedsSources'
  BY DEF File!Person, File!FileInv, File!FileShapesOK, File!SeenOK, File!LeftOK,
     File!PersonsFileStays, File!AppsKept, File!PamNeedsSources, File!RemovedIsComplete,
     File!Places, File!Reads, File!At, File!To, File!Ends, File!NoRun, File!NoApps,
     File!placeVars, File!appVars, File!grantVars, File!boundVars
<1>7. File!RemovedIsComplete'
  BY DEF File!Person, File!FileInv, File!FileShapesOK, File!SeenOK, File!LeftOK,
     File!PersonsFileStays, File!AppsKept, File!PamNeedsSources, File!RemovedIsComplete,
     File!Places, File!Reads, File!At, File!To, File!Ends, File!NoRun, File!NoApps,
     File!placeVars, File!appVars, File!grantVars, File!boundVars
<1> QED BY <1>1, <1>2, <1>3, <1>4, <1>5, <1>6, <1>7 DEF File!FileInv

LEMMA FileBegin ==
  ASSUME File!FileInv, NEW op \in {"install", "remove"}, NEW first \in {"refusal", "pam"},
         op = "remove" => first = "pam", File!Begin(op, first)
  PROVE  File!FileInv'
  BY DEF File!Begin, File!FileInv, File!FileShapesOK, File!SeenOK, File!LeftOK,
     File!PersonsFileStays, File!AppsKept, File!PamNeedsSources, File!RemovedIsComplete,
     File!Places, File!Reads, File!At, File!To, File!Ends, File!NoRun, File!NoApps,
     File!placeVars, File!appVars, File!grantVars, File!boundVars

LEMMA FileCheckUnit ==
  ASSUME File!FileInv, File!CheckPlace("unit", "write", "replace")
  PROVE  File!FileInv'
<1>1. CASE File!Replaceable("unit")
  <2>1. x13' = [x13 EXCEPT !.at = "replace"] /\ x14' = x14
    BY <1>1 DEF File!CheckPlace, File!To
  <2> QED BY <1>1, <2>1 DEF File!CheckPlace, File!Replaceable, File!Ours, File!placeVars,
     File!appVars, File!grantVars, File!boundVars, File!FileInv, File!FileShapesOK,
     File!SeenOK, File!LeftOK, File!PersonsFileStays, File!AppsKept, File!PamNeedsSources,
     File!RemovedIsComplete, File!Places, File!Reads, File!At
<1>2. CASE ~(File!Replaceable("unit"))
  <2>1. x13' = File!NoRun /\ x14' = "failed"
    BY <1>2 DEF File!CheckPlace, File!Ends
  <2> QED BY <2>1 DEF File!CheckPlace, File!NoRun, File!placeVars, File!appVars,
     File!grantVars, File!boundVars, File!FileInv, File!FileShapesOK, File!SeenOK,
     File!LeftOK, File!PersonsFileStays, File!AppsKept, File!PamNeedsSources,
     File!RemovedIsComplete, File!Places, File!Reads, File!At
<1> QED BY <1>1, <1>2

LEMMA FilePutUnit ==
  ASSUME File!FileInv, File!PutPlace("unit", "replace", "theme")
  PROVE  File!FileInv'
  BY DEF File!FileInv, File!FileShapesOK, File!SeenOK, File!LeftOK, File!PersonsFileStays,
     File!AppsKept, File!PamNeedsSources, File!RemovedIsComplete, File!Places, File!Reads,
     File!At, File!To, File!Ends, File!NoRun, File!NoApps, File!placeVars, File!appVars,
     File!grantVars, File!boundVars, File!PutPlace

LEMMA FileCheckTemplate ==
  ASSUME File!FileInv, File!CheckPlace("template", "theme", "render")
  PROVE  File!FileInv'
<1>1. CASE File!Replaceable("template")
  <2>1. x13' = [x13 EXCEPT !.at = "render"] /\ x14' = x14
    BY <1>1 DEF File!CheckPlace, File!To
  <2> QED BY <1>1, <2>1 DEF File!CheckPlace, File!Replaceable, File!Ours, File!placeVars,
     File!appVars, File!grantVars, File!boundVars, File!FileInv, File!FileShapesOK,
     File!SeenOK, File!LeftOK, File!PersonsFileStays, File!AppsKept, File!PamNeedsSources,
     File!RemovedIsComplete, File!Places, File!Reads, File!At
<1>2. CASE ~(File!Replaceable("template"))
  <2>1. x13' = File!NoRun /\ x14' = "failed"
    BY <1>2 DEF File!CheckPlace, File!Ends
  <2> QED BY <2>1 DEF File!CheckPlace, File!NoRun, File!placeVars, File!appVars,
     File!grantVars, File!boundVars, File!FileInv, File!FileShapesOK, File!SeenOK,
     File!LeftOK, File!PersonsFileStays, File!AppsKept, File!PamNeedsSources,
     File!RemovedIsComplete, File!Places, File!Reads, File!At
<1> QED BY <1>1, <1>2

LEMMA FilePutTemplate ==
  ASSUME File!FileInv, File!PutPlace("template", "render", "firewall")
  PROVE  File!FileInv'
  BY DEF File!FileInv, File!FileShapesOK, File!SeenOK, File!LeftOK, File!PersonsFileStays,
     File!AppsKept, File!PamNeedsSources, File!RemovedIsComplete, File!Places, File!Reads,
     File!At, File!To, File!Ends, File!NoRun, File!NoApps, File!placeVars, File!appVars,
     File!grantVars, File!boundVars, File!PutPlace

LEMMA FileLookUnit ==
  ASSUME File!FileInv, File!Look("unit", "unit", "unlink", "vox")
  PROVE  File!FileInv'
  BY DEF File!FileInv, File!FileShapesOK, File!SeenOK, File!LeftOK, File!PersonsFileStays,
     File!AppsKept, File!PamNeedsSources, File!RemovedIsComplete, File!Places, File!Reads,
     File!At, File!To, File!Ends, File!NoRun, File!NoApps, File!placeVars, File!appVars,
     File!grantVars, File!boundVars, File!Look, File!Ours

LEMMA FileLookTemplate ==
  ASSUME File!FileInv, File!Look("template", "surfaces", "withdraw", "rules")
  PROVE  File!FileInv'
  BY DEF File!FileInv, File!FileShapesOK, File!SeenOK, File!LeftOK, File!PersonsFileStays,
     File!AppsKept, File!PamNeedsSources, File!RemovedIsComplete, File!Places, File!Reads,
     File!At, File!To, File!Ends, File!NoRun, File!NoApps, File!placeVars, File!appVars,
     File!grantVars, File!boundVars, File!Look, File!Ours

LEMMA FileSaves ==
  ASSUME File!FileInv, File!Saves
  PROVE  File!FileInv'
  BY DEF File!Saves, File!FileInv, File!FileShapesOK, File!SeenOK, File!LeftOK,
     File!PersonsFileStays, File!AppsKept, File!PamNeedsSources, File!RemovedIsComplete,
     File!Places, File!Reads, File!At, File!To, File!Ends, File!NoRun, File!NoApps,
     File!placeVars, File!appVars, File!grantVars, File!boundVars

LEMMA FileGrants ==
  ASSUME File!FileInv, File!Grants
  PROVE  File!FileInv'
  BY DEF File!Grants, File!FileInv, File!FileShapesOK, File!SeenOK, File!LeftOK,
     File!PersonsFileStays, File!AppsKept, File!PamNeedsSources, File!RemovedIsComplete,
     File!Places, File!Reads, File!At, File!To, File!Ends, File!NoRun, File!NoApps,
     File!placeVars, File!appVars, File!grantVars, File!boundVars

LEMMA FileDies ==
  ASSUME File!FileInv, File!Dies
  PROVE  File!FileInv'
<1>1. x8' = FALSE /\ UNCHANGED <<x1, x2, x3, x4, x5, x6, x7, x9, x10, x11, x12, x13, x14, x15, x16>>
  BY DEF File!Dies, File!placeVars, File!appVars, File!boundVars
<1> QED BY <1>1 DEF File!FileInv, File!FileShapesOK, File!SeenOK, File!LeftOK, File!PersonsFileStays,
   File!AppsKept, File!PamNeedsSources, File!RemovedIsComplete, File!At

LEMMA FileDictates ==
  ASSUME File!FileInv, File!Dictates
  PROVE  File!FileInv'
  BY DEF File!Dictates, File!FileInv, File!FileShapesOK, File!SeenOK, File!LeftOK,
     File!PersonsFileStays, File!AppsKept, File!PamNeedsSources, File!RemovedIsComplete,
     File!Places, File!Reads, File!At, File!To, File!Ends, File!NoRun, File!NoApps,
     File!placeVars, File!appVars, File!grantVars, File!boundVars

LEMMA FileEditsVox ==
  ASSUME File!FileInv, File!EditsVox
  PROVE  File!FileInv'
  BY DEF File!EditsVox, File!FileInv, File!FileShapesOK, File!SeenOK, File!LeftOK,
     File!PersonsFileStays, File!AppsKept, File!PamNeedsSources, File!RemovedIsComplete,
     File!Places, File!Reads, File!At, File!To, File!Ends, File!NoRun, File!NoApps,
     File!placeVars, File!appVars, File!grantVars, File!boundVars

LEMMA FileFetches ==
  ASSUME File!FileInv, File!Fetches
  PROVE  File!FileInv'
  BY DEF File!Fetches, File!FileInv, File!FileShapesOK, File!SeenOK, File!LeftOK,
     File!PersonsFileStays, File!AppsKept, File!PamNeedsSources, File!RemovedIsComplete,
     File!Places, File!Reads, File!At, File!To, File!Ends, File!NoRun, File!NoApps,
     File!placeVars, File!appVars, File!grantVars, File!boundVars

LEMMA FileInstallsPam ==
  ASSUME File!FileInv, File!InstallsPam
  PROVE  File!FileInv'
  BY DEF File!InstallsPam, File!FileInv, File!FileShapesOK, File!SeenOK, File!LeftOK,
     File!PersonsFileStays, File!AppsKept, File!PamNeedsSources, File!RemovedIsComplete,
     File!Places, File!Reads, File!At, File!To, File!Ends, File!NoRun, File!NoApps,
     File!placeVars, File!appVars, File!grantVars, File!boundVars

LEMMA FileRefusal ==
  ASSUME File!FileInv, File!Refusal
  PROVE  File!FileInv'
<1>1. CASE \A p \in File!Places : x1[p] = "none" \/ File!Ours(p)
  <2>1. x13' = [x13 EXCEPT !.at = "apps"] /\ x14' = x14
    BY <1>1 DEF File!Refusal, File!To
  <2> QED BY <1>1, <2>1 DEF File!Refusal, File!placeVars, File!appVars, File!grantVars,
     File!boundVars, File!FileInv, File!FileShapesOK, File!SeenOK, File!LeftOK,
     File!PersonsFileStays, File!AppsKept, File!PamNeedsSources, File!RemovedIsComplete,
     File!Places, File!Reads, File!At
<1>2. CASE ~(\A p \in File!Places : x1[p] = "none" \/ File!Ours(p))
  <2>1. x13' = File!NoRun /\ x14' = "refused"
    BY <1>2 DEF File!Refusal, File!Ends
  <2> QED BY <2>1 DEF File!Refusal, File!NoRun, File!placeVars, File!appVars, File!grantVars,
     File!boundVars, File!FileInv, File!FileShapesOK, File!SeenOK, File!LeftOK,
     File!PersonsFileStays, File!AppsKept, File!PamNeedsSources, File!RemovedIsComplete,
     File!Places, File!Reads, File!At
<1> QED BY <1>1, <1>2

LEMMA FileReadApps ==
  ASSUME File!FileInv, File!ReadApps
  PROVE  File!FileInv'
  BY DEF File!ReadApps, File!FileInv, File!FileShapesOK, File!SeenOK, File!LeftOK,
     File!PersonsFileStays, File!AppsKept, File!PamNeedsSources, File!RemovedIsComplete,
     File!Places, File!Reads, File!At, File!To, File!Ends, File!NoRun, File!NoApps,
     File!placeVars, File!appVars, File!grantVars, File!boundVars

LEMMA FileBackup ==
  ASSUME File!FileInv, File!Backup
  PROVE  File!FileInv'
  BY DEF File!Backup, File!FileInv, File!FileShapesOK, File!SeenOK, File!LeftOK,
     File!PersonsFileStays, File!AppsKept, File!PamNeedsSources, File!RemovedIsComplete,
     File!Places, File!Reads, File!At, File!To, File!Ends, File!NoRun, File!NoApps,
     File!placeVars, File!appVars, File!grantVars, File!boundVars

LEMMA FileAppend ==
  ASSUME File!FileInv, File!Append
  PROVE  File!FileInv'
  BY DEF File!Append, File!FileInv, File!FileShapesOK, File!SeenOK, File!LeftOK,
     File!PersonsFileStays, File!AppsKept, File!PamNeedsSources, File!RemovedIsComplete,
     File!Places, File!Reads, File!At, File!To, File!Ends, File!NoRun, File!NoApps,
     File!placeVars, File!appVars, File!grantVars, File!boundVars

LEMMA FileFirewall ==
  ASSUME File!FileInv, File!Firewall
  PROVE  File!FileInv'
<1>1. File!FileShapesOK'
  BY DEF File!Firewall, File!FileInv, File!FileShapesOK, File!SeenOK, File!LeftOK,
     File!PersonsFileStays, File!AppsKept, File!PamNeedsSources, File!RemovedIsComplete,
     File!Places, File!Reads, File!At, File!To, File!Ends, File!NoRun, File!NoApps,
     File!placeVars, File!appVars, File!grantVars, File!boundVars
<1>2. File!SeenOK'
  BY DEF File!Firewall, File!FileInv, File!FileShapesOK, File!SeenOK, File!LeftOK,
     File!PersonsFileStays, File!AppsKept, File!PamNeedsSources, File!RemovedIsComplete,
     File!Places, File!Reads, File!At, File!To, File!Ends, File!NoRun, File!NoApps,
     File!placeVars, File!appVars, File!grantVars, File!boundVars
<1>3. File!LeftOK'
  BY DEF File!Firewall, File!FileInv, File!FileShapesOK, File!SeenOK, File!LeftOK,
     File!PersonsFileStays, File!AppsKept, File!PamNeedsSources, File!RemovedIsComplete,
     File!Places, File!Reads, File!At, File!To, File!Ends, File!NoRun, File!NoApps,
     File!placeVars, File!appVars, File!grantVars, File!boundVars
<1>4. File!PersonsFileStays'
  BY DEF File!Firewall, File!FileInv, File!FileShapesOK, File!SeenOK, File!LeftOK,
     File!PersonsFileStays, File!AppsKept, File!PamNeedsSources, File!RemovedIsComplete,
     File!Places, File!Reads, File!At, File!To, File!Ends, File!NoRun, File!NoApps,
     File!placeVars, File!appVars, File!grantVars, File!boundVars
<1>5. File!AppsKept'
  BY DEF File!Firewall, File!FileInv, File!FileShapesOK, File!SeenOK, File!LeftOK,
     File!PersonsFileStays, File!AppsKept, File!PamNeedsSources, File!RemovedIsComplete,
     File!Places, File!Reads, File!At, File!To, File!Ends, File!NoRun, File!NoApps,
     File!placeVars, File!appVars, File!grantVars, File!boundVars
<1>6. File!PamNeedsSources'
  BY DEF File!Firewall, File!FileInv, File!FileShapesOK, File!SeenOK, File!LeftOK,
     File!PersonsFileStays, File!AppsKept, File!PamNeedsSources, File!RemovedIsComplete,
     File!Places, File!Reads, File!At, File!To, File!Ends, File!NoRun, File!NoApps,
     File!placeVars, File!appVars, File!grantVars, File!boundVars
<1>7. File!RemovedIsComplete'
  BY DEF File!Firewall, File!FileInv, File!FileShapesOK, File!SeenOK, File!LeftOK,
     File!PersonsFileStays, File!AppsKept, File!PamNeedsSources, File!RemovedIsComplete,
     File!Places, File!Reads, File!At, File!To, File!Ends, File!NoRun, File!NoApps,
     File!placeVars, File!appVars, File!grantVars, File!boundVars
<1> QED BY <1>1, <1>2, <1>3, <1>4, <1>5, <1>6, <1>7 DEF File!FileInv

LEMMA FileStart ==
  ASSUME File!FileInv, File!Start
  PROVE  File!FileInv'
  BY DEF File!Start, File!FileInv, File!FileShapesOK, File!SeenOK, File!LeftOK,
     File!PersonsFileStays, File!AppsKept, File!PamNeedsSources, File!RemovedIsComplete,
     File!Places, File!Reads, File!At, File!To, File!Ends, File!NoRun, File!NoApps,
     File!placeVars, File!appVars, File!grantVars, File!boundVars

LEMMA FileRemovePam ==
  ASSUME File!FileInv, File!RemovePam
  PROVE  File!FileInv'
<1>1. File!FileShapesOK'
  BY DEF File!RemovePam, File!FileInv, File!FileShapesOK, File!SeenOK, File!LeftOK,
     File!PersonsFileStays, File!AppsKept, File!PamNeedsSources, File!RemovedIsComplete,
     File!Places, File!Reads, File!At, File!To, File!Ends, File!NoRun, File!NoApps,
     File!placeVars, File!appVars, File!grantVars, File!boundVars
<1>2. File!SeenOK'
  BY DEF File!RemovePam, File!FileInv, File!FileShapesOK, File!SeenOK, File!LeftOK,
     File!PersonsFileStays, File!AppsKept, File!PamNeedsSources, File!RemovedIsComplete,
     File!Places, File!Reads, File!At, File!To, File!Ends, File!NoRun, File!NoApps,
     File!placeVars, File!appVars, File!grantVars, File!boundVars
<1>3. File!LeftOK'
  BY DEF File!RemovePam, File!FileInv, File!FileShapesOK, File!SeenOK, File!LeftOK,
     File!PersonsFileStays, File!AppsKept, File!PamNeedsSources, File!RemovedIsComplete,
     File!Places, File!Reads, File!At, File!To, File!Ends, File!NoRun, File!NoApps,
     File!placeVars, File!appVars, File!grantVars, File!boundVars
<1>4. File!PersonsFileStays'
  BY DEF File!RemovePam, File!FileInv, File!FileShapesOK, File!SeenOK, File!LeftOK,
     File!PersonsFileStays, File!AppsKept, File!PamNeedsSources, File!RemovedIsComplete,
     File!Places, File!Reads, File!At, File!To, File!Ends, File!NoRun, File!NoApps,
     File!placeVars, File!appVars, File!grantVars, File!boundVars
<1>5. File!AppsKept'
  BY DEF File!RemovePam, File!FileInv, File!FileShapesOK, File!SeenOK, File!LeftOK,
     File!PersonsFileStays, File!AppsKept, File!PamNeedsSources, File!RemovedIsComplete,
     File!Places, File!Reads, File!At, File!To, File!Ends, File!NoRun, File!NoApps,
     File!placeVars, File!appVars, File!grantVars, File!boundVars
<1>6. File!PamNeedsSources'
  BY DEF File!RemovePam, File!FileInv, File!FileShapesOK, File!SeenOK, File!LeftOK,
     File!PersonsFileStays, File!AppsKept, File!PamNeedsSources, File!RemovedIsComplete,
     File!Places, File!Reads, File!At, File!To, File!Ends, File!NoRun, File!NoApps,
     File!placeVars, File!appVars, File!grantVars, File!boundVars
<1>7. File!RemovedIsComplete'
  BY DEF File!RemovePam, File!FileInv, File!FileShapesOK, File!SeenOK, File!LeftOK,
     File!PersonsFileStays, File!AppsKept, File!PamNeedsSources, File!RemovedIsComplete,
     File!Places, File!Reads, File!At, File!To, File!Ends, File!NoRun, File!NoApps,
     File!placeVars, File!appVars, File!grantVars, File!boundVars
<1> QED BY <1>1, <1>2, <1>3, <1>4, <1>5, <1>6, <1>7 DEF File!FileInv

LEMMA FileUnlink ==
  ASSUME File!FileInv, File!Unlink
  PROVE  File!FileInv'
<1>1. File!FileShapesOK'
  BY DEF File!Unlink, File!FileInv, File!FileShapesOK, File!SeenOK, File!LeftOK,
     File!PersonsFileStays, File!AppsKept, File!PamNeedsSources, File!RemovedIsComplete,
     File!Places, File!Reads, File!At, File!To, File!Ends, File!NoRun, File!NoApps,
     File!placeVars, File!appVars, File!grantVars, File!boundVars
<1>2. File!SeenOK'
  BY DEF File!Unlink, File!FileInv, File!FileShapesOK, File!SeenOK, File!LeftOK,
     File!PersonsFileStays, File!AppsKept, File!PamNeedsSources, File!RemovedIsComplete,
     File!Places, File!Reads, File!At, File!To, File!Ends, File!NoRun, File!NoApps,
     File!placeVars, File!appVars, File!grantVars, File!boundVars
<1>3. File!LeftOK'
  BY DEF File!Unlink, File!FileInv, File!FileShapesOK, File!SeenOK, File!LeftOK,
     File!PersonsFileStays, File!AppsKept, File!PamNeedsSources, File!RemovedIsComplete,
     File!Places, File!Reads, File!At, File!To, File!Ends, File!NoRun, File!NoApps,
     File!placeVars, File!appVars, File!grantVars, File!boundVars
<1>4. File!PersonsFileStays'
  BY DEF File!Unlink, File!FileInv, File!FileShapesOK, File!SeenOK, File!LeftOK,
     File!PersonsFileStays, File!AppsKept, File!PamNeedsSources, File!RemovedIsComplete,
     File!Places, File!Reads, File!At, File!To, File!Ends, File!NoRun, File!NoApps,
     File!placeVars, File!appVars, File!grantVars, File!boundVars
<1>5. File!AppsKept'
  BY DEF File!Unlink, File!FileInv, File!FileShapesOK, File!SeenOK, File!LeftOK,
     File!PersonsFileStays, File!AppsKept, File!PamNeedsSources, File!RemovedIsComplete,
     File!Places, File!Reads, File!At, File!To, File!Ends, File!NoRun, File!NoApps,
     File!placeVars, File!appVars, File!grantVars, File!boundVars
<1>6. File!PamNeedsSources'
  BY DEF File!Unlink, File!FileInv, File!FileShapesOK, File!SeenOK, File!LeftOK,
     File!PersonsFileStays, File!AppsKept, File!PamNeedsSources, File!RemovedIsComplete,
     File!Places, File!Reads, File!At, File!To, File!Ends, File!NoRun, File!NoApps,
     File!placeVars, File!appVars, File!grantVars, File!boundVars
<1>7. File!RemovedIsComplete'
  BY DEF File!Unlink, File!FileInv, File!FileShapesOK, File!SeenOK, File!LeftOK,
     File!PersonsFileStays, File!AppsKept, File!PamNeedsSources, File!RemovedIsComplete,
     File!Places, File!Reads, File!At, File!To, File!Ends, File!NoRun, File!NoApps,
     File!placeVars, File!appVars, File!grantVars, File!boundVars
<1> QED BY <1>1, <1>2, <1>3, <1>4, <1>5, <1>6, <1>7 DEF File!FileInv

LEMMA FileRestoreVox ==
  ASSUME File!FileInv, File!RestoreVox
  PROVE  File!FileInv'
  BY DEF File!RestoreVox, File!FileInv, File!FileShapesOK, File!SeenOK, File!LeftOK,
     File!PersonsFileStays, File!AppsKept, File!PamNeedsSources, File!RemovedIsComplete,
     File!Places, File!Reads, File!At, File!To, File!Ends, File!NoRun, File!NoApps,
     File!placeVars, File!appVars, File!grantVars, File!boundVars

LEMMA FileReadPublished ==
  ASSUME File!FileInv, File!ReadPublished
  PROVE  File!FileInv'
  BY DEF File!ReadPublished, File!FileInv, File!FileShapesOK, File!SeenOK, File!LeftOK,
     File!PersonsFileStays, File!AppsKept, File!PamNeedsSources, File!RemovedIsComplete,
     File!Places, File!Reads, File!At, File!To, File!Ends, File!NoRun, File!NoApps,
     File!placeVars, File!appVars, File!grantVars, File!boundVars

LEMMA FileTakeOut ==
  ASSUME File!FileInv, File!TakeOut
  PROVE  File!FileInv'
  BY DEF File!TakeOut, File!FileInv, File!FileShapesOK, File!SeenOK, File!LeftOK,
     File!PersonsFileStays, File!AppsKept, File!PamNeedsSources, File!RemovedIsComplete,
     File!Places, File!Reads, File!At, File!To, File!Ends, File!NoRun, File!NoApps,
     File!placeVars, File!appVars, File!grantVars, File!boundVars, File!Without

LEMMA FileRemoveLines ==
  ASSUME File!FileInv, File!RemoveLines
  PROVE  File!FileInv'
<1>1. File!FileShapesOK'
  BY DEF File!RemoveLines, File!FileInv, File!FileShapesOK, File!SeenOK, File!LeftOK,
     File!PersonsFileStays, File!AppsKept, File!PamNeedsSources, File!RemovedIsComplete,
     File!Places, File!Reads, File!At, File!To, File!Ends, File!NoRun, File!NoApps,
     File!placeVars, File!appVars, File!grantVars, File!boundVars
<1>2. File!SeenOK'
  BY DEF File!RemoveLines, File!FileInv, File!FileShapesOK, File!SeenOK, File!LeftOK,
     File!PersonsFileStays, File!AppsKept, File!PamNeedsSources, File!RemovedIsComplete,
     File!Places, File!Reads, File!At, File!To, File!Ends, File!NoRun, File!NoApps,
     File!placeVars, File!appVars, File!grantVars, File!boundVars
<1>3. File!LeftOK'
  <2>1. /\ x13' = [x13 EXCEPT !.at = "sources", !.left = @ \/ x9'] /\ x13.op = "remove" /\ x13.at = "ssh"
        /\ x3' = x3 \cup (IF x8 THEN {"daemon"} ELSE {}) /\ UNCHANGED <<x11, x8, x14, x12>>
    BY DEF File!RemoveLines, File!At, File!placeVars, File!appVars, File!boundVars
  <2>2. (x13.pam <=> x11) /\ (x13.left <=> x11) /\ x14 # "removed"
    BY <2>1 DEF File!FileInv, File!LeftOK, File!At
  <2>3. x13'.op = "remove" /\ x13'.at = "sources" /\ x13'.pam = x13.pam
    BY <2>1 DEF File!FileInv
  <2>4. x13'.left <=> x13.left \/ x9'
    <3>1. x13'.left = (x13.left \/ x9')
      BY DEF File!RemoveLines
    <3> QED BY <3>1
  <2>5. "daemon" \notin x3' => ~x8'
    BY <2>1
  <2>6. (x13'.pam <=> x11') /\ (x11' => x13'.left) /\ (x9' => x13'.left) /\ x14' # "removed"
    BY <2>1, <2>2, <2>3, <2>4, Zenon
  <2> QED BY <2>3, <2>5, <2>6 DEF File!LeftOK, File!At
<1>4. File!PersonsFileStays'
  BY DEF File!RemoveLines, File!FileInv, File!FileShapesOK, File!SeenOK, File!LeftOK,
     File!PersonsFileStays, File!AppsKept, File!PamNeedsSources, File!RemovedIsComplete,
     File!Places, File!Reads, File!At, File!To, File!Ends, File!NoRun, File!NoApps,
     File!placeVars, File!appVars, File!grantVars, File!boundVars
<1>5. File!AppsKept'
  BY DEF File!RemoveLines, File!FileInv, File!FileShapesOK, File!SeenOK, File!LeftOK,
     File!PersonsFileStays, File!AppsKept, File!PamNeedsSources, File!RemovedIsComplete,
     File!Places, File!Reads, File!At, File!To, File!Ends, File!NoRun, File!NoApps,
     File!placeVars, File!appVars, File!grantVars, File!boundVars
<1>6. File!PamNeedsSources'
  BY DEF File!RemoveLines, File!FileInv, File!FileShapesOK, File!SeenOK, File!LeftOK,
     File!PersonsFileStays, File!AppsKept, File!PamNeedsSources, File!RemovedIsComplete,
     File!Places, File!Reads, File!At, File!To, File!Ends, File!NoRun, File!NoApps,
     File!placeVars, File!appVars, File!grantVars, File!boundVars
<1>7. File!RemovedIsComplete'
  BY DEF File!RemoveLines, File!FileInv, File!FileShapesOK, File!SeenOK, File!LeftOK,
     File!PersonsFileStays, File!AppsKept, File!PamNeedsSources, File!RemovedIsComplete,
     File!Places, File!Reads, File!At, File!To, File!Ends, File!NoRun, File!NoApps,
     File!placeVars, File!appVars, File!grantVars, File!boundVars
<1> QED BY <1>1, <1>2, <1>3, <1>4, <1>5, <1>6, <1>7 DEF File!FileInv

LEMMA FileDropSources ==
  ASSUME File!FileInv, File!DropSources
  PROVE  File!FileInv'
<1>1. x12' => x12
  BY DEF File!DropSources
<1>2. (x11 => x12) /\ (x13.pam <=> x11)
  BY DEF File!DropSources, File!FileInv, File!LeftOK, File!PamNeedsSources, File!At
<1>3. x11' => x12'
  BY <1>2 DEF File!DropSources, File!MayGo
<1> QED BY <1>1, <1>2, <1>3 DEF File!DropSources, File!To, File!placeVars, File!appVars,
   File!grantVars, File!boundVars, File!FileInv, File!FileShapesOK, File!SeenOK, File!LeftOK,
   File!PersonsFileStays, File!AppsKept, File!PamNeedsSources, File!RemovedIsComplete,
   File!Places, File!Reads, File!At

LEMMA FileWithdraw ==
  ASSUME File!FileInv, File!Withdraw
  PROVE  File!FileInv'
  BY DEF File!Withdraw, File!FileInv, File!FileShapesOK, File!SeenOK, File!LeftOK,
     File!PersonsFileStays, File!AppsKept, File!PamNeedsSources, File!RemovedIsComplete,
     File!Places, File!Reads, File!At, File!To, File!Ends, File!NoRun, File!NoApps,
     File!placeVars, File!appVars, File!grantVars, File!boundVars

LEMMA FileDropRules ==
  ASSUME File!FileInv, File!DropRules
  PROVE  File!FileInv'
  BY DEF File!DropRules, File!FileInv, File!FileShapesOK, File!SeenOK, File!LeftOK,
     File!PersonsFileStays, File!AppsKept, File!PamNeedsSources, File!RemovedIsComplete,
     File!Places, File!Reads, File!At, File!To, File!Ends, File!NoRun, File!NoApps,
     File!placeVars, File!appVars, File!grantVars, File!boundVars

LEMMA FileKilled ==
  ASSUME File!FileInv, File!Killed
  PROVE  File!FileInv'
  BY DEF File!Killed, File!FileInv, File!FileShapesOK, File!SeenOK, File!LeftOK,
     File!PersonsFileStays, File!AppsKept, File!PamNeedsSources, File!RemovedIsComplete,
     File!Places, File!Reads, File!At, File!To, File!Ends, File!NoRun, File!NoApps,
     File!placeVars, File!appVars, File!grantVars, File!boundVars

LEMMA FileStutter ==
  ASSUME File!FileInv, UNCHANGED File!fileVars
  PROVE  File!FileInv'
  BY DEF File!fileVars, File!FileInv, File!FileShapesOK, File!SeenOK, File!LeftOK,
     File!PersonsFileStays, File!AppsKept, File!PamNeedsSources, File!RemovedIsComplete,
     File!At

LEMMA FileNext ==
  ASSUME File!FileInv, File!Next
  PROVE  File!FileInv'
  BY FileSaves, FileGrants, FileDies, FileDictates, FileEditsVox, FileFetches, FileInstallsPam,
     FileRefusal, FileReadApps, FileBackup, FileAppend, FileFirewall, FileStart,
     FileRemovePam, FileUnlink, FileRestoreVox, FileReadPublished, FileTakeOut,
     FileRemoveLines, FileDropSources, FileWithdraw, FileDropRules, FileKilled, FilePerson,
     FileBegin, FileCheckUnit, FilePutUnit, FileCheckTemplate, FilePutTemplate, FileLookUnit,
     FileLookTemplate DEF File!Next, File!Install, File!Remove

-----------------------------------------------------------------------------
(* The mapping of tailscale serve: each step keeps ServeInv. *)

LEMMA ServeInit == Serve!Init => Serve!ServeInv
  BY DEF Serve!Init, Serve!ServeInv, Serve!ServeShapesOK, Serve!FoundOK,
     Serve!UsersMappingStays, Serve!At, Serve!To, Serve!NoRun, Serve!NoRecord, Serve!Ports

LEMMA ServeTurns ==
  ASSUME Serve!ServeInv, NEW p \in Serve!Ports, Serve!Turns(p)
  PROVE  Serve!ServeInv'
<1>1. PICK m \in {"free", "core", "other"} : x1' = [x1 EXCEPT ![p] = m] /\ x3' = [x3 EXCEPT ![p] = m]
  BY DEF Serve!Turns
<1>2. \A q \in Serve!Ports : IF q = p THEN x1'[q] = m /\ x3'[q] = m ELSE x1'[q] = x1[q] /\ x3'[q] = x3[q]
  BY <1>1 DEF Serve!ServeInv, Serve!ServeShapesOK
<1>3. Serve!ServeShapesOK'
  BY <1>1 DEF Serve!Turns, Serve!ServeInv, Serve!ServeShapesOK
<1>4. Serve!UsersMappingStays'
  BY <1>2 DEF Serve!Turns, Serve!ServeInv, Serve!UsersMappingStays
<1>5. ~x6' => ~x6 /\ (x5.at \in {"command", "verify"} => x5.port # p)
  BY DEF Serve!Turns
<1>6. x5.at \in {"command", "verify"} => x5.port \in Serve!Ports
  BY DEF Serve!ServeInv, Serve!ServeShapesOK
<1>7. Serve!FoundOK'
  BY <1>2, <1>5, <1>6 DEF Serve!Turns, Serve!ServeInv, Serve!FoundOK, Serve!At
<1> QED BY <1>3, <1>4, <1>7 DEF Serve!ServeInv

LEMMA ServeBegin ==
  ASSUME Serve!ServeInv, NEW op \in {"ensure", "remove"}, Serve!Begin(op)
  PROVE  Serve!ServeInv'
<1>1. x5' = [op |-> op, at |-> "asks", port |-> 0]
  BY DEF Serve!Begin, Serve!NoRun
<1> QED BY <1>1 DEF Serve!Begin, Serve!ServeInv, Serve!ServeShapesOK, Serve!FoundOK,
   Serve!UsersMappingStays, Serve!At

LEMMA ServeOff ==
  ASSUME Serve!ServeInv, Serve!Off
  PROVE  Serve!ServeInv'
  BY DEF Serve!Off, Serve!ServeInv, Serve!ServeShapesOK, Serve!FoundOK,
     Serve!UsersMappingStays, Serve!At, Serve!To, Serve!NoRun, Serve!NoRecord, Serve!Ports

LEMMA ServeFinds ==
  ASSUME Serve!ServeInv, Serve!Finds
  PROVE  Serve!ServeInv'
<1> DEFINE p == Serve!Chosen(x1)
<1>1. p \in {0} \cup Serve!Ports /\ 0 \notin Serve!Ports
  BY DEF Serve!Chosen, Serve!Ports
<1>2. CASE p # 0 /\ x1[p] = "free"
  BY <1>1, <1>2 DEF Serve!Finds, Serve!ServeInv, Serve!ServeShapesOK, Serve!FoundOK,
     Serve!UsersMappingStays, Serve!At, Serve!NoRun
<1>3. CASE ~(p # 0 /\ x1[p] = "free")
  <2>1. x5' = Serve!NoRun /\ x4' = IF p = 0 THEN x4 ELSE [port |-> p, owner |-> Serve!Owner(p)]
    BY <1>3 DEF Serve!Finds
  <2>2. x4'.owner = "omodachi" => x4.owner = "omodachi" /\ x4'.port = x4.port
    BY <2>1 DEF Serve!Owner
  <2> QED BY <2>1, <2>2, <1>1 DEF Serve!Finds, Serve!ServeInv, Serve!ServeShapesOK,
     Serve!FoundOK, Serve!UsersMappingStays, Serve!At, Serve!NoRun, Serve!Owner
<1> QED BY <1>2, <1>3

LEMMA ServeMaps ==
  ASSUME Serve!ServeInv, Serve!Maps
  PROVE  Serve!ServeInv'
  BY DEF Serve!Maps, Serve!ServeInv, Serve!ServeShapesOK, Serve!FoundOK,
     Serve!UsersMappingStays, Serve!At, Serve!To, Serve!NoRun, Serve!NoRecord, Serve!Ports

LEMMA ServeRecords ==
  ASSUME Serve!ServeInv, Serve!Records
  PROVE  Serve!ServeInv'
  BY DEF Serve!Records, Serve!ServeInv, Serve!ServeShapesOK, Serve!FoundOK,
     Serve!UsersMappingStays, Serve!At, Serve!To, Serve!NoRun, Serve!NoRecord, Serve!Ports

LEMMA ServeLooks ==
  ASSUME Serve!ServeInv, Serve!Looks
  PROVE  Serve!ServeInv'
<1>1. CASE Serve!StillOurs
  <2>1. x4.port \in Serve!Ports
    BY <1>1 DEF Serve!StillOurs, Serve!ServeInv, Serve!ServeShapesOK
  <2>2. x5' = [x5 EXCEPT !.at = "command", !.port = x4.port] /\ UNCHANGED x4
    BY <1>1 DEF Serve!Looks
  <2> QED BY <1>1, <2>1, <2>2 DEF Serve!Looks, Serve!StillOurs, Serve!ServeInv,
     Serve!ServeShapesOK, Serve!FoundOK, Serve!UsersMappingStays, Serve!At
<1>2. CASE ~Serve!StillOurs
  BY <1>2 DEF Serve!Looks, Serve!ServeInv, Serve!ServeShapesOK, Serve!FoundOK,
     Serve!UsersMappingStays, Serve!At, Serve!NoRun, Serve!NoRecord
<1> QED BY <1>1, <1>2

LEMMA ServeTurnsOff ==
  ASSUME Serve!ServeInv, Serve!TurnsOff
  PROVE  Serve!ServeInv'
  BY DEF Serve!TurnsOff, Serve!ServeInv, Serve!ServeShapesOK, Serve!FoundOK,
     Serve!UsersMappingStays, Serve!At, Serve!To, Serve!NoRun, Serve!NoRecord, Serve!Ports

LEMMA ServeClears ==
  ASSUME Serve!ServeInv, Serve!Clears
  PROVE  Serve!ServeInv'
  BY DEF Serve!Clears, Serve!ServeInv, Serve!ServeShapesOK, Serve!FoundOK,
     Serve!UsersMappingStays, Serve!At, Serve!To, Serve!NoRun, Serve!NoRecord, Serve!Ports

LEMMA ServeKilled ==
  ASSUME Serve!ServeInv, Serve!Killed
  PROVE  Serve!ServeInv'
  BY DEF Serve!Killed, Serve!ServeInv, Serve!ServeShapesOK, Serve!FoundOK,
     Serve!UsersMappingStays, Serve!At, Serve!To, Serve!NoRun, Serve!NoRecord, Serve!Ports

LEMMA ServeStutter ==
  ASSUME Serve!ServeInv, UNCHANGED Serve!serveVars
  PROVE  Serve!ServeInv'
  BY DEF Serve!serveVars, Serve!ServeInv, Serve!ServeShapesOK, Serve!FoundOK,
     Serve!UsersMappingStays, Serve!At

LEMMA ServeNext ==
  ASSUME Serve!ServeInv, Serve!Next
  PROVE  Serve!ServeInv'
  BY ServeOff, ServeFinds, ServeMaps, ServeRecords, ServeLooks, ServeTurnsOff, ServeClears,
     ServeKilled, ServeTurns, ServeBegin DEF Serve!Next

-----------------------------------------------------------------------------
(* The managed Sunshine: each step keeps SunInv. *)

LEMMA SunInit == Sun!Init => Sun!SunInv
<1> SUFFICES ASSUME Sun!Init PROVE Sun!SunInv
  OBVIOUS
<1>1. Sun!SunShapesOK
  BY DEF Sun!Init, Sun!SunInv, Sun!SunShapesOK, Sun!RunsOK, Sun!AsideOK, Sun!PackagedOK,
     Sun!PersonsSunshineStays, Sun!BuildsAreKept, Sun!RunsLocked, Sun!Marked, Sun!OurDropin, Sun!At, Sun!To,
     Sun!Ends, Sun!NoRun, Sun!unitVars, Sun!dataVars, Sun!treeVars, Sun!flagVars, Sun!NoRecord
<1>2. Sun!RunsOK
  BY DEF Sun!Init, Sun!SunInv, Sun!SunShapesOK, Sun!RunsOK, Sun!AsideOK, Sun!PackagedOK,
     Sun!PersonsSunshineStays, Sun!BuildsAreKept, Sun!RunsLocked, Sun!Marked, Sun!OurDropin, Sun!At, Sun!To,
     Sun!Ends, Sun!NoRun, Sun!unitVars, Sun!dataVars, Sun!treeVars, Sun!flagVars, Sun!NoRecord
<1>3. Sun!AsideOK
  BY DEF Sun!Init, Sun!SunInv, Sun!SunShapesOK, Sun!RunsOK, Sun!AsideOK, Sun!PackagedOK,
     Sun!PersonsSunshineStays, Sun!BuildsAreKept, Sun!RunsLocked, Sun!Marked, Sun!OurDropin, Sun!At, Sun!To,
     Sun!Ends, Sun!NoRun, Sun!unitVars, Sun!dataVars, Sun!treeVars, Sun!flagVars, Sun!NoRecord
<1>4. Sun!PackagedOK
  BY DEF Sun!Init, Sun!SunInv, Sun!SunShapesOK, Sun!RunsOK, Sun!AsideOK, Sun!PackagedOK,
     Sun!PersonsSunshineStays, Sun!BuildsAreKept, Sun!RunsLocked, Sun!Marked, Sun!OurDropin, Sun!At, Sun!To,
     Sun!Ends, Sun!NoRun, Sun!unitVars, Sun!dataVars, Sun!treeVars, Sun!flagVars, Sun!NoRecord
<1>5. Sun!PersonsSunshineStays
  BY DEF Sun!Init, Sun!SunInv, Sun!SunShapesOK, Sun!RunsOK, Sun!AsideOK, Sun!PackagedOK,
     Sun!PersonsSunshineStays, Sun!BuildsAreKept, Sun!RunsLocked, Sun!Marked, Sun!OurDropin, Sun!At, Sun!To,
     Sun!Ends, Sun!NoRun, Sun!unitVars, Sun!dataVars, Sun!treeVars, Sun!flagVars, Sun!NoRecord
<1>6. Sun!BuildsAreKept
  BY DEF Sun!Init, Sun!SunInv, Sun!SunShapesOK, Sun!RunsOK, Sun!AsideOK, Sun!PackagedOK,
     Sun!PersonsSunshineStays, Sun!BuildsAreKept, Sun!RunsLocked, Sun!Marked, Sun!OurDropin, Sun!At, Sun!To,
     Sun!Ends, Sun!NoRun, Sun!unitVars, Sun!dataVars, Sun!treeVars, Sun!flagVars, Sun!NoRecord
<1>7. Sun!RunsLocked
  BY DEF Sun!Init, Sun!SunInv, Sun!SunShapesOK, Sun!RunsOK, Sun!AsideOK, Sun!PackagedOK,
     Sun!PersonsSunshineStays, Sun!BuildsAreKept, Sun!RunsLocked, Sun!Marked, Sun!OurDropin, Sun!At, Sun!To,
     Sun!Ends, Sun!NoRun, Sun!unitVars, Sun!dataVars, Sun!treeVars, Sun!flagVars, Sun!NoRecord
<1> QED BY <1>1, <1>2, <1>3, <1>4, <1>5, <1>6, <1>7 DEF Sun!SunInv

LEMMA SunSetsUp ==
  ASSUME Sun!SunInv, Sun!SetsUp
  PROVE  Sun!SunInv'
<1>1. Sun!SunShapesOK'
  BY DEF Sun!SetsUp, Sun!SunInv, Sun!SunShapesOK, Sun!RunsOK, Sun!AsideOK, Sun!PackagedOK,
     Sun!PersonsSunshineStays, Sun!BuildsAreKept, Sun!RunsLocked, Sun!Marked, Sun!OurDropin, Sun!At, Sun!To,
     Sun!Ends, Sun!NoRun, Sun!unitVars, Sun!dataVars, Sun!treeVars, Sun!flagVars, Sun!Turn
<1>2. Sun!RunsOK'
  <2>1. x5' = "yes" => x5 = "yes" /\ x1' = x1
    BY DEF Sun!SetsUp
  <2>2. x13 = Sun!NoRun \/ x1 = "none"
    BY DEF Sun!SetsUp
  <2>3. UNCHANGED <<x3, x13, x12>>
    BY DEF Sun!SetsUp
  <2> QED BY <2>1, <2>2, <2>3 DEF Sun!SunInv, Sun!RunsOK, Sun!Marked, Sun!OurDropin, Sun!At, Sun!NoRun
<1>3. Sun!AsideOK'
  BY DEF Sun!SetsUp, Sun!SunInv, Sun!SunShapesOK, Sun!RunsOK, Sun!AsideOK, Sun!PackagedOK,
     Sun!PersonsSunshineStays, Sun!BuildsAreKept, Sun!RunsLocked, Sun!Marked, Sun!OurDropin, Sun!At, Sun!To,
     Sun!Ends, Sun!NoRun, Sun!unitVars, Sun!dataVars, Sun!treeVars, Sun!flagVars, Sun!Turn
<1>4. Sun!PackagedOK'
  <2> SUFFICES ASSUME ~x15' PROVE Sun!PackagedOK'
    BY DEF Sun!PackagedOK
  <2>1. ~x15 /\ x1 # "ours" /\ x13 = Sun!NoRun
    BY Zenon DEF Sun!SetsUp
  <2>2. ~x2 /\ (x2' => x1' = "none") /\ x6' /\ UNCHANGED <<x3, x7, x13>>
    BY DEF Sun!SetsUp
  <2>3. ~x7.on /\ ~x7.created
    BY <2>1, <2>2 DEF Sun!SunInv, Sun!PackagedOK, Sun!Marked, Sun!OurDropin, Sun!NoRun, Sun!At
  <2>4. "ours" \in x3' => x2'
    BY <2>1, <2>2 DEF Sun!SunInv, Sun!PackagedOK, Sun!OurDropin
  <2> QED BY <2>1, <2>2, <2>3, <2>4 DEF Sun!PackagedOK, Sun!OurDropin, Sun!NoRun, Sun!At
<1>5. Sun!PersonsSunshineStays'
  BY DEF Sun!SetsUp, Sun!SunInv, Sun!SunShapesOK, Sun!RunsOK, Sun!AsideOK, Sun!PackagedOK,
     Sun!PersonsSunshineStays, Sun!BuildsAreKept, Sun!RunsLocked, Sun!Marked, Sun!OurDropin, Sun!At, Sun!To,
     Sun!Ends, Sun!NoRun, Sun!unitVars, Sun!dataVars, Sun!treeVars, Sun!flagVars, Sun!Turn
<1>6. Sun!BuildsAreKept'
  BY DEF Sun!SetsUp, Sun!SunInv, Sun!SunShapesOK, Sun!RunsOK, Sun!AsideOK, Sun!PackagedOK,
     Sun!PersonsSunshineStays, Sun!BuildsAreKept, Sun!RunsLocked, Sun!Marked, Sun!OurDropin, Sun!At, Sun!To,
     Sun!Ends, Sun!NoRun, Sun!unitVars, Sun!dataVars, Sun!treeVars, Sun!flagVars, Sun!Turn
<1>7. Sun!RunsLocked'
  BY DEF Sun!SetsUp, Sun!SunInv, Sun!SunShapesOK, Sun!RunsOK, Sun!AsideOK, Sun!PackagedOK,
     Sun!PersonsSunshineStays, Sun!BuildsAreKept, Sun!RunsLocked, Sun!Marked, Sun!OurDropin, Sun!At, Sun!To,
     Sun!Ends, Sun!NoRun, Sun!unitVars, Sun!dataVars, Sun!treeVars, Sun!flagVars, Sun!Turn
<1> QED BY <1>1, <1>2, <1>3, <1>4, <1>5, <1>6, <1>7 DEF Sun!SunInv

LEMMA SunTakesOut ==
  ASSUME Sun!SunInv, Sun!TakesOut
  PROVE  Sun!SunInv'
<1>1. Sun!SunShapesOK'
  BY DEF Sun!TakesOut, Sun!SunInv, Sun!SunShapesOK, Sun!RunsOK, Sun!AsideOK, Sun!PackagedOK,
     Sun!PersonsSunshineStays, Sun!BuildsAreKept, Sun!RunsLocked, Sun!Marked, Sun!OurDropin, Sun!At, Sun!To,
     Sun!Ends, Sun!NoRun, Sun!unitVars, Sun!dataVars, Sun!treeVars, Sun!flagVars, Sun!Turn
<1>2. Sun!RunsOK'
  BY DEF Sun!TakesOut, Sun!SunInv, Sun!SunShapesOK, Sun!RunsOK, Sun!AsideOK, Sun!PackagedOK,
     Sun!PersonsSunshineStays, Sun!BuildsAreKept, Sun!RunsLocked, Sun!Marked, Sun!OurDropin, Sun!At, Sun!To,
     Sun!Ends, Sun!NoRun, Sun!unitVars, Sun!dataVars, Sun!treeVars, Sun!flagVars, Sun!Turn
<1>3. Sun!AsideOK'
  BY DEF Sun!TakesOut, Sun!SunInv, Sun!SunShapesOK, Sun!RunsOK, Sun!AsideOK, Sun!PackagedOK,
     Sun!PersonsSunshineStays, Sun!BuildsAreKept, Sun!RunsLocked, Sun!Marked, Sun!OurDropin, Sun!At, Sun!To,
     Sun!Ends, Sun!NoRun, Sun!unitVars, Sun!dataVars, Sun!treeVars, Sun!flagVars, Sun!Turn
<1>4. Sun!PackagedOK'
  <2> SUFFICES ASSUME ~x15' PROVE Sun!PackagedOK'
    BY DEF Sun!PackagedOK
  <2>1. ~x15 /\ ~(x1 = "ours" \/ "ours" \in x3) /\ x13 = Sun!NoRun
    BY Zenon DEF Sun!TakesOut, Sun!Marked, Sun!OurDropin
  <2>2. UNCHANGED <<x3, x7, x13>>
    BY DEF Sun!TakesOut, Sun!dataVars
  <2>3. CASE x2
    <3>1. x1 = "none"
      BY <2>1, <2>3 DEF Sun!SunInv, Sun!PackagedOK
    <3>2. x2' = FALSE
      BY <3>1 DEF Sun!TakesOut
    <3>3. ~x7.on /\ ~x7.created
      BY <2>1 DEF Sun!SunInv, Sun!PackagedOK, Sun!Marked, Sun!OurDropin, Sun!NoRun, Sun!At
    <3> QED BY <2>1, <2>2, <3>2, <3>3 DEF Sun!PackagedOK, Sun!OurDropin, Sun!NoRun, Sun!At
  <2>4. CASE ~x2
    <3>1. ~x2'
      BY <2>4 DEF Sun!TakesOut
    <3>2. ~x7.on /\ ~x7.created
      BY <2>1 DEF Sun!SunInv, Sun!PackagedOK, Sun!Marked, Sun!OurDropin, Sun!NoRun, Sun!At
    <3> QED BY <2>1, <2>2, <2>4, <3>1, <3>2 DEF Sun!SunInv, Sun!PackagedOK, Sun!OurDropin, Sun!NoRun, Sun!At
  <2> QED BY <2>3, <2>4
<1>5. Sun!PersonsSunshineStays'
  BY DEF Sun!TakesOut, Sun!SunInv, Sun!SunShapesOK, Sun!RunsOK, Sun!AsideOK, Sun!PackagedOK,
     Sun!PersonsSunshineStays, Sun!BuildsAreKept, Sun!RunsLocked, Sun!Marked, Sun!OurDropin, Sun!At, Sun!To,
     Sun!Ends, Sun!NoRun, Sun!unitVars, Sun!dataVars, Sun!treeVars, Sun!flagVars, Sun!Turn
<1>6. Sun!BuildsAreKept'
  BY DEF Sun!TakesOut, Sun!SunInv, Sun!SunShapesOK, Sun!RunsOK, Sun!AsideOK, Sun!PackagedOK,
     Sun!PersonsSunshineStays, Sun!BuildsAreKept, Sun!RunsLocked, Sun!Marked, Sun!OurDropin, Sun!At, Sun!To,
     Sun!Ends, Sun!NoRun, Sun!unitVars, Sun!dataVars, Sun!treeVars, Sun!flagVars, Sun!Turn
<1>7. Sun!RunsLocked'
  BY DEF Sun!TakesOut, Sun!SunInv, Sun!SunShapesOK, Sun!RunsOK, Sun!AsideOK, Sun!PackagedOK,
     Sun!PersonsSunshineStays, Sun!BuildsAreKept, Sun!RunsLocked, Sun!Marked, Sun!OurDropin, Sun!At, Sun!To,
     Sun!Ends, Sun!NoRun, Sun!unitVars, Sun!dataVars, Sun!treeVars, Sun!flagVars, Sun!Turn
<1> QED BY <1>1, <1>2, <1>3, <1>4, <1>5, <1>6, <1>7 DEF Sun!SunInv

LEMMA SunCustomises ==
  ASSUME Sun!SunInv, Sun!Customises
  PROVE  Sun!SunInv'
<1>1. /\ ("ours" \in x3' <=> "ours" \in x3)
      /\ UNCHANGED <<x1, x2, x4, x5, x6, x7, x8, x9, x10, x11, x12, x13, x14, x15, x16, x17, x19>>
  BY DEF Sun!Customises, Sun!dataVars, Sun!treeVars
<1> QED BY <1>1 DEF Sun!SunInv, Sun!SunShapesOK, Sun!RunsOK, Sun!AsideOK, Sun!PackagedOK, Sun!PersonsSunshineStays,
   Sun!BuildsAreKept, Sun!RunsLocked, Sun!Marked, Sun!OurDropin, Sun!At

LEMMA SunBuilds ==
  ASSUME Sun!SunInv, Sun!Builds
  PROVE  Sun!SunInv'
<1>1. Sun!SunShapesOK'
  BY DEF Sun!Builds, Sun!SunInv, Sun!SunShapesOK, Sun!RunsOK, Sun!AsideOK, Sun!PackagedOK,
     Sun!PersonsSunshineStays, Sun!BuildsAreKept, Sun!RunsLocked, Sun!Marked, Sun!OurDropin, Sun!At, Sun!To,
     Sun!Ends, Sun!NoRun, Sun!unitVars, Sun!dataVars, Sun!treeVars, Sun!flagVars, Sun!Turn
<1>2. Sun!RunsOK'
  BY DEF Sun!Builds, Sun!SunInv, Sun!SunShapesOK, Sun!RunsOK, Sun!AsideOK, Sun!PackagedOK,
     Sun!PersonsSunshineStays, Sun!BuildsAreKept, Sun!RunsLocked, Sun!Marked, Sun!OurDropin, Sun!At, Sun!To,
     Sun!Ends, Sun!NoRun, Sun!unitVars, Sun!dataVars, Sun!treeVars, Sun!flagVars, Sun!Turn
<1>3. Sun!AsideOK'
  BY DEF Sun!Builds, Sun!SunInv, Sun!SunShapesOK, Sun!RunsOK, Sun!AsideOK, Sun!PackagedOK,
     Sun!PersonsSunshineStays, Sun!BuildsAreKept, Sun!RunsLocked, Sun!Marked, Sun!OurDropin, Sun!At, Sun!To,
     Sun!Ends, Sun!NoRun, Sun!unitVars, Sun!dataVars, Sun!treeVars, Sun!flagVars, Sun!Turn
<1>4. Sun!PackagedOK'
  BY DEF Sun!Builds, Sun!SunInv, Sun!SunShapesOK, Sun!RunsOK, Sun!AsideOK, Sun!PackagedOK,
     Sun!PersonsSunshineStays, Sun!BuildsAreKept, Sun!RunsLocked, Sun!Marked, Sun!OurDropin, Sun!At, Sun!To,
     Sun!Ends, Sun!NoRun, Sun!unitVars, Sun!dataVars, Sun!treeVars, Sun!flagVars, Sun!Turn
<1>5. Sun!PersonsSunshineStays'
  BY DEF Sun!Builds, Sun!SunInv, Sun!SunShapesOK, Sun!RunsOK, Sun!AsideOK, Sun!PackagedOK,
     Sun!PersonsSunshineStays, Sun!BuildsAreKept, Sun!RunsLocked, Sun!Marked, Sun!OurDropin, Sun!At, Sun!To,
     Sun!Ends, Sun!NoRun, Sun!unitVars, Sun!dataVars, Sun!treeVars, Sun!flagVars, Sun!Turn
<1>6. Sun!BuildsAreKept'
  BY DEF Sun!Builds, Sun!SunInv, Sun!SunShapesOK, Sun!RunsOK, Sun!AsideOK, Sun!PackagedOK,
     Sun!PersonsSunshineStays, Sun!BuildsAreKept, Sun!RunsLocked, Sun!Marked, Sun!OurDropin, Sun!At, Sun!To,
     Sun!Ends, Sun!NoRun, Sun!unitVars, Sun!dataVars, Sun!treeVars, Sun!flagVars, Sun!Turn
<1>7. Sun!RunsLocked'
  BY DEF Sun!Builds, Sun!SunInv, Sun!SunShapesOK, Sun!RunsOK, Sun!AsideOK, Sun!PackagedOK,
     Sun!PersonsSunshineStays, Sun!BuildsAreKept, Sun!RunsLocked, Sun!Marked, Sun!OurDropin, Sun!At, Sun!To,
     Sun!Ends, Sun!NoRun, Sun!unitVars, Sun!dataVars, Sun!treeVars, Sun!flagVars, Sun!Turn
<1> QED BY <1>1, <1>2, <1>3, <1>4, <1>5, <1>6, <1>7 DEF Sun!SunInv

LEMMA SunForkWrites ==
  ASSUME Sun!SunInv, Sun!ForkWrites
  PROVE  Sun!SunInv'
  BY DEF Sun!ForkWrites, Sun!SunInv, Sun!SunShapesOK, Sun!RunsOK, Sun!AsideOK, Sun!PackagedOK,
     Sun!PersonsSunshineStays, Sun!BuildsAreKept, Sun!RunsLocked, Sun!Marked, Sun!OurDropin, Sun!At, Sun!To,
     Sun!Ends, Sun!NoRun, Sun!unitVars, Sun!dataVars, Sun!treeVars, Sun!flagVars

LEMMA SunInstall ==
  ASSUME Sun!SunInv, Sun!Install
  PROVE  Sun!SunInv'
  BY DEF Sun!Install, Sun!SunInv, Sun!SunShapesOK, Sun!RunsOK, Sun!AsideOK, Sun!PackagedOK,
     Sun!PersonsSunshineStays, Sun!BuildsAreKept, Sun!RunsLocked, Sun!Marked, Sun!At, Sun!To,
     Sun!Ends, Sun!NoRun, Sun!unitVars, Sun!dataVars, Sun!treeVars, Sun!flagVars, Sun!Owner, Sun!OurDropin

LEMMA SunUnfetched ==
  ASSUME Sun!SunInv, Sun!Unfetched
  PROVE  Sun!SunInv'
  BY DEF Sun!Unfetched, Sun!SunInv, Sun!SunShapesOK, Sun!RunsOK, Sun!AsideOK, Sun!PackagedOK,
     Sun!PersonsSunshineStays, Sun!BuildsAreKept, Sun!RunsLocked, Sun!Marked, Sun!OurDropin, Sun!At, Sun!To,
     Sun!Ends, Sun!NoRun, Sun!unitVars, Sun!dataVars, Sun!treeVars, Sun!flagVars

LEMMA SunUnpack ==
  ASSUME Sun!SunInv, Sun!Unpack
  PROVE  Sun!SunInv'
<1>1. CASE x10 = "none"
  <2>1. x13' = [x13 EXCEPT !.at = "swap"] /\ UNCHANGED x14
    BY <1>1 DEF Sun!Unpack, Sun!To
  <2> QED BY <2>1 DEF Sun!Unpack, Sun!unitVars, Sun!dataVars, Sun!treeVars, Sun!flagVars,
     Sun!SunInv, Sun!SunShapesOK, Sun!RunsOK, Sun!AsideOK, Sun!PackagedOK,
     Sun!PersonsSunshineStays, Sun!BuildsAreKept, Sun!RunsLocked, Sun!Marked, Sun!OurDropin, Sun!At
<1>2. CASE x10 = "pristine"
  <2>1. x13' = [x13 EXCEPT !.at = "aside"] /\ UNCHANGED x14
    BY <1>2 DEF Sun!Unpack, Sun!To, Sun!Replaceable
  <2> QED BY <1>2, <2>1 DEF Sun!Unpack, Sun!unitVars, Sun!dataVars, Sun!treeVars,
     Sun!flagVars, Sun!SunInv, Sun!SunShapesOK, Sun!RunsOK, Sun!AsideOK, Sun!PackagedOK,
     Sun!PersonsSunshineStays, Sun!BuildsAreKept, Sun!RunsLocked, Sun!Marked, Sun!OurDropin, Sun!At
<1>3. CASE x10 \notin {"none", "pristine"}
  <2>1. x13' = Sun!NoRun /\ x14' = "failed"
    BY <1>3 DEF Sun!Unpack, Sun!Ends, Sun!Replaceable
  <2> QED BY <2>1 DEF Sun!Unpack, Sun!NoRun, Sun!unitVars, Sun!dataVars, Sun!treeVars,
     Sun!flagVars, Sun!SunInv, Sun!SunShapesOK, Sun!RunsOK, Sun!AsideOK, Sun!PackagedOK,
     Sun!PersonsSunshineStays, Sun!BuildsAreKept, Sun!RunsLocked, Sun!Marked, Sun!OurDropin, Sun!At
<1> QED BY <1>1, <1>2, <1>3

LEMMA SunMoveAside ==
  ASSUME Sun!SunInv, Sun!MoveAside
  PROVE  Sun!SunInv'
  BY DEF Sun!MoveAside, Sun!SunInv, Sun!SunShapesOK, Sun!RunsOK, Sun!AsideOK, Sun!PackagedOK,
     Sun!PersonsSunshineStays, Sun!BuildsAreKept, Sun!RunsLocked, Sun!Marked, Sun!OurDropin, Sun!At, Sun!To,
     Sun!Ends, Sun!NoRun, Sun!unitVars, Sun!dataVars, Sun!treeVars, Sun!flagVars

LEMMA SunSwap ==
  ASSUME Sun!SunInv, Sun!Swap
  PROVE  Sun!SunInv'
<1>1. CASE x10 = "none"
  <2>1. x13' = [x13 EXCEPT !.at = "sweep"] /\ x10' = "pristine"
    BY <1>1 DEF Sun!Swap, Sun!To
  <2> QED BY <1>1, <2>1 DEF Sun!Swap, Sun!unitVars, Sun!dataVars, Sun!treeVars, Sun!flagVars,
     Sun!SunInv, Sun!SunShapesOK, Sun!RunsOK, Sun!AsideOK, Sun!PackagedOK,
     Sun!PersonsSunshineStays, Sun!BuildsAreKept, Sun!RunsLocked, Sun!Marked, Sun!OurDropin, Sun!At
<1>2. CASE x10 # "none"
  <2>1. x13' = Sun!NoRun /\ x10' = x10
    BY <1>2 DEF Sun!Swap, Sun!Ends
  <2> QED BY <2>1 DEF Sun!Swap, Sun!NoRun, Sun!unitVars, Sun!dataVars, Sun!treeVars,
     Sun!flagVars, Sun!SunInv, Sun!SunShapesOK, Sun!RunsOK, Sun!AsideOK, Sun!PackagedOK,
     Sun!PersonsSunshineStays, Sun!BuildsAreKept, Sun!RunsLocked, Sun!Marked, Sun!OurDropin, Sun!At
<1> QED BY <1>1, <1>2

LEMMA SunSweep ==
  ASSUME Sun!SunInv, Sun!Sweep
  PROVE  Sun!SunInv'
  BY DEF Sun!Sweep, Sun!SunInv, Sun!SunShapesOK, Sun!RunsOK, Sun!AsideOK, Sun!PackagedOK,
     Sun!PersonsSunshineStays, Sun!BuildsAreKept, Sun!RunsLocked, Sun!Marked, Sun!OurDropin, Sun!At, Sun!To,
     Sun!Ends, Sun!NoRun, Sun!unitVars, Sun!dataVars, Sun!treeVars, Sun!flagVars

LEMMA SunLogin ==
  ASSUME Sun!SunInv, Sun!Login
  PROVE  Sun!SunInv'
<1>1. CASE Sun!Owner = "foreign"
  BY <1>1 DEF Sun!Login, Sun!Ends, Sun!NoRun, Sun!unitVars, Sun!dataVars, Sun!treeVars,
     Sun!flagVars, Sun!SunInv, Sun!SunShapesOK, Sun!RunsOK, Sun!AsideOK, Sun!PackagedOK,
     Sun!PersonsSunshineStays, Sun!BuildsAreKept, Sun!RunsLocked, Sun!Marked, Sun!OurDropin, Sun!At
<1>2. CASE Sun!Owner # "foreign"
  <2>1. /\ x12' = TRUE
        /\ x13' = [x13 EXCEPT !.at = "record",
                             !.owner = IF x2 /\ x1 = "none" THEN "dropin" ELSE Sun!Owner]
    BY <1>2 DEF Sun!Login
  <2>2. Sun!Owner # "dropin"
    BY DEF Sun!Owner, Sun!OurDropin
  <2>3. x13'.op = x13.op /\ x13'.at = "record" /\ (x13'.owner = "dropin" <=> x2 /\ x1 = "none")
    BY <2>1, <2>2
  <2> QED BY <2>1, <2>3 DEF Sun!Login, Sun!unitVars, Sun!dataVars, Sun!treeVars, Sun!flagVars,
     Sun!SunInv, Sun!SunShapesOK, Sun!RunsOK, Sun!AsideOK, Sun!PackagedOK,
     Sun!PersonsSunshineStays, Sun!BuildsAreKept, Sun!RunsLocked, Sun!Marked, Sun!OurDropin, Sun!At
<1> QED BY <1>1, <1>2

LEMMA SunRecord ==
  ASSUME Sun!SunInv, Sun!Record
  PROVE  Sun!SunInv'
<1>1. Sun!SunShapesOK'
  BY DEF Sun!Record, Sun!SunInv, Sun!SunShapesOK, Sun!RunsOK, Sun!AsideOK, Sun!PackagedOK,
     Sun!PersonsSunshineStays, Sun!BuildsAreKept, Sun!RunsLocked, Sun!Marked, Sun!OurDropin, Sun!At, Sun!To,
     Sun!Ends, Sun!NoRun, Sun!unitVars, Sun!dataVars, Sun!treeVars, Sun!flagVars, Sun!Before
<1>2. Sun!RunsOK'
  BY DEF Sun!Record, Sun!SunInv, Sun!SunShapesOK, Sun!RunsOK, Sun!AsideOK, Sun!PackagedOK,
     Sun!PersonsSunshineStays, Sun!BuildsAreKept, Sun!RunsLocked, Sun!Marked, Sun!OurDropin, Sun!At, Sun!To,
     Sun!Ends, Sun!NoRun, Sun!unitVars, Sun!dataVars, Sun!treeVars, Sun!flagVars, Sun!Before
<1>3. Sun!AsideOK'
  BY DEF Sun!Record, Sun!SunInv, Sun!SunShapesOK, Sun!RunsOK, Sun!AsideOK, Sun!PackagedOK,
     Sun!PersonsSunshineStays, Sun!BuildsAreKept, Sun!RunsLocked, Sun!Marked, Sun!OurDropin, Sun!At, Sun!To,
     Sun!Ends, Sun!NoRun, Sun!unitVars, Sun!dataVars, Sun!treeVars, Sun!flagVars, Sun!Before
<1>4. Sun!PackagedOK'
  <2> SUFFICES ASSUME ~x15' PROVE Sun!PackagedOK'
    BY DEF Sun!PackagedOK
  <2>1. ~x15 /\ (x2 <=> x13.owner = "dropin")
    BY DEF Sun!Record, Sun!flagVars, Sun!SunInv, Sun!PackagedOK, Sun!At
  <2>2. /\ UNCHANGED <<x1, x2, x3, x6>> /\ x13'.at = "write"
        /\ x13'.op = "install" /\ x13'.owner = x13.owner
    BY DEF Sun!Record, Sun!unitVars, Sun!To, Sun!At
  <2>3. x7' = IF x7.on THEN x7 ELSE Sun!Before
    BY DEF Sun!Record
  <2>4. /\ Sun!Before.on = TRUE /\ (Sun!Before.disable => x13.owner # "dropin")
        /\ Sun!Before.created => x13.owner = "absent"
    BY Zenon DEF Sun!Before
  <2>5. /\ x7'.on /\ x2 => ~x7'.disable /\ ~x7'.created
        /\ x7'.created => x7'.on
    <3>1. CASE x7.on
      BY <2>1, <2>3, <3>1 DEF Sun!SunInv, Sun!PackagedOK
    <3>2. CASE ~x7.on
      BY <2>1, <2>3, <2>4, <3>2
    <3> QED BY <3>1, <3>2
  <2> QED BY <2>1, <2>2, <2>5 DEF Sun!SunInv, Sun!PackagedOK, Sun!OurDropin, Sun!At
<1>5. Sun!PersonsSunshineStays'
  BY DEF Sun!Record, Sun!SunInv, Sun!SunShapesOK, Sun!RunsOK, Sun!AsideOK, Sun!PackagedOK,
     Sun!PersonsSunshineStays, Sun!BuildsAreKept, Sun!RunsLocked, Sun!Marked, Sun!OurDropin, Sun!At, Sun!To,
     Sun!Ends, Sun!NoRun, Sun!unitVars, Sun!dataVars, Sun!treeVars, Sun!flagVars, Sun!Before
<1>6. Sun!BuildsAreKept'
  BY DEF Sun!Record, Sun!SunInv, Sun!SunShapesOK, Sun!RunsOK, Sun!AsideOK, Sun!PackagedOK,
     Sun!PersonsSunshineStays, Sun!BuildsAreKept, Sun!RunsLocked, Sun!Marked, Sun!OurDropin, Sun!At, Sun!To,
     Sun!Ends, Sun!NoRun, Sun!unitVars, Sun!dataVars, Sun!treeVars, Sun!flagVars, Sun!Before
<1>7. Sun!RunsLocked'
  BY DEF Sun!Record, Sun!SunInv, Sun!SunShapesOK, Sun!RunsOK, Sun!AsideOK, Sun!PackagedOK,
     Sun!PersonsSunshineStays, Sun!BuildsAreKept, Sun!RunsLocked, Sun!Marked, Sun!OurDropin, Sun!At, Sun!To,
     Sun!Ends, Sun!NoRun, Sun!unitVars, Sun!dataVars, Sun!treeVars, Sun!flagVars, Sun!Before
<1> QED BY <1>1, <1>2, <1>3, <1>4, <1>5, <1>6, <1>7 DEF Sun!SunInv

LEMMA SunWriteUnit ==
  ASSUME Sun!SunInv, Sun!WriteUnit
  PROVE  Sun!SunInv'
<1>1. Sun!SunShapesOK'
  BY DEF Sun!WriteUnit, Sun!SunInv, Sun!SunShapesOK, Sun!RunsOK, Sun!AsideOK, Sun!PackagedOK,
     Sun!PersonsSunshineStays, Sun!BuildsAreKept, Sun!RunsLocked, Sun!Marked, Sun!OurDropin, Sun!At, Sun!To,
     Sun!Ends, Sun!NoRun, Sun!unitVars, Sun!dataVars, Sun!treeVars, Sun!flagVars
<1>2. Sun!RunsOK'
  BY DEF Sun!WriteUnit, Sun!SunInv, Sun!SunShapesOK, Sun!RunsOK, Sun!AsideOK, Sun!PackagedOK,
     Sun!PersonsSunshineStays, Sun!BuildsAreKept, Sun!RunsLocked, Sun!Marked, Sun!OurDropin, Sun!At, Sun!To,
     Sun!Ends, Sun!NoRun, Sun!unitVars, Sun!dataVars, Sun!treeVars, Sun!flagVars
<1>3. Sun!AsideOK'
  BY DEF Sun!WriteUnit, Sun!SunInv, Sun!SunShapesOK, Sun!RunsOK, Sun!AsideOK, Sun!PackagedOK,
     Sun!PersonsSunshineStays, Sun!BuildsAreKept, Sun!RunsLocked, Sun!Marked, Sun!OurDropin, Sun!At, Sun!To,
     Sun!Ends, Sun!NoRun, Sun!unitVars, Sun!dataVars, Sun!treeVars, Sun!flagVars
<1>4. Sun!PackagedOK'
  BY DEF Sun!WriteUnit, Sun!SunInv, Sun!SunShapesOK, Sun!RunsOK, Sun!AsideOK, Sun!PackagedOK,
     Sun!PersonsSunshineStays, Sun!BuildsAreKept, Sun!RunsLocked, Sun!Marked, Sun!OurDropin, Sun!At, Sun!To,
     Sun!Ends, Sun!NoRun, Sun!unitVars, Sun!dataVars, Sun!treeVars, Sun!flagVars
<1>5. Sun!PersonsSunshineStays'
  BY DEF Sun!WriteUnit, Sun!SunInv, Sun!SunShapesOK, Sun!RunsOK, Sun!AsideOK, Sun!PackagedOK,
     Sun!PersonsSunshineStays, Sun!BuildsAreKept, Sun!RunsLocked, Sun!Marked, Sun!OurDropin, Sun!At, Sun!To,
     Sun!Ends, Sun!NoRun, Sun!unitVars, Sun!dataVars, Sun!treeVars, Sun!flagVars
<1>6. Sun!BuildsAreKept'
  BY DEF Sun!WriteUnit, Sun!SunInv, Sun!SunShapesOK, Sun!RunsOK, Sun!AsideOK, Sun!PackagedOK,
     Sun!PersonsSunshineStays, Sun!BuildsAreKept, Sun!RunsLocked, Sun!Marked, Sun!OurDropin, Sun!At, Sun!To,
     Sun!Ends, Sun!NoRun, Sun!unitVars, Sun!dataVars, Sun!treeVars, Sun!flagVars
<1>7. Sun!RunsLocked'
  BY DEF Sun!WriteUnit, Sun!SunInv, Sun!SunShapesOK, Sun!RunsOK, Sun!AsideOK, Sun!PackagedOK,
     Sun!PersonsSunshineStays, Sun!BuildsAreKept, Sun!RunsLocked, Sun!Marked, Sun!OurDropin, Sun!At, Sun!To,
     Sun!Ends, Sun!NoRun, Sun!unitVars, Sun!dataVars, Sun!treeVars, Sun!flagVars
<1> QED BY <1>1, <1>2, <1>3, <1>4, <1>5, <1>6, <1>7 DEF Sun!SunInv

LEMMA SunStart ==
  ASSUME Sun!SunInv, Sun!Start
  PROVE  Sun!SunInv'
  BY DEF Sun!Start, Sun!SunInv, Sun!SunShapesOK, Sun!RunsOK, Sun!AsideOK, Sun!PackagedOK,
     Sun!PersonsSunshineStays, Sun!BuildsAreKept, Sun!RunsLocked, Sun!Marked, Sun!OurDropin, Sun!At, Sun!To,
     Sun!Ends, Sun!NoRun, Sun!unitVars, Sun!dataVars, Sun!treeVars, Sun!flagVars

LEMMA SunRemove ==
  ASSUME Sun!SunInv, Sun!Remove
  PROVE  Sun!SunInv'
  BY DEF Sun!Remove, Sun!SunInv, Sun!SunShapesOK, Sun!RunsOK, Sun!AsideOK, Sun!PackagedOK,
     Sun!PersonsSunshineStays, Sun!BuildsAreKept, Sun!RunsLocked, Sun!Marked, Sun!OurDropin, Sun!At, Sun!To,
     Sun!Ends, Sun!NoRun, Sun!unitVars, Sun!dataVars, Sun!treeVars, Sun!flagVars

LEMMA SunStop ==
  ASSUME Sun!SunInv, Sun!Stop
  PROVE  Sun!SunInv'
<1>1. /\ x13' = [x13 EXCEPT !.at = "unlink"] /\ x13.op = "remove" /\ x13.at = "stop" /\ x5' # "yes"
      /\ UNCHANGED <<x1, x2, x3, x7, x8, x9, x10, x11, x12, x14, x15, x16, x17, x18, x19>>
  BY DEF Sun!Stop, Sun!To, Sun!At, Sun!dataVars, Sun!treeVars, Sun!flagVars
<1>2. x4' \in BOOLEAN /\ x6' \in BOOLEAN
  BY Zenon DEF Sun!Stop, Sun!SunInv, Sun!SunShapesOK
<1>3. ~x15 /\ x2 => x4' = x6'
  <2> SUFFICES ASSUME ~x15, x2 PROVE x4' = x6'
    OBVIOUS
  <2>1. x1 = "none" /\ x4 = x6 /\ x6
    BY DEF Sun!SunInv, Sun!PackagedOK, Sun!PersonsSunshineStays
  <2>2. ~Sun!EnabledByUs
    <3>1. CASE x7.on
      BY <2>1, <3>1 DEF Sun!SunInv, Sun!PackagedOK, Sun!EnabledByUs
    <3>2. CASE ~x7.on
      BY <2>1, <3>2 DEF Sun!EnabledByUs
    <3> QED BY <3>1, <3>2
  <2> QED BY <2>1, <2>2, Zenon DEF Sun!Stop, Sun!SunInv, Sun!SunShapesOK
<1>4. ~x15 /\ x2 => x6'
  <2> SUFFICES ASSUME ~x15, x2 PROVE x6'
    OBVIOUS
  <2>1. x1 = "none" /\ x6
    BY DEF Sun!SunInv, Sun!PackagedOK
  <2> QED BY <2>1, Zenon DEF Sun!Stop
<1>5. Sun!SunShapesOK' /\ Sun!RunsOK' /\ Sun!AsideOK' /\ Sun!RunsLocked' /\ Sun!BuildsAreKept'
  BY <1>1, <1>2 DEF Sun!SunInv, Sun!SunShapesOK, Sun!RunsOK, Sun!AsideOK, Sun!RunsLocked, Sun!BuildsAreKept,
     Sun!Marked, Sun!OurDropin, Sun!At
<1>6. Sun!PackagedOK'
  BY <1>1, <1>4 DEF Sun!SunInv, Sun!PackagedOK, Sun!Marked, Sun!OurDropin, Sun!At
<1>7. Sun!PersonsSunshineStays'
  BY <1>1, <1>3 DEF Sun!SunInv, Sun!PersonsSunshineStays
<1> QED BY <1>5, <1>6, <1>7 DEF Sun!SunInv

LEMMA SunUnlink ==
  ASSUME Sun!SunInv, Sun!Unlink
  PROVE  Sun!SunInv'
<1>1. Sun!SunShapesOK'
  BY DEF Sun!Unlink, Sun!SunInv, Sun!SunShapesOK, Sun!RunsOK, Sun!AsideOK, Sun!PackagedOK,
     Sun!PersonsSunshineStays, Sun!BuildsAreKept, Sun!RunsLocked, Sun!Marked, Sun!OurDropin, Sun!At, Sun!To,
     Sun!Ends, Sun!NoRun, Sun!unitVars, Sun!dataVars, Sun!treeVars, Sun!flagVars
<1>2. Sun!RunsOK'
  BY DEF Sun!Unlink, Sun!SunInv, Sun!SunShapesOK, Sun!RunsOK, Sun!AsideOK, Sun!PackagedOK,
     Sun!PersonsSunshineStays, Sun!BuildsAreKept, Sun!RunsLocked, Sun!Marked, Sun!OurDropin, Sun!At, Sun!To,
     Sun!Ends, Sun!NoRun, Sun!unitVars, Sun!dataVars, Sun!treeVars, Sun!flagVars
<1>3. Sun!AsideOK'
  BY DEF Sun!Unlink, Sun!SunInv, Sun!SunShapesOK, Sun!RunsOK, Sun!AsideOK, Sun!PackagedOK,
     Sun!PersonsSunshineStays, Sun!BuildsAreKept, Sun!RunsLocked, Sun!Marked, Sun!OurDropin, Sun!At, Sun!To,
     Sun!Ends, Sun!NoRun, Sun!unitVars, Sun!dataVars, Sun!treeVars, Sun!flagVars
<1>4. Sun!PackagedOK'
  BY DEF Sun!Unlink, Sun!SunInv, Sun!SunShapesOK, Sun!RunsOK, Sun!AsideOK, Sun!PackagedOK,
     Sun!PersonsSunshineStays, Sun!BuildsAreKept, Sun!RunsLocked, Sun!Marked, Sun!OurDropin, Sun!At, Sun!To,
     Sun!Ends, Sun!NoRun, Sun!unitVars, Sun!dataVars, Sun!treeVars, Sun!flagVars
<1>5. Sun!PersonsSunshineStays'
  BY DEF Sun!Unlink, Sun!SunInv, Sun!SunShapesOK, Sun!RunsOK, Sun!AsideOK, Sun!PackagedOK,
     Sun!PersonsSunshineStays, Sun!BuildsAreKept, Sun!RunsLocked, Sun!Marked, Sun!OurDropin, Sun!At, Sun!To,
     Sun!Ends, Sun!NoRun, Sun!unitVars, Sun!dataVars, Sun!treeVars, Sun!flagVars
<1>6. Sun!BuildsAreKept'
  BY DEF Sun!Unlink, Sun!SunInv, Sun!SunShapesOK, Sun!RunsOK, Sun!AsideOK, Sun!PackagedOK,
     Sun!PersonsSunshineStays, Sun!BuildsAreKept, Sun!RunsLocked, Sun!Marked, Sun!OurDropin, Sun!At, Sun!To,
     Sun!Ends, Sun!NoRun, Sun!unitVars, Sun!dataVars, Sun!treeVars, Sun!flagVars
<1>7. Sun!RunsLocked'
  BY DEF Sun!Unlink, Sun!SunInv, Sun!SunShapesOK, Sun!RunsOK, Sun!AsideOK, Sun!PackagedOK,
     Sun!PersonsSunshineStays, Sun!BuildsAreKept, Sun!RunsLocked, Sun!Marked, Sun!OurDropin, Sun!At, Sun!To,
     Sun!Ends, Sun!NoRun, Sun!unitVars, Sun!dataVars, Sun!treeVars, Sun!flagVars
<1> QED BY <1>1, <1>2, <1>3, <1>4, <1>5, <1>6, <1>7 DEF Sun!SunInv

LEMMA SunDropTrees ==
  ASSUME Sun!SunInv, Sun!DropTrees
  PROVE  Sun!SunInv'
  BY DEF Sun!DropTrees, Sun!SunInv, Sun!SunShapesOK, Sun!RunsOK, Sun!AsideOK, Sun!PackagedOK,
     Sun!PersonsSunshineStays, Sun!BuildsAreKept, Sun!RunsLocked, Sun!Marked, Sun!OurDropin, Sun!At, Sun!To,
     Sun!Ends, Sun!NoRun, Sun!unitVars, Sun!dataVars, Sun!treeVars, Sun!flagVars,
     Sun!Replaceable

LEMMA SunDropLogin ==
  ASSUME Sun!SunInv, Sun!DropLogin
  PROVE  Sun!SunInv'
<1>1. Sun!SunShapesOK'
  BY DEF Sun!DropLogin, Sun!SunInv, Sun!SunShapesOK, Sun!RunsOK, Sun!AsideOK, Sun!PackagedOK,
     Sun!PersonsSunshineStays, Sun!BuildsAreKept, Sun!RunsLocked, Sun!Marked, Sun!OurDropin, Sun!At, Sun!To,
     Sun!Ends, Sun!NoRun, Sun!unitVars, Sun!dataVars, Sun!treeVars, Sun!flagVars
<1>2. Sun!RunsOK'
  BY DEF Sun!DropLogin, Sun!SunInv, Sun!SunShapesOK, Sun!RunsOK, Sun!AsideOK, Sun!PackagedOK,
     Sun!PersonsSunshineStays, Sun!BuildsAreKept, Sun!RunsLocked, Sun!Marked, Sun!OurDropin, Sun!At, Sun!To,
     Sun!Ends, Sun!NoRun, Sun!unitVars, Sun!dataVars, Sun!treeVars, Sun!flagVars
<1>3. Sun!AsideOK'
  BY DEF Sun!DropLogin, Sun!SunInv, Sun!SunShapesOK, Sun!RunsOK, Sun!AsideOK, Sun!PackagedOK,
     Sun!PersonsSunshineStays, Sun!BuildsAreKept, Sun!RunsLocked, Sun!Marked, Sun!OurDropin, Sun!At, Sun!To,
     Sun!Ends, Sun!NoRun, Sun!unitVars, Sun!dataVars, Sun!treeVars, Sun!flagVars
<1>4. Sun!PackagedOK'
  BY DEF Sun!DropLogin, Sun!SunInv, Sun!SunShapesOK, Sun!RunsOK, Sun!AsideOK, Sun!PackagedOK,
     Sun!PersonsSunshineStays, Sun!BuildsAreKept, Sun!RunsLocked, Sun!Marked, Sun!OurDropin, Sun!At, Sun!To,
     Sun!Ends, Sun!NoRun, Sun!unitVars, Sun!dataVars, Sun!treeVars, Sun!flagVars
<1>5. Sun!PersonsSunshineStays'
  BY DEF Sun!DropLogin, Sun!SunInv, Sun!SunShapesOK, Sun!RunsOK, Sun!AsideOK, Sun!PackagedOK,
     Sun!PersonsSunshineStays, Sun!BuildsAreKept, Sun!RunsLocked, Sun!Marked, Sun!OurDropin, Sun!At, Sun!To,
     Sun!Ends, Sun!NoRun, Sun!unitVars, Sun!dataVars, Sun!treeVars, Sun!flagVars
<1>6. Sun!BuildsAreKept'
  BY DEF Sun!DropLogin, Sun!SunInv, Sun!SunShapesOK, Sun!RunsOK, Sun!AsideOK, Sun!PackagedOK,
     Sun!PersonsSunshineStays, Sun!BuildsAreKept, Sun!RunsLocked, Sun!Marked, Sun!OurDropin, Sun!At, Sun!To,
     Sun!Ends, Sun!NoRun, Sun!unitVars, Sun!dataVars, Sun!treeVars, Sun!flagVars
<1>7. Sun!RunsLocked'
  BY DEF Sun!DropLogin, Sun!SunInv, Sun!SunShapesOK, Sun!RunsOK, Sun!AsideOK, Sun!PackagedOK,
     Sun!PersonsSunshineStays, Sun!BuildsAreKept, Sun!RunsLocked, Sun!Marked, Sun!OurDropin, Sun!At, Sun!To,
     Sun!Ends, Sun!NoRun, Sun!unitVars, Sun!dataVars, Sun!treeVars, Sun!flagVars
<1> QED BY <1>1, <1>2, <1>3, <1>4, <1>5, <1>6, <1>7 DEF Sun!SunInv

LEMMA SunDropClients ==
  ASSUME Sun!SunInv, Sun!DropClients
  PROVE  Sun!SunInv'
  BY DEF Sun!DropClients, Sun!SunInv, Sun!SunShapesOK, Sun!RunsOK, Sun!AsideOK,
     Sun!PackagedOK, Sun!PersonsSunshineStays, Sun!BuildsAreKept, Sun!RunsLocked, Sun!Marked, Sun!OurDropin,
     Sun!At, Sun!To, Sun!Ends, Sun!NoRun, Sun!unitVars, Sun!dataVars, Sun!treeVars,
     Sun!flagVars, Sun!CreatedByUs

LEMMA SunForget ==
  ASSUME Sun!SunInv, Sun!Forget
  PROVE  Sun!SunInv'
  BY DEF Sun!Forget, Sun!SunInv, Sun!SunShapesOK, Sun!RunsOK, Sun!AsideOK, Sun!PackagedOK,
     Sun!PersonsSunshineStays, Sun!BuildsAreKept, Sun!RunsLocked, Sun!Marked, Sun!OurDropin, Sun!At, Sun!To,
     Sun!Ends, Sun!NoRun, Sun!unitVars, Sun!dataVars, Sun!treeVars, Sun!flagVars, Sun!NoRecord

LEMMA SunKilled ==
  ASSUME Sun!SunInv, Sun!Killed
  PROVE  Sun!SunInv'
  BY DEF Sun!Killed, Sun!SunInv, Sun!SunShapesOK, Sun!RunsOK, Sun!AsideOK, Sun!PackagedOK,
     Sun!PersonsSunshineStays, Sun!BuildsAreKept, Sun!RunsLocked, Sun!Marked, Sun!OurDropin, Sun!At, Sun!To,
     Sun!Ends, Sun!NoRun, Sun!unitVars, Sun!dataVars, Sun!treeVars, Sun!flagVars

LEMMA SunStutter ==
  ASSUME Sun!SunInv, UNCHANGED Sun!sunshineVars
  PROVE  Sun!SunInv'
  BY DEF Sun!sunshineVars, Sun!SunInv, Sun!SunShapesOK, Sun!RunsOK, Sun!AsideOK,
     Sun!PackagedOK, Sun!PersonsSunshineStays, Sun!BuildsAreKept, Sun!RunsLocked, Sun!Marked, Sun!OurDropin,
     Sun!At

LEMMA SunNext ==
  ASSUME Sun!SunInv, Sun!Next
  PROVE  Sun!SunInv'
  BY SunSetsUp, SunTakesOut, SunCustomises, SunBuilds, SunForkWrites, SunInstall, SunUnfetched, SunUnpack,
     SunMoveAside, SunSwap, SunSweep, SunLogin, SunRecord, SunWriteUnit, SunStart, SunRemove,
     SunStop, SunUnlink, SunDropTrees, SunDropLogin, SunDropClients, SunForget, SunKilled DEF
     Sun!Next

-----------------------------------------------------------------------------
(* The local socket: each step keeps SocketInv. *)

LEMMA SocketInit == Sock!Init => Sock!SocketInv
  BY DEF Sock!Init, Sock!SocketInv, Sock!MadeOK, Sock!AskedOK, Sock!ListenerWins, Sock!Steps, Sock!Nobody

LEMMA SocketStart ==
  ASSUME Sock!SocketInv, NEW d \in Daemons, Sock!Start(d)
  PROVE  Sock!SocketInv'
  BY DEF Sock!Start, Sock!To, Sock!SocketInv, Sock!MadeOK, Sock!AskedOK, Sock!ListenerWins,
     Sock!Steps

LEMMA SocketLook ==
  ASSUME Sock!SocketInv, NEW d \in Daemons, Sock!Look(d)
  PROVE  Sock!SocketInv'
  BY DEF Sock!Look, Sock!To, Sock!SocketInv, Sock!MadeOK, Sock!AskedOK, Sock!ListenerWins,
     Sock!Steps

LEMMA SocketProbe ==
  ASSUME Sock!SocketInv, NEW d \in Daemons, Sock!Probe(d)
  PROVE  Sock!SocketInv'
  BY DEF Sock!Probe, Sock!To, Sock!SocketInv, Sock!MadeOK, Sock!AskedOK, Sock!ListenerWins,
     Sock!Steps, Sock!Refused

\* A daemon whose start or close is over knows nothing of any inode.
LEMMA SocketEnds ==
  ASSUME Sock!SocketInv, NEW d \in Daemons, Sock!Ends(d), x1' \in 0..x10, UNCHANGED <<x9, x10>>,
         x1' \in {0, x1}
  PROVE  Sock!SocketInv'
<1>1. Sock!MadeOK'
  BY DEF Sock!Ends, Sock!Forgets, Sock!To, Sock!SocketInv, Sock!MadeOK, Sock!Steps
<1>2. Sock!AskedOK'
  BY DEF Sock!Ends, Sock!Forgets, Sock!To, Sock!SocketInv, Sock!MadeOK, Sock!AskedOK, Sock!Steps
<1> QED BY <1>1, <1>2 DEF Sock!SocketInv, Sock!ListenerWins

LEMMA SocketLookAgain ==
  ASSUME Sock!SocketInv, NEW d \in Daemons, Sock!LookAgain(d)
  PROVE  Sock!SocketInv'
<1>1. CASE x1 = 0
  BY <1>1, SocketEnds DEF Sock!LookAgain, Sock!SocketInv, Sock!MadeOK
<1>2. CASE x1 # 0
  BY <1>2 DEF Sock!LookAgain, Sock!SameInode, Sock!To, Sock!SocketInv, Sock!MadeOK, Sock!AskedOK,
     Sock!ListenerWins, Sock!Steps
<1> QED BY <1>1, <1>2

\* What an unlink takes from a listener is not one its daemon knew, where it may go.
LEMMA SocketTakes ==
  ASSUME Sock!ListenerWins, NEW d \in Daemons, NEW mayGo \in BOOLEAN, Sock!Takes(d, mayGo), Sock!Knew(d) => mayGo
  PROVE  Sock!ListenerWins'
  BY DEF Sock!ListenerWins, Sock!Takes

LEMMA SocketReclaim ==
  ASSUME Sock!SocketInv, NEW d \in Daemons, Sock!Reclaim(d)
  PROVE  Sock!SocketInv'
<1>1. Sock!Knew(d) => x1 = x8[d]
  BY DEF Sock!Reclaim, Sock!Knew, Sock!SocketInv, Sock!AskedOK
<1>2. Sock!ListenerWins'
  BY <1>1, SocketTakes DEF Sock!Reclaim, Sock!SocketInv
<1>3. x1' = 0 /\ x10' = x10 /\ Sock!Forgets(d) /\ \E s \in {"bind", "down"} : Sock!To(d, s)
  BY DEF Sock!Reclaim, Sock!Ends
<1>4. Sock!MadeOK'
  BY <1>3 DEF Sock!Forgets, Sock!To, Sock!SocketInv, Sock!MadeOK, Sock!Steps
<1>5. Sock!AskedOK'
  BY <1>3 DEF Sock!Forgets, Sock!To, Sock!SocketInv, Sock!MadeOK, Sock!AskedOK, Sock!Steps
<1> QED BY <1>2, <1>4, <1>5 DEF Sock!SocketInv

LEMMA SocketBind ==
  ASSUME Sock!SocketInv, NEW d \in Daemons, Sock!Bind(d)
  PROVE  Sock!SocketInv'
<1>1. CASE x1 # 0
  BY <1>1, SocketEnds DEF Sock!Bind, Sock!SocketInv, Sock!MadeOK
<1>2. CASE x1 = 0
  <2>1. /\ x10' = x10 + 1 /\ x1' = x10 + 1 /\ x11' = [x11 EXCEPT ![d] = x10 + 1]
        /\ Sock!To(d, "name") /\ UNCHANGED <<x4, x8, x5, x9>>
    BY <1>2 DEF Sock!Bind
  <2>2. Sock!MadeOK'
    BY <2>1 DEF Sock!To, Sock!SocketInv, Sock!MadeOK, Sock!Steps
  <2>3. \A e \in Daemons : x4[e] # x1'
    BY <2>1 DEF Sock!SocketInv, Sock!MadeOK
  <2>4. Sock!AskedOK'
    BY <2>1, <2>3 DEF Sock!To, Sock!SocketInv, Sock!MadeOK, Sock!AskedOK, Sock!Steps
  <2> QED BY <2>1, <2>2, <2>4 DEF Sock!SocketInv, Sock!ListenerWins
<1> QED BY <1>1, <1>2

LEMMA SocketName ==
  ASSUME Sock!SocketInv, NEW d \in Daemons, Sock!Name(d)
  PROVE  Sock!SocketInv'
<1>1. CASE x1 = 0
  BY <1>1, SocketEnds DEF Sock!Name, Sock!SocketInv, Sock!MadeOK
<1>2. CASE x1 # 0
  BY <1>2 DEF Sock!Name, Sock!To, Sock!SocketInv, Sock!MadeOK, Sock!AskedOK, Sock!ListenerWins,
     Sock!Steps
<1> QED BY <1>1, <1>2

LEMMA SocketListen ==
  ASSUME Sock!SocketInv, NEW d \in Daemons, Sock!Listen(d)
  PROVE  Sock!SocketInv'
  BY DEF Sock!Listen, Sock!To, Sock!SocketInv, Sock!MadeOK, Sock!AskedOK, Sock!ListenerWins,
     Sock!Steps

LEMMA SocketClose ==
  ASSUME Sock!SocketInv, NEW d \in Daemons, Sock!Close(d)
  PROVE  Sock!SocketInv'
  BY DEF Sock!Close, Sock!To, Sock!SocketInv, Sock!MadeOK, Sock!AskedOK, Sock!ListenerWins,
     Sock!Steps

LEMMA SocketLookOwn ==
  ASSUME Sock!SocketInv, NEW d \in Daemons, Sock!LookOwn(d)
  PROVE  Sock!SocketInv'
<1>1. CASE ~Sock!Owned(d)
  BY <1>1, SocketEnds DEF Sock!LookOwn, Sock!SocketInv, Sock!MadeOK
<1>2. CASE Sock!Owned(d)
  BY <1>2 DEF Sock!LookOwn, Sock!Owned, Sock!To, Sock!SocketInv, Sock!MadeOK, Sock!AskedOK,
     Sock!ListenerWins, Sock!Steps
<1> QED BY <1>1, <1>2

LEMMA SocketRemoveOwn ==
  ASSUME Sock!SocketInv, NEW d \in Daemons, Sock!RemoveOwn(d)
  PROVE  Sock!SocketInv'
<1>1. Sock!Knew(d) => x1 = x11[d]
  BY DEF Sock!RemoveOwn, Sock!Knew, Sock!SocketInv, Sock!AskedOK
<1>2. Sock!ListenerWins'
  BY <1>1, SocketTakes DEF Sock!RemoveOwn, Sock!SocketInv
<1>3. x1' = 0 /\ x10' = x10 /\ Sock!Forgets(d) /\ Sock!To(d, "down")
  BY DEF Sock!RemoveOwn, Sock!Ends
<1>4. Sock!MadeOK'
  BY <1>3 DEF Sock!Forgets, Sock!To, Sock!SocketInv, Sock!MadeOK, Sock!Steps
<1>5. Sock!AskedOK'
  BY <1>3 DEF Sock!Forgets, Sock!To, Sock!SocketInv, Sock!MadeOK, Sock!AskedOK, Sock!Steps
<1> QED BY <1>2, <1>4, <1>5 DEF Sock!SocketInv

LEMMA SocketKilled ==
  ASSUME Sock!SocketInv, NEW d \in Daemons, Sock!Killed(d)
  PROVE  Sock!SocketInv'
  BY SocketEnds DEF Sock!Killed, Sock!SocketInv, Sock!MadeOK

LEMMA SocketStutter ==
  ASSUME Sock!SocketInv, UNCHANGED Sock!socketVars
  PROVE  Sock!SocketInv'
  BY DEF Sock!socketVars, Sock!SocketInv, Sock!MadeOK, Sock!AskedOK, Sock!ListenerWins

LEMMA SocketNext ==
  ASSUME Sock!SocketInv, Sock!Next
  PROVE  Sock!SocketInv'
  BY SocketStart, SocketLook, SocketProbe, SocketLookAgain, SocketReclaim, SocketBind, SocketName,
     SocketListen, SocketClose, SocketLookOwn, SocketRemoveOwn, SocketKilled DEF Sock!Next

-----------------------------------------------------------------------------
(* What an install puts on the host: every behaviour. *)

\* The same of the directories the installer replaces, and what each step leaves of a person's.
TreesPartInv == part = "tree" => Tree!TreesInv
PersonsStay == part = "tree" => Tree!NotMoved

LEMMA TreesAlways == Spec => []TreesPartInv /\ [][PersonsStay]_all
<1> USE DEF TreesPartInv, PersonsStay
<1>1. Init => TreesPartInv
  BY TreesInit DEF Init
<1>2. TreesPartInv /\ [Next]_all => TreesPartInv' /\ PersonsStay
  <2> SUFFICES ASSUME TreesPartInv, [Next]_all PROVE TreesPartInv' /\ PersonsStay
    OBVIOUS
  <2>1. CASE UNCHANGED all
    <3>1. part' = part /\ UNCHANGED Tree!treeVars
      BY <2>1 DEF all, Tree!treeVars
    <3> QED BY <3>1, TreesStutter
  <2>2. CASE Next
    <3>1. part' = part /\ (part = "tree" => Tree!Next)
      BY <2>2 DEF Next
    <3> QED BY <3>1, TreesNext
  <2> QED BY <2>1, <2>2
<1> QED BY <1>1, <1>2, PTL DEF Spec

\* Of install_host.py, that a checkout's work is in it or kept, that an update that fails leaves
\* the virtualenv that ran, and that a person's is neither moved nor deleted, at whichever of
\* its steps a run fails or is killed.
THEOREM TreesStay == Spec => TreesAreKept
<1>1. TreesPartInv => (part = "tree" => Tree!WorkIsKept /\ Tree!FailedUpdateKeeps)
  BY DEF TreesPartInv, Tree!TreesInv
<1> QED BY <1>1, TreesAlways, PTL DEF TreesAreKept, PersonsStay

\* The same of what an install puts on the host.
InstalledInv ==
  /\ part = "pam" => Pam!PamInv
  /\ part = "file" => File!FileInv
  /\ part = "serve" => Serve!ServeInv
  /\ part = "sun" => Sun!SunInv
  /\ part = "sock" => Sock!SocketInv

LEMMA InstalledAlways == Spec => []InstalledInv
<1> USE DEF InstalledInv
<1>1. Init => InstalledInv
  BY PamInit, FileInit, ServeInit, SunInit, SocketInit DEF Init
<1>2. InstalledInv /\ [Next]_all => InstalledInv'
  <2> SUFFICES ASSUME InstalledInv, [Next]_all PROVE InstalledInv'
    OBVIOUS
  <2>1. CASE UNCHANGED all
    <3>1. part' = part
      BY <2>1 DEF all
    <3>2. UNCHANGED Pam!pamVars
      BY <2>1 DEF all, Pam!pamVars
    <3>3. UNCHANGED File!fileVars
      BY <2>1 DEF all, File!fileVars
    <3>4. UNCHANGED Serve!serveVars
      BY <2>1 DEF all, Serve!serveVars
    <3>5. UNCHANGED Sun!sunshineVars
      BY <2>1 DEF all, Sun!sunshineVars
    <3>6. UNCHANGED Sock!socketVars
      BY <2>1 DEF all, Sock!socketVars
    <3> QED BY <3>1, <3>2, <3>3, <3>4, <3>5, <3>6, PamStutter, FileStutter, ServeStutter, SunStutter,
               SocketStutter
  <2>2. CASE Next
    <3>1. part' = part
      BY <2>2 DEF Next
    <3>2. part = "pam" => Pam!Next
      BY <2>2 DEF Next
    <3>3. part = "file" => File!Next
      BY <2>2 DEF Next
    <3>4. part = "serve" => Serve!Next
      BY <2>2 DEF Next
    <3>5. part = "sun" => Sun!Next
      BY <2>2 DEF Next
    <3>6. part = "sock" => Sock!Next
      BY <2>2 DEF Next
    <3> QED BY <3>1, <3>2, <3>3, <3>4, <3>5, <3>6, PamNext, FileNext, ServeNext, SunNext, SocketNext
  <2> QED BY <2>1, <2>2
<1> QED BY <1>1, <1>2, PTL DEF Spec

\* Of pam_install.py, install_host.py, odomo_serve.py, sunshine_package.py and ipc.py, that what
\* is a person's stays and what is Omodachi's goes, whatever a person does between two steps of
\* an install or a removal and wherever one is killed, and that of daemons that start and
\* close side by side none removes the socket of one that listens and that it knew.  A removal
\* whose stop of the fork or of the daemon failed, and an inode that changed between a look and
\* the unlink after it, are exempt where the parts name them (RunsLocked, RemovedIsComplete,
\* ListenerWins).
THEOREM HostFilesAreKept == Spec => []HostFilesKept
<1>1. InstalledInv => HostFilesKept
  BY DEF InstalledInv, HostFilesKept, Pam!PamInv, File!FileInv, Serve!ServeInv, Sun!SunInv, Sock!SocketInv
<1> QED BY <1>1, InstalledAlways, PTL

-----------------------------------------------------------------------------
(* The conditions of the menu: each step keeps CondInv. *)

LEMMA CondInit ==
  ASSUME MaxMoves \in Nat, Cond!Init
  PROVE  Cond!CondInv
<1>1. Cond!Rest \in Cond!ThreadRecords /\ Cond!Rest.at = "idle" /\ Cond!Rest.jobs = {} /\ Cond!Rest.arm = {} /\ \A k \in Cond!Keys : Cond!Rest.got[k] = 0
  BY DEF Cond!Rest, Cond!ThreadRecords, Cond!Steps
<1>2. x11 \in [Cond!Threads -> Cond!ThreadRecords] /\ \A t \in Cond!Threads : x11[t] = Cond!Rest
  BY <1>1 DEF Cond!Init
<1>3. Cond!CondShapesOK
  BY <1>2 DEF Cond!Init, Cond!CondShapesOK, Cond!Keys
<1>4. Cond!ReadersOK /\ Cond!AnswersOK
  BY <1>1, <1>2 DEF Cond!Init, Cond!ReadersOK, Cond!AnswersOK, Cond!OneShell
<1>5. Cond!PatternsOK /\ Cond!WatchesOK
  BY <1>1, <1>2 DEF Cond!Init, Cond!PatternsOK, Cond!WatchesOK, Cond!Tracked
<1>6. Cond!FiredOK /\ Cond!ShelfIsMarked
  BY DEF Cond!Init, Cond!FiredOK, Cond!ShelfIsMarked
<1> QED BY <1>3, <1>4, <1>5, <1>6 DEF Cond!CondInv

LEMMA CondStutter ==
  ASSUME Cond!CondInv, UNCHANGED Cond!conditionVars
  PROVE  Cond!CondInv'
  BY DEF Cond!conditionVars, Cond!CondInv, Cond!CondShapesOK, Cond!ReadersOK, Cond!OneShell,
     Cond!AnswersOK, Cond!PatternsOK, Cond!Doomed, Cond!WatchesOK,
         Cond!Tracked, Cond!Coming, Cond!Owing, Cond!FiredOK, Cond!Owed, Cond!Underway, Cond!ShelfIsMarked

LEMMA CondMove ==
  ASSUME MaxMoves \in Nat, Cond!CondInv, NEW k \in Cond!Keys, Cond!Move(k)
  PROVE  Cond!CondInv'
<1>1. UNCHANGED <<x1, x4, x5, x6, x7, x8, x9, x11, x12, x13, x16, x15, x18, x17>>
  BY DEF Cond!Move, Cond!tableVars, Cond!watchVars, Cond!shelfVars
<1>2. x2' \in [Cond!Keys -> 1..(MaxMoves + 1)] /\ x2'[k] = x2[k] + 1 /\ \A j \in Cond!Keys : j # k => x2'[j] = x2[j]
  BY DEF Cond!Move, Cond!CondInv, Cond!CondShapesOK
<1>3. x3' \in [Cond!Keys -> 0..(MaxMoves + 1)] /\ \A j \in Cond!Keys : j # k => x3'[j] = x3[j]
  BY DEF Cond!Move, Cond!CondInv, Cond!CondShapesOK
<1>4. x3'[k] = IF k \in Watched \cap x4 THEN x2[k] + 1 ELSE x3[k]
  BY DEF Cond!Move, Cond!CondInv, Cond!CondShapesOK
<1>5. /\ x10' = (IF k \in x8 THEN x10 \cup {k} ELSE x10)
      /\ x14 \subseteq x14' /\ \A t \in Cond!Threads : x11[t].got[k] # 0 => k \in x14'
  BY DEF Cond!Move
<1>6. Cond!CondShapesOK'
  BY <1>1, <1>2, <1>3, <1>5 DEF Cond!CondInv, Cond!CondShapesOK
<1>7. Cond!ReadersOK' /\ Cond!PatternsOK' /\ Cond!WatchesOK' /\ Cond!ShelfIsMarked'
  BY <1>1 DEF Cond!CondInv, Cond!ReadersOK, Cond!OneShell, Cond!PatternsOK, Cond!Doomed,
     Cond!WatchesOK, Cond!Tracked, Cond!Coming, Cond!Owing, Cond!ShelfIsMarked
<1>8. Cond!AnswersOK'
  BY <1>1, <1>2, <1>3, <1>4, <1>5 DEF Cond!CondInv, Cond!CondShapesOK, Cond!AnswersOK
<1>9. \A j \in Cond!Keys : x3'[j] = x3[j] /\ Cond!Owed(j) => Cond!Owed(j)'
  BY <1>1, <1>5 DEF Cond!Owed, Cond!Underway
<1>10. Cond!Coming(k) => Cond!Owed(k)'
  BY <1>1 DEF Cond!Coming, Cond!Owed, Cond!Underway
<1>11. k \in x8 => Cond!Owed(k)'
  BY <1>5 DEF Cond!Owed
<1>12. k \in Watched \cap x4 => Cond!Owed(k)' \/ x15' \/ k \in x18'
  BY <1>1, <1>10, <1>11 DEF Cond!CondInv, Cond!WatchesOK, Cond!Tracked
<1>13. Cond!FiredOK'
  BY <1>1, <1>3, <1>4, <1>5, <1>9, <1>12 DEF Cond!CondInv, Cond!FiredOK
<1> QED BY <1>6, <1>7, <1>8, <1>13 DEF Cond!CondInv

LEMMA CondEdit ==
  ASSUME Cond!CondInv, NEW k \in Cond!Keys, Cond!Edit(k)
  PROVE  Cond!CondInv'
<1>1. /\ UNCHANGED <<x2, x3, x10, x4, x5, x6, x7, x8, x9, x11, x13, x16, x14, x15, x18>>
      /\ x1' \subseteq x1 \cup {k} /\ x12'
  BY DEF Cond!Edit, Cond!tableVars, Cond!watchVars
<1> QED BY <1>1 DEF Cond!CondInv, Cond!CondShapesOK, Cond!ReadersOK, Cond!OneShell,
   Cond!AnswersOK, Cond!PatternsOK, Cond!Doomed, Cond!WatchesOK,
         Cond!Tracked, Cond!Coming, Cond!Owing, Cond!FiredOK, Cond!Owed, Cond!Underway, Cond!ShelfIsMarked

LEMMA CondDispatch ==
  ASSUME Cond!CondInv, NEW k \in Cond!Keys, Cond!Dispatch(k)
  PROVE  Cond!CondInv'
<1>1. UNCHANGED <<x1, x2, x3, x17, x4, x5, x7, x8, x9, x11, x12, x13, x16, x15, x18>>
  BY DEF Cond!Dispatch, Cond!watchVars, Cond!shelfVars
<1>2. x10' = x10 \ {k} /\ x6' = x6 \cup ({k} \cap x4) /\ x14 \subseteq x14'
  BY DEF Cond!Dispatch, Cond!MarkDue
<1>3. Cond!CondShapesOK'
  BY <1>1, <1>2 DEF Cond!CondInv, Cond!CondShapesOK
<1>4. Cond!ReadersOK' /\ Cond!PatternsOK' /\ Cond!WatchesOK' /\ Cond!ShelfIsMarked'
  BY <1>1 DEF Cond!CondInv, Cond!ReadersOK, Cond!OneShell, Cond!PatternsOK, Cond!Doomed,
     Cond!WatchesOK, Cond!Tracked, Cond!Coming, Cond!Owing, Cond!ShelfIsMarked
<1>5. Cond!AnswersOK'
  BY <1>1, <1>2 DEF Cond!CondInv, Cond!AnswersOK
<1>6. \A j \in Cond!Keys : Cond!Owed(j) => Cond!Owed(j)'
  BY <1>1, <1>2 DEF Cond!Owed, Cond!Underway
<1>7. Cond!FiredOK'
  BY <1>1, <1>2, <1>6 DEF Cond!CondInv, Cond!FiredOK
<1> QED BY <1>3, <1>4, <1>5, <1>7 DEF Cond!CondInv

LEMMA CondOpenMenu ==
  ASSUME Cond!CondInv, Cond!OpenMenu
  PROVE  Cond!CondInv'
<1>1. UNCHANGED <<x1, x2, x10, x17, x4, x5, x7, x8, x9, x11, x12, x13, x16, x15, x18>>
  BY DEF Cond!OpenMenu, Cond!watchVars, Cond!shelfVars
<1>2. PICK old \in SUBSET (x4 \cap Demands) \ {{}} :
        Cond!MarkDue(old) /\ x3' = [k \in Cond!Keys |-> IF k \in old THEN x2[k] ELSE x3[k]]
  BY DEF Cond!OpenMenu
<1>3. /\ x6' = x6 \cup (old \cap x4) /\ x14 \subseteq x14'
      /\ \A k \in old : (\E t \in Cond!Threads : x11[t].got[k] # 0) => k \in x14'
  BY <1>2 DEF Cond!MarkDue
<1>4. Cond!CondShapesOK'
  BY <1>1, <1>2, <1>3 DEF Cond!CondInv, Cond!CondShapesOK
<1>5. Cond!ReadersOK' /\ Cond!PatternsOK' /\ Cond!WatchesOK' /\ Cond!ShelfIsMarked'
  BY <1>1 DEF Cond!CondInv, Cond!ReadersOK, Cond!OneShell, Cond!PatternsOK, Cond!Doomed,
     Cond!WatchesOK, Cond!Tracked, Cond!Coming, Cond!Owing, Cond!ShelfIsMarked
<1>6. Cond!AnswersOK'
  BY <1>1, <1>2, <1>3 DEF Cond!CondInv, Cond!CondShapesOK, Cond!AnswersOK
<1>7. \A j \in Cond!Keys : x3'[j] = x3[j] /\ Cond!Owed(j) => Cond!Owed(j)'
  BY <1>1, <1>3 DEF Cond!Owed, Cond!Underway
<1>8. \A j \in Cond!Keys : x3'[j] = x3[j] \/ Cond!Owed(j)'
  BY <1>1, <1>2, <1>3 DEF Cond!Owed
<1>9. Cond!FiredOK'
  BY <1>1, <1>3, <1>7, <1>8 DEF Cond!CondInv, Cond!FiredOK
<1> QED BY <1>4, <1>5, <1>6, <1>9 DEF Cond!CondInv

LEMMA CondInvoke ==
  ASSUME MaxMoves \in Nat, Cond!CondInv, NEW k \in Cond!Keys, Cond!Invoke(k)
  PROVE  Cond!CondInv'
<1> DEFINE after == ({k} \cup Demands) \cap x1 \cap x4
<1>1. /\ UNCHANGED <<x1, x17, x4, x5, x7, x8, x9, x11, x13, x16, x15, x18>>
      /\ x12' /\ k \in after
  BY DEF Cond!Invoke, Cond!watchVars
<1>2. /\ x6' = x6 \cup (after \cap x4) /\ x14 \subseteq x14'
      /\ \A j \in after : (\E t \in Cond!Threads : x11[t].got[j] # 0) => j \in x14'
  BY DEF Cond!Invoke, Cond!MarkDue
<1>3. /\ x2' \in [Cond!Keys -> 1..(MaxMoves + 1)]
      /\ x2'[k] >= x2[k] /\ \A j \in Cond!Keys : j # k => x2'[j] = x2[j]
  <2>1. CASE x2' = x2
    BY <2>1 DEF Cond!CondInv, Cond!CondShapesOK
  <2>2. CASE x2' # x2
    <3>1. x2' = [x2 EXCEPT ![k] = @ + 1] /\ 1 \in 1..(MaxMoves + 1 - x2[k])
      BY <2>2 DEF Cond!Invoke
    <3> QED BY <3>1 DEF Cond!CondInv, Cond!CondShapesOK
  <2> QED BY <2>1, <2>2
<1>4. x3' = [j \in Cond!Keys |-> IF j \in after THEN x2'[j] ELSE x3[j]]
  BY DEF Cond!Invoke
<1>5. x3' \in [Cond!Keys -> 0..(MaxMoves + 1)] /\ \A j \in Cond!Keys : x3'[j] = IF j \in after THEN x2'[j] ELSE x3[j]
  BY <1>3, <1>4 DEF Cond!CondInv, Cond!CondShapesOK
<1>6. x10 \subseteq x10' /\ x10' \subseteq x10 \cup x8
  BY DEF Cond!Invoke
<1> HIDE DEF after
<1>7. Cond!CondShapesOK'
  BY <1>1, <1>2, <1>3, <1>5, <1>6 DEF Cond!CondInv, Cond!CondShapesOK
<1>8. Cond!ReadersOK' /\ Cond!PatternsOK' /\ Cond!WatchesOK' /\ Cond!ShelfIsMarked'
  BY <1>1 DEF Cond!CondInv, Cond!ReadersOK, Cond!OneShell, Cond!PatternsOK, Cond!Doomed,
     Cond!WatchesOK, Cond!Tracked, Cond!Coming, Cond!Owing, Cond!ShelfIsMarked
<1>9. \A j \in Cond!Keys : x3'[j] <= x2'[j]
  BY <1>1, <1>3, <1>5 DEF Cond!CondInv, Cond!CondShapesOK, Cond!AnswersOK
<1>10. \A t \in Cond!Threads, j \in Cond!Keys : x11'[t].got[j] # 0 => j \in x14' \/ x3'[j] <= x11'[t].got[j]
  BY <1>1, <1>2, <1>5 DEF Cond!CondInv, Cond!AnswersOK
<1>11. \A j \in Cond!Keys : x3'[j] = x3[j] /\ Cond!Owed(j) => Cond!Owed(j)'
  BY <1>1, <1>2, <1>6 DEF Cond!Owed, Cond!Underway
<1>12. \A j \in Cond!Keys : x3'[j] = x3[j] \/ Cond!Owed(j)'
  <2>1. \A j \in Cond!Keys : j \in after => j \in x4
    BY DEF after
  <2> QED BY <1>1, <1>2, <1>5, <2>1 DEF Cond!Owed
<1>13. Cond!FiredOK'
  BY <1>1, <1>2, <1>11, <1>12 DEF Cond!CondInv, Cond!FiredOK
<1> QED BY <1>7, <1>8, <1>9, <1>10, <1>13 DEF Cond!CondInv, Cond!AnswersOK

LEMMA CondDirty ==
  ASSUME Cond!CondInv, NEW t \in Cond!Threads, Cond!Dirty(t)
  PROVE  Cond!CondInv'
<1>1. /\ UNCHANGED <<x1, x2, x3, x10, x17, x4, x5, x6, x7, x8, x9, x13, x16, x14, x15, x18>>
      /\ x12' /\ x11[t].at = "dirty"
  BY DEF Cond!Dirty, Cond!hostVars, Cond!tableVars, Cond!watchVars
<1>2. /\ x11' \in [Cond!Threads -> Cond!ThreadRecords] /\ \A u \in Cond!Threads : u # t => x11'[u] = x11[u]
      /\ x11'[t].at \in {"walk", "idle"} /\ x11'[t].jobs = x11[t].jobs /\ x11'[t].got = x11[t].got
      /\ x11'[t].arm = x11[t].arm
  BY DEF Cond!Dirty, Cond!To, Cond!CondInv, Cond!CondShapesOK, Cond!ThreadRecords, Cond!Steps
<1>3. Cond!CondShapesOK'
  BY <1>1, <1>2 DEF Cond!CondInv, Cond!CondShapesOK
<1>4. Cond!ReadersOK' /\ Cond!AnswersOK'
  BY <1>1, <1>2 DEF Cond!CondInv, Cond!ReadersOK, Cond!OneShell, Cond!AnswersOK
<1>5. Cond!PatternsOK' /\ Cond!WatchesOK'
  BY <1>1, <1>2 DEF Cond!CondInv, Cond!PatternsOK, Cond!WatchesOK, Cond!Doomed, Cond!Tracked,
     Cond!Coming, Cond!Owing
<1>6. \A k \in Cond!Keys : Cond!Owed(k) => Cond!Owed(k)'
  BY <1>1, <1>2 DEF Cond!Owed, Cond!Underway
<1>7. Cond!FiredOK'
  BY <1>1, <1>2, <1>6 DEF Cond!CondInv, Cond!FiredOK
<1>8. Cond!ShelfIsMarked'
  BY <1>1, <1>2 DEF Cond!CondInv, Cond!ShelfIsMarked, Cond!Threads
<1> QED BY <1>3, <1>4, <1>5, <1>7, <1>8 DEF Cond!CondInv

LEMMA CondWalk ==
  ASSUME MaxMoves \in Nat, Cond!CondInv, Cond!Walk
  PROVE  Cond!CondInv'
<1> DEFINE t == "loop"
<1>1. /\ UNCHANGED <<x1, x2, x3, x10, x17, x4, x5, x6, x7, x8, x9, x12, x14, x15, x18>>
      /\ x11[t].at = "walk" /\ t \in Cond!Threads
  BY DEF Cond!Walk, Cond!hostVars, Cond!tableVars, Cond!watchVars, Cond!Threads
<1>2. /\ x11' \in [Cond!Threads -> Cond!ThreadRecords] /\ \A u \in Cond!Threads : u # t => x11'[u] = x11[u]
      /\ x11'[t].at = "built" /\ x11'[t].jobs = x11[t].jobs /\ x11'[t].got = [k \in Cond!Keys |-> 0]
      /\ x11'[t].arm = x11[t].arm
  <2> DEFINE none == [k \in Cond!Keys |-> 0]
  <2>1. none \in [Cond!Keys -> 0..(MaxMoves + 1)]
    OBVIOUS
  <2>2. x11' = [x11 EXCEPT ![t].at = "built", ![t].got = none]
    BY DEF Cond!Walk
  <2> HIDE DEF none, t
  <2>3. x11[t] \in Cond!ThreadRecords /\ x11 \in [Cond!Threads -> Cond!ThreadRecords]
    BY <1>1 DEF Cond!CondInv, Cond!CondShapesOK
  <2>4. x11' \in [Cond!Threads -> Cond!ThreadRecords] /\ \A u \in Cond!Threads : u # t => x11'[u] = x11[u]
    BY <1>1, <2>1, <2>2, <2>3 DEF Cond!ThreadRecords, Cond!Steps
  <2>5. /\ x11'[t].at = "built" /\ x11'[t].jobs = x11[t].jobs /\ x11'[t].got = none
        /\ x11'[t].arm = x11[t].arm
    BY <1>1, <2>2, <2>3 DEF Cond!ThreadRecords
  <2> QED BY <2>4, <2>5 DEF none
<1>3. Cond!CondShapesOK'
  BY <1>1, <1>2 DEF Cond!CondInv, Cond!CondShapesOK
<1>4. Cond!ReadersOK' /\ Cond!AnswersOK'
  BY <1>1, <1>2 DEF Cond!CondInv, Cond!ReadersOK, Cond!OneShell, Cond!AnswersOK
<1>5. Cond!PatternsOK' /\ Cond!WatchesOK'
  BY <1>1, <1>2 DEF Cond!CondInv, Cond!PatternsOK, Cond!WatchesOK, Cond!Doomed, Cond!Tracked,
     Cond!Coming, Cond!Owing
<1>6. \A k \in Cond!Keys : Cond!Owed(k) => Cond!Owed(k)'
  BY <1>1, <1>2 DEF Cond!Owed, Cond!Underway
<1>7. Cond!FiredOK'
  BY <1>1, <1>2, <1>6 DEF Cond!CondInv, Cond!FiredOK
<1>8. Cond!ShelfIsMarked'
  BY <1>1, <1>2 DEF Cond!CondInv, Cond!ShelfIsMarked, Cond!Threads
<1> QED BY <1>3, <1>4, <1>5, <1>7, <1>8 DEF Cond!CondInv

LEMMA CondBuilt ==
  ASSUME Cond!CondInv, Cond!Built
  PROVE  Cond!CondInv'
<1> DEFINE t == "loop"
<1>1. /\ UNCHANGED <<x1, x2, x3, x10, x17, x4, x5, x6, x7, x8, x9, x13, x14, x15, x18>>
      /\ x11[t].at = "built" /\ t \in Cond!Threads /\ (~x16' => x13 = x5)
  BY DEF Cond!Built, Cond!hostVars, Cond!tableVars, Cond!watchVars, Cond!Threads
<1>2. /\ x11' \in [Cond!Threads -> Cond!ThreadRecords] /\ \A u \in Cond!Threads : u # t => x11'[u] = x11[u]
      /\ x11'[t].at = "idle" /\ x11'[t].jobs = x11[t].jobs /\ x11'[t].got = x11[t].got
      /\ x11'[t].arm = x11[t].arm
  BY <1>1 DEF Cond!Built, Cond!To, Cond!CondInv, Cond!CondShapesOK, Cond!ThreadRecords, Cond!Steps
<1>3. Cond!CondShapesOK'
  BY <1>1, <1>2 DEF Cond!CondInv, Cond!CondShapesOK
<1>4. Cond!ReadersOK' /\ Cond!AnswersOK'
  BY <1>1, <1>2 DEF Cond!CondInv, Cond!ReadersOK, Cond!OneShell, Cond!AnswersOK
<1>5. Cond!PatternsOK' /\ Cond!WatchesOK'
  BY <1>1, <1>2 DEF Cond!CondInv, Cond!PatternsOK, Cond!WatchesOK, Cond!Doomed, Cond!Tracked,
     Cond!Coming, Cond!Owing
<1>6. \A k \in Cond!Keys : Cond!Owed(k) => Cond!Owed(k)'
  BY <1>1, <1>2 DEF Cond!Owed, Cond!Underway
<1>7. Cond!FiredOK'
  BY <1>1, <1>2, <1>6 DEF Cond!CondInv, Cond!FiredOK
<1>8. Cond!ShelfIsMarked'
  BY <1>1 DEF Cond!ShelfIsMarked
<1> QED BY <1>3, <1>4, <1>5, <1>7, <1>8 DEF Cond!CondInv

LEMMA CondSync ==
  ASSUME Cond!CondInv, NEW t \in Cond!Threads, Cond!Sync(t)
  PROVE  Cond!CondInv'
<1>1. /\ UNCHANGED <<x1, x2, x3, x10, x17, x4, x5, x6, x7, x8, x12, x13, x16, x14, x15, x18>>
      /\ x11[t].at = "sync" /\ ~x9'
  BY DEF Cond!Sync, Cond!hostVars, Cond!tableVars, Cond!shelfVars
<1>2. /\ x11' \in [Cond!Threads -> Cond!ThreadRecords] /\ \A u \in Cond!Threads : u # t => x11'[u] = x11[u]
      /\ x11'[t].at = (IF x9 THEN "arm" ELSE "claim") /\ x11'[t].jobs = x11[t].jobs
      /\ x11'[t].got = x11[t].got /\ (x9 => x11'[t].arm = x4 \cap Watched)
  BY DEF Cond!Sync, Cond!CondInv, Cond!CondShapesOK, Cond!ThreadRecords, Cond!Steps
<1>3. Cond!CondShapesOK'
  BY <1>1, <1>2 DEF Cond!CondInv, Cond!CondShapesOK
<1>4. Cond!ReadersOK' /\ Cond!AnswersOK'
  BY <1>1, <1>2 DEF Cond!CondInv, Cond!ReadersOK, Cond!OneShell, Cond!AnswersOK
<1>5. \A k : Cond!Coming(k) <=> Cond!Coming(k)'
  BY <1>1, <1>2 DEF Cond!Coming
<1>6. Cond!Doomed => Cond!Doomed'
  BY <1>1, <1>2 DEF Cond!Doomed
<1>7. Cond!PatternsOK'
  <2>1. CASE x9
    <3> SUFFICES ASSUME ~Cond!Doomed', NEW k \in Cond!Tracked'
                 PROVE  /\ k \in x8' \/ Cond!Owing(k)' \/ \E u \in Cond!Threads : x11'[u].at = "arm" /\ k \in x11'[u].arm
                        /\ \A u \in Cond!Threads : x11'[u].at = "arm" => k \in x11'[u].arm \/ Cond!Owing(k)'
      BY DEF Cond!PatternsOK
    <3>1. k \in x11'[t].arm /\ x11'[t].at = "arm"
      BY <1>1, <1>2, <2>1 DEF Cond!Tracked
    <3>2. \A u \in Cond!Threads : u # t => x11'[u].at # "arm"
      BY <3>1 DEF Cond!Doomed
    <3> QED BY <3>1, <3>2
  <2>2. CASE ~x9
    BY <1>1, <1>2, <1>6, <2>2 DEF Cond!CondInv, Cond!PatternsOK, Cond!Tracked, Cond!Owing
  <2> QED BY <2>1, <2>2
<1>8. Cond!WatchesOK'
  <2>1. x11'[t].at = "arm" => \A k \in Cond!Tracked : k \in x11'[t].arm
    BY <1>2 DEF Cond!Tracked
  <2> QED BY <1>1, <1>2, <1>5, <2>1 DEF Cond!CondInv, Cond!WatchesOK, Cond!Tracked
<1>9. \A k \in Cond!Keys : Cond!Owed(k) => Cond!Owed(k)'
  BY <1>1, <1>2 DEF Cond!Owed, Cond!Underway
<1>10. Cond!FiredOK'
  BY <1>1, <1>2, <1>9 DEF Cond!CondInv, Cond!FiredOK
<1>11. Cond!ShelfIsMarked'
  BY <1>1, <1>2 DEF Cond!CondInv, Cond!ShelfIsMarked, Cond!Threads
<1> QED BY <1>3, <1>4, <1>7, <1>8, <1>10, <1>11 DEF Cond!CondInv

LEMMA CondArm ==
  ASSUME Cond!CondInv, NEW t \in Cond!Threads, Cond!Arm(t)
  PROVE  Cond!CondInv'
<1>1. /\ UNCHANGED <<x1, x2, x3, x10, x17, x4, x5, x6, x7, x9, x12, x13, x16, x14, x15, x18>>
      /\ x11[t].at = "arm" /\ x8' = x11[t].arm
  BY DEF Cond!Arm, Cond!hostVars, Cond!tableVars, Cond!shelfVars
<1>2. /\ x11' \in [Cond!Threads -> Cond!ThreadRecords] /\ \A u \in Cond!Threads : u # t => x11'[u] = x11[u]
      /\ x11'[t].at = "claim" /\ x11'[t].jobs = x11[t].jobs
      /\ x11'[t].got = x11[t].got /\ x11'[t].arm = {}
  BY DEF Cond!Arm, Cond!CondInv, Cond!CondShapesOK, Cond!ThreadRecords, Cond!Steps
<1>3. Cond!CondShapesOK'
  BY <1>1, <1>2 DEF Cond!CondInv, Cond!CondShapesOK, Cond!ThreadRecords
<1>4. Cond!ReadersOK' /\ Cond!AnswersOK'
  BY <1>1, <1>2 DEF Cond!CondInv, Cond!ReadersOK, Cond!OneShell, Cond!AnswersOK
<1>5. \A k : (Cond!Coming(k) <=> Cond!Coming(k)') /\ (Cond!Owing(k) <=> Cond!Owing(k)')
  BY <1>1, <1>2 DEF Cond!Coming, Cond!Owing
<1>6. Cond!Doomed <=> Cond!Doomed'
  BY <1>1, <1>2 DEF Cond!Doomed
<1>7. Cond!PatternsOK'
  BY <1>1, <1>2, <1>5, <1>6 DEF Cond!CondInv, Cond!PatternsOK, Cond!Tracked
<1>8. Cond!WatchesOK'
  BY <1>1, <1>2, <1>5 DEF Cond!CondInv, Cond!WatchesOK, Cond!Tracked
<1>9. \A k \in Cond!Keys : Cond!Owed(k) => Cond!Owed(k)'
  BY <1>1, <1>2 DEF Cond!Owed, Cond!Underway
<1>10. Cond!FiredOK'
  BY <1>1, <1>2, <1>9 DEF Cond!CondInv, Cond!FiredOK
<1>11. Cond!ShelfIsMarked'
  BY <1>1, <1>2 DEF Cond!CondInv, Cond!ShelfIsMarked, Cond!Threads
<1> QED BY <1>3, <1>4, <1>7, <1>8, <1>10, <1>11 DEF Cond!CondInv

LEMMA CondRead ==
  ASSUME Cond!CondInv, NEW t \in Cond!Threads, NEW k \in Cond!Keys, Cond!Read(t, k)
  PROVE  Cond!CondInv'
<1>1. /\ UNCHANGED <<x1, x2, x3, x10, x17, x4, x5, x6, x7, x8, x9, x12, x13, x16, x15, x18>>
      /\ x11[t].at = "read" /\ k \in x11[t].jobs /\ x14' = x14 \ {k}
  BY DEF Cond!Read, Cond!hostVars, Cond!tableVars, Cond!shelfVars, Cond!watchVars
<1>2. /\ x11' \in [Cond!Threads -> Cond!ThreadRecords] /\ \A u \in Cond!Threads : u # t => x11'[u] = x11[u]
      /\ x11'[t].at = "read" /\ x11'[t].jobs = x11[t].jobs /\ x11'[t].arm = x11[t].arm
      /\ x11'[t].got[k] = x2[k] /\ \A j \in Cond!Keys : j # k => x11'[t].got[j] = x11[t].got[j]
  <2>1. x2[k] \in 0..(MaxMoves + 1) /\ x11[t] \in Cond!ThreadRecords
    BY DEF Cond!CondInv, Cond!CondShapesOK
  <2> QED BY <1>1, <2>1 DEF Cond!Read, Cond!CondInv, Cond!CondShapesOK, Cond!ThreadRecords,
     Cond!Steps
<1>3. Cond!CondShapesOK'
  BY <1>1, <1>2 DEF Cond!CondInv, Cond!CondShapesOK
<1>4. Cond!ReadersOK'
  BY <1>1, <1>2 DEF Cond!CondInv, Cond!ReadersOK, Cond!OneShell
<1>5. \A u \in Cond!Threads : u # t => x11[u].got[k] = 0
  BY <1>1 DEF Cond!CondInv, Cond!ReadersOK, Cond!OneShell
<1>6. Cond!AnswersOK'
  BY <1>1, <1>2, <1>5 DEF Cond!CondInv, Cond!AnswersOK
<1>7. Cond!PatternsOK' /\ Cond!WatchesOK'
  BY <1>1, <1>2 DEF Cond!CondInv, Cond!PatternsOK, Cond!WatchesOK, Cond!Doomed, Cond!Tracked,
     Cond!Coming, Cond!Owing
<1>8. \A j \in Cond!Keys : j # k => (Cond!Owed(j) => Cond!Owed(j)')
  BY <1>1, <1>2 DEF Cond!Owed, Cond!Underway
<1>9. Cond!Owed(k)'
  <2>1. x2[k] \in x3[k]..(MaxMoves + 1)
    BY DEF Cond!CondInv, Cond!CondShapesOK, Cond!AnswersOK
  <2> QED BY <1>1, <1>2, <2>1 DEF Cond!Owed, Cond!Underway
<1>10. Cond!FiredOK'
  BY <1>1, <1>2, <1>8, <1>9 DEF Cond!CondInv, Cond!FiredOK
<1>11. Cond!ShelfIsMarked'
  BY <1>1, <1>2 DEF Cond!CondInv, Cond!ShelfIsMarked, Cond!Threads
<1> QED BY <1>3, <1>4, <1>6, <1>7, <1>10, <1>11 DEF Cond!CondInv

LEMMA CondClaim ==
  ASSUME MaxMoves \in Nat, Cond!CondInv, NEW t \in Cond!Threads, Cond!Claim(t)
  PROVE  Cond!CondInv'
<1>1. /\ UNCHANGED <<x1, x2, x3, x10, x17, x4, x5, x6, x8, x9, x12, x13, x16, x14, x18>>
      /\ x11[t].at = "claim"
  BY DEF Cond!Claim, Cond!hostVars, Cond!watchVars, Cond!shelfVars
<1>2. /\ x7' = x7 \cup Cond!Unclaimed(t)
      /\ x15 => x15'
      /\ \A u \in Cond!Threads : u # t /\ x11[u].at \in {"arm", "claim", "read"} => x15'
  BY DEF Cond!Claim, Cond!Busy
<1>3. /\ x11' \in [Cond!Threads -> Cond!ThreadRecords] /\ \A u \in Cond!Threads : u # t => x11'[u] = x11[u]
      /\ x11'[t].jobs = Cond!Unclaimed(t) /\ x11'[t].got = x11[t].got /\ x11'[t].arm = x11[t].arm
      /\ x11'[t].at = IF Cond!Unclaimed(t) # {} THEN "read" ELSE IF t = "loop" THEN "walk" ELSE "idle"
  <2>1. Cond!Unclaimed(t) \in SUBSET Cond!Keys
    BY DEF Cond!Unclaimed, Cond!CondInv, Cond!CondShapesOK, Cond!ThreadRecords
  <2> QED BY <2>1 DEF Cond!Claim, Cond!CondInv, Cond!CondShapesOK, Cond!ThreadRecords, Cond!Steps
<1>4. Cond!CondShapesOK'
  BY <1>1, <1>2, <1>3 DEF Cond!CondInv, Cond!CondShapesOK, Cond!Unclaimed, Cond!ThreadRecords
<1>5. Cond!Unclaimed(t) \cap x7 = {}
  BY DEF Cond!Unclaimed
<1>6. Cond!ReadersOK'
  <2>1. \A k \in Cond!Keys : k \in x7' <=> \E u \in Cond!Threads : x11'[u].at = "read" /\ k \in x11'[u].jobs
    BY <1>1, <1>2, <1>3 DEF Cond!CondInv, Cond!ReadersOK
  <2>2. \A u \in Cond!Threads, k \in Cond!Keys : x11'[u].got[k] # 0 => x11'[u].at = "read" /\ k \in x11'[u].jobs
    BY <1>1, <1>3 DEF Cond!CondInv, Cond!ReadersOK
  <2>3. \A u \in Cond!Threads : u # t /\ x11[u].at = "read" => x11[u].jobs \cap Cond!Unclaimed(t) = {}
    BY <1>5 DEF Cond!CondInv, Cond!CondShapesOK, Cond!ReadersOK, Cond!ThreadRecords
  <2>4. Cond!OneShell'
    BY <1>3, <2>3 DEF Cond!CondInv, Cond!ReadersOK, Cond!OneShell
  <2>5. \A k \in Cond!Keys : k \notin x4' => x5'[k] = 0
    BY <1>1 DEF Cond!CondInv, Cond!ReadersOK
  <2> QED BY <2>1, <2>2, <2>4, <2>5 DEF Cond!ReadersOK
<1>7. Cond!AnswersOK'
  BY <1>1, <1>3 DEF Cond!CondInv, Cond!AnswersOK
<1>8. Cond!Doomed => Cond!Doomed'
  BY <1>1, <1>2 DEF Cond!Doomed
<1>9. \A k : Cond!Owing(k) <=> Cond!Owing(k)'
  BY <1>1, <1>3 DEF Cond!Owing
<1>10. Cond!PatternsOK'
  BY <1>1, <1>3, <1>8, <1>9 DEF Cond!CondInv, Cond!PatternsOK, Cond!Tracked
<1>11. Cond!WatchesOK'
  <2> SUFFICES ASSUME ~x15', NEW k \in Cond!Tracked
               PROVE  /\ k \in x8 \/ Cond!Coming(k)'
                      /\ \A u \in Cond!Threads : x11'[u].at = "arm" => k \in x11'[u].arm \/ Cond!Coming(k)'
    BY <1>1 DEF Cond!WatchesOK, Cond!Tracked
  <2>1. \A u \in Cond!Threads : u # t => x11[u].at \notin {"arm", "claim", "read"}
    BY <1>2
  <2>2. ~x15 /\ ~Cond!Doomed
    BY <1>2, <2>1 DEF Cond!Doomed
  <2>3. \A u \in Cond!Threads : x11'[u].at # "arm"
    BY <1>3, <2>1
  <2>4. k \in x8 \/ Cond!Owing(k)
    BY <1>1, <2>1, <2>2 DEF Cond!CondInv, Cond!PatternsOK
  <2>5. Cond!Owing(k) => Cond!Coming(k)'
    BY <1>1, <1>3 DEF Cond!Owing, Cond!Coming
  <2> QED BY <2>3, <2>4, <2>5
<1>12. Cond!FiredOK'
  <2> SUFFICES ASSUME NEW k \in Cond!Keys, Cond!Owed(k)
               PROVE  Cond!Owed(k)' \/ k \in x14
    BY <1>1, <1>2 DEF Cond!CondInv, Cond!FiredOK
  <2>1. CASE Cond!Owed(k) /\ ~Cond!Underway(k)
    BY <1>1, <2>1 DEF Cond!Owed
  <2>2. CASE \E u \in Cond!Threads :
               /\ u # t /\ k \in x11[u].jobs
               /\ \/ x11[u].at \in {"sync", "arm", "claim"}
                  \/ x11[u].at = "read" /\ x11[u].got[k] \in {0} \cup x3[k]..(MaxMoves + 1)
    BY <1>1, <1>3, <2>2 DEF Cond!Owed, Cond!Underway
  <2>3. CASE k \in x11[t].jobs /\ k \notin x7
    <3>1. x11[t].got[k] = 0
      BY <1>1 DEF Cond!CondInv, Cond!ReadersOK
    <3>2. k \in Cond!Unclaimed(t)
      BY <2>3 DEF Cond!Unclaimed
    <3> QED BY <1>3, <3>1, <3>2 DEF Cond!Owed, Cond!Underway
  <2>4. CASE k \in x7
    <3>1. PICK u \in Cond!Threads : x11[u].at = "read" /\ k \in x11[u].jobs
      BY <2>4 DEF Cond!CondInv, Cond!ReadersOK
    <3>2. u # t /\ x11'[u] = x11[u]
      BY <1>1, <1>3, <3>1
    <3>3. x11[u].got[k] \in {0} \cup x3[k]..(MaxMoves + 1) \/ k \in x14
      <4>1. x11[u].got[k] \in 0..(MaxMoves + 1) /\ x3[k] \in 0..(MaxMoves + 1)
        BY DEF Cond!CondInv, Cond!CondShapesOK, Cond!ThreadRecords
      <4> QED BY <4>1 DEF Cond!CondInv, Cond!AnswersOK
    <3> QED BY <1>1, <3>1, <3>2, <3>3 DEF Cond!Owed, Cond!Underway
  <2> QED BY <1>1, <2>1, <2>2, <2>3, <2>4 DEF Cond!Underway
<1>13. Cond!ShelfIsMarked'
  BY <1>1, <1>3 DEF Cond!CondInv, Cond!ShelfIsMarked, Cond!Threads
<1> QED BY <1>4, <1>6, <1>7, <1>10, <1>11, <1>12, <1>13 DEF Cond!CondInv

LEMMA CondFinish ==
  ASSUME MaxMoves \in Nat, Cond!CondInv, NEW t \in Cond!Threads, Cond!Finish(t)
  PROVE  Cond!CondInv'
<1> DEFINE js == x11[t].jobs
<1>1. /\ UNCHANGED <<x1, x2, x3, x10, x17, x8, x9, x12, x13, x16, x14, x15>>
      /\ x11[t].at = "read" /\ (\A k \in js : x11[t].got[k] # 0)
      /\ x4' = x4 \cup js /\ x6' = x6 \ js /\ x7' = x7 \ js
      /\ x18' = x18 \cup ((js \cap Watched) \ x4)
  BY DEF Cond!Finish, Cond!hostVars, Cond!watchVars, Cond!shelfVars
<1>2. js \subseteq Cond!Keys /\ x11[t].got \in [Cond!Keys -> 0..(MaxMoves + 1)]
  BY DEF Cond!CondInv, Cond!CondShapesOK, Cond!ThreadRecords
<1>3. x5' \in [Cond!Keys -> 0..(MaxMoves + 1)] /\ \A k \in Cond!Keys : x5'[k] = IF k \in js THEN x11[t].got[k] ELSE x5[k]
  BY <1>2 DEF Cond!Finish, Cond!CondInv, Cond!CondShapesOK
<1>4. /\ x11' \in [Cond!Threads -> Cond!ThreadRecords] /\ \A u \in Cond!Threads : u # t => x11'[u] = x11[u]
      /\ x11'[t].jobs = {} /\ x11'[t].arm = {} /\ (\A k \in Cond!Keys : x11'[t].got[k] = 0)
      /\ x11'[t].at \in {"dirty", "walk", "idle"}
      /\ x11'[t].at = "dirty" \/ \A k \in js : x11[t].got[k] = x5[k]
      /\ (t = "loop" => x11'[t].at # "idle")
  <2> DEFINE step == IF \E k \in js : x11[t].got[k] # x5[k] THEN "dirty" ELSE IF t = "loop" THEN "walk" ELSE "idle"
             none  == [k \in Cond!Keys |-> 0]
             ended == [at |-> step, jobs |-> {}, got |-> none, arm |-> {}]
  <2>0. x11' = [x11 EXCEPT ![t] = [Cond!Rest EXCEPT !.at = step]]
    BY DEF Cond!Finish
  <2>2. step \in {"dirty", "walk", "idle"} /\ (step = "dirty" \/ \A k \in js : x11[t].got[k] = x5[k])
    OBVIOUS
  <2>3. t = "loop" => step # "idle"
    OBVIOUS
  <2>1. none \in [Cond!Keys -> 0..(MaxMoves + 1)] /\ \A k \in Cond!Keys : none[k] = 0
    OBVIOUS
  <2>7. Cond!Rest = [at |-> "idle", jobs |-> {}, got |-> none, arm |-> {}]
    BY DEF Cond!Rest
  <2> HIDE DEF step, none
  <2>8. [Cond!Rest EXCEPT !.at = step] = ended
    BY <2>7
  <2>4. ended \in Cond!ThreadRecords
    BY <2>1, <2>2 DEF Cond!ThreadRecords, Cond!Steps
  <2>5. x11'[t] = ended /\ x11' \in [Cond!Threads -> Cond!ThreadRecords] /\ \A u \in Cond!Threads : u # t => x11'[u] = x11[u]
    BY <2>0, <2>8, <2>4 DEF Cond!CondInv, Cond!CondShapesOK
  <2> QED BY <2>1, <2>2, <2>3, <2>5
<1> HIDE DEF js
<1>5. Cond!CondShapesOK'
  BY <1>1, <1>2, <1>3, <1>4 DEF Cond!CondInv, Cond!CondShapesOK
<1>6. \A u \in Cond!Threads : u # t /\ x11[u].at = "read" => x11[u].jobs \cap js = {}
  BY <1>1 DEF Cond!CondInv, Cond!ReadersOK, Cond!OneShell, js
<1>7. Cond!ReadersOK'
  <2>1. \A k \in Cond!Keys : k \in x7' <=> \E u \in Cond!Threads : x11'[u].at = "read" /\ k \in x11'[u].jobs
    BY <1>1, <1>4, <1>6 DEF Cond!CondInv, Cond!ReadersOK, js
  <2>2. \A u \in Cond!Threads, k \in Cond!Keys : x11'[u].got[k] # 0 => x11'[u].at = "read" /\ k \in x11'[u].jobs
    BY <1>4 DEF Cond!CondInv, Cond!ReadersOK
  <2>3. Cond!OneShell'
    BY <1>4 DEF Cond!CondInv, Cond!ReadersOK, Cond!OneShell
  <2>4. \A k \in Cond!Keys : k \notin x4' => x5'[k] = 0
    BY <1>1, <1>3 DEF Cond!CondInv, Cond!ReadersOK
  <2> QED BY <2>1, <2>2, <2>3, <2>4 DEF Cond!ReadersOK
<1>8. Cond!AnswersOK'
  BY <1>1, <1>4 DEF Cond!CondInv, Cond!AnswersOK
<1>9. \A k : (Cond!Owing(k) <=> Cond!Owing(k)') /\ (Cond!Coming(k) <=> Cond!Coming(k)')
  BY <1>1, <1>4 DEF Cond!Owing, Cond!Coming
<1>10. Cond!Doomed <=> Cond!Doomed'
  BY <1>1, <1>4 DEF Cond!Doomed
<1>11. Cond!Tracked' \subseteq Cond!Tracked
  BY <1>1 DEF Cond!Tracked
<1>12. Cond!PatternsOK'
  BY <1>1, <1>4, <1>9, <1>10, <1>11 DEF Cond!CondInv, Cond!PatternsOK
<1>13. Cond!WatchesOK'
  BY <1>1, <1>4, <1>9, <1>11 DEF Cond!CondInv, Cond!WatchesOK
<1>14. Cond!FiredOK'
  <2> SUFFICES ASSUME NEW k \in Cond!Keys
               PROVE  x3[k] <= x5'[k] \/ Cond!Owed(k)' \/ k \in x14 \/ x15 \/ k \in x18'
    BY <1>1 DEF Cond!FiredOK
  <2>1. CASE k \in js
    BY <1>1, <1>3, <2>1 DEF Cond!CondInv, Cond!AnswersOK
  <2>2. CASE k \notin js
    <3>1. Cond!Owed(k) => Cond!Owed(k)'
      BY <1>1, <1>3, <1>4, <2>2 DEF Cond!Owed, Cond!Underway, js
    <3> QED BY <1>1, <1>3, <2>2, <3>1 DEF Cond!CondInv, Cond!FiredOK
  <2> QED BY <2>1, <2>2
<1>15. Cond!ShelfIsMarked'
  <2>1. CASE x11'[t].at = "dirty"
    BY <2>1 DEF Cond!ShelfIsMarked
  <2>2. CASE x11'[t].at # "dirty"
    <3>1. \A k \in Cond!Keys : x5'[k] = x5[k]
      BY <1>3, <1>4, <2>2
    <3> QED BY <1>1, <1>4, <3>1 DEF Cond!CondInv, Cond!CondShapesOK, Cond!ShelfIsMarked,
       Cond!Threads
  <2> QED BY <2>1, <2>2
<1> QED BY <1>5, <1>7, <1>8, <1>12, <1>13, <1>14, <1>15 DEF Cond!CondInv

LEMMA CondBegins ==
  ASSUME MaxMoves \in Nat, Cond!CondInv, NEW t \in Cond!Threads, NEW kept \in SUBSET x4, x4 \cap x1 \subseteq kept,
         Cond!Begins(t, kept)
  PROVE  Cond!CondInv'
<1> DEFINE new  == x1 \ kept
           owed == {k \in Cond!Ready \cup new : t = "loop" => x5[k] = 0}
<1>1. /\ UNCHANGED <<x1, x2, x3, x10, x17, x7, x8, x12, x13, x16, x14, x15>>
      /\ x11[t].at = "idle" /\ x4' = kept \cup new /\ x6' = x6 \cap kept /\ x18' = x18 \cap kept
      /\ x9 => x9'
      /\ new \cap Watched # {} => x9'
  BY DEF Cond!Begins, Cond!hostVars, Cond!shelfVars
<1>2. new \cap x4 = {} /\ \A k \in Cond!Keys : k \in new => x5[k] = 0
  BY DEF Cond!CondInv, Cond!CondShapesOK, Cond!ReadersOK
<1>3. x5' \in [Cond!Keys -> 0..(MaxMoves + 1)] /\ \A k \in Cond!Keys : x5'[k] = IF k \in kept THEN x5[k] ELSE 0
  BY DEF Cond!Begins, Cond!CondInv, Cond!CondShapesOK
<1>4. new \subseteq owed /\ owed \in SUBSET Cond!Keys
  BY <1>2 DEF Cond!Ready, Cond!CondInv, Cond!CondShapesOK
<1>5. /\ x11' \in [Cond!Threads -> Cond!ThreadRecords] /\ \A u \in Cond!Threads : u # t => x11'[u] = x11[u]
      /\ x11'[t].jobs = owed /\ x11'[t].arm = x11[t].arm /\ x11'[t].got = x11[t].got
      /\ x11'[t].at \in {"sync", "walk"} /\ (owed # {} => x11'[t].at = "sync")
      /\ t # "loop" => x11'[t].at = "sync"
  <2> DEFINE step == IF owed # {} \/ t # "loop" THEN "sync" ELSE "walk"
  <2>1. x11' = [x11 EXCEPT ![t].jobs = owed, ![t].at = step]
    BY DEF Cond!Begins
  <2>2. step \in {"sync", "walk"} /\ (owed # {} => step = "sync") /\ (t # "loop" => step = "sync")
    OBVIOUS
  <2> HIDE DEF step, owed
  <2>3. x11[t] \in Cond!ThreadRecords /\ x11 \in [Cond!Threads -> Cond!ThreadRecords]
    BY DEF Cond!CondInv, Cond!CondShapesOK
  <2> QED BY <1>4, <2>1, <2>2, <2>3 DEF Cond!ThreadRecords, Cond!Steps
<1> HIDE DEF owed
<1>6. Cond!CondShapesOK'
  BY <1>1, <1>3, <1>5 DEF Cond!CondInv, Cond!CondShapesOK
<1> HIDE DEF new
<1>7. Cond!ReadersOK'
  <2>1. \A k \in Cond!Keys : k \in x7' <=> \E u \in Cond!Threads : x11'[u].at = "read" /\ k \in x11'[u].jobs
    BY <1>1, <1>5 DEF Cond!CondInv, Cond!ReadersOK
  <2>2. \A u \in Cond!Threads, k \in Cond!Keys : x11'[u].got[k] # 0 => x11'[u].at = "read" /\ k \in x11'[u].jobs
    BY <1>1, <1>5 DEF Cond!CondInv, Cond!ReadersOK
  <2>3. Cond!OneShell'
    BY <1>5 DEF Cond!CondInv, Cond!ReadersOK, Cond!OneShell
  <2>4. \A k \in Cond!Keys : k \notin x4' => x5'[k] = 0
    BY <1>1, <1>3
  <2> QED BY <2>1, <2>2, <2>3, <2>4 DEF Cond!ReadersOK
<1>8. Cond!AnswersOK'
  BY <1>1, <1>5 DEF Cond!CondInv, Cond!AnswersOK
<1>9. \A k : (Cond!Owing(k) => Cond!Owing(k)') /\ (Cond!Coming(k) => Cond!Coming(k)')
  BY <1>1, <1>5 DEF Cond!Owing, Cond!Coming
<1>10. \A k : k \in new /\ k \in Watched => Cond!Owing(k)' /\ Cond!Coming(k)'
  BY <1>1, <1>4, <1>5 DEF Cond!Owing, Cond!Coming
<1>11. Cond!Doomed <=> Cond!Doomed'
  BY <1>1, <1>5 DEF Cond!Doomed
<1>12. Cond!Tracked' \subseteq Cond!Tracked \cup (new \cap Watched)
  BY <1>1 DEF Cond!Tracked
<1>13. Cond!PatternsOK'
  BY <1>1, <1>5, <1>9, <1>10, <1>11, <1>12 DEF Cond!CondInv, Cond!PatternsOK
<1>14. Cond!WatchesOK'
  BY <1>1, <1>5, <1>9, <1>10, <1>12 DEF Cond!CondInv, Cond!WatchesOK
<1>15. Cond!FiredOK'
  <2> SUFFICES ASSUME NEW k \in Cond!Keys
               PROVE  x3[k] <= x5'[k] \/ Cond!Owed(k)' \/ k \in x14 \/ x15 \/ k \in x18'
    BY <1>1 DEF Cond!FiredOK
  <2>1. CASE k \notin kept
    BY <1>3, <2>1 DEF Cond!Owed
  <2>2. CASE k \in kept
    <3>1. Cond!Owed(k) => Cond!Owed(k)'
      BY <1>1, <1>3, <1>5, <2>2 DEF Cond!Owed, Cond!Underway
    <3> QED BY <1>1, <1>3, <2>2, <3>1 DEF Cond!CondInv, Cond!FiredOK
  <2> QED BY <2>1, <2>2
<1>16. Cond!ShelfIsMarked'
  <2>1. CASE t = "loop"
    BY <1>5, <2>1 DEF Cond!ShelfIsMarked
  <2>2. CASE t # "loop"
    <3>1. \A k \in Cond!Keys : k \in x1 => x5'[k] = x5[k]
      BY <1>3 DEF Cond!CondInv, Cond!CondShapesOK, Cond!ReadersOK
    <3> QED BY <1>1, <1>5, <2>2, <3>1 DEF Cond!CondInv, Cond!CondShapesOK,
       Cond!ShelfIsMarked, Cond!Threads
  <2> QED BY <2>1, <2>2
<1> QED BY <1>6, <1>7, <1>8, <1>13, <1>14, <1>15, <1>16 DEF Cond!CondInv

LEMMA CondNext ==
  ASSUME MaxMoves \in Nat, Cond!CondInv, Cond!Next
  PROVE  Cond!CondInv'
<1>1. CASE \E k \in Cond!Keys : Cond!Move(k) \/ Cond!Edit(k) \/ Cond!Dispatch(k) \/ Cond!Invoke(k)
  BY <1>1, CondMove, CondEdit, CondDispatch, CondInvoke
<1>2. CASE Cond!Walk \/ Cond!Built \/ Cond!OpenMenu
  BY <1>2, CondWalk, CondBuilt, CondOpenMenu
<1>3. CASE Cond!Refresh
  <2>1. "loop" \in Cond!Threads
    BY DEF Cond!Threads
  <2> QED BY <1>3, <2>1, CondBegins DEF Cond!Refresh
<1>4. CASE \E t \in Cond!Threads : Cond!Warm(t)
  <2>1. PICK t \in Cond!Threads : t \in Workers /\ Cond!Begins(t, x4 \cap x1)
    BY <1>4 DEF Cond!Warm
  <2> QED BY <2>1, CondBegins
<1>5. CASE \E t \in Cond!Threads : Cond!Sync(t) \/ Cond!Arm(t) \/ Cond!Claim(t)
          \/ Cond!Finish(t) \/ Cond!Dirty(t) \/ \E k \in Cond!Keys : Cond!Read(t, k)
  BY <1>5, CondSync, CondArm, CondClaim, CondFinish, CondDirty, CondRead
<1> QED BY <1>1, <1>2, <1>3, <1>4, <1>5 DEF Cond!Next

LEMMA CondReads ==
  ASSUME Cond!CondInv
  PROVE  Cond!QuietIsRead /\ Cond!OneShell /\ Cond!ShelfIsMarked
<1>1. \A k \in Cond!Keys : x5[k] \in Nat /\ x3[k] \in Nat
  BY DEF Cond!CondInv, Cond!CondShapesOK
<1>2. Cond!QuietIsRead
  BY <1>1 DEF Cond!CondInv, Cond!CondShapesOK, Cond!FiredOK, Cond!QuietIsRead
<1> QED BY <1>2 DEF Cond!CondInv, Cond!ReadersOK

-----------------------------------------------------------------------------
(* The layout of a workspace: each step keeps LayoutInv. *)

LEMMA LayoutInit == Layout!Init => Layout!LayoutInv
  BY DEF Layout!Init, Layout!LayoutInv, Layout!LayoutShapesOK, Layout!StagedOK, Layout!TempOK,
     Layout!ReportOK, Layout!OthersFileKept, Layout!AsReported, Layout!Files, Layout!NoFile,
         Layout!Layouts

LEMMA LayoutSwitch ==
  ASSUME Layout!LayoutInv, Layout!Switch
  PROVE  Layout!LayoutInv'
<1>1. Layout!LayoutShapesOK'
  BY DEF Layout!Switch, Layout!LayoutInv, Layout!LayoutShapesOK, Layout!Files, Layout!NoFile,
     Layout!Layouts, Layout!fileVars, Layout!boundVars, Layout!actVars
<1>2. Layout!StagedOK'
  BY DEF Layout!Switch, Layout!LayoutInv, Layout!StagedOK, Layout!fileVars, Layout!boundVars,
     Layout!actVars
<1>3. Layout!TempOK'
  BY DEF Layout!Switch, Layout!LayoutInv, Layout!TempOK, Layout!NoFile, Layout!fileVars,
     Layout!boundVars, Layout!actVars
<1>4. Layout!ReportOK'
  BY DEF Layout!Switch, Layout!LayoutInv, Layout!ReportOK, Layout!Layouts, Layout!Other,
     Layout!fileVars, Layout!boundVars, Layout!actVars
<1>5. Layout!OthersFileKept'
  BY DEF Layout!Switch, Layout!LayoutInv, Layout!OthersFileKept, Layout!fileVars,
     Layout!boundVars, Layout!actVars
<1>6. Layout!AsReported'
  BY DEF Layout!Switch, Layout!LayoutInv, Layout!AsReported, Layout!Layouts, Layout!Other,
     Layout!fileVars, Layout!boundVars, Layout!actVars
<1> QED BY <1>1, <1>2, <1>3, <1>4, <1>5, <1>6 DEF Layout!LayoutInv

LEMMA LayoutToggle ==
  ASSUME Layout!LayoutInv, Layout!Toggle
  PROVE  Layout!LayoutInv'
<1>1. Layout!LayoutShapesOK'
  BY DEF Layout!Toggle, Layout!LayoutInv, Layout!LayoutShapesOK, Layout!Files, Layout!NoFile,
     Layout!Layouts, Layout!Other, Layout!fileVars, Layout!boundVars, Layout!actVars
<1>2. Layout!StagedOK'
  BY DEF Layout!Toggle, Layout!LayoutInv, Layout!StagedOK, Layout!Layouts, Layout!Other,
     Layout!fileVars, Layout!boundVars, Layout!actVars
<1>3. Layout!TempOK'
  BY DEF Layout!Toggle, Layout!LayoutInv, Layout!TempOK, Layout!NoFile, Layout!Layouts,
     Layout!Other, Layout!fileVars, Layout!boundVars, Layout!actVars
<1>4. Layout!ReportOK'
  BY DEF Layout!Toggle, Layout!LayoutInv, Layout!ReportOK, Layout!Layouts, Layout!Other,
     Layout!fileVars, Layout!boundVars, Layout!actVars
<1>5. Layout!OthersFileKept'
  BY DEF Layout!Toggle, Layout!LayoutInv, Layout!OthersFileKept, Layout!Layouts, Layout!Other,
     Layout!fileVars, Layout!boundVars, Layout!actVars
<1>6. Layout!AsReported'
  BY DEF Layout!Toggle, Layout!LayoutInv, Layout!AsReported, Layout!Layouts, Layout!Other,
     Layout!fileVars, Layout!boundVars, Layout!actVars
<1> QED BY <1>1, <1>2, <1>3, <1>4, <1>5, <1>6 DEF Layout!LayoutInv

LEMMA LayoutHostWrites ==
  ASSUME Layout!LayoutInv, Layout!HostWrites
  PROVE  Layout!LayoutInv'
<1>1. Layout!LayoutShapesOK'
  BY DEF Layout!HostWrites, Layout!LayoutInv, Layout!LayoutShapesOK, Layout!Files,
     Layout!NoFile, Layout!New, Layout!Layouts, Layout!hostVars, Layout!boundVars,
     Layout!actVars
<1>2. Layout!StagedOK'
  BY DEF Layout!HostWrites, Layout!LayoutInv, Layout!LayoutShapesOK, Layout!StagedOK,
     Layout!Files, Layout!NoFile, Layout!New, Layout!Layouts, Layout!hostVars,
     Layout!boundVars, Layout!actVars
<1>3. Layout!TempOK'
  BY DEF Layout!HostWrites, Layout!LayoutInv, Layout!TempOK, Layout!NoFile, Layout!New,
     Layout!Layouts, Layout!hostVars, Layout!boundVars, Layout!actVars
<1>4. Layout!ReportOK'
  BY DEF Layout!HostWrites, Layout!LayoutInv, Layout!ReportOK, Layout!NoFile, Layout!New,
     Layout!Layouts, Layout!Other, Layout!hostVars, Layout!boundVars, Layout!actVars
<1>5. Layout!OthersFileKept'
  BY DEF Layout!HostWrites, Layout!LayoutInv, Layout!OthersFileKept, Layout!NoFile,
     Layout!New, Layout!Layouts, Layout!hostVars, Layout!boundVars, Layout!actVars
<1>6. Layout!AsReported'
  BY DEF Layout!HostWrites, Layout!LayoutInv, Layout!AsReported, Layout!NoFile, Layout!New,
     Layout!Layouts, Layout!Other, Layout!hostVars, Layout!boundVars, Layout!actVars
<1> QED BY <1>1, <1>2, <1>3, <1>4, <1>5, <1>6 DEF Layout!LayoutInv

LEMMA LayoutPublish ==
  ASSUME Layout!LayoutInv, Layout!Publish
  PROVE  Layout!LayoutInv'
<1>1. Layout!LayoutShapesOK'
  BY DEF Layout!Publish, Layout!LayoutInv, Layout!LayoutShapesOK, Layout!Files, Layout!NoFile,
     Layout!Layouts, Layout!hostVars, Layout!fileVars, Layout!actVars
<1>2. Layout!StagedOK'
  BY DEF Layout!Publish, Layout!LayoutInv, Layout!StagedOK, Layout!Layouts, Layout!hostVars,
     Layout!fileVars, Layout!actVars
<1>3. Layout!TempOK'
  BY DEF Layout!Publish, Layout!LayoutInv, Layout!TempOK, Layout!NoFile, Layout!Layouts,
     Layout!hostVars, Layout!fileVars, Layout!actVars
<1>4. Layout!ReportOK'
  BY DEF Layout!Publish, Layout!LayoutInv, Layout!ReportOK, Layout!Layouts, Layout!Other,
     Layout!hostVars, Layout!fileVars, Layout!actVars
<1>5. Layout!OthersFileKept'
  BY DEF Layout!Publish, Layout!LayoutInv, Layout!OthersFileKept, Layout!Layouts,
     Layout!hostVars, Layout!fileVars, Layout!actVars
<1>6. Layout!AsReported'
  BY DEF Layout!Publish, Layout!LayoutInv, Layout!AsReported, Layout!Layouts, Layout!Other,
     Layout!hostVars, Layout!fileVars, Layout!actVars
<1> QED BY <1>1, <1>2, <1>3, <1>4, <1>5, <1>6 DEF Layout!LayoutInv

LEMMA LayoutShown ==
  ASSUME Layout!LayoutInv, Layout!Shown
  PROVE  Layout!LayoutInv'
<1>1. Layout!LayoutShapesOK'
  BY DEF Layout!Shown, Layout!LayoutInv, Layout!LayoutShapesOK, Layout!Files, Layout!NoFile,
     Layout!Layouts, Layout!hostVars, Layout!fileVars, Layout!actVars
<1>2. Layout!StagedOK'
  BY DEF Layout!Shown, Layout!LayoutInv, Layout!StagedOK, Layout!hostVars, Layout!fileVars,
     Layout!actVars
<1>3. Layout!TempOK'
  BY DEF Layout!Shown, Layout!LayoutInv, Layout!TempOK, Layout!NoFile, Layout!hostVars,
     Layout!fileVars, Layout!actVars
<1>4. Layout!ReportOK'
  BY DEF Layout!Shown, Layout!LayoutInv, Layout!ReportOK, Layout!Layouts, Layout!Other,
     Layout!hostVars, Layout!fileVars, Layout!actVars
<1>5. Layout!OthersFileKept'
  BY DEF Layout!Shown, Layout!LayoutInv, Layout!OthersFileKept, Layout!hostVars,
     Layout!fileVars, Layout!actVars
<1>6. Layout!AsReported'
  BY DEF Layout!Shown, Layout!LayoutInv, Layout!AsReported, Layout!Layouts, Layout!Other,
     Layout!hostVars, Layout!fileVars, Layout!actVars
<1> QED BY <1>1, <1>2, <1>3, <1>4, <1>5, <1>6 DEF Layout!LayoutInv

LEMMA LayoutCapture ==
  ASSUME Layout!LayoutInv, Layout!Capture
  PROVE  Layout!LayoutInv'
<1>1. Layout!LayoutShapesOK'
  BY DEF Layout!Capture, Layout!LayoutInv, Layout!LayoutShapesOK, Layout!Files, Layout!NoFile,
     Layout!Layouts, Layout!hostVars, Layout!fileVars, Layout!boundVars
<1>2. Layout!StagedOK'
  BY DEF Layout!Capture, Layout!LayoutInv, Layout!StagedOK, Layout!hostVars, Layout!fileVars,
     Layout!boundVars
<1>3. Layout!TempOK'
  BY DEF Layout!Capture, Layout!LayoutInv, Layout!TempOK, Layout!NoFile, Layout!hostVars,
     Layout!fileVars, Layout!boundVars
<1>4. Layout!ReportOK'
  BY DEF Layout!Capture, Layout!LayoutInv, Layout!ReportOK, Layout!Layouts, Layout!Other,
     Layout!hostVars, Layout!fileVars, Layout!boundVars
<1>5. Layout!OthersFileKept'
  BY DEF Layout!Capture, Layout!LayoutInv, Layout!OthersFileKept, Layout!hostVars,
     Layout!fileVars, Layout!boundVars
<1>6. Layout!AsReported'
  BY DEF Layout!Capture, Layout!LayoutInv, Layout!AsReported, Layout!Layouts, Layout!Other,
     Layout!hostVars, Layout!fileVars, Layout!boundVars
<1> QED BY <1>1, <1>2, <1>3, <1>4, <1>5, <1>6 DEF Layout!LayoutInv

LEMMA LayoutCheck ==
  ASSUME Layout!LayoutInv, Layout!Check
  PROVE  Layout!LayoutInv'
<1>1. Layout!LayoutShapesOK'
  BY DEF Layout!Check, Layout!LayoutInv, Layout!LayoutShapesOK, Layout!Files, Layout!NoFile,
     Layout!Layouts, Layout!hostVars, Layout!fileVars, Layout!boundVars, Layout!actVars,
     Layout!To, Layout!Ends
<1>2. Layout!StagedOK'
  BY DEF Layout!Check, Layout!LayoutInv, Layout!StagedOK, Layout!hostVars, Layout!fileVars,
     Layout!boundVars, Layout!actVars, Layout!To, Layout!Ends
<1>3. Layout!TempOK'
  BY DEF Layout!Check, Layout!LayoutInv, Layout!TempOK, Layout!NoFile, Layout!hostVars,
     Layout!fileVars, Layout!boundVars, Layout!actVars, Layout!To, Layout!Ends
<1>4. Layout!ReportOK'
  BY DEF Layout!Check, Layout!LayoutInv, Layout!LayoutShapesOK, Layout!StagedOK,
     Layout!TempOK, Layout!ReportOK, Layout!OthersFileKept, Layout!AsReported, Layout!Files,
     Layout!NoFile, Layout!Layouts, Layout!Other, Layout!hostVars, Layout!fileVars,
     Layout!boundVars, Layout!actVars, Layout!To, Layout!Ends
<1>5. Layout!OthersFileKept'
  BY DEF Layout!Check, Layout!LayoutInv, Layout!OthersFileKept, Layout!hostVars,
     Layout!fileVars, Layout!boundVars, Layout!actVars, Layout!To, Layout!Ends
<1>6. Layout!AsReported'
  BY DEF Layout!Check, Layout!LayoutInv, Layout!AsReported, Layout!Layouts, Layout!Other,
     Layout!hostVars, Layout!fileVars, Layout!boundVars, Layout!actVars, Layout!To,
     Layout!Ends
<1> QED BY <1>1, <1>2, <1>3, <1>4, <1>5, <1>6 DEF Layout!LayoutInv

LEMMA LayoutSnapshot ==
  ASSUME Layout!LayoutInv, Layout!Snapshot
  PROVE  Layout!LayoutInv'
<1>1. Layout!LayoutShapesOK'
  BY DEF Layout!Snapshot, Layout!LayoutInv, Layout!LayoutShapesOK, Layout!Files,
     Layout!NoFile, Layout!Layouts, Layout!hostVars, Layout!fileVars, Layout!boundVars,
     Layout!To, Layout!Ends
<1>2. Layout!StagedOK'
  BY DEF Layout!Snapshot, Layout!LayoutInv, Layout!StagedOK, Layout!hostVars, Layout!fileVars,
     Layout!boundVars, Layout!To, Layout!Ends
<1>3. Layout!TempOK'
  BY DEF Layout!Snapshot, Layout!LayoutInv, Layout!TempOK, Layout!NoFile, Layout!hostVars,
     Layout!fileVars, Layout!boundVars, Layout!To, Layout!Ends
<1>4. Layout!ReportOK'
  BY DEF Layout!Snapshot, Layout!LayoutInv, Layout!LayoutShapesOK, Layout!StagedOK,
     Layout!TempOK, Layout!ReportOK, Layout!OthersFileKept, Layout!AsReported, Layout!Files,
     Layout!NoFile, Layout!Layouts, Layout!Other, Layout!hostVars, Layout!fileVars,
     Layout!boundVars, Layout!To, Layout!Ends
<1>5. Layout!OthersFileKept'
  BY DEF Layout!Snapshot, Layout!LayoutInv, Layout!OthersFileKept, Layout!hostVars,
     Layout!fileVars, Layout!boundVars, Layout!To, Layout!Ends
<1>6. Layout!AsReported'
  BY DEF Layout!Snapshot, Layout!LayoutInv, Layout!AsReported, Layout!Layouts, Layout!Other,
     Layout!hostVars, Layout!fileVars, Layout!boundVars, Layout!To, Layout!Ends
<1> QED BY <1>1, <1>2, <1>3, <1>4, <1>5, <1>6 DEF Layout!LayoutInv

LEMMA LayoutPrepare ==
  ASSUME Layout!LayoutInv, Layout!Prepare
  PROVE  Layout!LayoutInv'
<1>1. Layout!LayoutShapesOK'
  BY DEF Layout!Prepare, Layout!LayoutInv, Layout!LayoutShapesOK, Layout!Files, Layout!NoFile,
     Layout!New, Layout!Layouts, Layout!Other, Layout!hostVars, Layout!boundVars, Layout!To,
     Layout!Ends
<1>2. Layout!StagedOK'
  BY DEF Layout!Prepare, Layout!LayoutInv, Layout!LayoutShapesOK, Layout!StagedOK,
     Layout!Files, Layout!NoFile, Layout!New, Layout!Layouts, Layout!Other, Layout!hostVars,
     Layout!boundVars, Layout!To, Layout!Ends
<1>3. Layout!TempOK'
  BY DEF Layout!Prepare, Layout!LayoutInv, Layout!TempOK, Layout!NoFile, Layout!New,
     Layout!Layouts, Layout!Other, Layout!hostVars, Layout!boundVars, Layout!To, Layout!Ends
<1>4. Layout!ReportOK'
  BY DEF Layout!Prepare, Layout!LayoutInv, Layout!LayoutShapesOK, Layout!StagedOK,
     Layout!TempOK, Layout!ReportOK, Layout!OthersFileKept, Layout!AsReported, Layout!Files,
     Layout!NoFile, Layout!New, Layout!Layouts, Layout!Other, Layout!hostVars,
     Layout!boundVars, Layout!To, Layout!Ends
<1>5. Layout!OthersFileKept'
  BY DEF Layout!Prepare, Layout!LayoutInv, Layout!LayoutShapesOK, Layout!StagedOK,
     Layout!TempOK, Layout!ReportOK, Layout!OthersFileKept, Layout!AsReported, Layout!Files,
     Layout!NoFile, Layout!New, Layout!Layouts, Layout!Other, Layout!hostVars,
     Layout!boundVars, Layout!To, Layout!Ends
<1>6. Layout!AsReported'
  BY DEF Layout!Prepare, Layout!LayoutInv, Layout!AsReported, Layout!New, Layout!Layouts,
     Layout!Other, Layout!hostVars, Layout!boundVars, Layout!To, Layout!Ends
<1> QED BY <1>1, <1>2, <1>3, <1>4, <1>5, <1>6 DEF Layout!LayoutInv

LEMMA LayoutMutate ==
  ASSUME Layout!LayoutInv, Layout!Mutate
  PROVE  Layout!LayoutInv'
<1>1. Layout!LayoutShapesOK'
  BY DEF Layout!Mutate, Layout!LayoutInv, Layout!LayoutShapesOK, Layout!Files, Layout!NoFile,
     Layout!Layouts, Layout!Other, Layout!fileVars, Layout!boundVars, Layout!actVars,
     Layout!To, Layout!Ends
<1>2. Layout!StagedOK'
  BY DEF Layout!Mutate, Layout!LayoutInv, Layout!StagedOK, Layout!Layouts, Layout!Other,
     Layout!fileVars, Layout!boundVars, Layout!actVars, Layout!To, Layout!Ends
<1>3. Layout!TempOK'
  BY DEF Layout!Mutate, Layout!LayoutInv, Layout!TempOK, Layout!NoFile, Layout!Layouts,
     Layout!Other, Layout!fileVars, Layout!boundVars, Layout!actVars, Layout!To, Layout!Ends
<1>4. Layout!ReportOK'
  BY DEF Layout!Mutate, Layout!LayoutInv, Layout!ReportOK, Layout!Layouts, Layout!Other,
     Layout!fileVars, Layout!boundVars, Layout!actVars, Layout!To, Layout!Ends
<1>5. Layout!OthersFileKept'
  BY DEF Layout!Mutate, Layout!LayoutInv, Layout!OthersFileKept, Layout!Layouts, Layout!Other,
     Layout!fileVars, Layout!boundVars, Layout!actVars, Layout!To, Layout!Ends
<1>6. Layout!AsReported'
  BY DEF Layout!Mutate, Layout!LayoutInv, Layout!AsReported, Layout!Layouts, Layout!Other,
     Layout!fileVars, Layout!boundVars, Layout!actVars, Layout!To, Layout!Ends
<1> QED BY <1>1, <1>2, <1>3, <1>4, <1>5, <1>6 DEF Layout!LayoutInv

LEMMA LayoutReadBack ==
  ASSUME Layout!LayoutInv, Layout!ReadBack
  PROVE  Layout!LayoutInv'
<1>1. Layout!LayoutShapesOK'
  BY DEF Layout!ReadBack, Layout!LayoutInv, Layout!LayoutShapesOK, Layout!Files,
     Layout!NoFile, Layout!Layouts, Layout!Other, Layout!hostVars, Layout!fileVars,
     Layout!boundVars, Layout!actVars, Layout!To, Layout!Ends
<1>2. Layout!StagedOK'
  BY DEF Layout!ReadBack, Layout!LayoutInv, Layout!StagedOK, Layout!Layouts, Layout!Other,
     Layout!hostVars, Layout!fileVars, Layout!boundVars, Layout!actVars, Layout!To,
     Layout!Ends
<1>3. Layout!TempOK'
  BY DEF Layout!ReadBack, Layout!LayoutInv, Layout!TempOK, Layout!NoFile, Layout!Layouts,
     Layout!Other, Layout!hostVars, Layout!fileVars, Layout!boundVars, Layout!actVars,
     Layout!To, Layout!Ends
<1>4. Layout!ReportOK'
  BY DEF Layout!ReadBack, Layout!LayoutInv, Layout!ReportOK, Layout!Layouts, Layout!Other,
     Layout!hostVars, Layout!fileVars, Layout!boundVars, Layout!actVars, Layout!To,
     Layout!Ends
<1>5. Layout!OthersFileKept'
  BY DEF Layout!ReadBack, Layout!LayoutInv, Layout!OthersFileKept, Layout!Layouts,
     Layout!Other, Layout!hostVars, Layout!fileVars, Layout!boundVars, Layout!actVars,
     Layout!To, Layout!Ends
<1>6. Layout!AsReported'
  BY DEF Layout!ReadBack, Layout!LayoutInv, Layout!AsReported, Layout!Layouts, Layout!Other,
     Layout!hostVars, Layout!fileVars, Layout!boundVars, Layout!actVars, Layout!To,
     Layout!Ends
<1> QED BY <1>1, <1>2, <1>3, <1>4, <1>5, <1>6 DEF Layout!LayoutInv

LEMMA LayoutCompare ==
  ASSUME Layout!LayoutInv, Layout!Compare
  PROVE  Layout!LayoutInv'
<1>1. Layout!LayoutShapesOK'
  BY DEF Layout!Compare, Layout!LayoutInv, Layout!LayoutShapesOK, Layout!Files, Layout!NoFile,
     Layout!Layouts, Layout!hostVars, Layout!fileVars, Layout!boundVars, Layout!actVars,
     Layout!To, Layout!Ends
<1>2. Layout!StagedOK'
  BY DEF Layout!Compare, Layout!LayoutInv, Layout!StagedOK, Layout!NoFile, Layout!hostVars,
     Layout!fileVars, Layout!boundVars, Layout!actVars, Layout!To, Layout!Ends
<1>3. Layout!TempOK'
  BY DEF Layout!Compare, Layout!LayoutInv, Layout!TempOK, Layout!NoFile, Layout!hostVars,
     Layout!fileVars, Layout!boundVars, Layout!actVars, Layout!To, Layout!Ends
<1>4. Layout!ReportOK'
  BY DEF Layout!Compare, Layout!LayoutInv, Layout!ReportOK, Layout!NoFile, Layout!Layouts,
     Layout!Other, Layout!hostVars, Layout!fileVars, Layout!boundVars, Layout!actVars,
     Layout!To, Layout!Ends
<1>5. Layout!OthersFileKept'
  BY DEF Layout!Compare, Layout!LayoutInv, Layout!OthersFileKept, Layout!NoFile,
     Layout!hostVars, Layout!fileVars, Layout!boundVars, Layout!actVars, Layout!To,
     Layout!Ends
<1>6. Layout!AsReported'
  BY DEF Layout!Compare, Layout!LayoutInv, Layout!AsReported, Layout!NoFile, Layout!Layouts,
     Layout!Other, Layout!hostVars, Layout!fileVars, Layout!boundVars, Layout!actVars,
     Layout!To, Layout!Ends
<1> QED BY <1>1, <1>2, <1>3, <1>4, <1>5, <1>6 DEF Layout!LayoutInv

LEMMA LayoutLink ==
  ASSUME Layout!LayoutInv, Layout!Link
  PROVE  Layout!LayoutInv'
<1>1. Layout!LayoutShapesOK'
  BY DEF Layout!Link, Layout!LayoutInv, Layout!LayoutShapesOK, Layout!Files, Layout!NoFile,
     Layout!Layouts, Layout!hostVars, Layout!boundVars, Layout!actVars, Layout!To, Layout!Ends
<1>2. Layout!StagedOK'
  BY DEF Layout!Link, Layout!LayoutInv, Layout!StagedOK, Layout!NoFile, Layout!hostVars,
     Layout!boundVars, Layout!actVars, Layout!To, Layout!Ends
<1>3. Layout!TempOK'
  BY DEF Layout!Link, Layout!LayoutInv, Layout!TempOK, Layout!NoFile, Layout!hostVars,
     Layout!boundVars, Layout!actVars, Layout!To, Layout!Ends
<1>4. Layout!ReportOK'
  BY DEF Layout!Link, Layout!LayoutInv, Layout!ReportOK, Layout!NoFile, Layout!Layouts,
     Layout!Other, Layout!hostVars, Layout!boundVars, Layout!actVars, Layout!To, Layout!Ends
<1>5. Layout!OthersFileKept'
  BY DEF Layout!Link, Layout!LayoutInv, Layout!OthersFileKept, Layout!NoFile, Layout!hostVars,
     Layout!boundVars, Layout!actVars, Layout!To, Layout!Ends
<1>6. Layout!AsReported'
  BY DEF Layout!Link, Layout!LayoutInv, Layout!AsReported, Layout!NoFile, Layout!Layouts,
     Layout!Other, Layout!hostVars, Layout!boundVars, Layout!actVars, Layout!To, Layout!Ends
<1> QED BY <1>1, <1>2, <1>3, <1>4, <1>5, <1>6 DEF Layout!LayoutInv

LEMMA LayoutExchange ==
  ASSUME Layout!LayoutInv, Layout!Exchange
  PROVE  Layout!LayoutInv'
<1>1. Layout!LayoutShapesOK'
  BY DEF Layout!Exchange, Layout!LayoutInv, Layout!LayoutShapesOK, Layout!Files,
     Layout!NoFile, Layout!Layouts, Layout!hostVars, Layout!boundVars, Layout!actVars,
     Layout!To, Layout!Ends
<1>2. Layout!StagedOK'
  BY DEF Layout!Exchange, Layout!LayoutInv, Layout!StagedOK, Layout!NoFile, Layout!hostVars,
     Layout!boundVars, Layout!actVars, Layout!To, Layout!Ends
<1>3. Layout!TempOK'
  BY DEF Layout!Exchange, Layout!LayoutInv, Layout!TempOK, Layout!NoFile, Layout!hostVars,
     Layout!boundVars, Layout!actVars, Layout!To, Layout!Ends
<1>4. Layout!ReportOK'
  BY DEF Layout!Exchange, Layout!LayoutInv, Layout!ReportOK, Layout!NoFile, Layout!Layouts,
     Layout!Other, Layout!hostVars, Layout!boundVars, Layout!actVars, Layout!To, Layout!Ends
<1>5. Layout!OthersFileKept'
  BY DEF Layout!Exchange, Layout!LayoutInv, Layout!OthersFileKept, Layout!NoFile,
     Layout!hostVars, Layout!boundVars, Layout!actVars, Layout!To, Layout!Ends
<1>6. Layout!AsReported'
  BY DEF Layout!Exchange, Layout!LayoutInv, Layout!AsReported, Layout!NoFile, Layout!Layouts,
     Layout!Other, Layout!hostVars, Layout!boundVars, Layout!actVars, Layout!To, Layout!Ends
<1> QED BY <1>1, <1>2, <1>3, <1>4, <1>5, <1>6 DEF Layout!LayoutInv

LEMMA LayoutVerify ==
  ASSUME Layout!LayoutInv, Layout!Verify
  PROVE  Layout!LayoutInv'
<1>1. Layout!LayoutShapesOK'
  BY DEF Layout!Verify, Layout!LayoutInv, Layout!LayoutShapesOK, Layout!Files, Layout!NoFile,
     Layout!Layouts, Layout!hostVars, Layout!fileVars, Layout!boundVars, Layout!actVars,
     Layout!To
<1>2. Layout!StagedOK'
  BY DEF Layout!Verify, Layout!LayoutInv, Layout!StagedOK, Layout!hostVars, Layout!fileVars,
     Layout!boundVars, Layout!actVars, Layout!To
<1>3. Layout!TempOK'
  BY DEF Layout!Verify, Layout!LayoutInv, Layout!TempOK, Layout!NoFile, Layout!hostVars,
     Layout!fileVars, Layout!boundVars, Layout!actVars, Layout!To
<1>4. Layout!ReportOK'
  BY DEF Layout!Verify, Layout!LayoutInv, Layout!ReportOK, Layout!Layouts, Layout!Other,
     Layout!hostVars, Layout!fileVars, Layout!boundVars, Layout!actVars, Layout!To
<1>5. Layout!OthersFileKept'
  BY DEF Layout!Verify, Layout!LayoutInv, Layout!OthersFileKept, Layout!hostVars,
     Layout!fileVars, Layout!boundVars, Layout!actVars, Layout!To
<1>6. Layout!AsReported'
  BY DEF Layout!Verify, Layout!LayoutInv, Layout!AsReported, Layout!Layouts, Layout!Other,
     Layout!hostVars, Layout!fileVars, Layout!boundVars, Layout!actVars, Layout!To
<1> QED BY <1>1, <1>2, <1>3, <1>4, <1>5, <1>6 DEF Layout!LayoutInv

LEMMA LayoutRestore ==
  ASSUME Layout!LayoutInv, Layout!Restore
  PROVE  Layout!LayoutInv'
<1>1. Layout!LayoutShapesOK'
  BY DEF Layout!Restore, Layout!LayoutInv, Layout!LayoutShapesOK, Layout!Files, Layout!NoFile,
     Layout!Layouts, Layout!hostVars, Layout!fileVars, Layout!boundVars, Layout!actVars,
     Layout!To
<1>2. Layout!StagedOK'
  BY DEF Layout!Restore, Layout!LayoutInv, Layout!StagedOK, Layout!hostVars, Layout!fileVars,
     Layout!boundVars, Layout!actVars, Layout!To
<1>3. Layout!TempOK'
  BY DEF Layout!Restore, Layout!LayoutInv, Layout!TempOK, Layout!NoFile, Layout!hostVars,
     Layout!fileVars, Layout!boundVars, Layout!actVars, Layout!To
<1>4. Layout!ReportOK'
  BY DEF Layout!Restore, Layout!LayoutInv, Layout!ReportOK, Layout!Layouts, Layout!Other,
     Layout!hostVars, Layout!fileVars, Layout!boundVars, Layout!actVars, Layout!To
<1>5. Layout!OthersFileKept'
  BY DEF Layout!Restore, Layout!LayoutInv, Layout!OthersFileKept, Layout!hostVars,
     Layout!fileVars, Layout!boundVars, Layout!actVars, Layout!To
<1>6. Layout!AsReported'
  BY DEF Layout!Restore, Layout!LayoutInv, Layout!AsReported, Layout!Layouts, Layout!Other,
     Layout!hostVars, Layout!fileVars, Layout!boundVars, Layout!actVars, Layout!To
<1> QED BY <1>1, <1>2, <1>3, <1>4, <1>5, <1>6 DEF Layout!LayoutInv

LEMMA LayoutPutBack ==
  ASSUME Layout!LayoutInv, Layout!PutBack
  PROVE  Layout!LayoutInv'
<1>1. Layout!LayoutShapesOK'
  BY DEF Layout!PutBack, Layout!LayoutInv, Layout!LayoutShapesOK, Layout!Files, Layout!NoFile,
     Layout!Layouts, Layout!hostVars, Layout!boundVars, Layout!actVars, Layout!To
<1>2. Layout!StagedOK'
  BY DEF Layout!PutBack, Layout!LayoutInv, Layout!StagedOK, Layout!NoFile, Layout!hostVars,
     Layout!boundVars, Layout!actVars, Layout!To
<1>3. Layout!TempOK'
  BY DEF Layout!PutBack, Layout!LayoutInv, Layout!TempOK, Layout!NoFile, Layout!hostVars,
     Layout!boundVars, Layout!actVars, Layout!To
<1>4. Layout!ReportOK'
  BY DEF Layout!PutBack, Layout!LayoutInv, Layout!ReportOK, Layout!NoFile, Layout!Layouts,
     Layout!Other, Layout!hostVars, Layout!boundVars, Layout!actVars, Layout!To
<1>5. Layout!OthersFileKept'
  BY DEF Layout!PutBack, Layout!LayoutInv, Layout!OthersFileKept, Layout!NoFile,
     Layout!hostVars, Layout!boundVars, Layout!actVars, Layout!To
<1>6. Layout!AsReported'
  BY DEF Layout!PutBack, Layout!LayoutInv, Layout!AsReported, Layout!NoFile, Layout!Layouts,
     Layout!Other, Layout!hostVars, Layout!boundVars, Layout!actVars, Layout!To
<1> QED BY <1>1, <1>2, <1>3, <1>4, <1>5, <1>6 DEF Layout!LayoutInv

LEMMA LayoutDrop ==
  ASSUME Layout!LayoutInv, Layout!Drop
  PROVE  Layout!LayoutInv'
<1>1. Layout!LayoutShapesOK'
  <2>1. UNCHANGED <<x3, x12, x6, x13>> /\ x4' \in {x4, Layout!NoFile} /\ x7' \subseteq x7
    BY DEF Layout!Drop, Layout!actVars
  <2>2. Layout!NoFile \in Layout!Files
    BY DEF Layout!NoFile, Layout!Files, Layout!Layouts
  <2> QED BY <2>1, <2>2 DEF Layout!LayoutInv, Layout!LayoutShapesOK, Layout!NoFile
<1>2. Layout!StagedOK'
  BY DEF Layout!Drop, Layout!LayoutInv, Layout!StagedOK, Layout!NoFile, Layout!hostVars,
     Layout!boundVars, Layout!actVars, Layout!To
<1>3. Layout!TempOK'
  BY DEF Layout!Drop, Layout!LayoutInv, Layout!TempOK, Layout!NoFile, Layout!hostVars,
     Layout!boundVars, Layout!actVars, Layout!To
<1>4. Layout!ReportOK'
  BY DEF Layout!Drop, Layout!LayoutInv, Layout!ReportOK, Layout!NoFile, Layout!Layouts,
     Layout!Other, Layout!hostVars, Layout!boundVars, Layout!actVars, Layout!To
<1>5. Layout!OthersFileKept'
  BY DEF Layout!Drop, Layout!LayoutInv, Layout!LayoutShapesOK, Layout!StagedOK, Layout!TempOK,
     Layout!ReportOK, Layout!OthersFileKept, Layout!AsReported, Layout!Files, Layout!NoFile,
     Layout!Layouts, Layout!Other, Layout!hostVars, Layout!boundVars, Layout!actVars,
     Layout!To
<1>6. Layout!AsReported'
  BY DEF Layout!Drop, Layout!LayoutInv, Layout!AsReported, Layout!NoFile, Layout!Layouts,
     Layout!Other, Layout!hostVars, Layout!boundVars, Layout!actVars, Layout!To
<1> QED BY <1>1, <1>2, <1>3, <1>4, <1>5, <1>6 DEF Layout!LayoutInv

LEMMA LayoutSaved ==
  ASSUME Layout!LayoutInv, Layout!Saved
  PROVE  Layout!LayoutInv'
<1>1. Layout!LayoutShapesOK'
  BY DEF Layout!Saved, Layout!LayoutInv, Layout!LayoutShapesOK, Layout!Files, Layout!NoFile,
     Layout!Layouts, Layout!Other, Layout!hostVars, Layout!fileVars, Layout!boundVars,
     Layout!actVars, Layout!Ends
<1>2. Layout!StagedOK'
  BY DEF Layout!Saved, Layout!LayoutInv, Layout!StagedOK, Layout!Layouts, Layout!Other,
     Layout!hostVars, Layout!fileVars, Layout!boundVars, Layout!actVars, Layout!Ends
<1>3. Layout!TempOK'
  BY DEF Layout!Saved, Layout!LayoutInv, Layout!TempOK, Layout!NoFile, Layout!Layouts,
     Layout!Other, Layout!hostVars, Layout!fileVars, Layout!boundVars, Layout!actVars,
     Layout!Ends
<1>4. Layout!ReportOK'
  BY DEF Layout!Saved, Layout!LayoutInv, Layout!ReportOK, Layout!Layouts, Layout!Other,
     Layout!hostVars, Layout!fileVars, Layout!boundVars, Layout!actVars, Layout!Ends
<1>5. Layout!OthersFileKept'
  BY DEF Layout!Saved, Layout!LayoutInv, Layout!OthersFileKept, Layout!Layouts, Layout!Other,
     Layout!hostVars, Layout!fileVars, Layout!boundVars, Layout!actVars, Layout!Ends
<1>6. Layout!AsReported'
  BY DEF Layout!Saved, Layout!LayoutInv, Layout!AsReported, Layout!Layouts, Layout!Other,
     Layout!hostVars, Layout!fileVars, Layout!boundVars, Layout!actVars, Layout!Ends
<1> QED BY <1>1, <1>2, <1>3, <1>4, <1>5, <1>6 DEF Layout!LayoutInv

LEMMA LayoutClean ==
  ASSUME Layout!LayoutInv, Layout!Clean
  PROVE  Layout!LayoutInv'
<1>1. Layout!LayoutShapesOK'
  BY DEF Layout!Clean, Layout!LayoutInv, Layout!LayoutShapesOK, Layout!Files, Layout!NoFile,
     Layout!Layouts, Layout!hostVars, Layout!boundVars, Layout!actVars, Layout!To,
     Layout!Remains
<1>2. Layout!StagedOK'
  BY DEF Layout!Clean, Layout!LayoutInv, Layout!StagedOK, Layout!NoFile, Layout!hostVars,
     Layout!boundVars, Layout!actVars, Layout!To, Layout!Remains
<1>3. Layout!TempOK'
  BY DEF Layout!Clean, Layout!LayoutInv, Layout!TempOK, Layout!NoFile, Layout!hostVars,
     Layout!boundVars, Layout!actVars, Layout!To, Layout!Remains
<1>4. Layout!ReportOK'
  BY DEF Layout!Clean, Layout!LayoutInv, Layout!ReportOK, Layout!NoFile, Layout!Layouts,
     Layout!Other, Layout!hostVars, Layout!boundVars, Layout!actVars, Layout!To,
     Layout!Remains
<1>5. Layout!OthersFileKept'
  BY DEF Layout!Clean, Layout!LayoutInv, Layout!LayoutShapesOK, Layout!StagedOK,
     Layout!TempOK, Layout!ReportOK, Layout!OthersFileKept, Layout!AsReported, Layout!Files,
     Layout!NoFile, Layout!Layouts, Layout!Other, Layout!hostVars, Layout!boundVars,
     Layout!actVars, Layout!To, Layout!Remains
<1>6. Layout!AsReported'
  BY DEF Layout!Clean, Layout!LayoutInv, Layout!LayoutShapesOK, Layout!StagedOK,
     Layout!TempOK, Layout!ReportOK, Layout!OthersFileKept, Layout!AsReported, Layout!Files,
     Layout!NoFile, Layout!Layouts, Layout!Other, Layout!hostVars, Layout!boundVars,
     Layout!actVars, Layout!To, Layout!Remains
<1> QED BY <1>1, <1>2, <1>3, <1>4, <1>5, <1>6 DEF Layout!LayoutInv

LEMMA LayoutDies ==
  ASSUME Layout!LayoutInv, Layout!Dies
  PROVE  Layout!LayoutInv'
<1>1. Layout!LayoutShapesOK'
  BY DEF Layout!Dies, Layout!LayoutInv, Layout!LayoutShapesOK, Layout!Files, Layout!NoFile,
     Layout!Layouts, Layout!hostVars, Layout!actVars
<1>2. Layout!StagedOK'
  BY DEF Layout!Dies, Layout!LayoutInv, Layout!StagedOK, Layout!NoFile, Layout!hostVars,
     Layout!actVars
<1>3. Layout!TempOK'
  BY DEF Layout!Dies, Layout!LayoutInv, Layout!TempOK, Layout!NoFile, Layout!hostVars,
     Layout!actVars
<1>4. Layout!ReportOK'
  BY DEF Layout!Dies, Layout!LayoutInv, Layout!ReportOK, Layout!NoFile, Layout!Layouts,
     Layout!Other, Layout!hostVars, Layout!actVars
<1>5. Layout!OthersFileKept'
  BY DEF Layout!Dies, Layout!LayoutInv, Layout!OthersFileKept, Layout!NoFile, Layout!hostVars,
     Layout!actVars
<1>6. Layout!AsReported'
  BY DEF Layout!Dies, Layout!LayoutInv, Layout!AsReported, Layout!NoFile, Layout!Layouts,
     Layout!Other, Layout!hostVars, Layout!actVars
<1> QED BY <1>1, <1>2, <1>3, <1>4, <1>5, <1>6 DEF Layout!LayoutInv

LEMMA LayoutStutter ==
  ASSUME Layout!LayoutInv, UNCHANGED Layout!layoutVars
  PROVE  Layout!LayoutInv'
  BY DEF Layout!layoutVars, Layout!LayoutInv, Layout!LayoutShapesOK, Layout!StagedOK,
     Layout!TempOK, Layout!ReportOK, Layout!OthersFileKept, Layout!AsReported

LEMMA LayoutNext ==
  ASSUME Layout!LayoutInv, Layout!Next
  PROVE  Layout!LayoutInv'
<1>1. CASE Layout!Switch \/ Layout!Toggle \/ Layout!HostWrites \/ Layout!Publish \/ Layout!Shown
          \/ Layout!Capture \/ Layout!Dies
  BY <1>1, LayoutSwitch, LayoutToggle, LayoutHostWrites, LayoutPublish, LayoutShown,
     LayoutCapture, LayoutDies
<1>2. CASE Layout!Check \/ Layout!Snapshot \/ Layout!Prepare \/ Layout!Mutate \/ Layout!ReadBack
          \/ Layout!Compare \/ Layout!Link
  BY <1>2, LayoutCheck, LayoutSnapshot, LayoutPrepare, LayoutMutate, LayoutReadBack,
     LayoutCompare, LayoutLink
<1>3. CASE Layout!Exchange \/ Layout!Verify \/ Layout!Restore \/ Layout!PutBack \/ Layout!Drop
          \/ Layout!Saved \/ Layout!Clean
  BY <1>3, LayoutExchange, LayoutVerify, LayoutRestore, LayoutPutBack, LayoutDrop,
     LayoutSaved, LayoutClean
<1> QED BY <1>1, <1>2, <1>3 DEF Layout!Next, Layout!Execute

-----------------------------------------------------------------------------
(* What is shown of the desktop, and done there: each step keeps ProbeInv. *)

LEMMA ProbeInit == Probe!Init => Probe!ProbeInv
  BY DEF Probe!Init, Probe!ProbeInv, Probe!ProbeShapesOK, Probe!ProbeOK, Probe!TokenOK,
     Probe!ReadbackStands, Probe!MovesTheShown, Probe!NoProbe, Probe!NoAct

LEMMA ProbePerson ==
  ASSUME Probe!ProbeInv, Probe!Person
  PROVE  Probe!ProbeInv'
<1>1. Probe!ProbeShapesOK'
  BY DEF Probe!Person, Probe!ProbeInv, Probe!ProbeShapesOK, Probe!Changes
<1>2. Probe!ProbeOK'
  BY DEF Probe!Person, Probe!ProbeInv, Probe!ProbeShapesOK, Probe!ProbeOK, Probe!Changes
<1>3. Probe!TokenOK'
  BY DEF Probe!Person, Probe!ProbeInv, Probe!TokenOK, Probe!Changes
<1>4. Probe!ReadbackStands'
  BY DEF Probe!Person, Probe!ProbeInv, Probe!ReadbackStands, Probe!Changes
<1>5. Probe!MovesTheShown'
  BY DEF Probe!Person, Probe!ProbeInv, Probe!MovesTheShown, Probe!Changes
<1> QED BY <1>1, <1>2, <1>3, <1>4, <1>5 DEF Probe!ProbeInv

LEMMA ProbeProbeBegins ==
  ASSUME Probe!ProbeInv, Probe!ProbeBegins
  PROVE  Probe!ProbeInv'
<1>1. Probe!ProbeShapesOK'
  BY DEF Probe!ProbeBegins, Probe!ProbeInv, Probe!ProbeShapesOK, Probe!NoProbe
<1>2. Probe!ProbeOK'
  BY DEF Probe!ProbeBegins, Probe!ProbeInv, Probe!ProbeShapesOK, Probe!ProbeOK, Probe!NoProbe
<1>3. Probe!TokenOK'
  BY DEF Probe!ProbeBegins, Probe!ProbeInv, Probe!TokenOK, Probe!NoProbe
<1>4. Probe!ReadbackStands'
  BY DEF Probe!ProbeBegins, Probe!ProbeInv, Probe!ReadbackStands, Probe!NoProbe
<1>5. Probe!MovesTheShown'
  BY DEF Probe!ProbeBegins, Probe!ProbeInv, Probe!MovesTheShown, Probe!NoProbe
<1> QED BY <1>1, <1>2, <1>3, <1>4, <1>5 DEF Probe!ProbeInv

LEMMA ProbeProbeWindow ==
  ASSUME Probe!ProbeInv, Probe!ProbeWindow
  PROVE  Probe!ProbeInv'
<1>1. Probe!ProbeShapesOK'
  BY DEF Probe!ProbeWindow, Probe!ProbeInv, Probe!ProbeShapesOK
<1>2. Probe!ProbeOK'
  BY DEF Probe!ProbeWindow, Probe!ProbeInv, Probe!ProbeShapesOK, Probe!ProbeOK
<1>3. Probe!TokenOK'
  BY DEF Probe!ProbeWindow, Probe!ProbeInv, Probe!TokenOK
<1>4. Probe!ReadbackStands'
  BY DEF Probe!ProbeWindow, Probe!ProbeInv, Probe!ReadbackStands
<1>5. Probe!MovesTheShown'
  BY DEF Probe!ProbeWindow, Probe!ProbeInv, Probe!MovesTheShown
<1> QED BY <1>1, <1>2, <1>3, <1>4, <1>5 DEF Probe!ProbeInv

LEMMA ProbeProbeActive ==
  ASSUME Probe!ProbeInv, Probe!ProbeActive
  PROVE  Probe!ProbeInv'
<1>1. Probe!ProbeShapesOK'
  BY DEF Probe!ProbeActive, Probe!ProbeInv, Probe!ProbeShapesOK
<1>2. Probe!ProbeOK'
  BY DEF Probe!ProbeActive, Probe!ProbeInv, Probe!ProbeOK
<1>3. Probe!TokenOK'
  BY DEF Probe!ProbeActive, Probe!ProbeInv, Probe!TokenOK
<1>4. Probe!ReadbackStands'
  BY DEF Probe!ProbeActive, Probe!ProbeInv, Probe!ReadbackStands
<1>5. Probe!MovesTheShown'
  BY DEF Probe!ProbeActive, Probe!ProbeInv, Probe!MovesTheShown
<1> QED BY <1>1, <1>2, <1>3, <1>4, <1>5 DEF Probe!ProbeInv

LEMMA ProbeProbePublishes ==
  ASSUME Probe!ProbeInv, Probe!ProbePublishes
  PROVE  Probe!ProbeInv'
<1>1. Probe!ProbeShapesOK'
  BY DEF Probe!ProbePublishes, Probe!ProbeInv, Probe!ProbeShapesOK, Probe!ProbeOK,
     Probe!TokenOK, Probe!ReadbackStands, Probe!MovesTheShown, Probe!NoProbe, Probe!Token,
     Probe!Publish, Probe!SameGeneration
<1>2. Probe!ProbeOK'
  BY DEF Probe!ProbePublishes, Probe!ProbeInv, Probe!ProbeOK, Probe!NoProbe, Probe!Token,
     Probe!Publish, Probe!SameGeneration
<1>3. Probe!TokenOK'
  BY DEF Probe!ProbePublishes, Probe!ProbeInv, Probe!ProbeShapesOK, Probe!TokenOK,
     Probe!NoProbe, Probe!Token, Probe!Publish, Probe!SameGeneration
<1>4. Probe!ReadbackStands'
  BY DEF Probe!ProbePublishes, Probe!ProbeInv, Probe!ProbeShapesOK, Probe!ProbeOK,
     Probe!TokenOK, Probe!ReadbackStands, Probe!MovesTheShown, Probe!NoProbe, Probe!Token,
     Probe!Publish, Probe!SameGeneration
<1>5. Probe!MovesTheShown'
  BY DEF Probe!ProbePublishes, Probe!ProbeInv, Probe!MovesTheShown, Probe!NoProbe,
     Probe!Token, Probe!Publish, Probe!SameGeneration
<1> QED BY <1>1, <1>2, <1>3, <1>4, <1>5 DEF Probe!ProbeInv

LEMMA ProbeLook ==
  ASSUME Probe!ProbeInv, Probe!Look
  PROVE  Probe!ProbeInv'
<1>1. Probe!ProbeShapesOK'
  BY DEF Probe!Look, Probe!ProbeInv, Probe!ProbeShapesOK
<1>2. Probe!ProbeOK'
  BY DEF Probe!Look, Probe!ProbeInv, Probe!ProbeOK
<1>3. Probe!TokenOK'
  BY DEF Probe!Look, Probe!ProbeInv, Probe!TokenOK
<1>4. Probe!ReadbackStands'
  BY DEF Probe!Look, Probe!ProbeInv, Probe!ReadbackStands
<1>5. Probe!MovesTheShown'
  BY DEF Probe!Look, Probe!ProbeInv, Probe!MovesTheShown
<1> QED BY <1>1, <1>2, <1>3, <1>4, <1>5 DEF Probe!ProbeInv

LEMMA ProbeSelect ==
  ASSUME Probe!ProbeInv, NEW s \in Spaces, Probe!Select(s)
  PROVE  Probe!ProbeInv'
<1>1. Probe!ProbeShapesOK'
  BY DEF Probe!Select, Probe!ProbeInv, Probe!ProbeShapesOK, Probe!NoAct
<1>2. Probe!ProbeOK'
  BY DEF Probe!Select, Probe!ProbeInv, Probe!ProbeShapesOK, Probe!ProbeOK, Probe!NoAct
<1>3. Probe!TokenOK'
  BY DEF Probe!Select, Probe!ProbeInv, Probe!TokenOK, Probe!NoAct
<1>4. Probe!ReadbackStands'
  BY DEF Probe!Select, Probe!ProbeInv, Probe!ReadbackStands, Probe!NoAct
<1>5. Probe!MovesTheShown'
  BY DEF Probe!Select, Probe!ProbeInv, Probe!MovesTheShown, Probe!NoAct
<1> QED BY <1>1, <1>2, <1>3, <1>4, <1>5 DEF Probe!ProbeInv

LEMMA ProbeSelected ==
  ASSUME Probe!ProbeInv, Probe!Selected
  PROVE  Probe!ProbeInv'
<1>1. Probe!ProbeShapesOK'
  BY DEF Probe!Selected, Probe!ProbeInv, Probe!ProbeShapesOK, Probe!Changes
<1>2. Probe!ProbeOK'
  BY DEF Probe!Selected, Probe!ProbeInv, Probe!ProbeShapesOK, Probe!ProbeOK, Probe!Changes
<1>3. Probe!TokenOK'
  BY DEF Probe!Selected, Probe!ProbeInv, Probe!TokenOK, Probe!Changes
<1>4. Probe!ReadbackStands'
  BY DEF Probe!Selected, Probe!ProbeInv, Probe!ReadbackStands, Probe!Changes
<1>5. Probe!MovesTheShown'
  BY DEF Probe!Selected, Probe!ProbeInv, Probe!MovesTheShown, Probe!Changes
<1> QED BY <1>1, <1>2, <1>3, <1>4, <1>5 DEF Probe!ProbeInv

LEMMA ProbeAskMove ==
  ASSUME Probe!ProbeInv, Probe!AskMove
  PROVE  Probe!ProbeInv'
<1>1. Probe!ProbeShapesOK'
  BY DEF Probe!AskMove, Probe!ProbeInv, Probe!ProbeShapesOK, Probe!NoAct, Probe!Reading,
     Probe!Token, Probe!Publish
<1>2. Probe!ProbeOK'
  BY DEF Probe!AskMove, Probe!ProbeInv, Probe!ProbeOK, Probe!NoAct, Probe!Reading,
     Probe!Token, Probe!Publish
<1>3. Probe!TokenOK'
  BY DEF Probe!AskMove, Probe!ProbeInv, Probe!ProbeShapesOK, Probe!TokenOK, Probe!NoAct,
     Probe!Reading, Probe!Token, Probe!Publish
<1>4. Probe!ReadbackStands'
  BY DEF Probe!AskMove, Probe!ProbeInv, Probe!ProbeShapesOK, Probe!ReadbackStands,
     Probe!NoAct, Probe!Reading, Probe!Token, Probe!Publish
<1>5. Probe!MovesTheShown'
  BY DEF Probe!AskMove, Probe!ProbeInv, Probe!MovesTheShown, Probe!NoAct, Probe!Reading,
     Probe!Token, Probe!Publish
<1> QED BY <1>1, <1>2, <1>3, <1>4, <1>5 DEF Probe!ProbeInv

LEMMA ProbeMoveChecks ==
  ASSUME Probe!ProbeInv, Probe!MoveChecks
  PROVE  Probe!ProbeInv'
<1>1. Probe!ProbeShapesOK'
  BY DEF Probe!MoveChecks, Probe!ProbeInv, Probe!ProbeShapesOK, Probe!NoAct, Probe!Reading,
     Probe!Token, Probe!Publish
<1>2. Probe!ProbeOK'
  BY DEF Probe!MoveChecks, Probe!ProbeInv, Probe!ProbeShapesOK, Probe!ProbeOK, Probe!NoAct,
     Probe!Reading, Probe!Token, Probe!Publish
<1>3. Probe!TokenOK'
  BY DEF Probe!MoveChecks, Probe!ProbeInv, Probe!ProbeShapesOK, Probe!TokenOK, Probe!NoAct,
     Probe!Reading, Probe!Token, Probe!Publish
<1>4. Probe!ReadbackStands'
  BY DEF Probe!MoveChecks, Probe!ProbeInv, Probe!ProbeShapesOK, Probe!ReadbackStands,
     Probe!NoAct, Probe!Reading, Probe!Token, Probe!Publish
<1>5. Probe!MovesTheShown'
  BY DEF Probe!MoveChecks, Probe!ProbeInv, Probe!MovesTheShown, Probe!NoAct, Probe!Reading,
     Probe!Token, Probe!Publish
<1> QED BY <1>1, <1>2, <1>3, <1>4, <1>5 DEF Probe!ProbeInv

LEMMA ProbeMoves ==
  ASSUME Probe!ProbeInv, Probe!Moves
  PROVE  Probe!ProbeInv'
<1>1. Probe!ProbeShapesOK'
  BY DEF Probe!Moves, Probe!ProbeInv, Probe!ProbeShapesOK, Probe!Named
<1>2. Probe!ProbeOK'
  BY DEF Probe!Moves, Probe!ProbeInv, Probe!ProbeOK, Probe!Named
<1>3. Probe!TokenOK'
  BY DEF Probe!Moves, Probe!ProbeInv, Probe!TokenOK, Probe!Named
<1>4. Probe!ReadbackStands'
  BY DEF Probe!Moves, Probe!ProbeInv, Probe!ReadbackStands, Probe!Named
<1>5. Probe!MovesTheShown'
  BY DEF Probe!Moves, Probe!ProbeInv, Probe!ProbeShapesOK, Probe!ProbeOK, Probe!TokenOK,
     Probe!ReadbackStands, Probe!MovesTheShown, Probe!Named
<1> QED BY <1>1, <1>2, <1>3, <1>4, <1>5 DEF Probe!ProbeInv

LEMMA ProbeReadBack ==
  ASSUME Probe!ProbeInv, Probe!ReadBack
  PROVE  Probe!ProbeInv'
<1>1. Probe!ProbeShapesOK'
  BY DEF Probe!ReadBack, Probe!ProbeInv, Probe!ProbeShapesOK, Probe!NoAct, Probe!Reading,
     Probe!Token, Probe!Publish
<1>2. Probe!ProbeOK'
  BY DEF Probe!ReadBack, Probe!ProbeInv, Probe!ProbeOK, Probe!NoAct, Probe!Reading,
     Probe!Token, Probe!Publish
<1>3. Probe!TokenOK'
  BY DEF Probe!ReadBack, Probe!ProbeInv, Probe!ProbeShapesOK, Probe!TokenOK, Probe!NoAct,
     Probe!Reading, Probe!Token, Probe!Publish
<1>4. Probe!ReadbackStands'
  BY DEF Probe!ReadBack, Probe!ProbeInv, Probe!ProbeShapesOK, Probe!ReadbackStands,
     Probe!NoAct, Probe!Reading, Probe!Token, Probe!Publish
<1>5. Probe!MovesTheShown'
  BY DEF Probe!ReadBack, Probe!ProbeInv, Probe!MovesTheShown, Probe!NoAct, Probe!Reading,
     Probe!Token, Probe!Publish
<1> QED BY <1>1, <1>2, <1>3, <1>4, <1>5 DEF Probe!ProbeInv

LEMMA ProbeFails ==
  ASSUME Probe!ProbeInv, Probe!Fails
  PROVE  Probe!ProbeInv'
<1>1. Probe!ProbeShapesOK'
  BY DEF Probe!Fails, Probe!ProbeInv, Probe!ProbeShapesOK, Probe!NoAct
<1>2. Probe!ProbeOK'
  BY DEF Probe!Fails, Probe!ProbeInv, Probe!ProbeOK, Probe!NoAct
<1>3. Probe!TokenOK'
  BY DEF Probe!Fails, Probe!ProbeInv, Probe!TokenOK, Probe!NoAct
<1>4. Probe!ReadbackStands'
  BY DEF Probe!Fails, Probe!ProbeInv, Probe!ReadbackStands, Probe!NoAct
<1>5. Probe!MovesTheShown'
  BY DEF Probe!Fails, Probe!ProbeInv, Probe!MovesTheShown, Probe!NoAct
<1> QED BY <1>1, <1>2, <1>3, <1>4, <1>5 DEF Probe!ProbeInv

LEMMA ProbeStutter ==
  ASSUME Probe!ProbeInv, UNCHANGED Probe!probeVars
  PROVE  Probe!ProbeInv'
  BY DEF Probe!probeVars, Probe!ProbeInv, Probe!ProbeShapesOK, Probe!ProbeOK, Probe!TokenOK,
     Probe!ReadbackStands, Probe!MovesTheShown

LEMMA ProbeNext ==
  ASSUME Probe!ProbeInv, Probe!Next
  PROVE  Probe!ProbeInv'
<1>1. CASE Probe!Person \/ Probe!ProbeBegins \/ Probe!ProbeWindow \/ Probe!ProbeActive
          \/ Probe!ProbePublishes \/ Probe!Look
  BY <1>1, ProbePerson, ProbeProbeBegins, ProbeProbeWindow, ProbeProbeActive,
     ProbeProbePublishes, ProbeLook
<1>2. CASE Probe!Selected \/ Probe!AskMove \/ Probe!MoveChecks \/ Probe!Moves \/ Probe!ReadBack
          \/ Probe!Fails \/ \E s \in Spaces : Probe!Select(s)
  BY <1>2, ProbeSelected, ProbeAskMove, ProbeMoveChecks, ProbeMoves, ProbeReadBack,
     ProbeFails, ProbeSelect
<1> QED BY <1>1, <1>2 DEF Probe!Next

-----------------------------------------------------------------------------
(* A row tapped on a device: each step keeps CallInv. *)

LEMMA CallInit ==
  ASSUME Call!Init
  PROVE  Call!CallInv
<1>1. Call!NoTap \in Call!TapRecords /\ Call!NoJob \in Call!JobRecords /\ ~Call!NoJob.on
  BY DEF Call!NoTap, Call!NoJob, Call!TapRecords, Call!JobRecords, Call!Rows
<1>2. Call!CallShapesOK
  BY <1>1 DEF Call!Init, Call!CallShapesOK
<1>3. Call!OutcomeOK /\ Call!ConfirmOK /\ Call!AcceptedOK
  BY <1>1 DEF Call!Init, Call!OutcomeOK, Call!ConfirmOK, Call!AcceptedOK, Call!Pending
<1>4. Call!RunsOnce /\ Call!RunsConfirmed /\ Call!RunsTheSource
  BY DEF Call!Init, Call!RunsOnce, Call!RunsConfirmed, Call!RunsTheSource
<1> QED BY <1>2, <1>3, <1>4 DEF Call!CallInv

LEMMA CallSent ==
  ASSUME Call!CallInv, NEW d \in Devices, Call!Sent(d)
  PROVE  /\ x6' \in [Devices -> Call!TapRecords] /\ ~x11.on
         /\ \A e \in Devices : /\ x6'[e].n = x6[e].n /\ x6'[e].row = x6[e].row
                               /\ x6'[e].version = x6[e].version
<1>1. x6[d] \in Call!TapRecords /\ x6 \in [Devices -> Call!TapRecords]
  BY DEF Call!CallInv, Call!CallShapesOK
<1>2. [x6[d] EXCEPT !.sent = @ + 1] \in Call!TapRecords
  BY <1>1 DEF Call!TapRecords
<1>3. x6' = [x6 EXCEPT ![d] = [x6[d] EXCEPT !.sent = @ + 1]] /\ ~x11.on
  BY <1>1 DEF Call!Sent
<1>4. x6' \in [Devices -> Call!TapRecords] /\ \A e \in Devices : e # d => x6'[e] = x6[e]
  BY <1>1, <1>2, <1>3
<1>5. x6'[d].n = x6[d].n /\ x6'[d].row = x6[d].row /\ x6'[d].version = x6[d].version
  BY <1>1, <1>3 DEF Call!TapRecords
<1> QED BY <1>3, <1>4, <1>5

LEMMA CallEdit ==
  ASSUME Call!CallInv, NEW r \in Call!Rows, Call!Edit(r)
  PROVE  Call!CallInv'
<1>1. Call!CallShapesOK'
  BY DEF Call!Edit, Call!CallInv, Call!CallShapesOK, Call!OutcomeOK, Call!ConfirmOK,
     Call!AcceptedOK, Call!RunsOnce, Call!RunsConfirmed, Call!RunsTheSource, Call!Pending,
     Call!Known, Call!Entry, Call!Rows
<1>2. Call!OutcomeOK'
  BY DEF Call!Edit, Call!CallInv, Call!OutcomeOK, Call!Pending, Call!Known, Call!Entry
<1>3. Call!ConfirmOK'
  BY DEF Call!Edit, Call!CallInv, Call!ConfirmOK, Call!Pending
<1>4. Call!AcceptedOK'
  BY DEF Call!Edit, Call!CallInv, Call!AcceptedOK, Call!Pending
<1>5. Call!RunsOnce'
  BY DEF Call!Edit, Call!CallInv, Call!RunsOnce
<1>6. Call!RunsConfirmed'
  BY DEF Call!Edit, Call!CallInv, Call!RunsConfirmed
<1>7. Call!RunsTheSource'
  BY DEF Call!Edit, Call!CallInv, Call!RunsTheSource
<1> QED BY <1>1, <1>2, <1>3, <1>4, <1>5, <1>6, <1>7 DEF Call!CallInv

LEMMA CallTick ==
  ASSUME Call!CallInv, Call!Tick
  PROVE  Call!CallInv'
<1>1. Call!CallShapesOK'
  BY DEF Call!Tick, Call!CallInv, Call!CallShapesOK, Call!Rows
<1>2. Call!OutcomeOK'
  BY DEF Call!Tick, Call!CallInv, Call!OutcomeOK, Call!Pending, Call!Known, Call!Entry
<1>3. Call!ConfirmOK'
  BY DEF Call!Tick, Call!CallInv, Call!ConfirmOK, Call!Pending
<1>4. Call!AcceptedOK'
  BY DEF Call!Tick, Call!CallInv, Call!AcceptedOK, Call!Pending
<1>5. Call!RunsOnce'
  BY DEF Call!Tick, Call!CallInv, Call!RunsOnce
<1>6. Call!RunsConfirmed'
  BY DEF Call!Tick, Call!CallInv, Call!RunsConfirmed
<1>7. Call!RunsTheSource'
  BY DEF Call!Tick, Call!CallInv, Call!RunsTheSource
<1> QED BY <1>1, <1>2, <1>3, <1>4, <1>5, <1>6, <1>7 DEF Call!CallInv

LEMMA CallShown ==
  ASSUME Call!CallInv, NEW d \in Devices, Call!Shown(d)
  PROVE  Call!CallInv'
<1>1. Call!CallShapesOK'
  BY DEF Call!Shown, Call!CallInv, Call!CallShapesOK, Call!Rows
<1>2. Call!OutcomeOK'
  BY DEF Call!Shown, Call!CallInv, Call!OutcomeOK, Call!Pending, Call!Known, Call!Entry
<1>3. Call!ConfirmOK'
  BY DEF Call!Shown, Call!CallInv, Call!ConfirmOK, Call!Pending
<1>4. Call!AcceptedOK'
  BY DEF Call!Shown, Call!CallInv, Call!AcceptedOK, Call!Pending
<1>5. Call!RunsOnce'
  BY DEF Call!Shown, Call!CallInv, Call!RunsOnce
<1>6. Call!RunsConfirmed'
  BY DEF Call!Shown, Call!CallInv, Call!RunsConfirmed
<1>7. Call!RunsTheSource'
  BY DEF Call!Shown, Call!CallInv, Call!RunsTheSource
<1> QED BY <1>1, <1>2, <1>3, <1>4, <1>5, <1>6, <1>7 DEF Call!CallInv

LEMMA CallTap ==
  ASSUME Call!CallInv, NEW d \in Devices, NEW r \in Call!Rows, Call!Tap(d, r)
  PROVE  Call!CallInv'
<1>1. /\ UNCHANGED <<x1, x2, x3, x4, x5, x8, x9, x10, x11, x13, x15>>
      /\ ~(x11.on /\ x11.device = d) /\ x7' = x7 + 1
  BY DEF Call!Tap
<1>2. /\ x6' \in [Devices -> Call!TapRecords] /\ x12' \in [Devices -> Nat] /\ x14' \in [Devices -> BOOLEAN]
      /\ x12'[d] = 0 /\ ~x14'[d]
      /\ \A e \in Devices : e # d => x6'[e] = x6[e] /\ x12'[e] = x12[e] /\ x14'[e] = x14[e]
  <2>1. [n |-> x7', row |-> r, version |-> x5[d][r], sent |-> 0] \in Call!TapRecords
    <3>1. x7' \in Nat
      BY DEF Call!Tap, Call!CallInv, Call!CallShapesOK
    <3>2. x5[d][r] \in Nat
      BY DEF Call!CallInv, Call!CallShapesOK
    <3> QED BY <3>1, <3>2 DEF Call!TapRecords
  <2>2. x6' \in [Devices -> Call!TapRecords] /\ \A e \in Devices : e # d => x6'[e] = x6[e]
    BY <2>1 DEF Call!Tap, Call!CallInv, Call!CallShapesOK
  <2>3. x12' \in [Devices -> Nat] /\ x12'[d] = 0 /\ \A e \in Devices : e # d => x12'[e] = x12[e]
    BY DEF Call!Tap, Call!CallInv, Call!CallShapesOK
  <2>4. /\ x14' \in [Devices -> BOOLEAN] /\ ~x14'[d]
        /\ \A e \in Devices : e # d => x14'[e] = x14[e]
    BY DEF Call!Tap, Call!CallInv, Call!CallShapesOK
  <2> QED BY <2>2, <2>3, <2>4
<1>3. Call!CallShapesOK'
  <2>1. Call!CallShapesOK /\ x7' \in Nat
    BY <1>1 DEF Call!CallInv, Call!CallShapesOK
  <2> QED BY SMTT(30), <1>1, <1>2, <2>1 DEF Call!CallShapesOK
<1>4. Call!OutcomeOK' /\ Call!ConfirmOK' /\ Call!AcceptedOK'
  BY <1>1, <1>2 DEF Call!CallInv, Call!OutcomeOK, Call!ConfirmOK, Call!AcceptedOK,
     Call!Pending, Call!Known, Call!Entry
<1>5. Call!RunsOnce' /\ Call!RunsConfirmed' /\ Call!RunsTheSource'
  BY <1>1, <1>2 DEF Call!CallInv, Call!RunsOnce, Call!RunsConfirmed, Call!RunsTheSource
<1> QED BY <1>3, <1>4, <1>5 DEF Call!CallInv

LEMMA CallExpires ==
  ASSUME Call!CallInv, NEW d \in Devices, Call!Expires(d)
  PROVE  Call!CallInv'
<1>1. Call!CallShapesOK'
  BY DEF Call!Expires, Call!CallInv, Call!CallShapesOK, Call!Rows
<1>2. Call!OutcomeOK'
  BY DEF Call!Expires, Call!CallInv, Call!OutcomeOK, Call!Pending, Call!Known, Call!Entry
<1>3. Call!ConfirmOK'
  BY DEF Call!Expires, Call!CallInv, Call!ConfirmOK, Call!Pending
<1>4. Call!AcceptedOK'
  BY DEF Call!Expires, Call!CallInv, Call!AcceptedOK, Call!Pending
<1>5. Call!RunsOnce'
  BY DEF Call!Expires, Call!CallInv, Call!RunsOnce
<1>6. Call!RunsConfirmed'
  BY DEF Call!Expires, Call!CallInv, Call!RunsConfirmed
<1>7. Call!RunsTheSource'
  BY DEF Call!Expires, Call!CallInv, Call!RunsTheSource
<1> QED BY <1>1, <1>2, <1>3, <1>4, <1>5, <1>6, <1>7 DEF Call!CallInv

LEMMA CallRepeats ==
  ASSUME Call!CallInv, NEW d \in Devices, Call!Repeats(d)
  PROVE  Call!CallInv'
<1>1. /\ UNCHANGED <<x1, x2, x3, x4, x5, x7, x8, x9, x10, x11, x12, x13, x14, x15>>
      /\ Call!Sent(d)
  BY DEF Call!Repeats
<1> QED BY <1>1, CallSent DEF Call!CallInv, Call!CallShapesOK, Call!OutcomeOK, Call!ConfirmOK,
   Call!AcceptedOK, Call!Pending, Call!Known, Call!Entry,
         Call!RunsOnce, Call!RunsConfirmed, Call!RunsTheSource

LEMMA CallRefuses ==
  ASSUME Call!CallInv, NEW d \in Devices, Call!Refuses(d)
  PROVE  Call!CallInv'
<1>1. /\ UNCHANGED <<x1, x2, x5, x7, x8, x9, x10, x11, x12, x13, x14, x15>>
      /\ x3' = x1 /\ x4' = x1 /\ Call!Sent(d)
  BY DEF Call!Refuses, Call!Sync, Call!Compiled
<1> QED BY <1>1, CallSent DEF Call!CallInv, Call!CallShapesOK, Call!OutcomeOK, Call!ConfirmOK,
   Call!AcceptedOK, Call!Pending, Call!Known, Call!Entry,
         Call!RunsOnce, Call!RunsConfirmed, Call!RunsTheSource

LEMMA CallAsks ==
  ASSUME Call!CallInv, NEW d \in Devices, Call!Asks(d)
  PROVE  Call!CallInv'
<1>1. /\ UNCHANGED <<x1, x2, x5, x7, x8, x11, x12, x13, x14, x15>>
      /\ x3' = x1 /\ x4' = x1 /\ Call!Sent(d) /\ x9' = x9 \cup {d}
  BY DEF Call!Asks, Call!Sync, Call!Compiled
<1>2. x10' \in [Devices -> Nat] /\ \A e \in Devices : x10'[e] = IF e = d THEN x10[d] + 1 ELSE x10[e]
  BY DEF Call!Asks, Call!CallInv, Call!CallShapesOK
<1>3. Call!CallShapesOK'
  BY <1>1, <1>2, CallSent DEF Call!CallInv, Call!CallShapesOK
<1>4. Call!OutcomeOK' /\ Call!AcceptedOK'
  BY <1>1, CallSent DEF Call!CallInv, Call!OutcomeOK, Call!AcceptedOK, Call!Pending,
     Call!Known, Call!Entry
<1>5. \A e \in Devices : ~Call!Pending(e) /\ ~Call!Pending(e)'
  BY <1>1, CallSent DEF Call!Pending
<1>6. \A e \in Devices : x13[e] <= x10'[e] /\ (e \in x9' => x13[e] + 1 <= x10'[e])
  <2>1. \A e \in Devices : x13[e] \in Nat /\ x10[e] \in Nat /\ x13[e] <= x10[e]
    BY DEF Call!CallInv, Call!CallShapesOK, Call!RunsConfirmed
  <2>2. \A e \in Devices : e \in x9 => x13[e] + 1 <= x10[e]
    BY DEF Call!CallInv, Call!ConfirmOK
  <2> QED BY <1>1, <1>2, <2>1, <2>2
<1>7. Call!ConfirmOK' /\ Call!RunsConfirmed'
  BY <1>1, <1>5, <1>6 DEF Call!ConfirmOK, Call!RunsConfirmed
<1>8. Call!RunsOnce' /\ Call!RunsTheSource'
  BY <1>1 DEF Call!CallInv, Call!RunsOnce, Call!RunsTheSource
<1> QED BY <1>3, <1>4, <1>7, <1>8 DEF Call!CallInv

LEMMA CallAccepts ==
  ASSUME Call!CallInv, NEW d \in Devices, Call!Accepts(d)
  PROVE  Call!CallInv'
<1>1. /\ UNCHANGED <<x1, x2, x5, x7, x10, x12, x13, x14, x15>>
      /\ x3' = x1 /\ x4' = x1 /\ Call!Sent(d) /\ ~Call!Known(d) /\ x8' = Append(x8, Call!Entry(d))
      /\ x6[d].row = "key" => x1["key"] = x6[d].version
      /\ x9' = (IF x6[d].row = "menu" THEN x9 \ {d} ELSE x9) /\ (x6[d].row = "menu" => d \in x9)
  BY DEF Call!Accepts, Call!Sync, Call!Compiled, Call!Store, Call!Spent, Call!Stands
<1>2. x6[d] \in Call!TapRecords /\ Call!Entry(d) \in Devices \X Nat /\ x1 \in [Call!Rows -> Nat]
  BY DEF Call!CallInv, Call!CallShapesOK, Call!TapRecords, Call!Entry
<1>3. /\ x11' \in Call!JobRecords /\ x11'.on /\ x11'.device = d /\ x11'.row = x6[d].row /\ x11'.text = x1[x6[d].row]
  BY <1>2 DEF Call!Accepts, Call!JobRecords, Call!TapRecords
<1>4. x8' \in Seq(Devices \X Nat) /\ \A x : x \in Call!ToSet(x8') <=> x \in Call!ToSet(x8) \/ x = Call!Entry(d)
  <2>1. x8 \in Seq(Devices \X Nat)
    BY DEF Call!CallInv, Call!CallShapesOK
  <2>2. /\ x8' \in Seq(Devices \X Nat) /\ Len(x8') = Len(x8) + 1 /\ x8'[Len(x8) + 1] = Call!Entry(d)
        /\ \A i \in 1..Len(x8) : x8'[i] = x8[i]
    BY <1>1, <1>2, <2>1
  <2>3. DOMAIN x8 = 1..Len(x8) /\ DOMAIN x8' = 1..(Len(x8) + 1) /\ Len(x8) \in Nat
    BY <2>1, <2>2
  <2> QED BY <2>2, <2>3 DEF Call!ToSet
<1>5. Call!CallShapesOK'
  BY <1>1, <1>3, <1>4, CallSent DEF Call!CallInv, Call!CallShapesOK
<1>6. \A e \in Devices : Call!Entry(e)' = Call!Entry(e) /\ (Call!Known(e) => Call!Known(e)') /\ (e = d => Call!Known(e)')
  BY <1>1, <1>4, CallSent DEF Call!Known, Call!Entry
<1>7. Call!OutcomeOK'
  BY <1>1, <1>3, <1>6 DEF Call!CallInv, Call!OutcomeOK, Call!Pending
<1>8. Call!ConfirmOK'
  BY <1>1, <1>2, <1>3 DEF Call!CallInv, Call!CallShapesOK, Call!ConfirmOK, Call!Pending
<1>9. Call!AcceptedOK'
  BY <1>1, <1>2, <1>3, CallSent DEF Call!AcceptedOK, Call!Pending, Call!TapRecords, Call!Rows
<1>10. Call!RunsOnce' /\ Call!RunsConfirmed' /\ Call!RunsTheSource'
  BY <1>1 DEF Call!CallInv, Call!RunsOnce, Call!RunsConfirmed, Call!RunsTheSource
<1> QED BY <1>5, <1>7, <1>8, <1>9, <1>10 DEF Call!CallInv

LEMMA CallRuns ==
  ASSUME Call!CallInv, Call!Runs
  PROVE  Call!CallInv'
<1> DEFINE d == x11.device
<1>1. /\ UNCHANGED <<x1, x2, x3, x4, x5, x6, x7, x8, x9, x10, x14>>
      /\ Call!Pending(d) /\ d \in Devices
  BY DEF Call!Runs, Call!CallInv, Call!CallShapesOK, Call!Pending
<1>2. x11' \in Call!JobRecords /\ x11'.device = d /\ x11'.text = 0 /\ x11'.on
  BY <1>1 DEF Call!Runs, Call!CallInv, Call!CallShapesOK, Call!JobRecords, Call!Pending
<1>3. /\ x12' \in [Devices -> Nat] /\ x13' \in [Devices -> Nat]
      /\ \A e \in Devices : e # d => x12'[e] = x12[e] /\ x13'[e] = x13[e]
      /\ x12'[d] \in {x12[d], x12[d] + 1}
      /\ x13'[d] = x13[d] \/ (x11.row = "menu" /\ x13'[d] = x13[d] + 1)
  <2>1. x12 \in [Devices -> Nat] /\ x13 \in [Devices -> Nat]
    BY DEF Call!CallInv, Call!CallShapesOK
  <2>2. x12' \in {x12, [x12 EXCEPT ![d] = @ + 1]} /\ (x13' = x13 \/ (x11.row = "menu" /\ x13' = [x13 EXCEPT ![d] = @ + 1]))
    BY DEF Call!Runs
  <2> HIDE DEF d
  <2>3. x12' \in [Devices -> Nat] /\ x12'[d] \in {x12[d], x12[d] + 1} /\ \A e \in Devices : e # d => x12'[e] = x12[e]
    BY <1>1, <2>1, <2>2
  <2>4. /\ x13' \in [Devices -> Nat] /\ \A e \in Devices : e # d => x13'[e] = x13[e]
        /\ x13'[d] = x13[d] \/ (x11.row = "menu" /\ x13'[d] = x13[d] + 1)
    BY <1>1, <2>1, <2>2
  <2> QED BY <2>3, <2>4
<1>4. x11.row \in {"menu", "key"}
  BY DEF Call!CallInv, Call!CallShapesOK, Call!JobRecords, Call!Rows
<1>5. ~x15'
  BY <1>1, <1>4 DEF Call!Runs, Call!CallInv, Call!AcceptedOK, Call!RunsTheSource
<1>6. \A e \in Devices : ~Call!Pending(e)'
  BY <1>2 DEF Call!Pending
<1>7. Call!CallShapesOK'
  BY <1>1, <1>2, <1>3 DEF Call!CallInv, Call!CallShapesOK
<1>8. Call!OutcomeOK'
  BY <1>1, <1>2, <1>3, <1>6 DEF Call!CallInv, Call!OutcomeOK, Call!Known, Call!Entry, Call!Pending
<1>9. Call!ConfirmOK' /\ Call!AcceptedOK'
  BY <1>1, <1>3, <1>6 DEF Call!CallInv, Call!ConfirmOK, Call!AcceptedOK
<1>10. Call!RunsOnce'
  <2> HIDE DEF d
  <2>1. x14[d] \/ x12[d] = 0
    BY <1>1 DEF Call!CallInv, Call!OutcomeOK
  <2> QED BY <1>1, <1>3, <2>1 DEF Call!CallInv, Call!RunsOnce
<1>11. Call!RunsConfirmed' /\ Call!RunsTheSource'
  BY <1>1, <1>3, <1>5 DEF Call!CallInv, Call!CallShapesOK, Call!ConfirmOK, Call!RunsConfirmed,
     Call!RunsTheSource
<1> QED BY <1>7, <1>8, <1>9, <1>10, <1>11 DEF Call!CallInv

LEMMA CallFails ==
  ASSUME Call!CallInv, Call!Fails
  PROVE  Call!CallInv'
<1>1. /\ UNCHANGED <<x1, x2, x3, x4, x5, x6, x7, x8, x9, x10, x12, x13, x14, x15>>
      /\ x11.on
  BY DEF Call!Fails
<1>2. x11' \in Call!JobRecords /\ x11'.device = x11.device /\ x11'.text = 0
  BY DEF Call!Fails, Call!CallInv, Call!CallShapesOK, Call!JobRecords
<1>3. \A e \in Devices : ~Call!Pending(e)'
  BY <1>2 DEF Call!Pending
<1>4. Call!CallShapesOK'
  BY <1>1, <1>2 DEF Call!CallInv, Call!CallShapesOK
<1>5. Call!OutcomeOK'
  BY <1>1, <1>2, <1>3 DEF Call!CallInv, Call!OutcomeOK, Call!Known, Call!Entry
<1> QED BY <1>1, <1>3, <1>4, <1>5 DEF Call!CallInv, Call!ConfirmOK, Call!AcceptedOK,
   Call!RunsOnce, Call!RunsConfirmed, Call!RunsTheSource

LEMMA CallEnds ==
  ASSUME Call!CallInv, Call!Ends
  PROVE  Call!CallInv'
<1>1. /\ UNCHANGED <<x1, x2, x3, x4, x5, x6, x7, x9, x10, x12, x13, x15>>
      /\ x11' = Call!NoJob /\ x11.on
  BY DEF Call!Ends
<1>2. /\ x14' \in [Devices -> BOOLEAN]
      /\ \A e \in Devices : x14[e] => x14'[e]
      /\ \A e \in Devices : Call!Known(e) => x14'[e] \/ Call!Known(e)'
  BY <1>1 DEF Call!Ends, Call!Known, Call!Entry, Call!CallInv, Call!CallShapesOK
<1>3. x8' \in Seq(Devices \X Nat)
  <2> DEFINE every == IF Call!Known(x11.device) THEN x8 ELSE Append(x8, Call!Entry(x11.device))
  <2>1. Call!Entry(x11.device) \in Devices \X Nat
    BY <1>1 DEF Call!CallInv, Call!CallShapesOK, Call!TapRecords, Call!Entry
  <2>2. every \in Seq(Devices \X Nat) /\ every # <<>>
    <3>1. x8 \in Seq(Devices \X Nat)
      BY DEF Call!CallInv, Call!CallShapesOK
    <3>2. CASE Call!Known(x11.device)
      BY <3>1, <3>2 DEF Call!Known, Call!ToSet
    <3>3. CASE ~Call!Known(x11.device)
      <4>1. every = Append(x8, Call!Entry(x11.device))
        BY <3>3
      <4> QED BY <2>1, <3>1, <4>1
    <3> QED BY <3>2, <3>3
  <2>3. Tail(every) \in Seq(Devices \X Nat)
    BY <2>2
  <2>4. x8' = Call!Trimmed(every)
    BY DEF Call!Ends
  <2> QED BY <2>2, <2>3, <2>4 DEF Call!Trimmed
<1>4. Call!CallShapesOK'
  BY <1>1, <1>2, <1>3 DEF Call!CallInv, Call!CallShapesOK, Call!NoJob, Call!JobRecords, Call!Rows
<1>5. Call!OutcomeOK'
  BY <1>1, <1>2 DEF Call!CallInv, Call!OutcomeOK, Call!NoJob, Call!Pending
<1>6. Call!RunsOnce'
  BY <1>1, <1>2 DEF Call!CallInv, Call!RunsOnce
<1> QED BY <1>1, <1>4, <1>5, <1>6 DEF Call!CallInv, Call!ConfirmOK, Call!AcceptedOK,
   Call!Pending, Call!NoJob, Call!RunsConfirmed, Call!RunsTheSource

LEMMA CallDies ==
  ASSUME Call!CallInv, Call!Dies
  PROVE  Call!CallInv'
<1>1. Call!CallShapesOK'
  <2>1. x11' \in Call!JobRecords /\ ~x11'.on
    BY DEF Call!Dies, Call!NoJob, Call!JobRecords, Call!Rows
  <2>2. x14' \in [Devices -> BOOLEAN] /\ x8' \in Seq(Devices \X Nat) /\ x9' = {}
    BY DEF Call!Dies, Call!CallInv, Call!CallShapesOK
  <2> QED BY <2>1, <2>2 DEF Call!Dies, Call!CallInv, Call!CallShapesOK
<1>2. Call!OutcomeOK'
  BY DEF Call!Dies, Call!CallInv, Call!OutcomeOK, Call!Pending, Call!Known, Call!Entry, Call!NoJob
<1>3. Call!ConfirmOK'
  BY DEF Call!Dies, Call!CallInv, Call!ConfirmOK, Call!Pending, Call!Known, Call!Entry, Call!NoJob
<1>4. Call!AcceptedOK'
  BY DEF Call!Dies, Call!CallInv, Call!AcceptedOK, Call!Pending, Call!Known, Call!Entry,
     Call!NoJob
<1>5. Call!RunsOnce'
  BY DEF Call!Dies, Call!CallInv, Call!RunsOnce, Call!Known, Call!Entry, Call!NoJob
<1>6. Call!RunsConfirmed'
  BY DEF Call!Dies, Call!CallInv, Call!RunsConfirmed, Call!Known, Call!Entry, Call!NoJob
<1>7. Call!RunsTheSource'
  BY DEF Call!Dies, Call!CallInv, Call!RunsTheSource, Call!Known, Call!Entry, Call!NoJob
<1> QED BY <1>1, <1>2, <1>3, <1>4, <1>5, <1>6, <1>7 DEF Call!CallInv

LEMMA CallStutter ==
  ASSUME Call!CallInv, UNCHANGED Call!callVars
  PROVE  Call!CallInv'
  BY DEF Call!callVars, Call!CallInv, Call!CallShapesOK, Call!OutcomeOK, Call!ConfirmOK,
     Call!AcceptedOK, Call!Pending, Call!Known, Call!Entry, Call!RunsOnce,
         Call!RunsConfirmed, Call!RunsTheSource

LEMMA CallNext ==
  ASSUME Call!CallInv, Call!Next
  PROVE  Call!CallInv'
<1>1. CASE (\E r \in Call!Rows : Call!Edit(r)) \/ Call!Tick \/ Call!Runs \/ Call!Fails \/ Call!Ends \/ Call!Dies
  BY <1>1, CallEdit, CallTick, CallRuns, CallFails, CallEnds, CallDies
<1>2. CASE \E d \in Devices : Call!Shown(d) \/ Call!Expires(d) \/ Call!Repeats(d)
          \/ Call!Refuses(d) \/ Call!Asks(d) \/ Call!Accepts(d)
  BY <1>2, CallShown, CallExpires, CallRepeats, CallRefuses, CallAsks, CallAccepts
<1>3. CASE \E d \in Devices : \E r \in Call!Rows : Call!Tap(d, r)
  BY <1>3, CallTap
<1> QED BY <1>1, <1>2, <1>3 DEF Call!Next

-----------------------------------------------------------------------------
(* What core shows and does at the desk: every behaviour. *)

\* The same of what core shows and does at the desk.
DeskInv ==
  /\ part = "cond" => Cond!CondInv
  /\ part = "layout" => Layout!LayoutInv
  /\ part = "probe" => Probe!ProbeInv
  /\ part = "call" => Call!CallInv

LEMMA DeskAlways == Spec => []DeskInv
<1> USE DEF DeskInv
<1>1. Init => DeskInv
  BY CondAssumption, CondInit, LayoutInit, ProbeInit, CallInit DEF Init
<1>2. DeskInv /\ [Next]_all => DeskInv'
  <2> SUFFICES ASSUME DeskInv, [Next]_all PROVE DeskInv'
    OBVIOUS
  <2>1. CASE UNCHANGED all
    <3>1. part' = part
      BY <2>1 DEF all
    <3>2. UNCHANGED Cond!conditionVars
      BY <2>1 DEF all, Cond!conditionVars
    <3>3. UNCHANGED Layout!layoutVars
      BY <2>1 DEF all, Layout!layoutVars
    <3>4. UNCHANGED Probe!probeVars
      BY <2>1 DEF all, Probe!probeVars
    <3>5. UNCHANGED Call!callVars
      BY <2>1 DEF all, Call!callVars
    <3> QED BY <3>1, <3>2, <3>3, <3>4, <3>5, CondStutter, LayoutStutter, ProbeStutter, CallStutter
  <2>2. CASE Next
    <3>1. part' = part
      BY <2>2 DEF Next
    <3>2. part = "cond" => Cond!Next
      BY <2>2 DEF Next
    <3>3. part = "layout" => Layout!Next
      BY <2>2 DEF Next
    <3>4. part = "probe" => Probe!Next
      BY <2>2 DEF Next
    <3>5. part = "call" => Call!Next
      BY <2>2 DEF Next
    <3> QED BY <3>1, <3>2, <3>3, <3>4, <3>5, CondAssumption, CondNext, LayoutNext, ProbeNext, CallNext
  <2> QED BY <2>1, <2>2
<1> QED BY <1>1, <1>2, PTL DEF Spec

\* Of conditions.py and catalog_runtime.py, workspace_layout.py, graphical.py and service.py, that
\* a condition that fired is read again and the catalog built of old readings is marked, that
\* another program's layout file is kept and an action's report true, that a readback is not
\* overwritten and only the window that was shown is moved, and that a row runs once, after a
\* refusal, and as its source has it.
THEOREM DeskIsAsAsked == Spec => []DeskAsAsked
<1>1. Cond!CondInv => Cond!QuietIsRead /\ Cond!OneShell /\ Cond!ShelfIsMarked
  BY CondReads
<1>2. DeskInv => DeskAsAsked
  BY <1>1 DEF DeskInv, DeskAsAsked, Layout!LayoutInv, Probe!ProbeInv, Call!CallInv
<1> QED BY <1>2, DeskAlways, PTL

-----------------------------------------------------------------------------
(* Types of what an install puts on the host. *)

LEMMA SunTypes ==
  ASSUME Sun!TypeOK, Sun!Next
  PROVE  Sun!TypeOK'
<1>1. CASE Sun!SetsUp
  BY <1>1 DEF Sun!SetsUp, Sun!Turn, Sun!unitVars, Sun!dataVars, Sun!treeVars, Sun!flagVars,
     Sun!TypeOK, Sun!Trees
<1>2. CASE Sun!TakesOut
  BY <1>2 DEF Sun!TakesOut, Sun!Turn, Sun!unitVars, Sun!dataVars, Sun!treeVars, Sun!flagVars,
     Sun!Marked, Sun!TypeOK, Sun!Trees
<1>3. CASE Sun!Builds
  BY <1>3 DEF Sun!Builds, Sun!Turn, Sun!unitVars, Sun!dataVars, Sun!treeVars, Sun!flagVars,
     Sun!TypeOK, Sun!Trees
<1>4. CASE Sun!ForkWrites
  BY <1>4 DEF Sun!ForkWrites, Sun!unitVars, Sun!dataVars, Sun!treeVars, Sun!flagVars, Sun!TypeOK,
     Sun!Trees
<1>5. CASE Sun!Install
  BY <1>5 DEF Sun!Install, Sun!unitVars, Sun!dataVars, Sun!treeVars, Sun!flagVars, Sun!TypeOK,
     Sun!Trees
<1>6. CASE Sun!Unfetched
  BY <1>6 DEF Sun!Unfetched, Sun!Ends, Sun!unitVars, Sun!dataVars, Sun!treeVars, Sun!flagVars,
     Sun!TypeOK, Sun!Trees
<1>7. CASE Sun!Unpack
  BY <1>7 DEF Sun!Unpack, Sun!Ends, Sun!To, Sun!unitVars, Sun!dataVars, Sun!treeVars,
     Sun!flagVars, Sun!TypeOK, Sun!Trees
<1>8. CASE Sun!MoveAside
  BY <1>8 DEF Sun!MoveAside, Sun!To, Sun!unitVars, Sun!dataVars, Sun!treeVars, Sun!flagVars,
     Sun!TypeOK, Sun!Trees
<1>9. CASE Sun!Swap
  BY <1>9 DEF Sun!Swap, Sun!Ends, Sun!To, Sun!unitVars, Sun!dataVars, Sun!treeVars, Sun!flagVars,
     Sun!TypeOK, Sun!Trees
<1>10. CASE Sun!Sweep
  BY <1>10 DEF Sun!Sweep, Sun!To, Sun!unitVars, Sun!dataVars, Sun!treeVars, Sun!flagVars,
     Sun!TypeOK, Sun!Trees
<1>11. CASE Sun!Login
  BY <1>11 DEF Sun!Login, Sun!Ends, Sun!unitVars, Sun!dataVars, Sun!treeVars, Sun!flagVars,
     Sun!TypeOK, Sun!Trees
<1>12. CASE Sun!Record
  BY <1>12 DEF Sun!Record, Sun!To, Sun!unitVars, Sun!dataVars, Sun!treeVars, Sun!flagVars,
     Sun!TypeOK, Sun!Trees
<1>13. CASE Sun!WriteUnit
  BY <1>13 DEF Sun!WriteUnit, Sun!To, Sun!unitVars, Sun!dataVars, Sun!treeVars, Sun!flagVars,
     Sun!TypeOK, Sun!Trees
<1>14. CASE Sun!Start
  BY <1>14 DEF Sun!Start, Sun!Ends, Sun!unitVars, Sun!dataVars, Sun!treeVars, Sun!flagVars,
     Sun!TypeOK, Sun!Trees
<1>15. CASE Sun!Remove
  BY <1>15 DEF Sun!Remove, Sun!unitVars, Sun!dataVars, Sun!treeVars, Sun!flagVars, Sun!TypeOK,
     Sun!Trees
<1>16. CASE Sun!Stop
  BY <1>16 DEF Sun!Stop, Sun!To, Sun!unitVars, Sun!dataVars, Sun!treeVars, Sun!flagVars,
     Sun!TypeOK, Sun!Trees
<1>17. CASE Sun!Unlink
  BY <1>17 DEF Sun!Unlink, Sun!To, Sun!unitVars, Sun!dataVars, Sun!treeVars, Sun!flagVars,
     Sun!TypeOK, Sun!Trees
<1>18. CASE Sun!DropTrees
  BY <1>18 DEF Sun!DropTrees, Sun!To, Sun!unitVars, Sun!dataVars, Sun!treeVars, Sun!flagVars,
     Sun!Replaceable, Sun!TypeOK, Sun!Trees
<1>19. CASE Sun!DropLogin
  BY <1>19 DEF Sun!DropLogin, Sun!To, Sun!unitVars, Sun!dataVars, Sun!treeVars, Sun!flagVars,
     Sun!TypeOK, Sun!Trees
<1>20. CASE Sun!DropClients
  BY <1>20 DEF Sun!DropClients, Sun!To, Sun!unitVars, Sun!dataVars, Sun!treeVars, Sun!flagVars,
     Sun!TypeOK, Sun!Trees
<1>21. CASE Sun!Forget
  BY <1>21 DEF Sun!Forget, Sun!Ends, Sun!unitVars, Sun!dataVars, Sun!treeVars, Sun!flagVars,
     Sun!TypeOK, Sun!Trees
<1>22. CASE Sun!Killed
  BY <1>22 DEF Sun!Killed, Sun!Ends, Sun!unitVars, Sun!dataVars, Sun!treeVars, Sun!flagVars,
     Sun!TypeOK, Sun!Trees
<1>23. CASE Sun!Customises
  BY <1>23 DEF Sun!Customises, Sun!Turn, Sun!unitVars, Sun!dataVars, Sun!treeVars, Sun!flagVars,
     Sun!TypeOK, Sun!Trees
<1> QED BY <1>1, <1>2, <1>3, <1>4, <1>5, <1>6, <1>7, <1>8, <1>9, <1>10, <1>11, <1>12, <1>13,
     <1>14, <1>15, <1>16, <1>17, <1>18, <1>19, <1>20, <1>21, <1>22, <1>23 DEF Sun!Next

LEMMA SunTypesInit ==
  ASSUME Sun!Init
  PROVE  Sun!TypeOK
  BY DEF Sun!Init, Sun!TypeOK, Sun!Trees

LEMMA SunTypesStay ==
  ASSUME Sun!TypeOK, UNCHANGED Sun!sunshineVars
  PROVE  Sun!TypeOK'
  BY DEF Sun!sunshineVars, Sun!TypeOK, Sun!Trees

LEMMA ServeTypes ==
  ASSUME Serve!TypeOK, Serve!ServeInv, Serve!ServeInv', Serve!Next
  PROVE  Serve!TypeOK'
<1>1. x2' \subseteq Serve!Ports /\ x6' \in BOOLEAN
  <2>1. CASE \E p \in Serve!Ports : Serve!Turns(p)
    BY <2>1 DEF Serve!Turns, Serve!TypeOK
  <2>2. CASE Serve!Maps
    BY <2>2 DEF Serve!Maps, Serve!At, Serve!ServeInv, Serve!ServeShapesOK, Serve!TypeOK
  <2>3. CASE \/ Serve!Begin("ensure") \/ Serve!Begin("remove") \/ Serve!Off \/ Serve!Finds \/ Serve!Records
             \/ Serve!Looks \/ Serve!TurnsOff \/ Serve!Clears \/ Serve!Killed
    BY <2>3 DEF Serve!Begin, Serve!Off, Serve!Finds, Serve!Records, Serve!Looks, Serve!TurnsOff,
       Serve!Clears, Serve!Killed, Serve!TypeOK
  <2> QED BY <2>1, <2>2, <2>3 DEF Serve!Next
<1> QED BY <1>1 DEF Serve!ServeInv, Serve!ServeShapesOK, Serve!TypeOK

LEMMA ServeTypesInit ==
  ASSUME Serve!Init
  PROVE  Serve!TypeOK
  BY DEF Serve!Init, Serve!TypeOK, Serve!NoRecord

LEMMA ServeTypesStay ==
  ASSUME Serve!TypeOK, UNCHANGED Serve!serveVars
  PROVE  Serve!TypeOK'
  BY DEF Serve!serveVars, Serve!TypeOK

LEMMA SockTypes ==
  ASSUME Sock!SocketInv, Sock!ListensOK, Sock!Next
  PROVE  Sock!ListensOK'
<1> USE FilesAssumption
<1>1. PICK d \in Daemons : \/ Sock!Start(d) \/ Sock!Look(d) \/ Sock!Probe(d) \/ Sock!LookAgain(d) \/ Sock!Reclaim(d)
                           \/ Sock!Bind(d) \/ Sock!Name(d) \/ Sock!Listen(d) \/ Sock!Close(d) \/ Sock!LookOwn(d)
                           \/ Sock!RemoveOwn(d) \/ Sock!Killed(d)
  BY DEF Sock!Next
<1>2. CASE Sock!Start(d) \/ Sock!Look(d) \/ Sock!Probe(d)
  BY <1>2 DEF Sock!Start, Sock!Look, Sock!Probe, Sock!To, Sock!SocketInv, Sock!MadeOK, Sock!ListensOK
<1>3. CASE Sock!LookAgain(d) \/ Sock!LookOwn(d)
  BY <1>3 DEF Sock!LookAgain, Sock!LookOwn, Sock!Ends, Sock!Forgets, Sock!To, Sock!SocketInv, Sock!MadeOK, Sock!ListensOK
<1>4. CASE Sock!Reclaim(d) \/ Sock!RemoveOwn(d)
  <2>1. \E s \in {"bind", "down"} : Sock!To(d, s) /\ x11' = [x11 EXCEPT ![d] = 0] /\ UNCHANGED <<x2, x6, x7, x10>>
    BY <1>4 DEF Sock!Reclaim, Sock!RemoveOwn, Sock!Ends, Sock!Forgets
  <2>2. x9' \subseteq {"known", "swapped"}
    BY <1>4 DEF Sock!Reclaim, Sock!RemoveOwn, Sock!Takes, Sock!ListensOK
  <2> QED BY <2>1, <2>2 DEF Sock!To, Sock!SocketInv, Sock!MadeOK, Sock!ListensOK
<1>5. CASE Sock!Bind(d)
  BY <1>5 DEF Sock!Bind, Sock!Ends, Sock!Forgets, Sock!To, Sock!SocketInv, Sock!MadeOK, Sock!ListensOK
<1>6. CASE Sock!Name(d)
  BY <1>6 DEF Sock!Name, Sock!Ends, Sock!Forgets, Sock!To, Sock!SocketInv, Sock!MadeOK, Sock!ListensOK
<1>7. CASE Sock!Listen(d)
  <2>1. x11[d] \in 1..MaxStarts
    BY <1>7 DEF Sock!Listen, Sock!SocketInv, Sock!MadeOK, Sock!ListensOK
  <2> QED BY <1>7, <2>1 DEF Sock!Listen, Sock!To, Sock!SocketInv, Sock!MadeOK, Sock!ListensOK
<1>8. CASE Sock!Close(d)
  BY <1>8 DEF Sock!Close, Sock!To, Sock!SocketInv, Sock!MadeOK, Sock!ListensOK
<1>9. CASE Sock!Killed(d)
  BY <1>9 DEF Sock!Killed, Sock!Ends, Sock!Forgets, Sock!To, Sock!SocketInv, Sock!MadeOK, Sock!ListensOK
<1> QED BY <1>1, <1>2, <1>3, <1>4, <1>5, <1>6, <1>7, <1>8, <1>9

LEMMA SockTypesInit ==
  ASSUME Sock!Init
  PROVE  Sock!ListensOK
<1>1. 0 <= MaxStarts
  BY FilesAssumption
<1> QED BY <1>1 DEF Sock!Init, Sock!ListensOK

LEMMA SockTypesStay ==
  ASSUME Sock!ListensOK, UNCHANGED Sock!socketVars
  PROVE  Sock!ListensOK'
  BY DEF Sock!socketVars, Sock!ListensOK

LEMMA SockTyped ==
  ASSUME Sock!SocketInv, Sock!ListensOK
  PROVE  Sock!TypeOK
<1>1. x10 \in Nat /\ 0..x10 \subseteq 0..MaxStarts
  BY FilesAssumption DEF Sock!SocketInv, Sock!MadeOK, Sock!ListensOK
<1> QED BY <1>1 DEF Sock!SocketInv, Sock!MadeOK, Sock!ListensOK, Sock!TypeOK

-----------------------------------------------------------------------------

LEMMA TreeTypes ==
  ASSUME Tree!TreesInv, Tree!IdsOK, Tree!Next
  PROVE  Tree!IdsOK'
<1>1. CASE Tree!Install
  BY <1>1, FilesAssumption DEF Tree!Install, Tree!workVars, Tree!TreesInv, Tree!ShapesOK,
     Tree!Virtualenvs, Tree!Venvs, Tree!IdsOK
<1>2. CASE Tree!DropPrevious
  BY <1>2, FilesAssumption DEF Tree!DropPrevious, Tree!workVars, Tree!NoVenv, Tree!TreesInv,
     Tree!ShapesOK, Tree!Virtualenvs, Tree!Venvs, Tree!IdsOK
<1>3. CASE Tree!MoveAside
  BY <1>3, FilesAssumption DEF Tree!MoveAside, Tree!workVars, Tree!NoVenv, Tree!TreesInv,
     Tree!ShapesOK, Tree!Virtualenvs, Tree!Venvs, Tree!IdsOK
<1>4. CASE Tree!Record
  BY <1>4, FilesAssumption DEF Tree!Record, Tree!workVars, Tree!TreesInv, Tree!ShapesOK,
     Tree!Virtualenvs, Tree!Venvs, Tree!IdsOK
<1>5. CASE Tree!Make
  BY <1>5, FilesAssumption DEF Tree!Make, Tree!workVars, Tree!NoVenv, Tree!TreesInv,
     Tree!ShapesOK, Tree!Virtualenvs, Tree!Venvs, Tree!IdsOK
<1>6. CASE Tree!Mark
  BY <1>6, FilesAssumption DEF Tree!Mark, Tree!workVars, Tree!TreesInv, Tree!ShapesOK,
     Tree!Virtualenvs, Tree!Venvs, Tree!IdsOK
<1>7. CASE Tree!Fill
  BY <1>7, FilesAssumption DEF Tree!Fill, Tree!workVars, Tree!TreesInv, Tree!ShapesOK,
     Tree!Virtualenvs, Tree!Venvs, Tree!IdsOK
<1>8. CASE Tree!Clean
  BY <1>8, FilesAssumption DEF Tree!Clean, Tree!workVars, Tree!NoVenv, Tree!TreesInv,
     Tree!ShapesOK, Tree!Virtualenvs, Tree!Venvs, Tree!IdsOK
<1>9. CASE Tree!Forget
  BY <1>9, FilesAssumption DEF Tree!Forget, Tree!workVars, Tree!NoRun, Tree!TreesInv,
     Tree!ShapesOK, Tree!Virtualenvs, Tree!Venvs, Tree!IdsOK
<1>10. CASE Tree!Fails
  BY <1>10, FilesAssumption DEF Tree!Fails, Tree!workVars, Tree!PutBack, Tree!NoVenv,
     Tree!TreesInv, Tree!ShapesOK, Tree!Virtualenvs, Tree!Venvs, Tree!IdsOK
<1>11. CASE Tree!Undo
  BY <1>11, FilesAssumption DEF Tree!Undo, Tree!workVars, Tree!TreesInv, Tree!ShapesOK,
     Tree!Virtualenvs, Tree!Venvs, Tree!IdsOK
<1>12. CASE Tree!Fetch
  BY <1>12, FilesAssumption DEF Tree!Fetch, Tree!workVars, Tree!NoRun, Tree!TreesInv,
     Tree!ShapesOK, Tree!Virtualenvs, Tree!Venvs, Tree!IdsOK
<1>13. CASE Tree!GitInit
  BY <1>13, FilesAssumption DEF Tree!GitInit, Tree!workVars, Tree!TreesInv, Tree!ShapesOK,
     Tree!Virtualenvs, Tree!Venvs, Tree!IdsOK
<1>14. CASE Tree!WriteMarker
  BY <1>14, FilesAssumption DEF Tree!WriteMarker, Tree!workVars, Tree!TreesInv, Tree!ShapesOK,
     Tree!Virtualenvs, Tree!Venvs, Tree!IdsOK
<1>15. CASE Tree!Checkout
  BY <1>15, FilesAssumption DEF Tree!Checkout, Tree!NoRun, Tree!TreesInv, Tree!ShapesOK,
     Tree!Virtualenvs, Tree!Venvs, Tree!IdsOK
<1>16. CASE Tree!Bootstrap
  BY <1>16, FilesAssumption DEF Tree!Bootstrap, Tree!TreesInv, Tree!ShapesOK, Tree!Virtualenvs,
     Tree!Venvs, Tree!IdsOK
<1>17. CASE Tree!Remove
  BY <1>17, FilesAssumption DEF Tree!Remove, Tree!workVars, Tree!NoRun, Tree!TreesInv,
     Tree!ShapesOK, Tree!Virtualenvs, Tree!Venvs, Tree!IdsOK
<1>18. CASE Tree!RemoveVenvs
  BY <1>18, FilesAssumption DEF Tree!RemoveVenvs, Tree!workVars, Tree!NoVenv, Tree!TreesInv,
     Tree!ShapesOK, Tree!Virtualenvs, Tree!Venvs, Tree!IdsOK
<1>19. CASE Tree!RemoveTrees
  BY <1>19, FilesAssumption DEF Tree!RemoveTrees, Tree!NoRun, Tree!TreesInv, Tree!ShapesOK,
     Tree!Virtualenvs, Tree!Venvs, Tree!IdsOK
<1>20. CASE Tree!Killed
  BY <1>20, FilesAssumption DEF Tree!Killed, Tree!workVars, Tree!NoRun, Tree!TreesInv,
     Tree!ShapesOK, Tree!Virtualenvs, Tree!Venvs, Tree!IdsOK
<1>21. CASE Tree!LosesRecord
  BY <1>21, FilesAssumption DEF Tree!LosesRecord, Tree!workVars, Tree!TreesInv, Tree!ShapesOK,
     Tree!Virtualenvs, Tree!Venvs, Tree!IdsOK
<1>22. ASSUME NEW p \in Tree!Venvs, Tree!PersonsVenv(p) PROVE Tree!IdsOK'
  BY <1>22, FilesAssumption DEF Tree!PersonsVenv, Tree!workVars, Tree!NoRun, Tree!NoVenv,
     Tree!TreesInv, Tree!ShapesOK, Tree!Virtualenvs, Tree!Venvs, Tree!IdsOK
<1>23. ASSUME NEW t \in Tree!Trees, Tree!Works(t) PROVE Tree!IdsOK'
  BY <1>23, FilesAssumption DEF Tree!Works, Tree!TreesInv, Tree!ShapesOK, Tree!Virtualenvs,
     Tree!Venvs, Tree!IdsOK
<1> QED BY <1>1, <1>2, <1>3, <1>4, <1>5, <1>6, <1>7, <1>8, <1>9, <1>10, <1>11, <1>12, <1>13,
     <1>14, <1>15, <1>16, <1>17, <1>18, <1>19, <1>20, <1>21, <1>22, <1>23 DEF Tree!Next

LEMMA TreeTypesInit ==
  ASSUME Tree!Init
  PROVE  Tree!IdsOK
<1>1. 0 \in 0..MaxRuns
  BY FilesAssumption
<1>2. \A p \in Tree!Venvs : x1[p].id = 0
  <2> DEFINE earlier == [Tree!NoVenv EXCEPT !.by = "us", !.whole = TRUE]
  <2>1. Tree!NoVenv.id = 0 /\ earlier.id = 0
    BY DEF Tree!NoVenv
  <2> HIDE DEF earlier
  <2>2. \A p \in Tree!Venvs : x1[p] \in {Tree!NoVenv, earlier}
    BY DEF Tree!Init, Tree!Venvs, earlier
  <2> QED BY <2>1, <2>2
<1> QED BY <1>1, <1>2 DEF Tree!Init, Tree!NoRun, Tree!IdsOK

LEMMA TreeTypesStay ==
  ASSUME Tree!IdsOK, UNCHANGED Tree!treeVars
  PROVE  Tree!IdsOK'
  BY DEF Tree!treeVars, Tree!workVars, Tree!IdsOK

LEMMA TreeTyped ==
  ASSUME Tree!TreesInv, Tree!IdsOK
  PROVE  Tree!TypeOK
  BY DEF Tree!TreesInv, Tree!ShapesOK, Tree!Virtualenvs, Tree!Checkouts, Tree!IdsOK, Tree!TypeOK

-----------------------------------------------------------------------------

LEMMA PamTypes ==
  ASSUME Pam!PamInv, Pam!VersionsOK, Pam!FlagsOK, Pam!Next
  PROVE  Pam!VersionsOK' /\ Pam!FlagsOK'
<1>1. CASE Pam!Edits
  <2>1. Pam!VersionsOK'
    BY <1>1, FilesAssumption DEF Pam!Edits, Pam!hostVars, Pam!recordVars, Pam!placeVars, Pam!To,
     Pam!NoFile, Pam!VersionsOK, Pam!PamInv, Pam!PamShapesOK, Pam!FreshOK, Pam!Runs, Pam!Text
  <2>2. Pam!FlagsOK'
    BY <1>1, FilesAssumption DEF Pam!Edits, Pam!hostVars, Pam!recordVars, Pam!placeVars, Pam!To,
     Pam!NoFile, Pam!FlagsOK
  <2> QED BY <2>1, <2>2
<1>2. CASE Pam!Update
  <2>1. Pam!VersionsOK'
    BY <1>2, FilesAssumption DEF Pam!Update, Pam!hostVars, Pam!recordVars, Pam!placeVars, Pam!To,
     Pam!VersionsOK, Pam!PamInv, Pam!PamShapesOK, Pam!FreshOK, Pam!Runs, Pam!Text
  <2>2. Pam!FlagsOK'
    BY <1>2, FilesAssumption DEF Pam!Update, Pam!hostVars, Pam!recordVars, Pam!placeVars, Pam!To,
     Pam!FlagsOK
  <2> QED BY <2>1, <2>2
<1>3. CASE Pam!Enrols
  <2>1. Pam!VersionsOK'
    BY <1>3, FilesAssumption DEF Pam!Enrols, Pam!hostVars, Pam!recordVars, Pam!placeVars, Pam!To,
     Pam!VersionsOK, Pam!PamInv, Pam!PamShapesOK, Pam!FreshOK, Pam!Runs, Pam!Text
  <2>2. Pam!FlagsOK'
    BY <1>3, FilesAssumption DEF Pam!Enrols, Pam!hostVars, Pam!recordVars, Pam!placeVars, Pam!To,
     Pam!FlagsOK
  <2> QED BY <2>1, <2>2
<1>4. CASE Pam!Install
  <2>1. Pam!VersionsOK'
    BY <1>4, FilesAssumption DEF Pam!Install, Pam!Begin, Pam!NoRun, Pam!NoFile, Pam!hostVars,
     Pam!recordVars, Pam!placeVars, Pam!To, Pam!VersionsOK, Pam!PamInv, Pam!PamShapesOK,
     Pam!FreshOK, Pam!Runs, Pam!Text
  <2>2. Pam!FlagsOK'
    BY <1>4, FilesAssumption DEF Pam!Install, Pam!Begin, Pam!NoRun, Pam!NoFile, Pam!hostVars,
     Pam!recordVars, Pam!placeVars, Pam!To, Pam!FlagsOK
  <2> QED BY <2>1, <2>2
<1>5. CASE Pam!WriteHelper
  <2>1. Pam!VersionsOK'
    BY <1>5, FilesAssumption DEF Pam!WriteHelper, Pam!hostVars, Pam!recordVars, Pam!placeVars,
     Pam!To, Pam!VersionsOK, Pam!PamInv, Pam!PamShapesOK, Pam!FreshOK, Pam!Runs, Pam!Text
  <2>2. Pam!FlagsOK'
    BY <1>5, FilesAssumption DEF Pam!WriteHelper, Pam!hostVars, Pam!recordVars, Pam!placeVars,
     Pam!To, Pam!FlagsOK
  <2> QED BY <2>1, <2>2
<1>6. CASE Pam!Backup
  <2>1. Pam!VersionsOK'
    BY <1>6, FilesAssumption DEF Pam!Backup, Pam!NoFile, Pam!Unmarked, Pam!hostVars,
     Pam!recordVars, Pam!placeVars, Pam!To, Pam!VersionsOK, Pam!PamInv, Pam!PamShapesOK,
     Pam!FreshOK, Pam!Runs, Pam!Text
  <2>2. Pam!FlagsOK'
    BY <1>6, FilesAssumption DEF Pam!Backup, Pam!NoFile, Pam!Unmarked, Pam!hostVars,
     Pam!recordVars, Pam!placeVars, Pam!To, Pam!FlagsOK
  <2> QED BY <2>1, <2>2
<1>7. CASE Pam!Seed
  <2>1. Pam!VersionsOK'
    <3>1. CASE x2 # Pam!NoFile
      BY <1>7, <3>1 DEF Pam!Seed, Pam!To, Pam!hostVars, Pam!recordVars, Pam!VersionsOK, Pam!PamInv,
         Pam!PamShapesOK, Pam!Runs
    <3>2. CASE x2 = Pam!NoFile
      <4>1. /\ x2' = [Pam!NoFile EXCEPT !.says = x1] /\ x9' = [x9 EXCEPT !.at = "digest", !.text = x2']
            /\ UNCHANGED <<x3, x12>>
        BY <1>7, <3>2 DEF Pam!Seed, Pam!hostVars, Pam!recordVars
      <4>2. x2'.says = x1 /\ x9'.text = x2'
        BY <4>1 DEF Pam!NoFile, Pam!PamInv, Pam!PamShapesOK, Pam!Runs
      <4>3. x1 \in 0..x12
        BY DEF Pam!PamInv, Pam!FreshOK
      <4> QED BY <4>1, <4>2, <4>3 DEF Pam!VersionsOK
    <3> QED BY <3>1, <3>2
  <2>2. Pam!FlagsOK'
    BY <1>7 DEF Pam!Seed, Pam!To, Pam!hostVars, Pam!recordVars, Pam!placeVars, Pam!FlagsOK
  <2> QED BY <2>1, <2>2
<1>8. CASE Pam!Digest
  <2>1. Pam!VersionsOK'
    BY <1>8, FilesAssumption DEF Pam!Digest, Pam!hostVars, Pam!recordVars, Pam!placeVars, Pam!To,
     Pam!VersionsOK, Pam!PamInv, Pam!PamShapesOK, Pam!FreshOK, Pam!Runs, Pam!Text
  <2>2. Pam!FlagsOK'
    BY <1>8, FilesAssumption DEF Pam!Digest, Pam!hostVars, Pam!recordVars, Pam!placeVars, Pam!To,
     Pam!FlagsOK
  <2> QED BY <2>1, <2>2
<1>9. CASE Pam!ReadFile
  <2>1. Pam!VersionsOK'
    BY <1>9, FilesAssumption DEF Pam!ReadFile, Pam!hostVars, Pam!recordVars, Pam!placeVars,
     Pam!To, Pam!VersionsOK, Pam!PamInv, Pam!PamShapesOK, Pam!FreshOK, Pam!Runs, Pam!Text
  <2>2. Pam!FlagsOK'
    BY <1>9, FilesAssumption DEF Pam!ReadFile, Pam!hostVars, Pam!recordVars, Pam!placeVars,
     Pam!To, Pam!FlagsOK
  <2> QED BY <2>1, <2>2
<1>10. CASE Pam!Insert
  <2>1. Pam!VersionsOK'
    BY <1>10, FilesAssumption DEF Pam!Insert, Pam!hostVars, Pam!recordVars, Pam!placeVars, Pam!To,
     Pam!VersionsOK, Pam!PamInv, Pam!PamShapesOK, Pam!FreshOK, Pam!Runs, Pam!Text
  <2>2. Pam!FlagsOK'
    BY <1>10, FilesAssumption DEF Pam!Insert, Pam!hostVars, Pam!recordVars, Pam!placeVars, Pam!To,
     Pam!FlagsOK
  <2> QED BY <2>1, <2>2
<1>11. CASE Pam!DropIn
  <2>1. Pam!VersionsOK'
    BY <1>11, FilesAssumption DEF Pam!DropIn, Pam!hostVars, Pam!recordVars, Pam!placeVars, Pam!To,
     Pam!VersionsOK, Pam!PamInv, Pam!PamShapesOK, Pam!FreshOK, Pam!Runs, Pam!Text
  <2>2. Pam!FlagsOK'
    BY <1>11, FilesAssumption DEF Pam!DropIn, Pam!hostVars, Pam!recordVars, Pam!placeVars, Pam!To,
     Pam!FlagsOK
  <2> QED BY <2>1, <2>2
<1>12. CASE Pam!Manifest
  <2>1. Pam!VersionsOK'
    BY <1>12, FilesAssumption DEF Pam!Manifest, Pam!hostVars, Pam!recordVars, Pam!placeVars,
     Pam!To, Pam!NoRun, Pam!NoFile, Pam!VersionsOK, Pam!PamInv, Pam!PamShapesOK, Pam!FreshOK,
     Pam!Runs, Pam!Text
  <2>2. Pam!FlagsOK'
    BY <1>12, FilesAssumption DEF Pam!Manifest, Pam!hostVars, Pam!recordVars, Pam!placeVars,
     Pam!To, Pam!NoRun, Pam!NoFile, Pam!FlagsOK
  <2> QED BY <2>1, <2>2
<1>13. CASE Pam!Remove
  <2>1. Pam!VersionsOK'
    BY <1>13, FilesAssumption DEF Pam!Remove, Pam!Begin, Pam!NoRun, Pam!NoFile, Pam!hostVars,
     Pam!recordVars, Pam!placeVars, Pam!To, Pam!VersionsOK, Pam!PamInv, Pam!PamShapesOK,
     Pam!FreshOK, Pam!Runs, Pam!Text
  <2>2. Pam!FlagsOK'
    BY <1>13, FilesAssumption DEF Pam!Remove, Pam!Begin, Pam!NoRun, Pam!NoFile, Pam!hostVars,
     Pam!recordVars, Pam!placeVars, Pam!To, Pam!FlagsOK
  <2> QED BY <2>1, <2>2
<1>14. CASE Pam!Strip
  <2>1. Pam!VersionsOK'
    BY <1>14, FilesAssumption DEF Pam!Strip, Pam!Stripped, Pam!NoFile, Pam!hostVars,
     Pam!recordVars, Pam!placeVars, Pam!To, Pam!VersionsOK, Pam!PamInv, Pam!PamShapesOK,
     Pam!FreshOK, Pam!Runs, Pam!Text
  <2>2. Pam!FlagsOK'
    BY <1>14, FilesAssumption DEF Pam!Strip, Pam!Stripped, Pam!NoFile, Pam!hostVars,
     Pam!recordVars, Pam!placeVars, Pam!To, Pam!FlagsOK
  <2> QED BY <2>1, <2>2
<1>15. CASE Pam!DropBackup
  <2>1. Pam!VersionsOK'
    BY <1>15, FilesAssumption DEF Pam!DropBackup, Pam!NoFile, Pam!hostVars, Pam!recordVars,
     Pam!placeVars, Pam!To, Pam!VersionsOK, Pam!PamInv, Pam!PamShapesOK, Pam!FreshOK, Pam!Runs,
     Pam!Text
  <2>2. Pam!FlagsOK'
    BY <1>15, FilesAssumption DEF Pam!DropBackup, Pam!NoFile, Pam!hostVars, Pam!recordVars,
     Pam!placeVars, Pam!To, Pam!FlagsOK
  <2> QED BY <2>1, <2>2
<1>16. CASE Pam!DropMarker
  <2>1. Pam!VersionsOK'
    BY <1>16, FilesAssumption DEF Pam!DropMarker, Pam!hostVars, Pam!recordVars, Pam!placeVars,
     Pam!To, Pam!VersionsOK, Pam!PamInv, Pam!PamShapesOK, Pam!FreshOK, Pam!Runs, Pam!Text
  <2>2. Pam!FlagsOK'
    BY <1>16, FilesAssumption DEF Pam!DropMarker, Pam!hostVars, Pam!recordVars, Pam!placeVars,
     Pam!To, Pam!FlagsOK
  <2> QED BY <2>1, <2>2
<1>17. CASE Pam!RemoveDropIn
  <2>1. Pam!VersionsOK'
    BY <1>17, FilesAssumption DEF Pam!RemoveDropIn, Pam!hostVars, Pam!recordVars, Pam!placeVars,
     Pam!To, Pam!VersionsOK, Pam!PamInv, Pam!PamShapesOK, Pam!FreshOK, Pam!Runs, Pam!Text
  <2>2. Pam!FlagsOK'
    BY <1>17, FilesAssumption DEF Pam!RemoveDropIn, Pam!hostVars, Pam!recordVars, Pam!placeVars,
     Pam!To, Pam!FlagsOK
  <2> QED BY <2>1, <2>2
<1>18. CASE Pam!RemoveKeys
  <2>1. Pam!VersionsOK'
    BY <1>18, FilesAssumption DEF Pam!RemoveKeys, Pam!hostVars, Pam!recordVars, Pam!placeVars,
     Pam!To, Pam!VersionsOK, Pam!PamInv, Pam!PamShapesOK, Pam!FreshOK, Pam!Runs, Pam!Text
  <2>2. Pam!FlagsOK'
    BY <1>18, FilesAssumption DEF Pam!RemoveKeys, Pam!hostVars, Pam!recordVars, Pam!placeVars,
     Pam!To, Pam!FlagsOK
  <2> QED BY <2>1, <2>2
<1>19. CASE Pam!RemoveHelper
  <2>1. Pam!VersionsOK'
    BY <1>19, FilesAssumption DEF Pam!RemoveHelper, Pam!hostVars, Pam!recordVars, Pam!placeVars,
     Pam!To, Pam!VersionsOK, Pam!PamInv, Pam!PamShapesOK, Pam!FreshOK, Pam!Runs, Pam!Text
  <2>2. Pam!FlagsOK'
    BY <1>19, FilesAssumption DEF Pam!RemoveHelper, Pam!hostVars, Pam!recordVars, Pam!placeVars,
     Pam!To, Pam!FlagsOK
  <2> QED BY <2>1, <2>2
<1>20. CASE Pam!RemoveManifest
  <2>1. Pam!VersionsOK'
    BY <1>20, FilesAssumption DEF Pam!RemoveManifest, Pam!hostVars, Pam!recordVars, Pam!placeVars,
     Pam!To, Pam!NoRun, Pam!NoFile, Pam!VersionsOK, Pam!PamInv, Pam!PamShapesOK, Pam!FreshOK,
     Pam!Runs, Pam!Text
  <2>2. Pam!FlagsOK'
    BY <1>20, FilesAssumption DEF Pam!RemoveManifest, Pam!hostVars, Pam!recordVars, Pam!placeVars,
     Pam!To, Pam!NoRun, Pam!NoFile, Pam!FlagsOK
  <2> QED BY <2>1, <2>2
<1>21. CASE Pam!Killed
  <2>1. Pam!VersionsOK'
    BY <1>21, FilesAssumption DEF Pam!Killed, Pam!hostVars, Pam!recordVars, Pam!placeVars, Pam!To,
     Pam!NoRun, Pam!NoFile, Pam!VersionsOK, Pam!PamInv, Pam!PamShapesOK, Pam!FreshOK, Pam!Runs,
     Pam!Text
  <2>2. Pam!FlagsOK'
    BY <1>21, FilesAssumption DEF Pam!Killed, Pam!hostVars, Pam!recordVars, Pam!placeVars, Pam!To,
     Pam!NoRun, Pam!NoFile, Pam!FlagsOK
  <2> QED BY <2>1, <2>2
<1> QED BY <1>1, <1>2, <1>3, <1>4, <1>5, <1>6, <1>7, <1>8, <1>9, <1>10, <1>11, <1>12, <1>13,
     <1>14, <1>15, <1>16, <1>17, <1>18, <1>19, <1>20, <1>21 DEF Pam!Next

LEMMA PamTypesInit ==
  ASSUME Pam!Init
  PROVE  Pam!VersionsOK /\ Pam!FlagsOK
<1>1. 2 <= MaxVersions
  BY FilesAssumption
<1>2. x2.says \in {0, 2} /\ x3.says = 0 /\ x9.text.says = 0 /\ x12 = 2
  <2>1. Pam!NoFile.says = 0 /\ [Pam!NoFile EXCEPT !.says = 2].says = 2 /\ Pam!NoRun.text = Pam!NoFile
    BY DEF Pam!NoFile, Pam!NoRun
  <2> QED BY <2>1 DEF Pam!Init
<1>3. Pam!VersionsOK
  BY <1>1, <1>2 DEF Pam!VersionsOK
<1>4. Pam!FlagsOK
  BY DEF Pam!Init, Pam!FlagsOK
<1> QED BY <1>3, <1>4

LEMMA PamTypesStay ==
  ASSUME Pam!VersionsOK, Pam!FlagsOK, UNCHANGED Pam!pamVars
  PROVE  Pam!VersionsOK' /\ Pam!FlagsOK'
  BY DEF Pam!pamVars, Pam!VersionsOK, Pam!FlagsOK

LEMMA PamTyped ==
  ASSUME Pam!PamInv, Pam!VersionsOK, Pam!FlagsOK
  PROVE  Pam!TypeOK
<1>1. x12 \in Nat /\ x12 <= MaxVersions /\ x13 \in 0..x12
  BY DEF Pam!PamInv, Pam!FreshOK, Pam!VersionsOK
<1>2. \A n \in 0..x12 : n \in 0..(MaxVersions + 1)
  BY <1>1, FilesAssumption
<1>3. {x2, x3, x9.text} \subseteq Pam!Text
  BY DEF Pam!PamInv, Pam!PamShapesOK, Pam!Runs
<1>4. {x2, x3, x9.text} \subseteq Pam!Files
  BY <1>2, <1>3 DEF Pam!VersionsOK, Pam!Text, Pam!Files
<1>5. x13 \in 0..MaxVersions
  BY <1>1, FilesAssumption
<1> QED BY <1>4, <1>5 DEF Pam!FlagsOK, Pam!TypeOK

-----------------------------------------------------------------------------

\* A run that begins, or none, is one of a fixed shape; a document without core's entry is one.
LEMMA FileFresh ==
  ASSUME NEW o \in {"none", "install", "remove"}, NEW s \in {"none", "refusal", "pam"}
  PROVE  /\ File!NoApps \in File!Documents /\ File!NoRun \in File!RunRecords
         /\ [File!NoRun EXCEPT !.op = o, !.at = s] \in File!RunRecords
<1>1. File!NoApps \in File!Documents
  BY FilesAssumption DEF File!NoApps, File!Documents
<1>2. File!NoRun \in File!RunRecords
  BY <1>1 DEF File!NoRun, File!RunRecords
<1>3. PICK r : r = [File!NoRun EXCEPT !.op = o]
  OBVIOUS
<1>4. r \in File!RunRecords
  BY <1>2, <1>3 DEF File!RunRecords
<1>5. [r EXCEPT !.at = s] \in File!RunRecords
  BY <1>4 DEF File!RunRecords
<1> QED BY <1>1, <1>2, <1>3, <1>5

\* What RemovePam writes of the run.
LEMMA FileLeaves ==
  ASSUME NEW r \in File!RunRecords, NEW p \in BOOLEAN
  PROVE  [r EXCEPT !.at = "unit", !.pam = p, !.left = p] \in File!RunRecords
<1>1. PICK q : q = [r EXCEPT !.at = "unit", !.pam = p]
  OBVIOUS
<1>2. PICK t : t = [r EXCEPT !.at = "unit"]
  OBVIOUS
<1>3. t \in File!RunRecords
  BY <1>2 DEF File!RunRecords
<1>4. q = [t EXCEPT !.pam = p]
  BY <1>1, <1>2
<1>5. q \in File!RunRecords
  BY <1>3, <1>4 DEF File!RunRecords
<1>6. [q EXCEPT !.left = p] \in File!RunRecords
  BY <1>5 DEF File!RunRecords
<1> QED BY <1>1, <1>6

LEMMA FileTypes ==
  ASSUME File!DocsOK, File!EditsOK, File!FlagsOK, File!Next
  PROVE  File!DocsOK' /\ File!EditsOK' /\ File!FlagsOK'
<1>1. ASSUME NEW p \in File!Places, File!Person(p) PROVE File!DocsOK' /\ File!EditsOK' /\ File!FlagsOK'
  <2>1. File!DocsOK'
    BY <1>1, FilesAssumption DEF File!Person, File!placeVars, File!appVars, File!grantVars,
     File!boundVars, File!To, File!Ends, File!DocsOK, File!RunRecords
  <2>2. File!EditsOK'
    BY <1>1, FilesAssumption DEF File!Person, File!placeVars, File!appVars, File!grantVars,
     File!boundVars, File!To, File!Ends, File!EditsOK
  <2>3. File!FlagsOK'
    BY <1>1, FilesAssumption DEF File!Person, File!placeVars, File!appVars, File!grantVars,
     File!boundVars, File!To, File!Ends, File!FlagsOK
  <2> QED BY <2>1, <2>2, <2>3
<1>2. CASE File!Saves
  <2>1. File!DocsOK'
    <3>1. x15' \in 0..(FileMaxEdits + 1)
      BY <1>2, FilesAssumption DEF File!Saves, File!EditsOK
    <3>2. PICK ok, e \in BOOLEAN : x4' = [there |-> TRUE, ok |-> ok, says |-> x15', entry |-> e]
      BY <1>2 DEF File!Saves
    <3>3. x4' \in File!Documents
      BY <3>1, <3>2 DEF File!Documents
    <3> QED BY <1>2, <3>3 DEF File!Saves, File!DocsOK
  <2>2. File!EditsOK'
    BY <1>2, FilesAssumption DEF File!Saves, File!placeVars, File!appVars, File!grantVars,
       File!boundVars, File!To, File!Ends, File!EditsOK
  <2>3. File!FlagsOK'
    BY <1>2 DEF File!Saves, File!placeVars, File!appVars, File!grantVars,
       File!boundVars, File!To, File!Ends, File!FlagsOK
  <2> QED BY <2>1, <2>2, <2>3
<1>3. CASE File!Grants
  <2>1. File!DocsOK'
    BY <1>3, FilesAssumption DEF File!Grants, File!placeVars, File!appVars, File!grantVars,
     File!boundVars, File!To, File!Ends, File!DocsOK, File!RunRecords
  <2>2. File!EditsOK'
    BY <1>3, FilesAssumption DEF File!Grants, File!placeVars, File!appVars, File!grantVars,
     File!boundVars, File!To, File!Ends, File!EditsOK
  <2>3. File!FlagsOK'
    BY <1>3, FilesAssumption DEF File!Grants, File!placeVars, File!appVars, File!grantVars,
     File!boundVars, File!To, File!Ends, File!FlagsOK
  <2> QED BY <2>1, <2>2, <2>3
<1>4. CASE File!Dictates
  <2>1. File!DocsOK'
    BY <1>4, FilesAssumption DEF File!Dictates, File!placeVars, File!appVars, File!grantVars,
     File!boundVars, File!To, File!Ends, File!DocsOK, File!RunRecords
  <2>2. File!EditsOK'
    BY <1>4, FilesAssumption DEF File!Dictates, File!placeVars, File!appVars, File!grantVars,
     File!boundVars, File!To, File!Ends, File!EditsOK
  <2>3. File!FlagsOK'
    BY <1>4, FilesAssumption DEF File!Dictates, File!placeVars, File!appVars, File!grantVars,
     File!boundVars, File!To, File!Ends, File!FlagsOK
  <2> QED BY <2>1, <2>2, <2>3
<1>5. CASE File!EditsVox
  <2>1. File!DocsOK'
    BY <1>5, FilesAssumption DEF File!EditsVox, File!placeVars, File!appVars, File!grantVars,
     File!boundVars, File!To, File!Ends, File!DocsOK, File!RunRecords
  <2>2. File!EditsOK'
    BY <1>5, FilesAssumption DEF File!EditsVox, File!placeVars, File!appVars, File!grantVars,
     File!boundVars, File!To, File!Ends, File!EditsOK
  <2>3. File!FlagsOK'
    BY <1>5, FilesAssumption DEF File!EditsVox, File!placeVars, File!appVars, File!grantVars,
     File!boundVars, File!To, File!Ends, File!FlagsOK
  <2> QED BY <2>1, <2>2, <2>3
<1>6. CASE File!Fetches
  <2>1. File!DocsOK'
    BY <1>6, FilesAssumption DEF File!Fetches, File!placeVars, File!appVars, File!grantVars,
     File!boundVars, File!To, File!Ends, File!DocsOK, File!RunRecords
  <2>2. File!EditsOK'
    BY <1>6, FilesAssumption DEF File!Fetches, File!placeVars, File!appVars, File!grantVars,
     File!boundVars, File!To, File!Ends, File!EditsOK
  <2>3. File!FlagsOK'
    BY <1>6, FilesAssumption DEF File!Fetches, File!placeVars, File!appVars, File!grantVars,
     File!boundVars, File!To, File!Ends, File!FlagsOK
  <2> QED BY <2>1, <2>2, <2>3
<1>7. CASE File!InstallsPam
  <2>1. File!DocsOK'
    BY <1>7, FilesAssumption DEF File!InstallsPam, File!placeVars, File!appVars, File!grantVars,
     File!boundVars, File!To, File!Ends, File!DocsOK, File!RunRecords
  <2>2. File!EditsOK'
    BY <1>7, FilesAssumption DEF File!InstallsPam, File!placeVars, File!appVars, File!grantVars,
     File!boundVars, File!To, File!Ends, File!EditsOK
  <2>3. File!FlagsOK'
    BY <1>7, FilesAssumption DEF File!InstallsPam, File!placeVars, File!appVars, File!grantVars,
     File!boundVars, File!To, File!Ends, File!FlagsOK
  <2> QED BY <2>1, <2>2, <2>3
<1>8. CASE File!Killed
  <2>1. File!DocsOK'
    BY <1>8, FilesAssumption DEF File!Killed, File!placeVars, File!appVars, File!grantVars,
     File!boundVars, File!To, File!Ends, File!NoRun, File!NoApps, File!Documents, File!DocsOK,
     File!RunRecords
  <2>2. File!EditsOK'
    BY <1>8, FilesAssumption DEF File!Killed, File!placeVars, File!appVars, File!grantVars,
     File!boundVars, File!To, File!Ends, File!NoRun, File!NoApps, File!Documents, File!EditsOK
  <2>3. File!FlagsOK'
    BY <1>8, FilesAssumption DEF File!Killed, File!placeVars, File!appVars, File!grantVars,
     File!boundVars, File!To, File!Ends, File!NoRun, File!NoApps, File!Documents, File!FlagsOK
  <2> QED BY <2>1, <2>2, <2>3
<1>9. CASE File!Begin("install", "refusal")
  <2>1. File!DocsOK'
    BY <1>9, FileFresh DEF File!Begin, File!appVars, File!DocsOK
  <2>2. File!EditsOK'
    BY <1>9, FilesAssumption DEF File!Begin, File!placeVars, File!appVars, File!grantVars,
       File!boundVars, File!To, File!Ends, File!EditsOK
  <2>3. File!FlagsOK'
    BY <1>9 DEF File!Begin, File!placeVars, File!appVars, File!grantVars,
       File!boundVars, File!To, File!Ends, File!FlagsOK
  <2> QED BY <2>1, <2>2, <2>3
<1>10. CASE File!Refusal
  <2>1. File!DocsOK'
    <3>1. x13' = [x13 EXCEPT !.at = "apps"] \/ x13' = File!NoRun
      BY <1>10 DEF File!Refusal, File!To, File!Ends
    <3>2. File!NoRun \in File!RunRecords
      BY FileFresh
    <3>3. [x13 EXCEPT !.at = "apps"] \in File!RunRecords
      BY DEF File!DocsOK, File!RunRecords
    <3> QED BY <1>10, <3>1, <3>2, <3>3 DEF File!Refusal, File!appVars, File!DocsOK
  <2>2. File!EditsOK'
    BY <1>10, FilesAssumption DEF File!Refusal, File!placeVars, File!appVars, File!grantVars,
       File!boundVars, File!To, File!Ends, File!EditsOK
  <2>3. File!FlagsOK'
    BY <1>10 DEF File!Refusal, File!placeVars, File!appVars, File!grantVars,
       File!boundVars, File!To, File!Ends, File!FlagsOK
  <2> QED BY <2>1, <2>2, <2>3
<1>11. CASE File!ReadApps
  <2>1. File!DocsOK'
    BY <1>11, FilesAssumption DEF File!ReadApps, File!placeVars, File!appVars, File!grantVars,
     File!boundVars, File!To, File!Ends, File!DocsOK, File!RunRecords
  <2>2. File!EditsOK'
    BY <1>11, FilesAssumption DEF File!ReadApps, File!placeVars, File!appVars, File!grantVars,
     File!boundVars, File!To, File!Ends, File!EditsOK
  <2>3. File!FlagsOK'
    BY <1>11, FilesAssumption DEF File!ReadApps, File!placeVars, File!appVars, File!grantVars,
     File!boundVars, File!To, File!Ends, File!FlagsOK
  <2> QED BY <2>1, <2>2, <2>3
<1>12. CASE File!Backup
  <2>1. File!DocsOK'
    BY <1>12, FilesAssumption DEF File!Backup, File!placeVars, File!appVars, File!grantVars,
     File!boundVars, File!To, File!Ends, File!DocsOK, File!RunRecords
  <2>2. File!EditsOK'
    BY <1>12, FilesAssumption DEF File!Backup, File!placeVars, File!appVars, File!grantVars,
     File!boundVars, File!To, File!Ends, File!EditsOK
  <2>3. File!FlagsOK'
    BY <1>12, FilesAssumption DEF File!Backup, File!placeVars, File!appVars, File!grantVars,
     File!boundVars, File!To, File!Ends, File!FlagsOK
  <2> QED BY <2>1, <2>2, <2>3
<1>13. CASE File!Append
  <2>1. File!DocsOK'
    BY <1>13, FilesAssumption DEF File!Append, File!Documents, File!placeVars, File!appVars,
     File!grantVars, File!boundVars, File!To, File!Ends, File!DocsOK, File!RunRecords
  <2>2. File!EditsOK'
    BY <1>13, FilesAssumption DEF File!Append, File!Documents, File!placeVars, File!appVars,
     File!grantVars, File!boundVars, File!To, File!Ends, File!EditsOK
  <2>3. File!FlagsOK'
    BY <1>13, FilesAssumption DEF File!Append, File!Documents, File!placeVars, File!appVars,
     File!grantVars, File!boundVars, File!To, File!Ends, File!FlagsOK
  <2> QED BY <2>1, <2>2, <2>3
<1>14. CASE File!CheckPlace("unit", "write", "replace")
  <2>1. File!DocsOK'
    <3>1. x13' = [x13 EXCEPT !.at = "replace"] \/ x13' = File!NoRun
      BY <1>14 DEF File!CheckPlace, File!To, File!Ends
    <3>2. File!NoRun \in File!RunRecords
      BY FileFresh
    <3>3. [x13 EXCEPT !.at = "replace"] \in File!RunRecords
      BY DEF File!DocsOK, File!RunRecords
    <3> QED BY <1>14, <3>1, <3>2, <3>3 DEF File!CheckPlace, File!appVars, File!DocsOK
  <2>2. File!EditsOK'
    BY <1>14, FilesAssumption DEF File!CheckPlace, File!placeVars, File!appVars, File!grantVars,
       File!boundVars, File!To, File!Ends, File!EditsOK
  <2>3. File!FlagsOK'
    BY <1>14 DEF File!CheckPlace, File!placeVars, File!appVars, File!grantVars,
       File!boundVars, File!To, File!Ends, File!FlagsOK
  <2> QED BY <2>1, <2>2, <2>3
<1>15. CASE File!PutPlace("unit", "replace", "theme")
  <2>1. File!DocsOK'
    BY <1>15, FilesAssumption DEF File!PutPlace, File!placeVars, File!appVars, File!grantVars,
     File!boundVars, File!To, File!Ends, File!DocsOK, File!RunRecords
  <2>2. File!EditsOK'
    BY <1>15, FilesAssumption DEF File!PutPlace, File!placeVars, File!appVars, File!grantVars,
     File!boundVars, File!To, File!Ends, File!EditsOK
  <2>3. File!FlagsOK'
    BY <1>15, FilesAssumption DEF File!PutPlace, File!placeVars, File!appVars, File!grantVars,
     File!boundVars, File!To, File!Ends, File!FlagsOK
  <2> QED BY <2>1, <2>2, <2>3
<1>16. CASE File!CheckPlace("template", "theme", "render")
  <2>1. File!DocsOK'
    <3>1. x13' = [x13 EXCEPT !.at = "render"] \/ x13' = File!NoRun
      BY <1>16 DEF File!CheckPlace, File!To, File!Ends
    <3>2. File!NoRun \in File!RunRecords
      BY FileFresh
    <3>3. [x13 EXCEPT !.at = "render"] \in File!RunRecords
      BY DEF File!DocsOK, File!RunRecords
    <3> QED BY <1>16, <3>1, <3>2, <3>3 DEF File!CheckPlace, File!appVars, File!DocsOK
  <2>2. File!EditsOK'
    BY <1>16, FilesAssumption DEF File!CheckPlace, File!placeVars, File!appVars, File!grantVars,
       File!boundVars, File!To, File!Ends, File!EditsOK
  <2>3. File!FlagsOK'
    BY <1>16 DEF File!CheckPlace, File!placeVars, File!appVars, File!grantVars,
       File!boundVars, File!To, File!Ends, File!FlagsOK
  <2> QED BY <2>1, <2>2, <2>3
<1>17. CASE File!PutPlace("template", "render", "firewall")
  <2>1. File!DocsOK'
    BY <1>17, FilesAssumption DEF File!PutPlace, File!placeVars, File!appVars, File!grantVars,
     File!boundVars, File!To, File!Ends, File!DocsOK, File!RunRecords
  <2>2. File!EditsOK'
    BY <1>17, FilesAssumption DEF File!PutPlace, File!placeVars, File!appVars, File!grantVars,
     File!boundVars, File!To, File!Ends, File!EditsOK
  <2>3. File!FlagsOK'
    BY <1>17, FilesAssumption DEF File!PutPlace, File!placeVars, File!appVars, File!grantVars,
     File!boundVars, File!To, File!Ends, File!FlagsOK
  <2> QED BY <2>1, <2>2, <2>3
<1>18. CASE File!Firewall
  <2>1. File!DocsOK'
    BY <1>18, FilesAssumption DEF File!Firewall, File!placeVars, File!appVars, File!grantVars,
     File!boundVars, File!To, File!Ends, File!DocsOK, File!RunRecords
  <2>2. File!EditsOK'
    BY <1>18, FilesAssumption DEF File!Firewall, File!placeVars, File!appVars, File!grantVars,
     File!boundVars, File!To, File!Ends, File!EditsOK
  <2>3. File!FlagsOK'
    BY <1>18, FilesAssumption DEF File!Firewall, File!placeVars, File!appVars, File!grantVars,
     File!boundVars, File!To, File!Ends, File!FlagsOK
  <2> QED BY <2>1, <2>2, <2>3
<1>19. CASE File!Start
  <2>1. /\ x13' = File!NoRun /\ x14' \in {"installed", "failed"} /\ x8' \in BOOLEAN
        /\ UNCHANGED <<x3, x4, x5, x6, x7, x9, x10, x11, x12, x15, x16>>
    BY <1>19 DEF File!Start, File!Ends, File!placeVars, File!appVars, File!boundVars
  <2>2. File!DocsOK'
    BY <2>1, FileFresh DEF File!DocsOK
  <2>3. File!EditsOK' /\ File!FlagsOK'
    BY <2>1 DEF File!EditsOK, File!FlagsOK
  <2> QED BY <2>2, <2>3
<1>20. CASE File!Begin("remove", "pam")
  <2>1. File!DocsOK'
    BY <1>20, FileFresh DEF File!Begin, File!appVars, File!DocsOK
  <2>2. File!EditsOK'
    BY <1>20, FilesAssumption DEF File!Begin, File!placeVars, File!appVars, File!grantVars,
       File!boundVars, File!To, File!Ends, File!EditsOK
  <2>3. File!FlagsOK'
    BY <1>20 DEF File!Begin, File!placeVars, File!appVars, File!grantVars,
       File!boundVars, File!To, File!Ends, File!FlagsOK
  <2> QED BY <2>1, <2>2, <2>3
<1>21. CASE File!RemovePam
  <2>1. File!DocsOK'
    <3>1. x11' \in BOOLEAN /\ x13' = [x13 EXCEPT !.at = "unit", !.pam = x11', !.left = x11']
      BY <1>21 DEF File!RemovePam, File!FlagsOK
    <3>2. x13' \in File!RunRecords
      BY <3>1, FileLeaves DEF File!DocsOK
    <3> QED BY <1>21, <3>2 DEF File!RemovePam, File!appVars, File!DocsOK
  <2>2. File!EditsOK'
    BY <1>21, FilesAssumption DEF File!RemovePam, File!placeVars, File!appVars, File!grantVars,
       File!boundVars, File!To, File!Ends, File!EditsOK
  <2>3. File!FlagsOK'
    BY <1>21 DEF File!RemovePam, File!placeVars, File!appVars, File!grantVars,
       File!boundVars, File!To, File!Ends, File!FlagsOK
  <2> QED BY <2>1, <2>2, <2>3
<1>22. CASE File!Look("unit", "unit", "unlink", "vox")
  <2>1. File!DocsOK'
    BY <1>22, FilesAssumption DEF File!Look, File!placeVars, File!appVars, File!grantVars,
     File!boundVars, File!To, File!Ends, File!DocsOK, File!RunRecords
  <2>2. File!EditsOK'
    BY <1>22, FilesAssumption DEF File!Look, File!placeVars, File!appVars, File!grantVars,
     File!boundVars, File!To, File!Ends, File!EditsOK
  <2>3. File!FlagsOK'
    BY <1>22, FilesAssumption DEF File!Look, File!placeVars, File!appVars, File!grantVars,
     File!boundVars, File!To, File!Ends, File!FlagsOK
  <2> QED BY <2>1, <2>2, <2>3
<1>23. CASE File!Unlink
  <2>1. File!DocsOK'
    BY <1>23, FilesAssumption DEF File!Unlink, File!placeVars, File!appVars, File!grantVars,
     File!boundVars, File!To, File!Ends, File!DocsOK, File!RunRecords
  <2>2. File!EditsOK'
    BY <1>23, FilesAssumption DEF File!Unlink, File!placeVars, File!appVars, File!grantVars,
     File!boundVars, File!To, File!Ends, File!EditsOK
  <2>3. File!FlagsOK'
    BY <1>23, FilesAssumption DEF File!Unlink, File!placeVars, File!appVars, File!grantVars,
     File!boundVars, File!To, File!Ends, File!FlagsOK
  <2> QED BY <2>1, <2>2, <2>3
<1>24. CASE File!RestoreVox
  <2>1. File!DocsOK'
    BY <1>24, FilesAssumption DEF File!RestoreVox, File!placeVars, File!appVars, File!grantVars,
     File!boundVars, File!To, File!Ends, File!DocsOK, File!RunRecords
  <2>2. File!EditsOK'
    BY <1>24, FilesAssumption DEF File!RestoreVox, File!placeVars, File!appVars, File!grantVars,
     File!boundVars, File!To, File!Ends, File!EditsOK
  <2>3. File!FlagsOK'
    BY <1>24, FilesAssumption DEF File!RestoreVox, File!placeVars, File!appVars, File!grantVars,
     File!boundVars, File!To, File!Ends, File!FlagsOK
  <2> QED BY <2>1, <2>2, <2>3
<1>25. CASE File!ReadPublished
  <2>1. File!DocsOK'
    BY <1>25, FilesAssumption DEF File!ReadPublished, File!placeVars, File!appVars,
     File!grantVars, File!boundVars, File!To, File!Ends, File!DocsOK, File!RunRecords
  <2>2. File!EditsOK'
    BY <1>25, FilesAssumption DEF File!ReadPublished, File!placeVars, File!appVars,
     File!grantVars, File!boundVars, File!To, File!Ends, File!EditsOK
  <2>3. File!FlagsOK'
    BY <1>25, FilesAssumption DEF File!ReadPublished, File!placeVars, File!appVars,
     File!grantVars, File!boundVars, File!To, File!Ends, File!FlagsOK
  <2> QED BY <2>1, <2>2, <2>3
<1>26. CASE File!TakeOut
  <2>1. File!DocsOK'
    <3>1. x13.doc \in File!Documents /\ [x13 EXCEPT !.at = "ssh"] \in File!RunRecords
      BY DEF File!DocsOK, File!RunRecords
    <3>2. File!NoApps \in File!Documents
      BY FileFresh
    <3>3. [x13.doc EXCEPT !.entry = FALSE] \in File!Documents
      BY <3>1 DEF File!Documents
    <3>4. File!Without \in File!Documents
      BY <3>2, <3>3 DEF File!Without
    <3> QED BY <1>26, <3>1, <3>2, <3>4 DEF File!TakeOut, File!To, File!DocsOK
  <2>2. File!EditsOK'
    BY <1>26, FilesAssumption DEF File!TakeOut, File!placeVars, File!appVars, File!grantVars,
       File!boundVars, File!To, File!Ends, File!EditsOK
  <2>3. File!FlagsOK'
    BY <1>26 DEF File!TakeOut, File!placeVars, File!appVars, File!grantVars,
       File!boundVars, File!To, File!Ends, File!FlagsOK
  <2> QED BY <2>1, <2>2, <2>3
<1>27. CASE File!RemoveLines
  <2>1. File!DocsOK'
    BY <1>27, FilesAssumption DEF File!RemoveLines, File!placeVars, File!appVars, File!grantVars,
     File!boundVars, File!To, File!Ends, File!DocsOK, File!RunRecords
  <2>2. File!EditsOK'
    BY <1>27, FilesAssumption DEF File!RemoveLines, File!placeVars, File!appVars, File!grantVars,
     File!boundVars, File!To, File!Ends, File!EditsOK
  <2>3. File!FlagsOK'
    BY <1>27, FilesAssumption DEF File!RemoveLines, File!placeVars, File!appVars, File!grantVars,
     File!boundVars, File!To, File!Ends, File!FlagsOK
  <2> QED BY <2>1, <2>2, <2>3
<1>28. CASE File!DropSources
  <2>1. File!DocsOK'
    BY <1>28, FilesAssumption DEF File!DropSources, File!MayGo, File!placeVars, File!appVars,
     File!grantVars, File!boundVars, File!To, File!Ends, File!DocsOK, File!RunRecords
  <2>2. File!EditsOK'
    BY <1>28, FilesAssumption DEF File!DropSources, File!MayGo, File!placeVars, File!appVars,
     File!grantVars, File!boundVars, File!To, File!Ends, File!EditsOK
  <2>3. File!FlagsOK'
    BY <1>28, FilesAssumption DEF File!DropSources, File!MayGo, File!placeVars, File!appVars,
     File!grantVars, File!boundVars, File!To, File!Ends, File!FlagsOK
  <2> QED BY <2>1, <2>2, <2>3
<1>29. CASE File!Look("template", "surfaces", "withdraw", "rules")
  <2>1. File!DocsOK'
    BY <1>29, FilesAssumption DEF File!Look, File!placeVars, File!appVars, File!grantVars,
     File!boundVars, File!To, File!Ends, File!DocsOK, File!RunRecords
  <2>2. File!EditsOK'
    BY <1>29, FilesAssumption DEF File!Look, File!placeVars, File!appVars, File!grantVars,
     File!boundVars, File!To, File!Ends, File!EditsOK
  <2>3. File!FlagsOK'
    BY <1>29, FilesAssumption DEF File!Look, File!placeVars, File!appVars, File!grantVars,
     File!boundVars, File!To, File!Ends, File!FlagsOK
  <2> QED BY <2>1, <2>2, <2>3
<1>30. CASE File!Withdraw
  <2>1. File!DocsOK'
    BY <1>30, FilesAssumption DEF File!Withdraw, File!placeVars, File!appVars, File!grantVars,
     File!boundVars, File!To, File!Ends, File!DocsOK, File!RunRecords
  <2>2. File!EditsOK'
    BY <1>30, FilesAssumption DEF File!Withdraw, File!placeVars, File!appVars, File!grantVars,
     File!boundVars, File!To, File!Ends, File!EditsOK
  <2>3. File!FlagsOK'
    BY <1>30, FilesAssumption DEF File!Withdraw, File!placeVars, File!appVars, File!grantVars,
     File!boundVars, File!To, File!Ends, File!FlagsOK
  <2> QED BY <2>1, <2>2, <2>3
<1>31. CASE File!DropRules
  <2>1. File!DocsOK'
    BY <1>31, FilesAssumption DEF File!DropRules, File!NoRun, File!NoApps, File!Documents,
     File!placeVars, File!appVars, File!grantVars, File!boundVars, File!To, File!Ends,
     File!DocsOK, File!RunRecords
  <2>2. File!EditsOK'
    BY <1>31, FilesAssumption DEF File!DropRules, File!NoRun, File!NoApps, File!Documents,
     File!placeVars, File!appVars, File!grantVars, File!boundVars, File!To, File!Ends,
     File!EditsOK
  <2>3. File!FlagsOK'
    BY <1>31, FilesAssumption DEF File!DropRules, File!NoRun, File!NoApps, File!Documents,
     File!placeVars, File!appVars, File!grantVars, File!boundVars, File!To, File!Ends,
     File!FlagsOK
  <2> QED BY <2>1, <2>2, <2>3
<1>32. CASE File!Dies
  <2>1. x8' = FALSE /\ UNCHANGED <<x3, x4, x5, x6, x7, x9, x10, x11, x12, x13, x14, x15, x16>>
    BY <1>32 DEF File!Dies, File!placeVars, File!appVars, File!boundVars
  <2> QED BY <2>1 DEF File!DocsOK, File!EditsOK, File!FlagsOK
<1> QED BY <1>1, <1>2, <1>3, <1>4, <1>5, <1>6, <1>7, <1>8, <1>9, <1>10, <1>11, <1>12, <1>13,
     <1>14, <1>15, <1>16, <1>17, <1>18, <1>19, <1>20, <1>21, <1>22, <1>23, <1>24, <1>25, <1>26,
     <1>27, <1>28, <1>29, <1>30, <1>31, <1>32 DEF File!Next, File!Install, File!Remove

LEMMA FileTypesInit ==
  ASSUME File!Init
  PROVE  File!DocsOK /\ File!EditsOK /\ File!FlagsOK
<1>1. FileMaxEdits + 1 \in 0..(FileMaxEdits + 1) /\ 0 \in 0..(FileMaxEdits + 1) /\ 0 \in 0..FileMaxEdits
  BY FilesAssumption
<1>2. File!NoApps \in File!Documents /\ File!NoApps.says = 0 /\ File!NoRun \in File!RunRecords
  BY FileFresh DEF File!NoApps
<1>3. x4 \in File!Documents /\ x4.says \in 0..(FileMaxEdits + 1)
  <2>1. CASE x4 = File!NoApps
    BY <2>1, <1>1, <1>2
  <2>2. CASE x4 = [File!NoApps EXCEPT !.there = TRUE, !.says = FileMaxEdits + 1]
    BY <2>2, <1>1 DEF File!NoApps, File!Documents
  <2> QED BY <2>1, <2>2 DEF File!Init
<1>4. File!DocsOK /\ File!EditsOK
  BY <1>1, <1>2, <1>3 DEF File!Init, File!DocsOK, File!EditsOK
<1>5. File!FlagsOK
  BY DEF File!Init, File!FlagsOK
<1> QED BY <1>4, <1>5

LEMMA FileTypesStay ==
  ASSUME File!DocsOK, File!EditsOK, File!FlagsOK, UNCHANGED File!fileVars
  PROVE  File!DocsOK' /\ File!EditsOK' /\ File!FlagsOK'
  BY DEF File!fileVars, File!DocsOK, File!EditsOK, File!FlagsOK

LEMMA FileTyped ==
  ASSUME File!FileInv, File!DocsOK, File!EditsOK, File!FlagsOK
  PROVE  File!TypeOK
  BY DEF File!FileInv, File!FileShapesOK, File!DocsOK, File!EditsOK, File!RunRecords, File!FlagsOK, File!TypeOK

-----------------------------------------------------------------------------
(* Types of what core shows and does at the desk. *)

LEMMA OtherLayout ==
  ASSUME NEW l \in Layout!Layouts
  PROVE  Layout!Other(l) \in Layout!Layouts
<1>1. \E m \in Layout!Layouts : m # l
  BY DEF Layout!Layouts
<1> QED BY <1>1 DEF Layout!Other

LEMMA LayoutNames ==
  ASSUME Layout!NamesOK, Layout!Next
  PROVE  Layout!NamesOK'
<1>1. \A l \in Layout!Layouts : Layout!Other(l) \in Layout!Layouts
  BY OtherLayout
<1>2. {"dwindle"} \subseteq Layout!Layouts
  BY DEF Layout!Layouts
<1>3. CASE Layout!Switch \/ Layout!Toggle
  BY <1>1, <1>3 DEF Layout!Switch, Layout!Toggle, Layout!hostVars, Layout!fileVars,
     Layout!boundVars, Layout!actVars, Layout!To, Layout!Ends, Layout!NamesOK
<1>4. CASE Layout!HostWrites
  BY <1>1, <1>4 DEF Layout!HostWrites, Layout!hostVars, Layout!fileVars, Layout!boundVars,
     Layout!actVars, Layout!To, Layout!Ends, Layout!NamesOK
<1>5. CASE Layout!Publish \/ Layout!Shown
  BY <1>1, <1>5 DEF Layout!Publish, Layout!Shown, Layout!hostVars, Layout!fileVars,
     Layout!boundVars, Layout!actVars, Layout!To, Layout!Ends, Layout!NamesOK
<1>6. CASE Layout!Capture
  BY <1>1, <1>6 DEF Layout!Capture, Layout!hostVars, Layout!fileVars, Layout!boundVars,
     Layout!actVars, Layout!To, Layout!Ends, Layout!NamesOK
<1>7. CASE Layout!Check \/ Layout!Snapshot
  BY <1>1, <1>7 DEF Layout!Check, Layout!Snapshot, Layout!hostVars, Layout!fileVars,
     Layout!boundVars, Layout!actVars, Layout!To, Layout!Ends, Layout!NamesOK
<1>8. CASE Layout!Prepare
  BY <1>1, <1>8 DEF Layout!Prepare, Layout!hostVars, Layout!fileVars, Layout!boundVars,
     Layout!actVars, Layout!To, Layout!Ends, Layout!NamesOK
<1>9. CASE Layout!Mutate
  BY <1>1, <1>9 DEF Layout!Mutate, Layout!hostVars, Layout!fileVars, Layout!boundVars,
     Layout!actVars, Layout!To, Layout!Ends, Layout!NamesOK
<1>10. CASE Layout!ReadBack \/ Layout!Compare
  BY <1>1, <1>10 DEF Layout!ReadBack, Layout!Compare, Layout!hostVars, Layout!fileVars,
     Layout!boundVars, Layout!actVars, Layout!To, Layout!Ends, Layout!NamesOK
<1>11. CASE Layout!Link \/ Layout!Exchange
  BY <1>1, <1>11 DEF Layout!Link, Layout!Exchange, Layout!hostVars, Layout!fileVars,
     Layout!boundVars, Layout!actVars, Layout!To, Layout!Ends, Layout!NamesOK
<1>12. CASE Layout!Verify \/ Layout!Restore
  BY <1>1, <1>12 DEF Layout!Verify, Layout!Restore, Layout!hostVars, Layout!fileVars,
     Layout!boundVars, Layout!actVars, Layout!To, Layout!Ends, Layout!NamesOK
<1>13. CASE Layout!PutBack
  BY <1>1, <1>13 DEF Layout!PutBack, Layout!hostVars, Layout!fileVars, Layout!boundVars,
     Layout!actVars, Layout!To, Layout!Ends, Layout!NamesOK
<1>14. CASE Layout!Drop \/ Layout!Saved
  BY <1>1, <1>14 DEF Layout!Drop, Layout!Saved, Layout!hostVars, Layout!fileVars,
     Layout!boundVars, Layout!actVars, Layout!To, Layout!Ends, Layout!NamesOK
<1>15. CASE Layout!Clean
  BY <1>1, <1>15 DEF Layout!Clean, Layout!hostVars, Layout!fileVars, Layout!boundVars,
     Layout!actVars, Layout!To, Layout!Ends, Layout!NamesOK
<1>16. CASE Layout!Dies
  BY <1>1, <1>16 DEF Layout!Dies, Layout!hostVars, Layout!fileVars, Layout!boundVars,
     Layout!actVars, Layout!To, Layout!Ends, Layout!NamesOK
<1> QED BY <1>3, <1>4, <1>5, <1>6, <1>7, <1>8, <1>9, <1>10, <1>11, <1>12, <1>13, <1>14, <1>15,
     <1>16 DEF Layout!Next, Layout!Execute

LEMMA LayoutMade ==
  ASSUME Layout!LayoutInv, Layout!MadeOK, Layout!Next
  PROVE  Layout!MadeOK'
<1>1. /\ x6 \in Nat /\ MaxMade \in Nat /\ x6 <= MaxMade + 1 /\ x5 \subseteq 0..x6
      /\ x4.ver \in 0..x6 /\ x4.ino \in 0..x6
  BY DeskAssumption DEF Layout!LayoutInv, Layout!LayoutShapesOK, Layout!Files, Layout!MadeOK
<1>2. CASE Layout!HostWrites \/ Layout!Prepare
  <2>1. x5' = x5 /\ x6' \in {x6, x6 + 1} /\ (x6' = x6 + 1 => x6 < MaxMade)
    <3>1. CASE Layout!HostWrites
      BY <1>1, <3>1 DEF Layout!HostWrites
    <3>2. CASE Layout!Prepare
      BY <1>1, <3>2 DEF Layout!Prepare
    <3> QED BY <1>2, <3>1, <3>2
  <2> QED BY <1>1, <2>1 DEF Layout!MadeOK
<1>3. CASE Layout!Clean \/ Layout!Dies
  <2>1. Layout!Remains.ver \in 0..x6
    BY <1>1 DEF Layout!Remains, Layout!NoFile
  <2>2. x6' = x6 /\ \A v \in x5' : v \in x5 \cup {x4.ver, Layout!Remains.ver}
    BY <1>3 DEF Layout!Clean, Layout!Dies
  <2> QED BY <1>1, <2>1, <2>2 DEF Layout!MadeOK
<1>4. CASE ~(Layout!HostWrites \/ Layout!Prepare \/ Layout!Clean \/ Layout!Dies)
  <2>1. x5' = x5 /\ x6' = x6
    BY <1>4 DEF Layout!Next, Layout!Execute, Layout!Switch, Layout!Toggle, Layout!Publish,
     Layout!Shown, Layout!Capture, Layout!Check, Layout!Snapshot, Layout!Mutate, Layout!ReadBack,
     Layout!Compare, Layout!Link, Layout!Exchange, Layout!Verify, Layout!Restore, Layout!PutBack,
     Layout!Drop, Layout!Saved, Layout!hostVars, Layout!fileVars, Layout!boundVars,
     Layout!actVars, Layout!To, Layout!Ends
  <2> QED BY <1>1, <2>1 DEF Layout!MadeOK
<1> QED BY <1>2, <1>3, <1>4

LEMMA LayoutTypesInit ==
  ASSUME Layout!Init
  PROVE  Layout!NamesOK /\ Layout!MadeOK
<1>1. MaxMade \in Nat
  BY DeskAssumption
<1>2. Layout!NamesOK
  BY DEF Layout!Init, Layout!NamesOK, Layout!Layouts
<1>3. Layout!MadeOK
  BY <1>1 DEF Layout!Init, Layout!MadeOK
<1> QED BY <1>2, <1>3

LEMMA LayoutTypesStay ==
  ASSUME Layout!NamesOK, Layout!MadeOK, UNCHANGED Layout!layoutVars
  PROVE  Layout!NamesOK' /\ Layout!MadeOK'
  BY DEF Layout!layoutVars, Layout!NamesOK, Layout!MadeOK

LEMMA LayoutTyped ==
  ASSUME Layout!LayoutInv, Layout!NamesOK, Layout!MadeOK
  PROVE  Layout!TypeOK
<1>1. x6 \in Nat /\ MaxMade \in Nat /\ x6 <= MaxMade + 1
  BY DeskAssumption DEF Layout!LayoutInv, Layout!LayoutShapesOK, Layout!MadeOK
<1>2. /\ {x3.ino, x3.ver, x4.ino, x4.ver, x13} \subseteq 0..x6
      /\ x5 \subseteq 0..x6 /\ x7 \subseteq 0..x6
  BY <1>1 DEF Layout!LayoutInv, Layout!LayoutShapesOK, Layout!Files, Layout!MadeOK
<1>3. 0..x6 \subseteq Layout!Versions
  BY <1>1 DEF Layout!Versions
<1>4. {x3.ino, x3.ver, x4.ino, x4.ver, x13} \subseteq Layout!Versions
  BY <1>2, <1>3
<1>5. x5 \subseteq Layout!Versions /\ x7 \subseteq Layout!Versions
  BY <1>2, <1>3
<1> QED BY <1>4, <1>5 DEF Layout!NamesOK, Layout!TypeOK

LEMMA ProbeSeen ==
  ASSUME Probe!SeenOK, Probe!Next
  PROVE  Probe!SeenOK'
<1>1. CASE Probe!Person
  BY <1>1 DEF Probe!Person, Probe!Changes, Probe!SeenOK
<1>2. CASE Probe!ProbeBegins \/ Probe!ProbeWindow \/ Probe!ProbeActive
  <2>1. /\ x6'.active \in {x6.active, 0, x1.active} /\ x6'.focus \in {x6.focus, "none", x1.focus}
        /\ UNCHANGED <<x1, x2, x8>>
    <3>1. CASE Probe!ProbeBegins
      <4>1. PICK p : p = [Probe!NoProbe EXCEPT !.on = TRUE] /\ x6' = [p EXCEPT !.gen = x5]
        BY <3>1 DEF Probe!ProbeBegins, Probe!NoProbe
      <4> QED BY <3>1, <4>1 DEF Probe!ProbeBegins, Probe!NoProbe
    <3>2. CASE Probe!ProbeWindow
      BY <3>2 DEF Probe!ProbeWindow, Probe!ProbeInv
    <3>3. CASE Probe!ProbeActive
      BY <3>3 DEF Probe!ProbeActive
    <3> QED BY <1>2, <3>1, <3>2, <3>3
  <2> QED BY <2>1 DEF Probe!SeenOK
<1>3. CASE Probe!ProbePublishes
  BY <1>3 DEF Probe!ProbePublishes, Probe!Publish, Probe!NoProbe, Probe!SeenOK
<1>4. CASE \E s \in Spaces : Probe!Select(s)
  <2>1. PICK s \in Spaces : Probe!Select(s)
    BY <1>4
  <2>2. PICK a : a = [Probe!NoAct EXCEPT !.at = "select"] /\ x8' = [a EXCEPT !.space = s]
    BY <2>1 DEF Probe!Select, Probe!NoAct
  <2> QED BY <2>1, <2>2 DEF Probe!Select, Probe!NoAct, Probe!SeenOK
<1>5. CASE Probe!Selected
  BY <1>5 DEF Probe!Selected, Probe!Changes, Probe!SeenOK
<1>6. CASE Probe!AskMove
  BY <1>6 DEF Probe!AskMove, Probe!Publish, Probe!Reading, Probe!NoAct, Probe!SeenOK
<1>7. CASE Probe!MoveChecks
  BY <1>7 DEF Probe!MoveChecks, Probe!Publish, Probe!Reading, Probe!NoAct, Probe!SeenOK
<1>8. CASE Probe!ReadBack
  BY <1>8 DEF Probe!ReadBack, Probe!Publish, Probe!Reading, Probe!NoAct, Probe!SeenOK
<1>9. CASE Probe!Look \/ Probe!Moves \/ Probe!Fails
  <2>1. UNCHANGED <<x1, x2, x6>> /\ (x8'.at # "select" \/ x8' = x8)
    <3>1. CASE Probe!Look
      BY <3>1 DEF Probe!Look
    <3>2. CASE Probe!Moves
      BY <3>2 DEF Probe!Moves
    <3>3. CASE Probe!Fails
      BY <3>3 DEF Probe!Fails, Probe!NoAct
    <3> QED BY <1>9, <3>1, <3>2, <3>3
  <2> QED BY <2>1 DEF Probe!SeenOK
<1> QED BY <1>1, <1>2, <1>3, <1>4, <1>5, <1>6, <1>7, <1>8, <1>9 DEF Probe!Next

LEMMA ProbeCounts ==
  ASSUME Probe!ProbeInv, Probe!CountsOK, Probe!Next
  PROVE  Probe!CountsOK'
<1>1. /\ x1.time \in Nat /\ x1.time <= MaxTime /\ MaxTime \in Nat /\ x4 \in Nat /\ x5 \in Nat
      /\ x4 <= MaxShown /\ MaxShown \in Nat /\ MaxMoved \in Nat /\ x11 \in Nat /\ x11 <= MaxMoved /\ x5 <= x11
  BY DeskAssumption DEF Probe!ProbeInv, Probe!ProbeShapesOK, Probe!CountsOK
<1>2. x1'.time <= MaxTime
  <2>1. CASE Probe!Person \/ Probe!Selected
    BY <1>1, <2>1 DEF Probe!Person, Probe!Selected, Probe!Changes
  <2>2. CASE ~(Probe!Person \/ Probe!Selected)
    BY <1>1, <2>2 DEF Probe!Next, Probe!ProbeBegins, Probe!ProbeWindow, Probe!ProbeActive, Probe!ProbePublishes,
       Probe!Look, Probe!MoveChecks, Probe!Moves, Probe!ReadBack, Probe!Fails, Probe!AskMove, Probe!Select
  <2> QED BY <2>1, <2>2
<1>3. x4' \in 0..MaxShown
  <2>1. CASE Probe!ProbePublishes \/ Probe!AskMove \/ Probe!MoveChecks \/ Probe!ReadBack
    <3>1. x4' \in {x4, x4 + 1} /\ (x4' = x4 \/ x4' <= MaxShown)
      BY <1>1, <2>1 DEF Probe!ProbePublishes, Probe!AskMove, Probe!MoveChecks, Probe!ReadBack, Probe!Publish
    <3> QED BY <1>1, <3>1
  <2>2. CASE \/ Probe!Person \/ Probe!ProbeBegins \/ Probe!ProbeWindow \/ Probe!ProbeActive
             \/ Probe!Look \/ Probe!Selected \/ Probe!Moves \/ Probe!Fails
    BY <1>1, <2>2 DEF Probe!Person, Probe!ProbeBegins, Probe!ProbeWindow, Probe!ProbeActive,
       Probe!Look, Probe!Selected, Probe!Moves, Probe!Fails
  <2>3. CASE \E s \in Spaces : Probe!Select(s)
    BY <1>1, <2>3 DEF Probe!Select
  <2> QED BY <2>1, <2>2, <2>3 DEF Probe!Next
<1>4. x11' \in 0..MaxMoved /\ x5' <= x11' /\ (x8'.at = "move" => x5' < x11')
  <2>1. CASE Probe!AskMove
    BY <1>1, <2>1 DEF Probe!AskMove
  <2>2. CASE Probe!MoveChecks
    BY <1>1, <2>2 DEF Probe!MoveChecks, Probe!NoAct, Probe!CountsOK
  <2>3. CASE \E s \in Spaces : Probe!Select(s)
    <3>1. PICK s \in Spaces : Probe!Select(s)
      BY <2>3
    <3>2. PICK a : a = [Probe!NoAct EXCEPT !.at = "select"] /\ x8' = [a EXCEPT !.space = s]
      BY <3>1 DEF Probe!Select, Probe!NoAct
    <3>3. x8'.at = "select" /\ x11' = x11 + 1 /\ x5' = x5 + 1 /\ x11 < MaxMoved
      BY <3>1, <3>2 DEF Probe!Select, Probe!NoAct
    <3> QED BY <1>1, <3>3
  <2>4. CASE Probe!Selected \/ Probe!Moves \/ Probe!ReadBack \/ Probe!Fails
    <3>1. UNCHANGED <<x5, x11>>
      BY <2>4 DEF Probe!Selected, Probe!Moves, Probe!ReadBack, Probe!Fails
    <3>2. CASE Probe!Selected \/ Probe!Moves
      <4>1. x8'.at = "read"
        <5>1. CASE Probe!Selected
          BY <5>1 DEF Probe!Selected
        <5>2. CASE Probe!Moves
          BY <5>2 DEF Probe!Moves
        <5> QED BY <3>2, <5>1, <5>2
      <4> QED BY <1>1, <3>1, <4>1
    <3>3. CASE Probe!ReadBack \/ Probe!Fails
      BY <1>1, <3>1, <3>3 DEF Probe!ReadBack, Probe!Fails, Probe!NoAct
    <3> QED BY <2>4, <3>2, <3>3
  <2>5. CASE Probe!Person \/ Probe!ProbeBegins \/ Probe!ProbeWindow \/ Probe!ProbeActive \/ Probe!ProbePublishes \/ Probe!Look
    BY <1>1, <2>5 DEF Probe!Person, Probe!ProbeBegins, Probe!ProbeWindow, Probe!ProbeActive,
       Probe!ProbePublishes, Probe!Look, Probe!CountsOK
  <2> QED BY <2>1, <2>2, <2>3, <2>4, <2>5 DEF Probe!Next
<1> QED BY <1>2, <1>3, <1>4 DEF Probe!CountsOK

LEMMA ProbeTypesInit ==
  ASSUME Probe!Init
  PROVE  Probe!SeenOK /\ Probe!CountsOK
<1>1. /\ MaxTime \in Nat /\ 1 <= MaxTime /\ MaxShown \in Nat /\ MaxMoved \in Nat
  BY DeskAssumption
<1>2. (CHOOSE s \in Spaces : TRUE) \in Spaces /\ (CHOOSE w \in Windows : TRUE) \in Windows
  BY DeskAssumption
<1>3. Probe!SeenOK
  BY <1>2 DEF Probe!Init, Probe!SeenOK, Probe!NoProbe, Probe!NoAct
<1>4. Probe!CountsOK
  BY <1>1 DEF Probe!Init, Probe!CountsOK, Probe!NoAct
<1> QED BY <1>3, <1>4

LEMMA ProbeTypesStay ==
  ASSUME Probe!SeenOK, Probe!CountsOK, UNCHANGED Probe!probeVars
  PROVE  Probe!SeenOK' /\ Probe!CountsOK'
  BY DEF Probe!probeVars, Probe!SeenOK, Probe!CountsOK

LEMMA ProbeTyped ==
  ASSUME Probe!ProbeInv, Probe!SeenOK, Probe!CountsOK
  PROVE  Probe!TypeOK
<1>1. /\ x1.time \in Nat /\ x1.time <= MaxTime /\ MaxTime \in Nat /\ x9 \in 0..x1.time
      /\ x5 \in Nat /\ x11 \in 0..MaxMoved /\ MaxMoved \in Nat /\ x5 <= x11
  BY DeskAssumption DEF Probe!ProbeInv, Probe!ProbeShapesOK, Probe!CountsOK
<1>2. x9 \in 0..MaxTime /\ x5 \in 0..MaxMoved
  BY <1>1
<1>3. x2.token \in 0..x3
  BY DEF Probe!ProbeInv, Probe!ProbeShapesOK
<1>4. x4 \in 0..MaxShown
  BY DEF Probe!CountsOK
<1> QED BY <1>2, <1>3, <1>4 DEF Probe!SeenOK, Probe!TypeOK

LEMMA CallVersions ==
  ASSUME Call!VersionsOK, Call!Next, x2 \in Nat
  PROVE  Call!VersionsOK'
<1>1. MaxRowEdits \in Nat /\ x2 <= MaxRowEdits
  BY DeskAssumption DEF Call!VersionsOK
<1> DEFINE versions == [Call!Rows -> 0..(MaxRowEdits + 1)]
<1>2. {x1, x3, x4} \subseteq versions
  BY DEF Call!VersionsOK
<1>3. CASE \E r \in Call!Rows : Call!Edit(r)
  <2>1. PICK r \in Call!Rows : Call!Edit(r)
    BY <1>3
  <2>2. x2' = x2 + 1 /\ x2 < MaxRowEdits /\ UNCHANGED <<x3, x4>>
    BY <2>1 DEF Call!Edit
  <2>3. PICK v \in {0, x2 + 2} : x1' = [x1 EXCEPT ![r] = v]
    BY <2>1 DEF Call!Edit
  <2>4. v \in 0..(MaxRowEdits + 1)
    BY <1>1, <2>2
  <2>5. x1' \in versions
    BY <1>2, <2>3, <2>4
  <2>6. x2' <= MaxRowEdits
    BY <1>1, <2>2
  <2> QED BY <1>2, <2>2, <2>5, <2>6 DEF Call!VersionsOK
<1>4. CASE ~\E r \in Call!Rows : Call!Edit(r)
  <2> DEFINE follows == x2' = x2 /\ x1' = x1 /\ x3' \in {x3, x1} /\ x4' \in {x4, x1}
  <2>1. follows
    <3>1. CASE \/ Call!Tick \/ Call!Runs \/ Call!Fails \/ Call!Ends \/ Call!Dies
      BY <3>1 DEF Call!Tick, Call!Runs, Call!Fails, Call!Ends, Call!Dies
    <3>2. ASSUME NEW d \in Devices,
                 \/ Call!Shown(d) \/ Call!Expires(d) \/ Call!Repeats(d) \/ Call!Refuses(d) \/ Call!Asks(d)
                 \/ Call!Accepts(d)
          PROVE  follows
      BY <3>2 DEF Call!Shown, Call!Expires, Call!Repeats, Call!Refuses, Call!Asks, Call!Accepts,
         Call!Sync, Call!Compiled
    <3>3. ASSUME NEW d \in Devices, NEW r \in Call!Rows, Call!Tap(d, r)
          PROVE  follows
      BY <3>3 DEF Call!Tap
    <3> QED BY <1>4, <3>1, <3>2, <3>3 DEF Call!Next
  <2> QED BY <1>1, <1>2, <2>1 DEF Call!VersionsOK
<1> QED BY <1>3, <1>4

LEMMA CallAsked ==
  ASSUME Call!CallShapesOK, Call!StoreOK, NEW d \in Devices, Call!Sent(d)
  PROVE  /\ \A e \in Devices : x6'[e].sent <= MaxSends
         /\ Call!Entry(d)' = Call!Entry(d)
<1>1. MaxSends \in Nat /\ x6 \in [Devices -> Call!TapRecords] /\ x6[d].sent \in Nat /\ x6[d].sent < MaxSends
  BY DeskAssumption DEF Call!CallShapesOK, Call!TapRecords, Call!Sent
<1>2. x6' = [x6 EXCEPT ![d].sent = @ + 1]
  BY DEF Call!Sent
<1>3. x6'[d].sent = x6[d].sent + 1 /\ x6'[d].n = x6[d].n
  BY <1>1, <1>2 DEF Call!TapRecords
<1>4. \A e \in Devices \ {d} : x6'[e] = x6[e]
  BY <1>1, <1>2
<1>5. \A e \in Devices : x6'[e].sent <= MaxSends
  BY <1>1, <1>3, <1>4 DEF Call!StoreOK
<1> QED BY <1>3, <1>5 DEF Call!Entry

LEMMA CallStored ==
  ASSUME Call!CallShapesOK, Call!StoreOK, Call!Next
  PROVE  Call!StoreOK'
<1> DEFINE limit == IF x11.on THEN MaxStore + 1 ELSE MaxStore
<1>1. /\ MaxStore \in Nat /\ x8 \in Seq(Devices \X Nat) /\ Len(x8) \in Nat /\ Len(x8) <= limit
      /\ x11 \in Call!JobRecords /\ (x11.on => x11.device \in Devices /\ Call!Known(x11.device))
      /\ x15 \in BOOLEAN /\ \A d \in Devices : x6[d].sent <= MaxSends
  BY DeskAssumption DEF Call!CallShapesOK, Call!StoreOK
<1>2. CASE \/ \E r \in Call!Rows : Call!Edit(r)
           \/ Call!Tick
           \/ \E d \in Devices : Call!Shown(d) \/ Call!Expires(d)
  <2>1. UNCHANGED <<x6, x8, x11, x15>>
    BY <1>2 DEF Call!Edit, Call!Tick, Call!Shown, Call!Expires
  <2> QED BY <2>1 DEF Call!StoreOK, Call!Known, Call!Entry
<1>3. CASE Call!Runs
  <2>1. /\ x11.on /\ x11' = [x11 EXCEPT !.text = 0] /\ UNCHANGED <<x6, x8>> /\ x15' \in BOOLEAN
    BY <1>1, <1>3 DEF Call!Runs
  <2>2. x11'.on = x11.on /\ x11'.device = x11.device
    BY <1>1, <2>1 DEF Call!JobRecords
  <2> QED BY <2>1, <2>2 DEF Call!StoreOK, Call!Known, Call!Entry
<1>4. CASE Call!Fails
  <2>1. /\ x11.on /\ x11' = [x11 EXCEPT !.text = 0] /\ UNCHANGED <<x6, x8, x15>>
    BY <1>1, <1>4 DEF Call!Fails
  <2>2. x11'.on = x11.on /\ x11'.device = x11.device
    BY <1>1, <2>1 DEF Call!JobRecords
  <2> QED BY <2>1, <2>2 DEF Call!StoreOK, Call!Known, Call!Entry
<1>5. CASE Call!Ends
  <2>1. x11.on /\ x11'.on = FALSE /\ x8' = Call!Trimmed(x8) /\ UNCHANGED <<x6, x15>>
    BY <1>1, <1>5 DEF Call!Ends, Call!NoJob
  <2>2. Len(x8') <= MaxStore
    <3>1. CASE Len(x8) > MaxStore
      BY <1>1, <2>1, <3>1 DEF Call!Trimmed
    <3>2. CASE ~(Len(x8) > MaxStore)
      BY <1>1, <2>1, <3>2 DEF Call!Trimmed
    <3> QED BY <3>1, <3>2
  <2> QED BY <1>1, <2>1, <2>2 DEF Call!StoreOK
<1>6. CASE Call!Dies
  <2>1. x11'.on = FALSE /\ Len(x8') = 0 /\ UNCHANGED <<x6, x15>>
    BY <1>6 DEF Call!Dies, Call!NoJob
  <2> QED BY <1>1, <2>1 DEF Call!StoreOK
<1>7. ASSUME NEW d \in Devices, Call!Repeats(d) \/ Call!Refuses(d) \/ Call!Asks(d)
      PROVE  Call!StoreOK'
  <2>1. Call!Sent(d) /\ ~x11.on /\ UNCHANGED <<x8, x11, x15>>
    BY <1>7 DEF Call!Repeats, Call!Refuses, Call!Asks, Call!Sent
  <2>2. \A e \in Devices : x6'[e].sent <= MaxSends
    BY <2>1, CallAsked
  <2> QED BY <1>1, <2>1, <2>2 DEF Call!StoreOK
<1>8. ASSUME NEW d \in Devices, Call!Accepts(d)
      PROVE  Call!StoreOK'
  <2>1. Call!Sent(d) /\ ~x11.on /\ x8' = Append(x8, Call!Entry(d)) /\ x11'.on = TRUE /\ x11'.device = d /\ x15' = x15
    BY <1>8 DEF Call!Accepts, Call!Sent, Call!Store
  <2>2. (\A e \in Devices : x6'[e].sent <= MaxSends) /\ Call!Entry(d)' = Call!Entry(d)
    BY <2>1, CallAsked
  <2>3. Call!Entry(d) \in Devices \X Nat
    BY DEF Call!Entry, Call!CallShapesOK, Call!TapRecords
  <2>4. Len(x8') = Len(x8) + 1 /\ x8'[Len(x8) + 1] = Call!Entry(d) /\ Len(x8) + 1 \in DOMAIN x8'
    BY <1>1, <2>1, <2>3
  <2>5. Len(x8') <= MaxStore + 1
    BY <1>1, <2>1, <2>4
  <2>6. (Call!Entry(d) \in Call!ToSet(x8))'
    BY <2>2, <2>4 DEF Call!ToSet
  <2> QED BY <1>1, <2>1, <2>2, <2>5, <2>6 DEF Call!StoreOK, Call!Known
<1>9. ASSUME NEW d \in Devices, NEW r \in Call!Rows, Call!Tap(d, r)
      PROVE  Call!StoreOK'
  <2>1. PICK t : /\ t.sent = 0 /\ x6' = [x6 EXCEPT ![d] = t] /\ ~(x11.on /\ x11.device = d)
                 /\ UNCHANGED <<x8, x11, x15>>
    BY <1>9 DEF Call!Tap
  <2>2. 0 <= MaxSends /\ x6 \in [Devices -> Call!TapRecords]
    BY DeskAssumption DEF Call!CallShapesOK
  <2>3. \A e \in Devices : x6'[e].sent <= MaxSends
    BY <1>1, <2>1, <2>2
  <2>4. ASSUME x11.on PROVE x6'[x11.device] = x6[x11.device]
    BY <1>1, <2>1, <2>2, <2>4
  <2>5. (x11.on => Call!Known(x11.device))'
    BY <1>1, <2>1, <2>4 DEF Call!Known, Call!Entry
  <2> QED BY <1>1, <2>1, <2>3, <2>5 DEF Call!StoreOK
<1> QED BY <1>2, <1>3, <1>4, <1>5, <1>6, <1>7, <1>8, <1>9 DEF Call!Next

LEMMA CallTypes ==
  ASSUME Call!CallInv, Call!VersionsOK, Call!StoreOK, Call!Next
  PROVE  Call!VersionsOK' /\ Call!StoreOK'
<1>1. Call!CallShapesOK /\ x2 \in Nat
  BY DEF Call!CallInv, Call!CallShapesOK
<1> QED BY <1>1, CallVersions, CallStored

LEMMA CallTypesInit ==
  ASSUME Call!Init
  PROVE  Call!VersionsOK /\ Call!StoreOK
<1>1. 0 <= MaxStore /\ 0 <= MaxSends /\ MaxRowEdits \in Nat
  BY DeskAssumption
<1>2. Call!VersionsOK
  BY <1>1 DEF Call!Init, Call!VersionsOK
<1>3. Call!StoreOK
  BY <1>1 DEF Call!Init, Call!StoreOK, Call!NoJob, Call!NoTap
<1> QED BY <1>2, <1>3

LEMMA CallTypesStay ==
  ASSUME Call!VersionsOK, Call!StoreOK, UNCHANGED Call!callVars
  PROVE  Call!VersionsOK' /\ Call!StoreOK'
  BY DEF Call!callVars, Call!VersionsOK, Call!StoreOK, Call!Known, Call!Entry

LEMMA CallTyped ==
  ASSUME Call!CallInv, Call!VersionsOK, Call!StoreOK
  PROVE  Call!TypeOK
<1>1. \A d \in Devices : x6[d].sent \in 0..MaxSends
  BY DeskAssumption DEF Call!CallInv, Call!CallShapesOK, Call!TapRecords, Call!StoreOK
<1>2. x9 \subseteq Devices
  BY DEF Call!CallInv, Call!CallShapesOK
<1> QED BY <1>1, <1>2 DEF Call!VersionsOK, Call!StoreOK, Call!TypeOK

-----------------------------------------------------------------------------
(* Types of every behaviour, with what the parts keep besides. *)

TypesInv ==
  /\ part = "tree" => Tree!IdsOK
  /\ part = "layout" => Layout!NamesOK /\ Layout!MadeOK
  /\ part = "probe" => Probe!SeenOK /\ Probe!CountsOK
  /\ part = "call" => Call!VersionsOK /\ Call!StoreOK
  /\ part = "pam" => Pam!VersionsOK /\ Pam!FlagsOK
  /\ part = "file" => File!DocsOK /\ File!EditsOK /\ File!FlagsOK
  /\ part = "serve" => Serve!TypeOK
  /\ part = "sun" => Sun!TypeOK
  /\ part = "sock" => Sock!ListensOK

LEMMA TypesInit == Init => TypesInv
  BY TreeTypesInit, LayoutTypesInit, ProbeTypesInit, CallTypesInit, PamTypesInit, FileTypesInit,
     ServeTypesInit, SunTypesInit, SockTypesInit DEF Init, TypesInv

LEMMA TypesStutter ==
  ASSUME TypesInv, UNCHANGED all
  PROVE  TypesInv'
<1>1. part' = part
  BY DEF all
<1>2. UNCHANGED Tree!treeVars /\ UNCHANGED Layout!layoutVars /\ UNCHANGED Probe!probeVars
  BY DEF all, Tree!treeVars, Layout!layoutVars, Probe!probeVars
<1>3. UNCHANGED Call!callVars /\ UNCHANGED Pam!pamVars /\ UNCHANGED File!fileVars
  BY DEF all, Call!callVars, Pam!pamVars, File!fileVars
<1>4. UNCHANGED Serve!serveVars /\ UNCHANGED Sun!sunshineVars /\ UNCHANGED Sock!socketVars
  BY DEF all, Serve!serveVars, Sun!sunshineVars, Sock!socketVars
<1> QED BY <1>1, <1>2, <1>3, <1>4, TreeTypesStay, LayoutTypesStay, ProbeTypesStay, CallTypesStay,
       PamTypesStay, FileTypesStay, ServeTypesStay, SunTypesStay, SockTypesStay DEF TypesInv

LEMMA TypesNext ==
  ASSUME TreesPartInv, InstalledInv, InstalledInv', DeskInv, TypesInv, Next
  PROVE  TypesInv'
<1>1. part' = part
  BY DEF Next
<1>2. part = "tree" => (Tree!IdsOK)'
  <2> HAVE part = "tree"
  <2>1. Tree!Next
    BY DEF Next
  <2> QED BY <2>1, TreeTypes DEF TreesPartInv, TypesInv
<1>3. part = "layout" => (Layout!NamesOK /\ Layout!MadeOK)'
  <2> HAVE part = "layout"
  <2>1. Layout!Next
    BY DEF Next
  <2> QED BY <2>1, LayoutNames, LayoutMade DEF DeskInv, TypesInv
<1>4. part = "probe" => (Probe!SeenOK /\ Probe!CountsOK)'
  <2> HAVE part = "probe"
  <2>1. Probe!Next
    BY DEF Next
  <2> QED BY <2>1, ProbeSeen, ProbeCounts DEF DeskInv, TypesInv
<1>5. part = "call" => (Call!VersionsOK /\ Call!StoreOK)'
  <2> HAVE part = "call"
  <2>1. Call!Next
    BY DEF Next
  <2> QED BY <2>1, CallTypes DEF DeskInv, TypesInv
<1>6. part = "pam" => (Pam!VersionsOK /\ Pam!FlagsOK)'
  <2> HAVE part = "pam"
  <2>1. Pam!Next
    BY DEF Next
  <2> QED BY <2>1, PamTypes DEF InstalledInv, TypesInv
<1>7. part = "file" => (File!DocsOK /\ File!EditsOK /\ File!FlagsOK)'
  <2> HAVE part = "file"
  <2>1. File!Next
    BY DEF Next
  <2> QED BY <2>1, FileTypes DEF TypesInv
<1>8. part = "serve" => Serve!TypeOK'
  <2> HAVE part = "serve"
  <2>1. Serve!Next
    BY DEF Next
  <2> QED BY <1>1, <2>1, ServeTypes DEF InstalledInv, TypesInv
<1>9. part = "sun" => Sun!TypeOK'
  <2> HAVE part = "sun"
  <2>1. Sun!Next
    BY DEF Next
  <2> QED BY <2>1, SunTypes DEF TypesInv
<1>10. part = "sock" => Sock!ListensOK'
  <2> HAVE part = "sock"
  <2>1. Sock!Next
    BY DEF Next
  <2> QED BY <2>1, SockTypes DEF InstalledInv, TypesInv
<1> QED BY <1>1, <1>2, <1>3, <1>4, <1>5, <1>6, <1>7, <1>8, <1>9, <1>10 DEF TypesInv

LEMMA TypesAlways == Spec => []TypesInv
<1>1. Init => TypesInv
  BY TypesInit
<1>2. TreesPartInv /\ InstalledInv /\ InstalledInv' /\ DeskInv /\ TypesInv /\ [Next]_all => TypesInv'
  BY TypesStutter, TypesNext
<1> QED BY <1>1, <1>2, TreesAlways, InstalledAlways, DeskAlways, PTL DEF Spec

LEMMA CondTyped ==
  ASSUME Cond!CondInv
  PROVE  Cond!TypeOK
  BY DEF Cond!CondInv, Cond!CondShapesOK, Cond!ThreadRecords, Cond!TypeOK

LEMMA ServedTypes ==
  ASSUME InstalledInv, TypesInv
  PROVE  /\ part = "pam" => Pam!TypeOK
         /\ part = "file" => File!TypeOK
         /\ part = "serve" => Serve!TypeOK
         /\ part = "sun" => Sun!TypeOK
         /\ part = "sock" => Sock!TypeOK
  BY PamTyped, FileTyped, SockTyped DEF InstalledInv, TypesInv

LEMMA DeskTypes ==
  ASSUME DeskInv, TypesInv
  PROVE  /\ part = "cond" => Cond!TypeOK
         /\ part = "layout" => Layout!TypeOK
         /\ part = "probe" => Probe!TypeOK
         /\ part = "call" => Call!TypeOK
  BY CondTyped, LayoutTyped, ProbeTyped, CallTyped DEF DeskInv, TypesInv

(***************************************************************************)
(* Whatever happens at the desk and on the host's disk, each part keeps    *)
(* its types: no more outcomes are on record than the store may hold, the  *)
(* generation of the workspaces counts no action twice, and what is in a   *)
(* file was written to one.                                                *)
(***************************************************************************)
THEOREM HostKeepsTypes == Spec => []TypeOK
<1>1. ApprovalsInv => (part = "approve" => Approve!TypeOK)
  BY DEF ApprovalsInv, Approve!ApprovalInv
<1>2. MicrophoneInv => (part = "mic" => Mic!TypeOK)
  BY DEF MicrophoneInv, Mic!MicInv
<1>3. TreesPartInv /\ TypesInv => (part = "tree" => Tree!TypeOK)
  BY TreeTyped DEF TreesPartInv, TypesInv
<1>4. ApprovalsInv /\ MicrophoneInv /\ TreesPartInv /\ InstalledInv /\ DeskInv /\ TypesInv => TypeOK
  BY <1>1, <1>2, <1>3, ServedTypes, DeskTypes, Zenon DEF TypeOK
<1> QED BY <1>4, ApprovalsAlways, MicrophoneAlways, TreesAlways, InstalledAlways, DeskAlways,
       TypesAlways, PTL
=============================================================================
