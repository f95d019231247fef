---------------------------- MODULE AgentProofs -----------------------------
(***************************************************************************)
(* Proofs about the parts of MCAgent: of each, that its invariant          *)
(* (PromptInv, SeenInv, ThreadInv, PushInv, ChatInv) is inductive, one     *)
(* lemma for each step, and that what the run checks, and the types,       *)
(* follow from it. The parts share no state and part never changes: a step *)
(* is one of the part it names, and the claim is about that part alone.    *)
(***************************************************************************)
EXTENDS MCAgent, SequenceTheorems, TLAPS

-----------------------------------------------------------------------------
(* Sequences, place by place. *)

\* What a sequence holds after a second one was put to its end, place by place.
LEMMA SeqLonger ==
  ASSUME NEW S, NEW q \in Seq(S), NEW s \in Seq(S), NEW p, p = q \o s
  PROVE  /\ p \in Seq(S) /\ Len(p) = Len(q) + Len(s) /\ Len(q) \in Nat /\ Len(s) \in Nat
         /\ \A i \in 1..Len(q) : p[i] = q[i]
         /\ \A i \in 1..Len(s) : p[Len(q) + i] = s[i]
         /\ \A i \in 1..Len(p) : i \in 1..Len(q) \/ (i - Len(q) \in 1..Len(s) /\ p[i] = s[i - Len(q)])
<1>1. p \in Seq(S) /\ Len(p) = Len(q) + Len(s) /\ Len(q) \in Nat /\ Len(s) \in Nat
  OBVIOUS
<1>2. \A i \in 1..Len(q) : p[i] = q[i]
  OBVIOUS
<1>3. \A i \in 1..Len(s) : p[Len(q) + i] = s[i]
  OBVIOUS
<1>4. \A i \in 1..Len(p) : i \in 1..Len(q) \/ (i - Len(q) \in 1..Len(s) /\ p[i] = s[i - Len(q)])
  <2>1. SUFFICES ASSUME NEW i \in 1..Len(p), i \notin 1..Len(q)
                 PROVE  i - Len(q) \in 1..Len(s) /\ p[i] = s[i - Len(q)]
    OBVIOUS
  <2>2. i - Len(q) \in 1..Len(s) /\ Len(q) + (i - Len(q)) = i
    BY <1>1, <2>1
  <2> QED BY <1>3, <2>2
<1> QED BY <1>1, <1>2, <1>3, <1>4

\* What a sequence holds after its head was taken off, place by place.
LEMMA SeqRest ==
  ASSUME NEW S, NEW q \in Seq(S), q # <<>>
  PROVE  /\ Tail(q) \in Seq(S) /\ Len(q) \in Nat /\ Len(q) >= 1 /\ Len(Tail(q)) = Len(q) - 1
         /\ Head(q) = q[1] /\ Head(q) \in S
         /\ \A i \in 1..Len(Tail(q)) : i + 1 \in 1..Len(q) /\ Tail(q)[i] = q[i + 1]
         /\ \A i \in 1..Len(q) : i = 1 \/ (i - 1 \in 1..Len(Tail(q)) /\ Tail(q)[i - 1] = q[i])
<1>1. /\ Tail(q) \in Seq(S) /\ Len(q) \in Nat /\ Len(q) >= 1 /\ Len(Tail(q)) = Len(q) - 1
      /\ Head(q) = q[1] /\ Head(q) \in S
  OBVIOUS
<1>2. \A i \in 1..Len(Tail(q)) : i + 1 \in 1..Len(q) /\ Tail(q)[i] = q[i + 1]
  BY <1>1
<1>3. \A i \in 1..Len(q) : i = 1 \/ (i - 1 \in 1..Len(Tail(q)) /\ Tail(q)[i - 1] = q[i])
  <2>1. SUFFICES ASSUME NEW i \in 1..Len(q), i # 1
                 PROVE  i - 1 \in 1..Len(Tail(q)) /\ Tail(q)[i - 1] = q[i]
    OBVIOUS
  <2>2. i - 1 \in 1..Len(Tail(q)) /\ (i - 1) + 1 = i
    BY <1>1, <2>1
  <2> QED BY <1>2, <2>2
<1> QED BY <1>1, <1>2, <1>3

-----------------------------------------------------------------------------
(* The prompts: each step keeps PromptInv, and so does every behaviour. *)

LEMMA PromptSubmit ==
  ASSUME Prompt!PromptInv, NEW r \in PromptIds, Prompt!Submit(r)
  PROVE  Prompt!PromptInv'
  BY SMTT(10), PromptAssumption DEF Prompt!Submit, Prompt!Known, Prompt!PromptInv,
     Prompt!StoreOK, Prompt!LockOK, Prompt!JournalOK, Prompt!Marks, Prompt!Outcomes,
     Prompt!Fits, Prompt!Unsent

LEMMA PromptEnsure ==
  ASSUME Prompt!PromptInv, Prompt!Ensure
  PROVE  Prompt!PromptInv'
  BY SMTT(10), PromptAssumption DEF Prompt!Ensure, Prompt!Ends, Prompt!PromptInv, Prompt!StoreOK,
     Prompt!LockOK, Prompt!JournalOK, Prompt!Marks, Prompt!Outcomes, Prompt!Fits, Prompt!Unsent

LEMMA PromptCreatePane ==
  ASSUME Prompt!PromptInv, Prompt!CreatePane
  PROVE  Prompt!PromptInv'
  BY SMTT(10), PromptAssumption DEF Prompt!CreatePane, Prompt!Ends, Prompt!PromptInv,
     Prompt!StoreOK, Prompt!LockOK, Prompt!JournalOK, Prompt!Marks, Prompt!Outcomes,
     Prompt!Fits, Prompt!Unsent

LEMMA PromptStartAgent ==
  ASSUME Prompt!PromptInv, Prompt!StartAgent
  PROVE  Prompt!PromptInv'
  BY SMTT(10), PromptAssumption DEF Prompt!StartAgent, Prompt!Ends, Prompt!PromptInv,
     Prompt!StoreOK, Prompt!LockOK, Prompt!JournalOK, Prompt!Marks, Prompt!Outcomes,
     Prompt!Fits, Prompt!Unsent

LEMMA PromptJournal ==
  ASSUME Prompt!PromptInv, Prompt!Journal
  PROVE  Prompt!PromptInv'
<1>1. CASE x1 = "idle"
  <2>1. /\ x5 = "ready" /\ x5' = "send" /\ UNCHANGED <<x1, x4, x8, x9, x10, x11>>
        /\ \E old : /\ x12' = x12 \cup old
                    /\ x6' = [q \in PromptIds |-> IF q = x4 THEN "unknown" ELSE IF q \in old THEN "none"
                                                                          ELSE x6[q]]
    BY <1>1 DEF Prompt!Journal, Prompt!WriteFirst
  <2>2. Prompt!StoreOK'
    BY <2>1 DEF Prompt!PromptInv, Prompt!StoreOK, Prompt!Marks, Prompt!Outcomes
  <2>3. Prompt!LockOK'
    BY <2>1 DEF Prompt!PromptInv, Prompt!StoreOK, Prompt!LockOK
  <2>4. Prompt!JournalOK'
    BY <2>1 DEF Prompt!PromptInv, Prompt!StoreOK, Prompt!LockOK, Prompt!JournalOK, Prompt!Fits,
       Prompt!Unsent
  <2> QED BY <2>2, <2>3, <2>4 DEF Prompt!PromptInv
<1>2. CASE x1 # "idle"
  <2>1. x5 = "ready" /\ x5' = "free" /\ x4' = Nobody /\ UNCHANGED <<x1, x6, x8, x9, x10, x11, x12>>
    BY <1>2 DEF Prompt!Journal, Prompt!Ends
  <2> QED BY <2>1 DEF Prompt!PromptInv, Prompt!StoreOK, Prompt!LockOK, Prompt!JournalOK,
     Prompt!Fits, Prompt!Unsent, Prompt!Marks, Prompt!Outcomes
<1> QED BY <1>1, <1>2

LEMMA PromptPrompt ==
  ASSUME Prompt!PromptInv, Prompt!Prompt
  PROVE  Prompt!PromptInv'
  BY SMTT(10), PromptAssumption DEF Prompt!Prompt, Prompt!Reaches, Prompt!Stays, Prompt!Unproven,
     Prompt!Ends, Prompt!PromptInv, Prompt!StoreOK, Prompt!LockOK, Prompt!JournalOK,
     Prompt!Marks, Prompt!Outcomes, Prompt!Fits, Prompt!Unsent

LEMMA PromptRecord ==
  ASSUME Prompt!PromptInv, Prompt!Record
  PROVE  Prompt!PromptInv'
  BY SMTT(10), PromptAssumption DEF Prompt!Record, Prompt!Ends, Prompt!PromptInv, Prompt!StoreOK,
     Prompt!LockOK, Prompt!JournalOK, Prompt!Marks, Prompt!Outcomes, Prompt!Fits, Prompt!Unsent

LEMMA PromptAgentIdles ==
  ASSUME Prompt!PromptInv, Prompt!AgentIdles
  PROVE  Prompt!PromptInv'
  BY SMTT(10), PromptAssumption DEF Prompt!AgentIdles, Prompt!PromptInv, Prompt!StoreOK,
     Prompt!LockOK, Prompt!JournalOK, Prompt!Marks, Prompt!Outcomes, Prompt!Fits, Prompt!Unsent

LEMMA PromptRevoke ==
  ASSUME Prompt!PromptInv, Prompt!Revoke
  PROVE  Prompt!PromptInv'
<1>1. x11' \in BOOLEAN /\ UNCHANGED <<x1, x4, x5, x6, x8, x9, x10, x12>>
  BY DEF Prompt!Revoke
<1> QED BY <1>1 DEF Prompt!PromptInv, Prompt!StoreOK, Prompt!LockOK, Prompt!JournalOK, Prompt!Fits,
   Prompt!Unsent, Prompt!Marks, Prompt!Outcomes

LEMMA PromptCrash ==
  ASSUME Prompt!PromptInv, Prompt!Crash
  PROVE  Prompt!PromptInv'
  BY SMTT(10), PromptAssumption DEF Prompt!Crash, Prompt!Ends, Prompt!PromptInv, Prompt!StoreOK,
     Prompt!LockOK, Prompt!JournalOK, Prompt!Marks, Prompt!Outcomes, Prompt!Fits, Prompt!Unsent

\* A step that changes nothing of the part.
LEMMA PromptStays ==
  ASSUME Prompt!PromptInv, UNCHANGED <<x1, x2, x3, x4, x5, x6, x7, x8, x9, x10, x11, x12, x13, x14>>
  PROVE  Prompt!PromptInv'
  BY DEF Prompt!PromptInv, Prompt!StoreOK, Prompt!LockOK, Prompt!JournalOK, Prompt!Unsent

LEMMA PromptNext ==
  ASSUME Prompt!PromptInv, Prompt!Next
  PROVE  Prompt!PromptInv'
<1>1. ASSUME NEW r \in PromptIds, Prompt!Submit(r) PROVE Prompt!PromptInv'
  BY <1>1, PromptSubmit
<1>2. CASE Prompt!Ensure \/ Prompt!CreatePane \/ Prompt!StartAgent \/ Prompt!Journal \/ Prompt!Prompt \/ Prompt!Record
  BY <1>2, PromptEnsure, PromptCreatePane, PromptStartAgent, PromptJournal, PromptPrompt,
     PromptRecord
<1>3. CASE Prompt!AgentIdles \/ Prompt!Revoke \/ Prompt!Crash
  BY <1>3, PromptAgentIdles, PromptRevoke, PromptCrash
<1> QED BY <1>1, <1>2, <1>3 DEF Prompt!Next

LEMMA PromptInit ==
  ASSUME Prompt!Init
  PROVE  Prompt!PromptInv
  BY PromptAssumption DEF Prompt!Init, Prompt!PromptInv, Prompt!StoreOK, Prompt!LockOK,
     Prompt!JournalOK, Prompt!Fits,
     Prompt!Unsent, Prompt!Marks, Prompt!Outcomes

\* What the run checks of it follows.
LEMMA PromptSent ==
  ASSUME Prompt!PromptInv
  PROVE  Prompt!SentOnce /\ Prompt!ToldTruly
  BY DEF Prompt!SentOnce, Prompt!ToldTruly, Prompt!PromptInv, Prompt!StoreOK, Prompt!JournalOK,
     Prompt!Fits

\* The claim about the part, of every behaviour.
LEMMA PromptAlways == Spec => [](part = "prompt" => Prompt!PromptInv)
<1> DEFINE Inv == part = "prompt" => Prompt!PromptInv
<1>1. Init => Inv
  BY PromptInit DEF Init
<1>2. Inv /\ [Next]_all => Inv'
  <2> SUFFICES ASSUME Inv, [Next]_all, part' = "prompt" PROVE Prompt!PromptInv'
    OBVIOUS
  <2>1. CASE UNCHANGED all
    <3>1. UNCHANGED <<part, x1, x2, x3, x4, x5, x6, x7, x8, x9, x10, x11, x12, x13, x14>>
      BY <2>1 DEF all
    <3> QED BY <3>1, PromptStays
  <2>2. CASE Next
    <3>1. part = "prompt" /\ Prompt!Next
      BY <2>2 DEF Next
    <3> QED BY <3>1, PromptNext
  <2> QED BY <2>1, <2>2
<1> QED BY <1>1, <1>2, PTL DEF Spec

-----------------------------------------------------------------------------
(* What is seen and what is listed: each step keeps SeenInv, and so does every behaviour. *)

LEMMA SeenPollReads ==
  ASSUME Seen!SeenInv, Seen!PollReads
  PROVE  Seen!SeenInv'
<1>1. Seen!TypeOK'
  BY SMTT(10), SeenAssumption DEF Seen!PollReads, Seen!At, Seen!ledger, Seen!SeenInv,
     Seen!TypeOK, Seen!Keys, Seen!Statuses, Seen!ThreadOK, Seen!Threads, Seen!Works, Seen!Reads,
     Seen!Steps
<1>2. Seen!ThreadOK'
  <2>1. "poll" \in Seen!Threads
    BY DEF Seen!Threads
  <2>2. PICK r : r = [x9["poll"] EXCEPT !.at = "rows"]
    OBVIOUS
  <2>3. r \in Seen!Works /\ r.at = "rows"
    BY <2>1, <2>2 DEF Seen!SeenInv, Seen!ThreadOK, Seen!Works, Seen!Steps
  <2>4. [r EXCEPT !.also = TRUE] \in Seen!Works /\ [r EXCEPT !.also = TRUE].at = "rows"
    BY <2>3 DEF Seen!Works
  <2>5. PICK q : q = [r EXCEPT !.also = TRUE]
    OBVIOUS
  <2>6. x9' = [x9 EXCEPT !["poll"] = q]
    <3>1. x9' = [x9 EXCEPT !["poll"].at = "rows", !["poll"].also = TRUE]
      BY DEF Seen!PollReads
    <3>2. x9 = [t \in Seen!Threads |-> x9[t]]
      BY DEF Seen!SeenInv, Seen!ThreadOK
    <3> QED BY <2>1, <2>2, <2>5, <3>1, <3>2
  <2>7. q \in Seen!Works /\ q.at = "rows" /\ q.also = TRUE
    BY <2>4, <2>5, <2>3
  <2> QED BY <2>1, <2>6, <2>7 DEF Seen!SeenInv, Seen!ThreadOK, Seen!Reads, Seen!At
<1>3. Seen!UnseenComes'
  BY SMTT(10), SeenAssumption DEF Seen!PollReads, Seen!At, Seen!ledger, Seen!SeenInv,
     Seen!UnseenComes, Seen!Unseen, Seen!Threads, Seen!Keys, Seen!TypeOK, Seen!ThreadOK,
     Seen!Statuses, Seen!Works, Seen!Reads, Seen!Steps
<1>4. Seen!ListComes'
  BY SMTT(10), SeenAssumption DEF Seen!PollReads, Seen!At, Seen!ledger, Seen!SeenInv,
     Seen!ListComes, Seen!Listed, Seen!Threads, Seen!Comes, Seen!Reads, Seen!AsItIs, Seen!Keys,
     Seen!State, Seen!TypeOK, Seen!ThreadOK, Seen!Statuses, Seen!Works, Seen!Steps
<1>5. Seen!WatchedIsSeen'
  BY SMTT(10), SeenAssumption DEF Seen!PollReads, Seen!At, Seen!ledger, Seen!SeenInv,
     Seen!WatchedIsSeen, Seen!Keys, Seen!TypeOK, Seen!ThreadOK, Seen!Statuses, Seen!Threads,
     Seen!Works, Seen!Reads, Seen!Steps
<1> QED BY <1>1, <1>2, <1>3, <1>4, <1>5 DEF Seen!SeenInv

LEMMA SeenPollObserves ==
  ASSUME Seen!SeenInv, Seen!PollObserves
  PROVE  Seen!SeenInv'
  BY SMTT(10), SeenAssumption DEF Seen!PollObserves, Seen!At, Seen!Go, Seen!Keys, Seen!NoRow,
     Seen!Observe, Seen!shown, Seen!Working, Seen!SeenInv, Seen!TypeOK, Seen!ThreadOK,
     Seen!UnseenComes, Seen!ListComes, Seen!WatchedIsSeen, Seen!Statuses, Seen!Threads,
     Seen!Works, Seen!Reads, Seen!Unseen, Seen!Listed, Seen!Comes, Seen!AsItIs, Seen!Steps,
     Seen!State

LEMMA SeenAgentMoves ==
  ASSUME Seen!SeenInv, NEW s \in Seen!Statuses, Seen!AgentMoves(s)
  PROVE  Seen!SeenInv'
<1>1. Seen!TypeOK'
  BY SMTT(10), SeenAssumption DEF Seen!AgentMoves, Seen!At, Seen!Observe, Seen!NoRow,
     Seen!Working, Seen!SeenInv, Seen!TypeOK, Seen!Keys, Seen!Statuses, Seen!ThreadOK,
     Seen!Threads, Seen!Works, Seen!Reads, Seen!Steps
<1>2. Seen!ThreadOK'
  <2>1. "loop" \in Seen!Threads
    BY DEF Seen!Threads
  <2>2. PICK r : r = [x9["loop"] EXCEPT !.at = "unseen"]
    OBVIOUS
  <2>3. r \in Seen!Works /\ r.at = "unseen"
    BY <2>1, <2>2 DEF Seen!SeenInv, Seen!ThreadOK, Seen!Works, Seen!Steps
  <2>4. [r EXCEPT !.also = TRUE] \in Seen!Works /\ [r EXCEPT !.also = TRUE].at = "unseen"
    BY <2>3 DEF Seen!Works
  <2>5. PICK q : q = [r EXCEPT !.also = TRUE]
    OBVIOUS
  <2>6. x9' = [x9 EXCEPT !["loop"] = q]
    <3>1. x9' = [x9 EXCEPT !["loop"].at = "unseen", !["loop"].also = TRUE]
      BY DEF Seen!AgentMoves
    <3>2. x9 = [t \in Seen!Threads |-> x9[t]]
      BY DEF Seen!SeenInv, Seen!ThreadOK
    <3> QED BY <2>1, <2>2, <2>5, <3>1, <3>2
  <2>7. q \in Seen!Works /\ q.at = "unseen" /\ q.also = TRUE
    BY <2>4, <2>5, <2>3
  <2> QED BY <2>1, <2>6, <2>7 DEF Seen!SeenInv, Seen!ThreadOK, Seen!Reads, Seen!At
<1>3. Seen!UnseenComes'
  BY SMTT(10), SeenAssumption DEF Seen!AgentMoves, Seen!At, Seen!Observe, Seen!NoRow,
     Seen!Working, Seen!SeenInv, Seen!UnseenComes, Seen!Unseen, Seen!Threads, Seen!Keys,
     Seen!TypeOK, Seen!ThreadOK, Seen!Statuses, Seen!Works, Seen!Reads, Seen!Steps
<1>4. Seen!ListComes'
  BY SMTT(10), SeenAssumption DEF Seen!AgentMoves, Seen!At, Seen!Observe, Seen!NoRow,
     Seen!Working, Seen!SeenInv, Seen!ListComes, Seen!Listed, Seen!Threads, Seen!Comes,
     Seen!Reads, Seen!AsItIs, Seen!Keys, Seen!State, Seen!TypeOK, Seen!ThreadOK, Seen!Statuses,
     Seen!Works, Seen!Steps
<1>5. Seen!WatchedIsSeen'
  BY SMTT(10), SeenAssumption DEF Seen!AgentMoves, Seen!At, Seen!Observe, Seen!NoRow,
     Seen!Working, Seen!SeenInv, Seen!WatchedIsSeen, Seen!Keys, Seen!TypeOK, Seen!ThreadOK,
     Seen!Statuses, Seen!Threads, Seen!Works, Seen!Reads, Seen!Steps
<1> QED BY <1>1, <1>2, <1>3, <1>4, <1>5 DEF Seen!SeenInv

LEMMA SeenPaneMoves ==
  ASSUME Seen!SeenInv, NEW p \in SeenPanes, NEW s \in Seen!Statuses, Seen!PaneMoves(p, s)
  PROVE  Seen!SeenInv'
  BY SMTT(10), SeenAssumption DEF Seen!PaneMoves, Seen!ledger, Seen!shown, Seen!SeenInv,
     Seen!TypeOK, Seen!ThreadOK, Seen!UnseenComes, Seen!ListComes, Seen!WatchedIsSeen,
     Seen!Keys, Seen!Statuses, Seen!Threads, Seen!Works, Seen!At, Seen!Reads, Seen!Unseen,
     Seen!Listed, Seen!Comes, Seen!AsItIs, Seen!Steps, Seen!State

LEMMA SeenOpen ==
  ASSUME Seen!SeenInv, NEW k \in Seen!Keys, Seen!Open(k)
  PROVE  Seen!SeenInv'
  BY SMTT(10), SeenAssumption DEF Seen!Open, Seen!At, Seen!Seen, Seen!Go, Seen!shown,
     Seen!SeenInv, Seen!TypeOK, Seen!ThreadOK, Seen!UnseenComes, Seen!ListComes,
     Seen!WatchedIsSeen, Seen!Keys, Seen!Statuses, Seen!Threads, Seen!Works, Seen!Reads,
     Seen!Unseen, Seen!Listed, Seen!Comes, Seen!AsItIs, Seen!Steps, Seen!State

LEMMA SeenClose ==
  ASSUME Seen!SeenInv, NEW k \in Seen!Keys, Seen!Close(k)
  PROVE  Seen!SeenInv'
  BY SMTT(10), SeenAssumption DEF Seen!Close, Seen!At, Seen!shown, Seen!SeenInv, Seen!TypeOK,
     Seen!ThreadOK, Seen!UnseenComes, Seen!ListComes, Seen!WatchedIsSeen, Seen!Keys,
     Seen!Statuses, Seen!Threads, Seen!Works, Seen!Reads, Seen!Unseen, Seen!Listed, Seen!Comes,
     Seen!AsItIs, Seen!Steps, Seen!State

LEMMA SeenMark ==
  ASSUME Seen!SeenInv, NEW t \in Callers, NEW p \in SeenPanes, Seen!Mark(t, p)
  PROVE  Seen!SeenInv'
  BY SMTT(10), SeenAssumption DEF Seen!Mark, Seen!At, Seen!Go, Seen!Seen, Seen!shown,
     Seen!SeenInv, Seen!TypeOK, Seen!ThreadOK, Seen!UnseenComes, Seen!ListComes,
     Seen!WatchedIsSeen, Seen!Keys, Seen!Statuses, Seen!Threads, Seen!Works, Seen!Reads,
     Seen!Unseen, Seen!Listed, Seen!Comes, Seen!AsItIs, Seen!Steps, Seen!State

LEMMA SeenPublishUnseen ==
  ASSUME Seen!SeenInv, NEW t \in Seen!Threads, Seen!PublishUnseen(t)
  PROVE  Seen!SeenInv'
  BY SMTT(10), SeenAssumption DEF Seen!PublishUnseen, Seen!At, Seen!Value, Seen!ledger,
     Seen!Unseen, Seen!Keys, Seen!SeenInv, Seen!TypeOK, Seen!ThreadOK, Seen!UnseenComes,
     Seen!ListComes, Seen!WatchedIsSeen, Seen!Statuses, Seen!Threads, Seen!Works, Seen!Reads,
     Seen!Listed, Seen!Comes, Seen!AsItIs, Seen!Steps, Seen!State

LEMMA SeenFinish ==
  ASSUME Seen!SeenInv, NEW t \in Seen!Threads, Seen!Finish(t)
  PROVE  Seen!SeenInv'
<1>1. Seen!TypeOK'
  BY SMTT(10), SeenAssumption DEF Seen!Finish, Seen!At, Seen!Go, Seen!Rest, Seen!ledger,
     Seen!SeenInv, Seen!TypeOK, Seen!Keys, Seen!Statuses, Seen!ThreadOK, Seen!Threads,
     Seen!Works, Seen!Reads, Seen!Steps
<1>2. Seen!ThreadOK'
  <2>1. CASE x9' = [x9 EXCEPT ![t].at = "over"] /\ x9[t].also = TRUE
    <3>1. [x9[t] EXCEPT !.at = "over"] \in Seen!Works
      BY DEF Seen!SeenInv, Seen!ThreadOK, Seen!Works, Seen!Steps
    <3> QED BY <2>1, <3>1 DEF Seen!SeenInv, Seen!ThreadOK, Seen!Reads, Seen!At, Seen!Finish
  <2>2. CASE x9' = [x9 EXCEPT ![t] = Seen!Rest]
    <3>1. Seen!Rest \in Seen!Works /\ Seen!Rest.at = "idle"
      BY DEF Seen!Works, Seen!Rest, Seen!Steps, Seen!Statuses
    <3> QED BY <2>2, <3>1 DEF Seen!SeenInv, Seen!ThreadOK, Seen!Reads, Seen!At, Seen!Finish
  <2> QED BY <2>1, <2>2 DEF Seen!SeenInv, Seen!ThreadOK, Seen!Works, Seen!Finish, Seen!Go
<1>3. Seen!UnseenComes'
  BY SMTT(10), SeenAssumption DEF Seen!Finish, Seen!At, Seen!Go, Seen!Rest, Seen!ledger,
     Seen!SeenInv, Seen!UnseenComes, Seen!Unseen, Seen!Threads, Seen!Keys, Seen!TypeOK,
     Seen!ThreadOK, Seen!Statuses, Seen!Works, Seen!Reads, Seen!Steps
<1>4. Seen!ListComes'
  BY SMTT(10), SeenAssumption DEF Seen!Finish, Seen!At, Seen!Go, Seen!Rest, Seen!ledger,
     Seen!SeenInv, Seen!ListComes, Seen!Listed, Seen!Threads, Seen!Comes, Seen!Reads,
     Seen!AsItIs, Seen!Keys, Seen!State, Seen!TypeOK, Seen!ThreadOK, Seen!Statuses, Seen!Works,
     Seen!Steps
<1>5. Seen!WatchedIsSeen'
  BY SMTT(10), SeenAssumption DEF Seen!Finish, Seen!At, Seen!Go, Seen!Rest, Seen!ledger,
     Seen!SeenInv, Seen!WatchedIsSeen, Seen!Keys, Seen!TypeOK, Seen!ThreadOK, Seen!Statuses,
     Seen!Threads, Seen!Works, Seen!Reads, Seen!Steps
<1> QED BY <1>1, <1>2, <1>3, <1>4, <1>5 DEF Seen!SeenInv

LEMMA SeenListAgent ==
  ASSUME Seen!SeenInv, NEW t \in Seen!Threads, Seen!ListAgent(t)
  PROVE  Seen!SeenInv'
<1>1. Seen!TypeOK'
  BY SMTT(10), SeenAssumption DEF Seen!ListAgent, Seen!At, Seen!Free, Seen!ledger, Seen!shown,
     Seen!Threads, Seen!SeenInv, Seen!TypeOK, Seen!Keys, Seen!Statuses, Seen!ThreadOK,
     Seen!Works, Seen!Reads, Seen!Steps
<1>2. Seen!ThreadOK'
  BY SMTT(10), SeenAssumption DEF Seen!ListAgent, Seen!At, Seen!Free, Seen!ledger, Seen!shown,
     Seen!Threads, Seen!SeenInv, Seen!ThreadOK, Seen!Works, Seen!Reads, Seen!Steps,
     Seen!Statuses, Seen!Keys, Seen!TypeOK
<1>3. Seen!UnseenComes'
  BY SMTT(10), SeenAssumption DEF Seen!ListAgent, Seen!At, Seen!Free, Seen!ledger, Seen!shown,
     Seen!Threads, Seen!SeenInv, Seen!UnseenComes, Seen!Unseen, Seen!Keys, Seen!TypeOK,
     Seen!ThreadOK, Seen!Statuses, Seen!Works, Seen!Reads, Seen!Steps
<1>4. Seen!ListComes'
  BY SMTT(10), SeenAssumption DEF Seen!ListAgent, Seen!At, Seen!Free, Seen!ledger, Seen!shown,
     Seen!Threads, Seen!SeenInv, Seen!ListComes, Seen!Listed, Seen!Comes, Seen!Reads,
     Seen!AsItIs, Seen!Keys, Seen!State, Seen!TypeOK, Seen!ThreadOK, Seen!Statuses, Seen!Works,
     Seen!Steps
<1>5. Seen!WatchedIsSeen'
  BY SMTT(10), SeenAssumption DEF Seen!ListAgent, Seen!At, Seen!Free, Seen!ledger, Seen!shown,
     Seen!Threads, Seen!SeenInv, Seen!WatchedIsSeen, Seen!Keys, Seen!TypeOK, Seen!ThreadOK,
     Seen!Statuses, Seen!Works, Seen!Reads, Seen!Steps
<1> QED BY <1>1, <1>2, <1>3, <1>4, <1>5 DEF Seen!SeenInv

LEMMA SeenListUnseen ==
  ASSUME Seen!SeenInv, NEW t \in Seen!Threads, Seen!ListUnseen(t)
  PROVE  Seen!SeenInv'
  BY SMTT(10), SeenAssumption DEF Seen!ListUnseen, Seen!At, Seen!ledger, Seen!shown,
     Seen!SeenInv, Seen!TypeOK, Seen!ThreadOK, Seen!UnseenComes, Seen!ListComes,
     Seen!WatchedIsSeen, Seen!Keys, Seen!Statuses, Seen!Threads, Seen!Works, Seen!Reads,
     Seen!Unseen, Seen!Listed, Seen!Comes, Seen!AsItIs, Seen!Steps, Seen!State

LEMMA SeenListRows ==
  ASSUME Seen!SeenInv, NEW t \in Seen!Threads, Seen!ListRows(t)
  PROVE  Seen!SeenInv'
  BY SMTT(10), SeenAssumption DEF Seen!ListRows, Seen!At, Seen!Listed, Seen!Rest, Seen!ledger,
     Seen!Keys, Seen!State, Seen!SeenInv, Seen!TypeOK, Seen!ThreadOK, Seen!UnseenComes,
     Seen!ListComes, Seen!WatchedIsSeen, Seen!Statuses, Seen!Threads, Seen!Works, Seen!Reads,
     Seen!Unseen, Seen!Comes, Seen!AsItIs, Seen!Steps

\* A step that changes nothing of the part.
LEMMA SeenStays ==
  ASSUME Seen!SeenInv, UNCHANGED <<x1, x2, x3, x4, x5, x6, x7, x8, x9, x10>>
  PROVE  Seen!SeenInv'
  BY DEF Seen!SeenInv, Seen!TypeOK, Seen!ThreadOK, Seen!UnseenComes, Seen!ListComes,
     Seen!WatchedIsSeen, Seen!Works, Seen!At, Seen!Reads, Seen!Unseen, Seen!Listed, Seen!Comes,
     Seen!AsItIs

LEMMA SeenNext ==
  ASSUME Seen!SeenInv, Seen!Next
  PROVE  Seen!SeenInv'
<1>1. CASE Seen!PollReads \/ Seen!PollObserves
  BY <1>1, SeenPollReads, SeenPollObserves
<1>2. ASSUME NEW s \in Seen!Statuses, Seen!AgentMoves(s) PROVE Seen!SeenInv'
  BY <1>2, SeenAgentMoves
<1>3. ASSUME NEW p \in SeenPanes, NEW s \in Seen!Statuses, Seen!PaneMoves(p, s) PROVE Seen!SeenInv'
  BY <1>3, SeenPaneMoves
<1>4. ASSUME NEW k \in Seen!Keys, Seen!Open(k) \/ Seen!Close(k) PROVE Seen!SeenInv'
  BY <1>4, SeenOpen, SeenClose
<1>5. ASSUME NEW t \in Callers, NEW p \in SeenPanes, Seen!Mark(t, p) PROVE Seen!SeenInv'
  BY <1>5, SeenMark
<1>6. ASSUME NEW t \in Seen!Threads, Seen!Publishes(t) PROVE Seen!SeenInv'
  BY <1>6, SeenPublishUnseen, SeenFinish, SeenListAgent, SeenListUnseen, SeenListRows DEF
     Seen!Publishes
<1> QED BY <1>1, <1>2, <1>3, <1>4, <1>5, <1>6 DEF Seen!Next

LEMMA SeenInit ==
  ASSUME Seen!Init
  PROVE  Seen!SeenInv
<1> USE SeenAssumption DEF Seen!Init
<1>1. Seen!TypeOK
  BY DEF Seen!TypeOK, Seen!Keys, Seen!Statuses, Seen!NoRow
<1>2. \A t \in Seen!Threads : x9[t] = Seen!Rest /\ x9[t].at = "idle"
  BY DEF Seen!Rest
<1>3. Seen!Rest \in Seen!Works
  BY DEF Seen!Rest, Seen!Works, Seen!Steps, Seen!Statuses
<1>4. Seen!ThreadOK
  BY <1>2, <1>3 DEF Seen!ThreadOK, Seen!At, Seen!Reads, Seen!Threads
<1>5. \A k \in Seen!Keys : x2[k].fin = "none"
  BY DEF Seen!NoRow
<1>6. Seen!UnseenComes /\ Seen!WatchedIsSeen
  BY <1>5 DEF Seen!UnseenComes, Seen!Unseen, Seen!WatchedIsSeen
<1>7. x8 = Seen!Listed(x6, x7)
  BY DEF Seen!Listed, Seen!State, Seen!Keys, Seen!Working
<1>8. Seen!ListComes
  BY <1>2, <1>7 DEF Seen!ListComes, Seen!Reads, Seen!At
<1> QED BY <1>1, <1>4, <1>6, <1>8 DEF Seen!SeenInv

\* What the run checks of it follows.
LEMMA SeenTold ==
  ASSUME Seen!SeenInv
  PROVE  Seen!ToldOrToCome /\ Seen!WatchedIsSeen
<1>1. ASSUME x8 # Seen!Listed(x6, x7) PROVE \E t \in Seen!Threads : Seen!Current(t)
  <2>1. PICK t \in Seen!Threads : Seen!Comes(t) \/ (Seen!Reads(t) /\ Seen!AsItIs(t))
    BY <1>1 DEF Seen!SeenInv, Seen!ListComes
  <2> QED BY <2>1 DEF Seen!Current, Seen!Comes, Seen!Reads, Seen!AsItIs, Seen!At
<1> QED BY <1>1 DEF Seen!SeenInv, Seen!UnseenComes, Seen!ToldOrToCome

\* The claim about the part, of every behaviour.
LEMMA SeenAlways == Spec => [](part = "seen" => Seen!SeenInv)
<1> DEFINE Inv == part = "seen" => Seen!SeenInv
<1>1. Init => Inv
  BY SeenInit DEF Init
<1>2. Inv /\ [Next]_all => Inv'
  <2> SUFFICES ASSUME Inv, [Next]_all, part' = "seen" PROVE Seen!SeenInv'
    OBVIOUS
  <2>1. CASE UNCHANGED all
    <3>1. UNCHANGED <<part, x1, x2, x3, x4, x5, x6, x7, x8, x9, x10>>
      BY <2>1 DEF all
    <3> QED BY <3>1, SeenStays
  <2>2. CASE Next
    <3>1. part = "seen" /\ Seen!Next
      BY <2>2 DEF Next
    <3> QED BY <3>1, SeenNext
  <2> QED BY <2>1, <2>2
<1> QED BY <1>1, <1>2, PTL DEF Spec

-----------------------------------------------------------------------------
(* The thread: its operations and records, field by field; each step keeps ThreadInv, and so
   does every behaviour. *)

\* The bounds are numbers.
LEMMA ThreadNat == MaxThreads \in Nat /\ MaxAsks \in Nat /\ MaxCuts \in Nat /\ MaxEnds \in Nat
  BY ThreadAssumption

\* Going on to another step, an operation stays what it is.
LEMMA ThreadGoes ==
  ASSUME Thread!StateOK, NEW a \in Thread!Steps, Thread!Goto(a)
  PROVE  /\ x11' \in Thread!Ops /\ x11'.at = a
         /\ x11'.do = x11.do /\ x11'.old = x11.old /\ x11'.new = x11.new
  BY DEF Thread!StateOK, Thread!Goto, Thread!Ops

\* So it does when it goes on with a thread codex named.
LEMMA ThreadNames ==
  ASSUME Thread!StateOK, NEW a \in Thread!Steps, NEW t \in 0..MaxThreads,
         x11' = [x11 EXCEPT !.at = a, !.new = t]
  PROVE  /\ x11' \in Thread!Ops /\ x11'.at = a /\ x11'.new = t
         /\ x11'.do = x11.do /\ x11'.old = x11.old
<1>1. PICK r : r = [x11 EXCEPT !.at = a]
  OBVIOUS
<1>2. r \in Thread!Ops /\ r.at = a /\ r.do = x11.do /\ r.old = x11.old
  BY <1>1 DEF Thread!StateOK, Thread!Ops
<1>3. x11' = [r EXCEPT !.new = t]
  BY <1>1
<1> QED BY <1>2, <1>3 DEF Thread!Ops

\* So it does when it has looked at the pane.
LEMMA ThreadProbes ==
  ASSUME Thread!StateOK, Thread!Probe
  PROVE  /\ x11' \in Thread!Ops /\ x11'.at = "own" /\ x11'.do = "ensure"
         /\ x11'.old = x11.old /\ x11'.new = x11.new
<1>1. PICK r : r = [x11 EXCEPT !.at = "own"]
  OBVIOUS
<1>2. r \in Thread!Ops /\ r.at = "own" /\ r.do = "ensure" /\ r.old = x11.old /\ r.new = x11.new
  BY <1>1 DEF Thread!StateOK, Thread!Ops, Thread!Steps, Thread!Probe, Thread!At
<1>3. x11' = [r EXCEPT !.seen = (x13 # "shell")]
  BY <1>1 DEF Thread!Probe
<1> QED BY <1>2, <1>3 DEF Thread!Ops

\* An operation begins with no new thread.
LEMMA ThreadBegins ==
  ASSUME NEW do \in {"none", "ensure", "new", "lost"}, NEW a \in Thread!Steps, NEW t \in 0..MaxThreads
  PROVE  LET o == Thread!Begin(do, a, t) IN
         o \in Thread!Ops /\ o.do = do /\ o.at = a /\ o.old = t /\ o.new = 0
  BY ThreadNat DEF Thread!Begin, Thread!Ops

\* No operation is one of a fixed shape.
LEMMA ThreadRest ==
  LET o == Thread!Rest IN o \in Thread!Ops /\ o.do = "none" /\ o.at = "none" /\ o.old = 0 /\ o.new = 0
  BY ThreadNat DEF Thread!Rest, Thread!Begin, Thread!Ops, Thread!Steps

\* The record of a thread, and the one that notes a first creation, are not none.
LEMMA ThreadRecords ==
  ASSUME NEW t \in 0..MaxThreads, NEW r \in {"none", "new", "empty"}
  PROVE  /\ Thread!Pending(t, r) \in Thread!Records /\ Thread!Pending(t, r) # Thread!NoRecord
         /\ Thread!Pending(t, r).thread = 0 /\ Thread!Pending(t, r).prev = t
         /\ Thread!Plain(t) \in Thread!Records /\ (t # 0 => Thread!Plain(t) # Thread!NoRecord)
         /\ Thread!Plain(t).thread = t /\ Thread!Plain(t).prev = 0
  BY ThreadNat DEF Thread!Pending, Thread!Plain, Thread!NoRecord, Thread!Records

\* No record names a thread.
LEMMA ThreadNoRecord == Thread!NoRecord.thread = 0 /\ Thread!NoRecord.prev = 0
  BY DEF Thread!NoRecord, Thread!Plain

LEMMA ThreadEnsure ==
  ASSUME Thread!ThreadInv, Thread!Ensure
  PROVE  Thread!ThreadInv'
<1>1. UNCHANGED <<x1, x3, x4, x5, x12, x13, x14, x15, x16>>
  BY DEF Thread!Ensure, Thread!codex
<1>2. x8' = 0 /\ x9' = FALSE /\ x11 = Thread!Rest /\ x11' = Thread!Begin("ensure", "probe", 0)
  BY DEF Thread!Ensure
<1>3. x11' \in Thread!Ops /\ x11'.do = "ensure" /\ x11'.at = "probe" /\ x11'.old = 0 /\ x11'.new = 0
        /\ x11' # Thread!Rest
  BY ThreadNat, <1>2, ThreadBegins, ThreadRest DEF Thread!Steps
<1>4. Thread!StateOK'
  BY ThreadNat, <1>1, <1>2, <1>3 DEF Thread!ThreadInv, Thread!StateOK
<1>5. Thread!OpOK'
  BY ThreadNat, <1>1, <1>2, <1>3 DEF Thread!ThreadInv, Thread!OpOK, Thread!HandOK, Thread!StateOK
<1>6. Thread!HandOK'
  BY ThreadNat, <1>1, <1>2, <1>3 DEF Thread!ThreadInv, Thread!HandOK, Thread!OpOK, Thread!StateOK
<1>7. Thread!FirstOK'
  BY ThreadNat, <1>1, <1>2, <1>3 DEF Thread!ThreadInv, Thread!FirstOK, Thread!OpOK, Thread!StateOK
<1>8. Thread!ChatOK'
  BY ThreadNat, <1>1, <1>2, <1>3 DEF Thread!ThreadInv, Thread!ChatOK, Thread!Away, Thread!Current,
     Thread!OpOK, Thread!HandOK, Thread!StateOK
<1>9. Thread!EmptyOK'
  BY ThreadNat, <1>1, <1>2, <1>3 DEF Thread!ThreadInv, Thread!EmptyOK, Thread!OpOK, Thread!HandOK,
     Thread!StateOK
<1> QED BY <1>4, <1>5, <1>6, <1>7, <1>8, <1>9 DEF Thread!ThreadInv

LEMMA ThreadProbe ==
  ASSUME Thread!ThreadInv, Thread!Probe
  PROVE  Thread!ThreadInv'
<1>1. UNCHANGED <<x1, x3, x4, x5, x8, x9, x12, x13, x14, x15, x16>>
  BY DEF Thread!Probe, Thread!codex, Thread!chatv
<1>2. x11.do = "ensure" /\ x11.at = "probe"
  BY DEF Thread!Probe, Thread!At
<1>3. x11' \in Thread!Ops /\ x11'.at = "own" /\ x11'.do = "ensure" /\ x11'.old = x11.old /\ x11'.new = x11.new
        /\ x11' # Thread!Rest
  BY ThreadProbes, ThreadRest DEF Thread!ThreadInv
<1>4. Thread!StateOK'
  BY ThreadNat, <1>1, <1>2, <1>3 DEF Thread!ThreadInv, Thread!StateOK
<1>5. Thread!OpOK'
  BY ThreadNat, <1>1, <1>2, <1>3 DEF Thread!ThreadInv, Thread!OpOK, Thread!HandOK, Thread!StateOK
<1>6. Thread!HandOK'
  BY ThreadNat, <1>1, <1>2, <1>3 DEF Thread!ThreadInv, Thread!HandOK, Thread!OpOK, Thread!StateOK
<1>7. Thread!FirstOK'
  BY ThreadNat, <1>1, <1>2, <1>3 DEF Thread!ThreadInv, Thread!FirstOK, Thread!OpOK, Thread!StateOK
<1>8. Thread!ChatOK'
  BY ThreadNat, <1>1, <1>2, <1>3 DEF Thread!ThreadInv, Thread!ChatOK, Thread!Away, Thread!Current,
     Thread!OpOK, Thread!HandOK, Thread!StateOK
<1>9. Thread!EmptyOK'
  BY ThreadNat, <1>1, <1>2, <1>3 DEF Thread!ThreadInv, Thread!EmptyOK, Thread!OpOK, Thread!HandOK,
     Thread!StateOK
<1> QED BY <1>4, <1>5, <1>6, <1>7, <1>8, <1>9 DEF Thread!ThreadInv

LEMMA ThreadNewConversation ==
  ASSUME Thread!ThreadInv, Thread!NewConversation
  PROVE  Thread!ThreadInv'
<1>1. UNCHANGED <<x1, x3, x4, x5, x9, x12, x13, x14, x15, x16>> /\ (x8' = x8 \/ x8' = 0)
  BY DEF Thread!NewConversation, Thread!codex
<1>2. x11 = Thread!Rest /\ Thread!Current # 0 /\ x11' = Thread!Begin("new", "own", Thread!Current)
  BY DEF Thread!NewConversation
<1>3. Thread!Current \in 0..x5 /\ x5 \in 0..MaxThreads
  BY DEF Thread!ThreadInv, Thread!StateOK, Thread!Current
<1>4. x11' \in Thread!Ops /\ x11'.do = "new" /\ x11'.at = "own" /\ x11'.old = Thread!Current /\ x11'.new = 0
        /\ x11' # Thread!Rest
  BY ThreadNat, <1>2, <1>3, ThreadBegins, ThreadRest DEF Thread!Steps
<1>5. Thread!Current' = Thread!Current
  BY <1>1 DEF Thread!Current
<1>6. x8' \in 0..x5 /\ x11'.old \in 0..x5 /\ x11'.new \in 0..x5
  BY <1>1, <1>3, <1>4 DEF Thread!ThreadInv, Thread!StateOK
<1>7. Thread!StateOK'
  BY ThreadNat, <1>1, <1>2, <1>3, <1>4, <1>5, <1>6 DEF Thread!ThreadInv, Thread!StateOK
<1>8. Thread!OpOK'
  BY ThreadNat, <1>1, <1>2, <1>3, <1>4, <1>5, <1>6 DEF Thread!ThreadInv, Thread!OpOK, Thread!HandOK,
     Thread!StateOK
<1>9. Thread!HandOK'
  BY ThreadNat, <1>1, <1>2, <1>3, <1>4, <1>5, <1>6 DEF Thread!ThreadInv, Thread!HandOK, Thread!OpOK,
     Thread!StateOK
<1>10. Thread!FirstOK'
  BY ThreadNat, <1>1, <1>2, <1>3, <1>4, <1>5, <1>6 DEF Thread!ThreadInv, Thread!FirstOK,
     Thread!OpOK, Thread!StateOK
<1>11. Thread!ChatOK'
  BY ThreadNat, <1>1, <1>2, <1>3, <1>4, <1>5, <1>6 DEF Thread!ThreadInv, Thread!ChatOK, Thread!Away,
     Thread!Current, Thread!OpOK, Thread!HandOK, Thread!StateOK
<1>12. Thread!EmptyOK'
  BY ThreadNat, <1>1, <1>2, <1>3, <1>4, <1>5, <1>6 DEF Thread!ThreadInv, Thread!EmptyOK,
     Thread!OpOK, Thread!HandOK, Thread!StateOK
<1> QED BY <1>7, <1>8, <1>9, <1>10, <1>11, <1>12 DEF Thread!ThreadInv

LEMMA ThreadRecoverEmpty ==
  ASSUME Thread!ThreadInv, Thread!RecoverEmpty
  PROVE  Thread!ThreadInv'
<1>1. UNCHANGED <<x1, x3, x4, x5, x8, x9, x12, x13, x14, x15, x16>>
  BY DEF Thread!RecoverEmpty, Thread!codex, Thread!chatv
<1>2. x11 = Thread!Rest /\ x1.thread # 0 /\ x11' = Thread!Begin("lost", "own", x1.thread) /\ (x8 = 0 \/ ~x9)
  BY DEF Thread!RecoverEmpty
<1>3. x1.thread \in 0..x5 /\ x5 \in 0..MaxThreads
  BY DEF Thread!ThreadInv, Thread!StateOK
<1>4. x11' \in Thread!Ops /\ x11'.do = "lost" /\ x11'.at = "own" /\ x11'.old = x1.thread /\ x11'.new = 0
        /\ x11' # Thread!Rest
  BY ThreadNat, <1>2, <1>3, ThreadBegins, ThreadRest DEF Thread!Steps
<1>5. Thread!StateOK'
  BY ThreadNat, <1>1, <1>2, <1>3, <1>4 DEF Thread!ThreadInv, Thread!StateOK
<1>6. Thread!OpOK'
  BY ThreadNat, <1>1, <1>2, <1>3, <1>4 DEF Thread!ThreadInv, Thread!OpOK, Thread!HandOK,
     Thread!StateOK
<1>7. Thread!HandOK'
  BY ThreadNat, <1>1, <1>2, <1>3, <1>4 DEF Thread!ThreadInv, Thread!HandOK, Thread!OpOK,
     Thread!StateOK
<1>8. Thread!FirstOK'
  BY ThreadNat, <1>1, <1>2, <1>3, <1>4 DEF Thread!ThreadInv, Thread!FirstOK, Thread!OpOK,
     Thread!StateOK
<1>9. Thread!ChatOK'
  BY ThreadNat, <1>1, <1>2, <1>3, <1>4 DEF Thread!ThreadInv, Thread!ChatOK, Thread!Away,
     Thread!Current, Thread!OpOK, Thread!HandOK, Thread!StateOK
<1>10. Thread!EmptyOK'
  BY ThreadNat, <1>1, <1>2, <1>3, <1>4 DEF Thread!ThreadInv, Thread!EmptyOK, Thread!OpOK,
     Thread!HandOK, Thread!StateOK
<1> QED BY <1>5, <1>6, <1>7, <1>8, <1>9, <1>10 DEF Thread!ThreadInv

LEMMA ThreadOwn ==
  ASSUME Thread!ThreadInv, Thread!Own
  PROVE  Thread!ThreadInv'
<1>1. UNCHANGED <<x1, x3, x4, x5, x8, x9, x12, x13, x14, x15, x16>>
  BY DEF Thread!Own, Thread!codex, Thread!chatv
<1>2. x11.at = "own" /\ x12 \notin {"connect", "resume"}
  BY DEF Thread!Own, Thread!OwnerFree
<1>3. \/ /\ x11' \in Thread!Ops /\ x11'.at = "connect" /\ x11' # Thread!Rest
         /\ x11'.do = x11.do /\ x11'.old = x11.old /\ x11'.new = x11.new
      \/ x11' = Thread!Rest
  BY ThreadGoes, ThreadRest DEF Thread!ThreadInv, Thread!Own, Thread!Refuse, Thread!Steps
<1>4. Thread!Rest \in Thread!Ops /\ Thread!Rest.do = "none" /\ Thread!Rest.at = "none"
        /\ Thread!Rest.old = 0 /\ Thread!Rest.new = 0
  BY ThreadRest
<1>5. x11.do # "none"
  BY <1>2 DEF Thread!ThreadInv, Thread!OpOK
<1>6. Thread!StateOK'
  BY ThreadNat, <1>1, <1>2, <1>3, <1>4, <1>5 DEF Thread!ThreadInv, Thread!StateOK
<1>7. Thread!OpOK'
  BY ThreadNat, <1>1, <1>2, <1>3, <1>4, <1>5 DEF Thread!ThreadInv, Thread!OpOK, Thread!HandOK,
     Thread!StateOK
<1>8. Thread!HandOK'
  BY ThreadNat, <1>1, <1>2, <1>3, <1>4, <1>5 DEF Thread!ThreadInv, Thread!HandOK, Thread!OpOK,
     Thread!StateOK
<1>9. Thread!FirstOK'
  BY ThreadNat, <1>1, <1>2, <1>3, <1>4, <1>5 DEF Thread!ThreadInv, Thread!FirstOK, Thread!OpOK,
     Thread!StateOK
<1>10. Thread!ChatOK'
  BY ThreadNat, <1>1, <1>2, <1>3, <1>4, <1>5 DEF Thread!ThreadInv, Thread!ChatOK, Thread!Away,
     Thread!Current, Thread!OpOK, Thread!HandOK, Thread!StateOK
<1>11. Thread!EmptyOK'
  BY ThreadNat, <1>1, <1>2, <1>3, <1>4, <1>5 DEF Thread!ThreadInv, Thread!EmptyOK, Thread!OpOK,
     Thread!HandOK, Thread!StateOK
<1> QED BY <1>6, <1>7, <1>8, <1>9, <1>10, <1>11 DEF Thread!ThreadInv

LEMMA ThreadConnect ==
  ASSUME Thread!ThreadInv, Thread!Connect
  PROVE  Thread!ThreadInv'
<1>1. UNCHANGED <<x1, x4, x5, x8, x9, x12, x13, x14, x15, x16>> /\ x3' \subseteq x3
  BY DEF Thread!Connect, Thread!Connected, Thread!codex, Thread!chatv
<1>2. x11.at = "connect"
  BY DEF Thread!Connect
<1>3. \/ /\ x11' \in Thread!Ops /\ x11'.at = "ask" /\ x11' # Thread!Rest
         /\ x11'.do = x11.do /\ x11'.old = x11.old /\ x11'.new = x11.new
      \/ x11' = Thread!Rest
  BY ThreadGoes, ThreadRest DEF Thread!ThreadInv, Thread!Connect, Thread!Refuse, Thread!Steps
<1>4. Thread!Rest \in Thread!Ops /\ Thread!Rest.do = "none" /\ Thread!Rest.at = "none"
        /\ Thread!Rest.old = 0 /\ Thread!Rest.new = 0
  BY ThreadRest
<1>5. Thread!StateOK'
  BY ThreadNat, <1>1, <1>2, <1>3, <1>4 DEF Thread!ThreadInv, Thread!StateOK
<1>6. Thread!OpOK'
  BY ThreadNat, <1>1, <1>2, <1>3, <1>4 DEF Thread!ThreadInv, Thread!OpOK, Thread!HandOK,
     Thread!StateOK
<1>7. Thread!HandOK'
  BY ThreadNat, <1>1, <1>2, <1>3, <1>4 DEF Thread!ThreadInv, Thread!HandOK, Thread!OpOK,
     Thread!StateOK
<1>8. Thread!FirstOK'
  BY ThreadNat, <1>1, <1>2, <1>3, <1>4 DEF Thread!ThreadInv, Thread!FirstOK, Thread!OpOK,
     Thread!StateOK
<1>9. Thread!ChatOK'
  BY ThreadNat, <1>1, <1>2, <1>3, <1>4 DEF Thread!ThreadInv, Thread!ChatOK, Thread!Away,
     Thread!Current, Thread!OpOK, Thread!HandOK, Thread!StateOK
<1>10. Thread!EmptyOK'
  BY ThreadNat, <1>1, <1>2, <1>3, <1>4 DEF Thread!ThreadInv, Thread!EmptyOK, Thread!OpOK,
     Thread!HandOK, Thread!StateOK
<1> QED BY <1>5, <1>6, <1>7, <1>8, <1>9, <1>10 DEF Thread!ThreadInv

LEMMA ThreadAsk ==
  ASSUME Thread!ThreadInv, Thread!Ask
  PROVE  Thread!ThreadInv'
<1>1. UNCHANGED <<x4, x5, x8, x9, x12, x13, x14, x15, x16>> /\ x11.at = "ask"
  BY DEF Thread!Ask, Thread!chatv
<1>2. x3' = x3 \/ \E t \in x3 \cup x4 : x3' = x3 \cup {t}
  BY DEF Thread!Ask, Thread!Intend, Thread!Refused, Thread!Resumable
<1>3. \/ x11' = Thread!Rest /\ x1' = x1
      \/ /\ x11.do = "ensure" /\ x1' = x1 /\ x1.thread # 0
         /\ x11' = [x11 EXCEPT !.at = "attach", !.new = x1.thread]
      \/ /\ Thread!Goto("start") /\ x3' = x3
         /\ \/ x11.do = "ensure" /\ x1 = Thread!NoRecord /\ x1' = Thread!Pending(0, "none")
            \/ x11.do = "ensure" /\ x1' = x1 /\ x1.thread = 0 /\ x1.prev # 0
            \/ x11.do = "new" /\ x1' = x1 /\ x1.thread = 0 /\ x1.prev = x11.old
            \/ x11.do = "new" /\ x1.thread = x11.old /\ x1' = Thread!Pending(x11.old, "new")
            \/ x11.do = "lost" /\ x11.old \notin x3 \cup x4 /\ x1' = Thread!Pending(x11.old, "empty")
  BY DEF Thread!Ask, Thread!Intend, Thread!Refused, Thread!Refuse, Thread!Raise, Thread!Resumable,
     Thread!Unfinished
<1>4. Thread!Rest \in Thread!Ops /\ Thread!Rest.do = "none" /\ Thread!Rest.at = "none"
        /\ Thread!Rest.old = 0 /\ Thread!Rest.new = 0
  BY ThreadRest
<1>5. /\ x1 \in Thread!Records /\ x5 \in 0..MaxThreads /\ x1.thread \in 0..x5 /\ x1.prev \in 0..x5
      /\ x11.old \in 0..x5 /\ x11.new \in 0..x5 /\ 0 \in 0..x5 /\ x5 \in Nat /\ x5 <= MaxThreads
      /\ x1.thread \in 0..MaxThreads /\ x1.prev \in 0..MaxThreads /\ x11.old \in 0..MaxThreads
      /\ x11.new \in 0..MaxThreads /\ 0 \in 0..MaxThreads
  BY ThreadNat DEF Thread!ThreadInv, Thread!StateOK
<1>6. Thread!Goto("start") =>
        /\ x11' \in Thread!Ops /\ x11'.at = "start" /\ x11' # Thread!Rest
           /\ x11'.do = x11.do /\ x11'.old = x11.old /\ x11'.new = x11.new
  BY ThreadGoes, ThreadRest DEF Thread!ThreadInv, Thread!Steps
<1>7. x11' = [x11 EXCEPT !.at = "attach", !.new = x1.thread] =>
        /\ x11' \in Thread!Ops /\ x11'.at = "attach" /\ x11' # Thread!Rest /\ x11'.new = x1.thread
        /\ x11'.do = x11.do /\ x11'.old = x11.old
  BY <1>5, ThreadNames, ThreadRest DEF Thread!ThreadInv, Thread!Steps
<1>8. /\ x1' = x1 \/ x1' = Thread!Pending(0, "none") \/ x1' = Thread!Pending(x11.old, "new")
         \/ x1' = Thread!Pending(x11.old, "empty")
      /\ x1' \in Thread!Records /\ x1'.thread \in 0..x5 /\ x1'.prev \in 0..x5
  BY <1>3, <1>5, ThreadRecords
<1>9. /\ \A t \in {0, x11.old}, r \in {"none", "new", "empty"} :
              /\ Thread!Pending(t, r) # Thread!NoRecord /\ Thread!Pending(t, r).thread = 0
              /\ Thread!Pending(t, r).prev = t
      /\ Thread!NoRecord.thread = 0 /\ Thread!NoRecord.prev = 0
  BY <1>5, ThreadRecords, ThreadNoRecord
<1>10. Thread!StateOK'
  BY ThreadNat, <1>1, <1>2, <1>3, <1>4, <1>5, <1>6, <1>7, <1>8, <1>9 DEF Thread!ThreadInv,
     Thread!StateOK
<1>11. Thread!OpOK'
  BY ThreadNat, <1>1, <1>2, <1>3, <1>4, <1>5, <1>6, <1>7, <1>8, <1>9 DEF Thread!ThreadInv,
     Thread!OpOK, Thread!HandOK, Thread!StateOK
<1>12. Thread!HandOK'
  BY ThreadNat, <1>1, <1>2, <1>3, <1>4, <1>5, <1>6, <1>7, <1>8, <1>9 DEF Thread!ThreadInv,
     Thread!HandOK, Thread!OpOK, Thread!StateOK
<1>13. Thread!FirstOK'
  BY ThreadNat, <1>1, <1>2, <1>3, <1>4, <1>5, <1>6, <1>7, <1>8, <1>9 DEF Thread!ThreadInv,
     Thread!FirstOK, Thread!OpOK, Thread!StateOK
<1>14. Thread!ChatOK'
  BY ThreadNat, <1>1, <1>2, <1>3, <1>4, <1>5, <1>6, <1>7, <1>8, <1>9 DEF Thread!ThreadInv,
     Thread!ChatOK, Thread!Away, Thread!Current, Thread!OpOK, Thread!HandOK, Thread!StateOK
<1>15. Thread!EmptyOK'
  BY ThreadNat, <1>1, <1>2, <1>3, <1>4, <1>5, <1>6, <1>7, <1>8, <1>9 DEF Thread!ThreadInv,
     Thread!EmptyOK, Thread!OpOK, Thread!HandOK, Thread!StateOK
<1> QED BY <1>10, <1>11, <1>12, <1>13, <1>14, <1>15 DEF Thread!ThreadInv

LEMMA ThreadStart ==
  ASSUME Thread!ThreadInv, Thread!Start
  PROVE  Thread!ThreadInv'
<1>1. UNCHANGED <<x1, x4, x12, x13, x14, x16>> /\ x11.at = "start"
  BY DEF Thread!Start, Thread!codex
<1>2. \/ x11' = Thread!Rest /\ UNCHANGED <<x3, x5, x8, x9>>
      \/ /\ x5 < MaxThreads /\ x5' = x5 + 1 /\ x3' = x3 \cup {x5 + 1} /\ x8' = x8
         /\ \/ x11' = [x11 EXCEPT !.at = "save", !.new = x5 + 1] /\ x9' = x9
            \/ x11' = Thread!Rest /\ (x9' = x9 \/ x9' = FALSE)
  BY DEF Thread!Start, Thread!Raise, Thread!codex, Thread!chatv
<1>3. Thread!Rest \in Thread!Ops /\ Thread!Rest.do = "none" /\ Thread!Rest.at = "none"
        /\ Thread!Rest.old = 0 /\ Thread!Rest.new = 0
  BY ThreadRest
<1>4. /\ x1 \in Thread!Records /\ x5 \in 0..MaxThreads /\ x1.thread \in 0..x5 /\ x1.prev \in 0..x5
      /\ x11.old \in 0..x5 /\ x11.new \in 0..x5 /\ 0 \in 0..x5 /\ x5 \in Nat /\ x5 <= MaxThreads
      /\ x1.thread \in 0..MaxThreads /\ x1.prev \in 0..MaxThreads /\ x11.old \in 0..MaxThreads
      /\ x11.new \in 0..MaxThreads /\ 0 \in 0..MaxThreads
  BY ThreadNat DEF Thread!ThreadInv, Thread!StateOK
<1>5. x5 < MaxThreads /\ x11' = [x11 EXCEPT !.at = "save", !.new = x5 + 1] =>
        /\ x11' \in Thread!Ops /\ x11'.at = "save" /\ x11' # Thread!Rest /\ x11'.new = x5 + 1
        /\ x11'.do = x11.do /\ x11'.old = x11.old
  <2> SUFFICES ASSUME x5 < MaxThreads, x11' = [x11 EXCEPT !.at = "save", !.new = x5 + 1]
               PROVE  /\ x11' \in Thread!Ops /\ x11'.at = "save" /\ x11' # Thread!Rest /\ x11'.new = x5 + 1
                      /\ x11'.do = x11.do /\ x11'.old = x11.old
    OBVIOUS
  <2>1. x5 + 1 \in 0..MaxThreads /\ "save" \in Thread!Steps
    BY <1>4, ThreadNat DEF Thread!Steps
  <2>2. Thread!StateOK
    BY DEF Thread!ThreadInv
  <2> QED BY <2>1, <2>2, ThreadNames, ThreadRest
<1>6. x11.do \in {"ensure", "new", "lost"} /\ (x11.do # "ensure" => x11.old # 0)
  BY <1>1, <1>4 DEF Thread!ThreadInv, Thread!OpOK, Thread!StateOK, Thread!Ops
<1>7. x15' = x15 \/ \E k \in 0..MaxThreads :
        /\ k = 0 => x11.do = "ensure" /\ x1.prev = 0
        /\ x15' = [x15 EXCEPT ![k] = x15[k] + 1]
  BY <1>4, <1>6 DEF Thread!Start, Thread!codex
<1>8. x15' \in [0..MaxThreads -> Nat]
  BY <1>7 DEF Thread!ThreadInv, Thread!StateOK
<1>9. /\ x15'[0] \in Nat /\ x15[0] \in Nat
      /\ x15'[0] = x15[0] \/ (x11.do = "ensure" /\ x1.prev = 0 /\ x15'[0] = x15[0] + 1)
  BY <1>4, <1>7, <1>8 DEF Thread!ThreadInv, Thread!StateOK
<1>10. x5' = x5 + 1 => 0..x5 \subseteq 0..x5' /\ 1..x5 \subseteq 1..x5' /\ x5 + 1 \in 1..x5' /\ x5 + 1 \in 0..x5'
  BY <1>4
<1>11. Thread!FirstOK'
  BY <1>1, <1>2, <1>3, <1>5, <1>6, <1>9 DEF Thread!ThreadInv, Thread!FirstOK
<1>12. ASSUME x5' = x5 + 1, x5 < MaxThreads, x3' = x3 \cup {x5 + 1}, x8' = x8, x11' \in Thread!Ops,
             x11'.old \in 0..x5', x11'.new \in 0..x5'
      PROVE  Thread!StateOK'
  <2>1. x5' \in 0..MaxThreads
    BY <1>4, <1>12, ThreadNat
  <2>2. x3' \subseteq 1..x5' /\ x4' \subseteq 1..x5' /\ x16' \subseteq 1..x5'
    BY <1>1, <1>10, <1>12 DEF Thread!ThreadInv, Thread!StateOK
  <2>3. x8' \in 0..x5' /\ x1' \in Thread!Records /\ x1'.thread \in 0..x5' /\ x1'.prev \in 0..x5'
    BY <1>1, <1>10, <1>12 DEF Thread!ThreadInv, Thread!StateOK
  <2> QED BY <1>8, <1>12, <2>1, <2>2, <2>3 DEF Thread!StateOK
<1>13. Thread!HandOK'
  BY <1>1, <1>2, <1>3, <1>5 DEF Thread!ThreadInv, Thread!HandOK
<1>14. CASE x11' = Thread!Rest /\ UNCHANGED <<x3, x5, x8, x9>>
  <2>1. Thread!StateOK'
    BY <1>1, <1>3, <1>4, <1>8, <1>14 DEF Thread!ThreadInv, Thread!StateOK
  <2>2. Thread!OpOK'
    BY <1>1, <1>3, <1>14 DEF Thread!ThreadInv, Thread!OpOK
  <2>3. Thread!ChatOK'
    BY <1>1, <1>3, <1>14 DEF Thread!ThreadInv, Thread!ChatOK, Thread!Away, Thread!Current
  <2>4. Thread!EmptyOK'
    BY <1>1, <1>3, <1>14 DEF Thread!ThreadInv, Thread!EmptyOK
  <2> QED BY <1>11, <1>13, <2>1, <2>2, <2>3, <2>4 DEF Thread!ThreadInv
<1>15. CASE /\ x5' = x5 + 1 /\ x5 < MaxThreads /\ x3' = x3 \cup {x5 + 1} /\ x8' = x8
            /\ x11' = Thread!Rest /\ (x9' = x9 \/ x9' = FALSE)
  <2>1. Thread!StateOK'
    BY <1>3, <1>4, <1>10, <1>15, <1>12
  <2>2. Thread!OpOK'
    BY <1>1, <1>3, <1>15 DEF Thread!ThreadInv, Thread!OpOK
  <2>3. Thread!ChatOK'
    BY <1>1, <1>3, <1>15 DEF Thread!ThreadInv, Thread!ChatOK, Thread!Away, Thread!Current
  <2>4. Thread!EmptyOK'
    BY <1>1, <1>3, <1>4, <1>15 DEF Thread!ThreadInv, Thread!EmptyOK, Thread!StateOK
  <2> QED BY <1>11, <1>13, <2>1, <2>2, <2>3, <2>4 DEF Thread!ThreadInv
<1>16. CASE /\ x5' = x5 + 1 /\ x5 < MaxThreads /\ x3' = x3 \cup {x5 + 1} /\ x8' = x8
            /\ x11' = [x11 EXCEPT !.at = "save", !.new = x5 + 1] /\ x9' = x9
  <2>1. /\ x11' \in Thread!Ops /\ x11'.at = "save" /\ x11' # Thread!Rest /\ x11'.new = x5 + 1
        /\ x11'.do = x11.do /\ x11'.old = x11.old
     BY <1>5, <1>16
  <2>2. Thread!StateOK'
    BY <1>4, <1>10, <1>16, <1>12, <2>1
  <2>3. Thread!OpOK'
    BY <1>1, <1>4, <2>1, <1>16 DEF Thread!ThreadInv, Thread!OpOK
  <2>4. Thread!ChatOK'
    BY <1>1, <2>1, <1>16 DEF Thread!ThreadInv, Thread!ChatOK, Thread!Away, Thread!Current
  <2>5. Thread!EmptyOK'
    BY <1>1, <2>1, <1>4, <1>16 DEF Thread!ThreadInv, Thread!EmptyOK, Thread!StateOK
  <2> QED BY <1>11, <1>13, <2>2, <2>3, <2>4, <2>5 DEF Thread!ThreadInv
<1> QED BY <1>2, <1>14, <1>15, <1>16

LEMMA ThreadSave ==
  ASSUME Thread!ThreadInv, Thread!Save
  PROVE  Thread!ThreadInv'
<1>1. UNCHANGED <<x3, x4, x5, x9, x12, x13, x14, x15>> /\ x11.at = "save"
  BY DEF Thread!Save, Thread!codex
<1>2. Thread!Rest \in Thread!Ops /\ Thread!Rest.do = "none" /\ Thread!Rest.at = "none"
        /\ Thread!Rest.old = 0 /\ Thread!Rest.new = 0
  BY ThreadRest
<1>3. /\ x1 \in Thread!Records /\ x5 \in 0..MaxThreads /\ x1.thread \in 0..x5 /\ x1.prev \in 0..x5
      /\ x11.old \in 0..x5 /\ x11.new \in 0..x5 /\ 0 \in 0..x5 /\ x5 \in Nat /\ x5 <= MaxThreads
      /\ x1.thread \in 0..MaxThreads /\ x1.prev \in 0..MaxThreads /\ x11.old \in 0..MaxThreads
      /\ x11.new \in 0..MaxThreads /\ 0 \in 0..MaxThreads
  BY ThreadNat DEF Thread!ThreadInv, Thread!StateOK
<1>4. Thread!Goto("clear") =>
        /\ x11' \in Thread!Ops /\ x11'.at = "clear" /\ x11' # Thread!Rest
           /\ x11'.do = x11.do /\ x11'.old = x11.old /\ x11'.new = x11.new
  BY ThreadGoes, ThreadRest DEF Thread!ThreadInv, Thread!Steps
<1>5. Thread!Goto("attach") =>
        /\ x11' \in Thread!Ops /\ x11'.at = "attach" /\ x11' # Thread!Rest
           /\ x11'.do = x11.do /\ x11'.old = x11.old /\ x11'.new = x11.new
  BY ThreadGoes, ThreadRest DEF Thread!ThreadInv, Thread!Steps
<1>6. /\ x1' \in Thread!Records /\ x1'.thread = x11.new /\ x1'.prev = x1.prev /\ x1' # Thread!NoRecord
  <2>1. PICK r : r = [x1 EXCEPT !.thread = x11.new]
    OBVIOUS
  <2>2. r \in Thread!Records /\ r.thread = x11.new /\ r.prev = x1.prev
    BY <1>3, <2>1 DEF Thread!Records
  <2>3. x1' = [r EXCEPT !.pending = FALSE]
    BY <2>1 DEF Thread!Save
  <2>4. x11.new # 0
    BY <1>1 DEF Thread!ThreadInv, Thread!OpOK
  <2>5. x1' \in Thread!Records /\ x1'.thread = x11.new /\ x1'.prev = x1.prev
    BY <2>2, <2>3 DEF Thread!Records
  <2> QED BY <2>4, <2>5, ThreadNoRecord
<1>7. \/ /\ x11.do = "lost" /\ x11' = Thread!Rest /\ x8' = 0 /\ x16' = x16 \cup {x11.old}
      \/ x11.do = "new" /\ Thread!Goto("clear") /\ x8' = x8 /\ x16' = x16
      \/ x11.do = "ensure" /\ Thread!Goto("attach") /\ x8' = x8 /\ x16' = x16
  BY <1>1 DEF Thread!Save, Thread!ThreadInv, Thread!OpOK, Thread!StateOK, Thread!Ops
<1>8. x8' \in 0..x5 /\ x16' \subseteq 1..x5 /\ x11'.old \in 0..x5 /\ x11'.new \in 0..x5 /\ x11' \in Thread!Ops
  <2>1. x11'.old \in 0..x5 /\ x11'.new \in 0..x5 /\ x11' \in Thread!Ops
    BY <1>2, <1>3, <1>4, <1>5, <1>7
  <2>2. x8 \in 0..x5 /\ x16 \subseteq 1..x5 /\ (x11.do = "lost" => x11.old \in 1..x5)
    BY <1>1, <1>3 DEF Thread!ThreadInv, Thread!OpOK, Thread!StateOK
  <2> QED BY <1>3, <1>7, <2>1, <2>2
<1>9. Thread!StateOK'
  BY ThreadNat, <1>1, <1>3, <1>6, <1>8 DEF Thread!ThreadInv, Thread!StateOK
<1>10. Thread!OpOK'
  BY ThreadNat, <1>1, <1>2, <1>3, <1>4, <1>5, <1>6, <1>7, <1>8 DEF Thread!ThreadInv, Thread!OpOK,
     Thread!HandOK, Thread!StateOK
<1>11. Thread!HandOK'
  BY ThreadNat, <1>1, <1>2, <1>3, <1>4, <1>5, <1>6, <1>7, <1>8 DEF Thread!ThreadInv, Thread!HandOK,
     Thread!OpOK, Thread!StateOK
<1>12. Thread!FirstOK'
  BY ThreadNat, <1>1, <1>2, <1>3, <1>4, <1>5, <1>6, <1>7, <1>8 DEF Thread!ThreadInv, Thread!FirstOK,
     Thread!OpOK, Thread!StateOK
<1>13. Thread!ChatOK'
  BY ThreadNat, <1>1, <1>2, <1>3, <1>4, <1>5, <1>6, <1>7, <1>8 DEF Thread!ThreadInv, Thread!ChatOK,
     Thread!Away, Thread!Current, Thread!OpOK, Thread!HandOK, Thread!StateOK
<1>14. Thread!EmptyOK'
  BY ThreadNat, <1>1, <1>2, <1>3, <1>4, <1>5, <1>6, <1>7, <1>8 DEF Thread!ThreadInv, Thread!EmptyOK,
     Thread!OpOK, Thread!HandOK, Thread!StateOK
<1> QED BY <1>9, <1>10, <1>11, <1>12, <1>13, <1>14 DEF Thread!ThreadInv

LEMMA ThreadClear ==
  ASSUME Thread!ThreadInv, Thread!Clear
  PROVE  Thread!ThreadInv'
<1>1. UNCHANGED <<x1, x3, x4, x5, x12, x13, x14, x15, x16>> /\ x11.at = "clear" /\ x8' = 0 /\ x9' = FALSE
  BY DEF Thread!Clear, Thread!codex
<1>2. Thread!Goto("attach") =>
        /\ x11' \in Thread!Ops /\ x11'.at = "attach" /\ x11' # Thread!Rest
           /\ x11'.do = x11.do /\ x11'.old = x11.old /\ x11'.new = x11.new
  BY ThreadGoes, ThreadRest DEF Thread!ThreadInv, Thread!Steps
<1>3. Thread!Goto("attach")
  BY DEF Thread!Clear
<1>4. Thread!StateOK'
  BY ThreadNat, <1>1, <1>2, <1>3 DEF Thread!ThreadInv, Thread!StateOK
<1>5. Thread!OpOK'
  BY ThreadNat, <1>1, <1>2, <1>3 DEF Thread!ThreadInv, Thread!OpOK, Thread!HandOK, Thread!StateOK
<1>6. Thread!HandOK'
  BY ThreadNat, <1>1, <1>2, <1>3 DEF Thread!ThreadInv, Thread!HandOK, Thread!OpOK, Thread!StateOK
<1>7. Thread!FirstOK'
  BY ThreadNat, <1>1, <1>2, <1>3 DEF Thread!ThreadInv, Thread!FirstOK, Thread!OpOK, Thread!StateOK
<1>8. Thread!ChatOK'
  BY ThreadNat, <1>1, <1>2, <1>3 DEF Thread!ThreadInv, Thread!ChatOK, Thread!Away, Thread!Current,
     Thread!OpOK, Thread!HandOK, Thread!StateOK
<1>9. Thread!EmptyOK'
  BY ThreadNat, <1>1, <1>2, <1>3 DEF Thread!ThreadInv, Thread!EmptyOK, Thread!OpOK, Thread!HandOK,
     Thread!StateOK
<1> QED BY <1>4, <1>5, <1>6, <1>7, <1>8, <1>9 DEF Thread!ThreadInv

LEMMA ThreadAttach ==
  ASSUME Thread!ThreadInv, Thread!Attach
  PROVE  Thread!ThreadInv'
<1>1. UNCHANGED <<x1, x3, x4, x5, x12, x13, x14, x15, x16>> /\ x11.at = "attach" /\ x11' = Thread!Rest
  BY DEF Thread!Attach, Thread!codex
<1>2. (x8' = x8 /\ x9' = x9) \/ (x8' = x11.new /\ x9' = TRUE)
  BY DEF Thread!Attach, Thread!chatv
<1>3. Thread!Rest \in Thread!Ops /\ Thread!Rest.do = "none" /\ Thread!Rest.at = "none"
        /\ Thread!Rest.old = 0 /\ Thread!Rest.new = 0
  BY ThreadRest
<1>4. /\ x1 \in Thread!Records /\ x5 \in 0..MaxThreads /\ x1.thread \in 0..x5 /\ x1.prev \in 0..x5
      /\ x11.old \in 0..x5 /\ x11.new \in 0..x5 /\ 0 \in 0..x5 /\ x5 \in Nat /\ x5 <= MaxThreads
      /\ x1.thread \in 0..MaxThreads /\ x1.prev \in 0..MaxThreads /\ x11.old \in 0..MaxThreads
      /\ x11.new \in 0..MaxThreads /\ 0 \in 0..MaxThreads
  BY ThreadNat DEF Thread!ThreadInv, Thread!StateOK
<1>5. Thread!StateOK'
  BY ThreadNat, <1>1, <1>2, <1>3, <1>4 DEF Thread!ThreadInv, Thread!StateOK
<1>6. Thread!OpOK'
  BY ThreadNat, <1>1, <1>2, <1>3, <1>4 DEF Thread!ThreadInv, Thread!OpOK, Thread!HandOK,
     Thread!StateOK
<1>7. Thread!HandOK'
  BY ThreadNat, <1>1, <1>2, <1>3, <1>4 DEF Thread!ThreadInv, Thread!HandOK, Thread!OpOK,
     Thread!StateOK
<1>8. Thread!FirstOK'
  BY ThreadNat, <1>1, <1>2, <1>3, <1>4 DEF Thread!ThreadInv, Thread!FirstOK, Thread!OpOK,
     Thread!StateOK
<1>9. Thread!ChatOK'
  BY ThreadNat, <1>1, <1>2, <1>3, <1>4 DEF Thread!ThreadInv, Thread!ChatOK, Thread!Away,
     Thread!Current, Thread!OpOK, Thread!HandOK, Thread!StateOK
<1>10. Thread!EmptyOK'
  BY ThreadNat, <1>1, <1>2, <1>3, <1>4 DEF Thread!ThreadInv, Thread!EmptyOK, Thread!OpOK,
     Thread!HandOK, Thread!StateOK
<1> QED BY <1>5, <1>6, <1>7, <1>8, <1>9, <1>10 DEF Thread!ThreadInv

LEMMA ThreadPrepare ==
  ASSUME Thread!ThreadInv, Thread!Prepare
  PROVE  Thread!ThreadInv'
  BY SMTT(10), ThreadNat DEF Thread!Prepare, Thread!codex, Thread!chatv, Thread!ThreadInv,
     Thread!StateOK, Thread!OpOK, Thread!HandOK, Thread!FirstOK, Thread!ChatOK, Thread!EmptyOK,
     Thread!Records, Thread!Rest, Thread!NoRecord, Thread!Away, Thread!Current, Thread!Begin,
     Thread!Plain

LEMMA ThreadConfirm ==
  ASSUME Thread!ThreadInv, Thread!Confirm
  PROVE  Thread!ThreadInv'
  BY SMTT(10), ThreadNat DEF Thread!Confirm, Thread!Hand, Thread!codex, Thread!chatv,
     Thread!bounds, Thread!ThreadInv, Thread!StateOK, Thread!OpOK, Thread!HandOK,
     Thread!FirstOK, Thread!ChatOK, Thread!EmptyOK, Thread!Records, Thread!Rest,
     Thread!NoRecord, Thread!Away, Thread!Current, Thread!Begin, Thread!Plain

LEMMA ThreadStop ==
  ASSUME Thread!ThreadInv, Thread!Stop
  PROVE  Thread!ThreadInv'
  BY SMTT(10), ThreadNat DEF Thread!Stop, Thread!Hand, Thread!codex, Thread!chatv,
     Thread!bounds, Thread!ThreadInv, Thread!StateOK, Thread!OpOK, Thread!HandOK,
     Thread!FirstOK, Thread!ChatOK, Thread!EmptyOK, Thread!Records, Thread!Rest,
     Thread!NoRecord, Thread!Away, Thread!Current, Thread!Begin, Thread!Plain

LEMMA ThreadHandOwn ==
  ASSUME Thread!ThreadInv, Thread!HandOwn
  PROVE  Thread!ThreadInv'
<1>1. Thread!StateOK'
  BY SMTT(10), ThreadNat DEF Thread!HandOwn, Thread!OwnerFree, Thread!codex, Thread!chatv,
     Thread!bounds, Thread!ThreadInv, Thread!StateOK, Thread!Records
<1>2. Thread!OpOK'
  BY SMTT(10), ThreadNat DEF Thread!HandOwn, Thread!OwnerFree, Thread!codex, Thread!chatv,
     Thread!bounds, Thread!ThreadInv, Thread!OpOK, Thread!HandOK, Thread!ChatOK, Thread!Rest,
     Thread!Away, Thread!Current, Thread!Begin, Thread!StateOK, Thread!Records
<1>3. Thread!HandOK'
  BY SMTT(10), ThreadNat DEF Thread!HandOwn, Thread!OwnerFree, Thread!codex, Thread!chatv,
     Thread!bounds, Thread!ThreadInv, Thread!HandOK, Thread!OpOK, Thread!Rest, Thread!Begin,
     Thread!StateOK, Thread!Records
<1>4. Thread!FirstOK'
  BY SMTT(10), ThreadNat DEF Thread!HandOwn, Thread!OwnerFree, Thread!codex, Thread!chatv,
     Thread!bounds, Thread!ThreadInv, Thread!FirstOK, Thread!OpOK, Thread!NoRecord, Thread!Rest,
     Thread!Plain, Thread!Begin, Thread!StateOK, Thread!Records
<1>5. Thread!ChatOK'
  BY SMTT(10), ThreadNat DEF Thread!HandOwn, Thread!OwnerFree, Thread!codex, Thread!chatv,
     Thread!bounds, Thread!ThreadInv, Thread!ChatOK, Thread!OpOK, Thread!HandOK, Thread!FirstOK,
     Thread!EmptyOK, Thread!Away, Thread!Current, Thread!Rest, Thread!NoRecord, Thread!Begin,
     Thread!Plain, Thread!StateOK, Thread!Records
<1>6. Thread!EmptyOK'
  BY SMTT(10), ThreadNat DEF Thread!HandOwn, Thread!OwnerFree, Thread!codex, Thread!chatv,
     Thread!bounds, Thread!ThreadInv, Thread!EmptyOK, Thread!OpOK, Thread!HandOK, Thread!ChatOK,
     Thread!Rest, Thread!Away, Thread!Current, Thread!Begin, Thread!StateOK, Thread!Records
<1> QED BY <1>1, <1>2, <1>3, <1>4, <1>5, <1>6 DEF Thread!ThreadInv

LEMMA ThreadHandConnect ==
  ASSUME Thread!ThreadInv, Thread!HandConnect
  PROVE  Thread!ThreadInv'
<1>1. UNCHANGED <<x1, x4, x5, x8, x9, x11, x13, x14, x15, x16>> /\ x3' \subseteq x3
  BY DEF Thread!HandConnect, Thread!Connected, Thread!codex, Thread!chatv
<1>2. x12 = "connect" /\ x12' \in {"resume", "failed"}
  BY DEF Thread!HandConnect, Thread!Hand
<1>3. Thread!StateOK'
  BY ThreadNat, <1>1, <1>2 DEF Thread!ThreadInv, Thread!StateOK
<1>4. Thread!OpOK'
  BY ThreadNat, <1>1, <1>2 DEF Thread!ThreadInv, Thread!OpOK, Thread!HandOK, Thread!StateOK
<1>5. Thread!HandOK'
  BY ThreadNat, <1>1, <1>2 DEF Thread!ThreadInv, Thread!HandOK, Thread!OpOK, Thread!StateOK
<1>6. Thread!FirstOK'
  BY ThreadNat, <1>1, <1>2 DEF Thread!ThreadInv, Thread!FirstOK, Thread!OpOK, Thread!StateOK
<1>7. Thread!ChatOK'
  BY ThreadNat, <1>1, <1>2 DEF Thread!ThreadInv, Thread!ChatOK, Thread!Away, Thread!Current,
     Thread!OpOK, Thread!HandOK, Thread!StateOK
<1>8. Thread!EmptyOK'
  BY ThreadNat, <1>1, <1>2 DEF Thread!ThreadInv, Thread!EmptyOK, Thread!OpOK, Thread!HandOK,
     Thread!StateOK
<1> QED BY <1>3, <1>4, <1>5, <1>6, <1>7, <1>8 DEF Thread!ThreadInv

LEMMA ThreadHandResume ==
  ASSUME Thread!ThreadInv, Thread!HandResume
  PROVE  Thread!ThreadInv'
<1>1. UNCHANGED <<x4, x5, x8, x9, x11, x13, x14, x15, x16>> /\ x12 = "resume"
  BY DEF Thread!HandResume, Thread!Hand, Thread!chatv
<1>2. \/ x12' = "tui" /\ x3' = x3 \cup {1} /\ x1' = Thread!Plain(1)
      \/ x12' = "failed" /\ x3' = x3 /\ x1' = x1
  BY DEF Thread!HandResume, Thread!Hand
<1>3. 1 \in x4 /\ x5 \in 0..MaxThreads /\ 1 \in 0..MaxThreads /\ 1 \in 1..x5 /\ 1 \in 0..x5 /\ 0 \in 0..x5
  BY ThreadNat, <1>1 DEF Thread!ThreadInv, Thread!HandOK, Thread!StateOK
<1>4. Thread!Plain(1) \in Thread!Records /\ Thread!Plain(1) # Thread!NoRecord
        /\ Thread!Plain(1).thread = 1 /\ Thread!Plain(1).prev = 0
  BY <1>3, ThreadRecords
<1>5. Thread!StateOK'
  BY ThreadNat, <1>1, <1>2, <1>3, <1>4 DEF Thread!ThreadInv, Thread!StateOK
<1>6. Thread!OpOK'
  BY ThreadNat, <1>1, <1>2, <1>3, <1>4 DEF Thread!ThreadInv, Thread!OpOK, Thread!HandOK,
     Thread!StateOK
<1>7. Thread!HandOK'
  BY ThreadNat, <1>1, <1>2, <1>3, <1>4 DEF Thread!ThreadInv, Thread!HandOK, Thread!OpOK,
     Thread!StateOK
<1>8. Thread!FirstOK'
  BY ThreadNat, <1>1, <1>2, <1>3, <1>4 DEF Thread!ThreadInv, Thread!FirstOK, Thread!OpOK,
     Thread!StateOK
<1>9. Thread!ChatOK'
  BY ThreadNat, <1>1, <1>2, <1>3, <1>4 DEF Thread!ThreadInv, Thread!ChatOK, Thread!Away,
     Thread!Current, Thread!OpOK, Thread!HandOK, Thread!StateOK
<1>10. Thread!EmptyOK'
  BY ThreadNat, <1>1, <1>2, <1>3, <1>4 DEF Thread!ThreadInv, Thread!EmptyOK, Thread!OpOK,
     Thread!HandOK, Thread!StateOK
<1> QED BY <1>5, <1>6, <1>7, <1>8, <1>9, <1>10 DEF Thread!ThreadInv

LEMMA ThreadHandTui ==
  ASSUME Thread!ThreadInv, Thread!HandTui
  PROVE  Thread!ThreadInv'
  BY SMTT(10), ThreadNat DEF Thread!HandTui, Thread!Hand, Thread!codex, Thread!chatv,
     Thread!bounds, Thread!ThreadInv, Thread!StateOK, Thread!OpOK, Thread!HandOK,
     Thread!FirstOK, Thread!ChatOK, Thread!EmptyOK, Thread!Records, Thread!Rest,
     Thread!NoRecord, Thread!Away, Thread!Current, Thread!Begin, Thread!Plain

LEMMA ThreadHandFailed ==
  ASSUME Thread!ThreadInv, Thread!HandFailed
  PROVE  Thread!ThreadInv'
<1>1. UNCHANGED <<x1, x4, x5, x8, x11, x15, x16>> /\ x3' \subseteq x3
  BY DEF Thread!HandFailed
<1>2. \/ x13 = "shell" /\ x12' = "back" /\ x14' = x14
      \/ x13 # "shell" /\ x12' = "no" /\ x14' = "review"
  BY DEF Thread!HandFailed
<1>3. x13' = x13 /\ (x9' = x9 \/ x9' = FALSE)
  BY DEF Thread!HandFailed
<1>4. x13 = "shell" => x9' = FALSE
  BY DEF Thread!HandFailed
<1>5. x12 = "failed"
  BY DEF Thread!HandFailed
<1>6. Thread!StateOK'
  BY ThreadNat, <1>1, <1>2, <1>3, <1>4, <1>5 DEF Thread!ThreadInv, Thread!StateOK
<1>7. Thread!OpOK'
  BY ThreadNat, <1>1, <1>2, <1>3, <1>4, <1>5 DEF Thread!ThreadInv, Thread!OpOK, Thread!HandOK,
     Thread!StateOK
<1>8. Thread!HandOK'
  BY ThreadNat, <1>1, <1>2, <1>3, <1>4, <1>5 DEF Thread!ThreadInv, Thread!HandOK, Thread!OpOK,
     Thread!StateOK
<1>9. Thread!FirstOK'
  BY ThreadNat, <1>1, <1>2, <1>3, <1>4, <1>5 DEF Thread!ThreadInv, Thread!FirstOK, Thread!OpOK,
     Thread!StateOK
<1>10. Thread!ChatOK'
  BY ThreadNat, <1>1, <1>2, <1>3, <1>4, <1>5 DEF Thread!ThreadInv, Thread!ChatOK, Thread!Away,
     Thread!Current, Thread!OpOK, Thread!HandOK, Thread!StateOK
<1>11. Thread!EmptyOK'
  BY ThreadNat, <1>1, <1>2, <1>3, <1>4, <1>5 DEF Thread!ThreadInv, Thread!EmptyOK, Thread!OpOK,
     Thread!HandOK, Thread!StateOK
<1> QED BY <1>6, <1>7, <1>8, <1>9, <1>10, <1>11 DEF Thread!ThreadInv

LEMMA ThreadHandBack ==
  ASSUME Thread!ThreadInv, Thread!HandBack
  PROVE  Thread!ThreadInv'
<1>1. Thread!StateOK'
  BY SMTT(10), ThreadNat DEF Thread!HandBack, Thread!Hand, Thread!codex, Thread!chatv,
     Thread!bounds, Thread!ThreadInv, Thread!StateOK, Thread!Records
<1>2. Thread!OpOK'
  BY SMTT(10), ThreadNat DEF Thread!HandBack, Thread!Hand, Thread!codex, Thread!chatv,
     Thread!bounds, Thread!ThreadInv, Thread!OpOK, Thread!HandOK, Thread!ChatOK, Thread!Rest,
     Thread!Away, Thread!Current, Thread!Begin, Thread!StateOK, Thread!Records
<1>3. Thread!HandOK'
  BY SMTT(10), ThreadNat DEF Thread!HandBack, Thread!Hand, Thread!codex, Thread!chatv,
     Thread!bounds, Thread!ThreadInv, Thread!HandOK, Thread!OpOK, Thread!Rest, Thread!Begin,
     Thread!StateOK, Thread!Records
<1>4. Thread!FirstOK'
  BY SMTT(10), ThreadNat DEF Thread!HandBack, Thread!Hand, Thread!codex, Thread!chatv,
     Thread!bounds, Thread!ThreadInv, Thread!FirstOK, Thread!OpOK, Thread!NoRecord, Thread!Rest,
     Thread!Plain, Thread!Begin, Thread!StateOK, Thread!Records
<1>5. Thread!ChatOK'
  BY SMTT(10), ThreadNat DEF Thread!HandBack, Thread!Hand, Thread!codex, Thread!chatv,
     Thread!bounds, Thread!ThreadInv, Thread!ChatOK, Thread!OpOK, Thread!HandOK, Thread!FirstOK,
     Thread!EmptyOK, Thread!Away, Thread!Current, Thread!Rest, Thread!NoRecord, Thread!Begin,
     Thread!Plain, Thread!StateOK, Thread!Records
<1>6. Thread!EmptyOK'
  BY SMTT(10), ThreadNat DEF Thread!HandBack, Thread!Hand, Thread!codex, Thread!chatv,
     Thread!bounds, Thread!ThreadInv, Thread!EmptyOK, Thread!OpOK, Thread!HandOK, Thread!ChatOK,
     Thread!Rest, Thread!Away, Thread!Current, Thread!Begin, Thread!StateOK, Thread!Records
<1> QED BY <1>1, <1>2, <1>3, <1>4, <1>5, <1>6 DEF Thread!ThreadInv

LEMMA ThreadHandMark ==
  ASSUME Thread!ThreadInv, Thread!HandMark
  PROVE  Thread!ThreadInv'
<1>1. UNCHANGED <<x3, x4, x5, x8, x9, x11, x13, x15, x16>> /\ x12 = "mark" /\ x12' = "no" /\ x14' = "rolled_back"
  BY DEF Thread!HandMark, Thread!Hand, Thread!codex, Thread!chatv
<1>2. /\ x1' \in Thread!Records /\ x1'.thread = x1.thread /\ x1'.prev = x1.prev
      /\ x1' = Thread!NoRecord => x1 = Thread!NoRecord
  BY DEF Thread!ThreadInv, Thread!StateOK, Thread!HandMark, Thread!Records, Thread!NoRecord,
     Thread!Plain
<1>3. Thread!StateOK'
  BY ThreadNat, <1>1, <1>2 DEF Thread!ThreadInv, Thread!StateOK
<1>4. Thread!OpOK'
  BY ThreadNat, <1>1, <1>2 DEF Thread!ThreadInv, Thread!OpOK, Thread!HandOK, Thread!StateOK
<1>5. Thread!HandOK'
  BY ThreadNat, <1>1, <1>2 DEF Thread!ThreadInv, Thread!HandOK, Thread!OpOK, Thread!StateOK
<1>6. Thread!FirstOK'
  BY ThreadNat, <1>1, <1>2 DEF Thread!ThreadInv, Thread!FirstOK, Thread!OpOK, Thread!StateOK
<1>7. Thread!ChatOK'
  BY ThreadNat, <1>1, <1>2 DEF Thread!ThreadInv, Thread!ChatOK, Thread!Away, Thread!Current,
     Thread!OpOK, Thread!HandOK, Thread!StateOK
<1>8. Thread!EmptyOK'
  BY ThreadNat, <1>1, <1>2 DEF Thread!ThreadInv, Thread!EmptyOK, Thread!OpOK, Thread!HandOK,
     Thread!StateOK
<1> QED BY <1>3, <1>4, <1>5, <1>6, <1>7, <1>8 DEF Thread!ThreadInv

LEMMA ThreadSay ==
  ASSUME Thread!ThreadInv, Thread!Say
  PROVE  Thread!ThreadInv'
  BY SMTT(10), ThreadNat DEF Thread!Say, Thread!chatv, Thread!bounds, Thread!ThreadInv,
     Thread!StateOK, Thread!OpOK, Thread!HandOK, Thread!FirstOK, Thread!ChatOK, Thread!EmptyOK,
     Thread!Records, Thread!Rest, Thread!NoRecord, Thread!Away, Thread!Current, Thread!Begin,
     Thread!Plain

LEMMA ThreadTurnEnds ==
  ASSUME Thread!ThreadInv, Thread!TurnEnds
  PROVE  Thread!ThreadInv'
  BY SMTT(10), ThreadNat DEF Thread!TurnEnds, Thread!chatv, Thread!bounds,
     Thread!ThreadInv, Thread!StateOK, Thread!OpOK, Thread!HandOK, Thread!FirstOK,
     Thread!ChatOK, Thread!EmptyOK, Thread!Records, Thread!Rest, Thread!NoRecord, Thread!Away,
     Thread!Current, Thread!Begin, Thread!Plain

LEMMA ThreadCut ==
  ASSUME Thread!ThreadInv, Thread!Cut
  PROVE  Thread!ThreadInv'
  BY SMTT(10), ThreadNat DEF Thread!Cut, Thread!codex, Thread!ThreadInv, Thread!StateOK,
     Thread!OpOK, Thread!HandOK, Thread!FirstOK, Thread!ChatOK, Thread!EmptyOK, Thread!Records,
     Thread!Rest, Thread!NoRecord, Thread!Away, Thread!Current, Thread!Begin, Thread!Plain

LEMMA ThreadEnd ==
  ASSUME Thread!ThreadInv, Thread!End
  PROVE  Thread!ThreadInv'
<1>1. UNCHANGED <<x1, x4, x5, x14, x15, x16>> /\ x3' \subseteq x3 /\ x11' = Thread!Rest
  BY DEF Thread!End
<1>2. x12' = "no" /\ x8' = 0 /\ x9' = FALSE /\ (x13' = x13 \/ x13' = "shell")
  BY DEF Thread!End
<1>3. Thread!Rest \in Thread!Ops /\ Thread!Rest.do = "none" /\ Thread!Rest.at = "none"
        /\ Thread!Rest.old = 0 /\ Thread!Rest.new = 0
  BY ThreadRest
<1>4. Thread!StateOK'
  BY ThreadNat, <1>1, <1>2, <1>3 DEF Thread!ThreadInv, Thread!StateOK
<1>5. Thread!OpOK'
  BY ThreadNat, <1>1, <1>2, <1>3 DEF Thread!ThreadInv, Thread!OpOK, Thread!HandOK, Thread!StateOK
<1>6. Thread!HandOK'
  BY ThreadNat, <1>1, <1>2, <1>3 DEF Thread!ThreadInv, Thread!HandOK, Thread!OpOK, Thread!StateOK
<1>7. Thread!FirstOK'
  BY ThreadNat, <1>1, <1>2, <1>3 DEF Thread!ThreadInv, Thread!FirstOK, Thread!OpOK, Thread!StateOK
<1>8. Thread!ChatOK'
  BY ThreadNat, <1>1, <1>2, <1>3 DEF Thread!ThreadInv, Thread!ChatOK, Thread!Away, Thread!Current,
     Thread!OpOK, Thread!HandOK, Thread!StateOK
<1>9. Thread!EmptyOK'
  BY ThreadNat, <1>1, <1>2, <1>3 DEF Thread!ThreadInv, Thread!EmptyOK, Thread!OpOK, Thread!HandOK,
     Thread!StateOK
<1> QED BY <1>4, <1>5, <1>6, <1>7, <1>8, <1>9 DEF Thread!ThreadInv

\* A step that changes nothing of the part.
LEMMA ThreadStays ==
  ASSUME Thread!ThreadInv, UNCHANGED <<x1, x2, x3, x4, x5, x6, x7, x8, x9, x10, x11, x12, x13, x14, x15, x16, x17, x18,
                 x19>>
  PROVE  Thread!ThreadInv'
  BY DEF Thread!ThreadInv, Thread!StateOK, Thread!OpOK, Thread!HandOK, Thread!FirstOK,
     Thread!ChatOK, Thread!EmptyOK, Thread!Away, Thread!Current

LEMMA ThreadNext ==
  ASSUME Thread!ThreadInv, Thread!Next
  PROVE  Thread!ThreadInv'
<1>1. CASE Thread!Ensure \/ Thread!Probe \/ Thread!NewConversation \/ Thread!RecoverEmpty
  BY <1>1, ThreadEnsure, ThreadProbe, ThreadNewConversation, ThreadRecoverEmpty
<1>2. CASE \/ Thread!Own \/ Thread!Connect \/ Thread!Ask \/ Thread!Start \/ Thread!Save \/ Thread!Clear
           \/ Thread!Attach
  BY <1>2, ThreadOwn, ThreadConnect, ThreadAsk, ThreadStart, ThreadSave, ThreadClear, ThreadAttach
<1>3. CASE \/ Thread!Prepare \/ Thread!Confirm \/ Thread!Stop \/ Thread!HandOwn \/ Thread!HandConnect
           \/ Thread!HandResume \/ Thread!HandTui
  BY <1>3, ThreadPrepare, ThreadConfirm, ThreadStop, ThreadHandOwn, ThreadHandConnect,
     ThreadHandResume,
     ThreadHandTui
<1>4. CASE Thread!HandFailed \/ Thread!HandBack \/ Thread!HandMark
  BY <1>4, ThreadHandFailed, ThreadHandBack, ThreadHandMark
<1>5. CASE Thread!Say \/ Thread!TurnEnds \/ Thread!Cut \/ Thread!End
  BY <1>5, ThreadSay, ThreadTurnEnds, ThreadCut, ThreadEnd
<1> QED BY <1>1, <1>2, <1>3, <1>4, <1>5 DEF Thread!Next

LEMMA ThreadInit ==
  ASSUME Thread!Init
  PROVE  Thread!ThreadInv
<1> USE ThreadAssumption
<1>1. x11 = Thread!Rest /\ x11 \in Thread!Ops /\ x11.do = "none" /\ x11.at = "none" /\ x11.old = 0 /\ x11.new = 0
  BY ThreadRest DEF Thread!Init
<1>2. x1 = Thread!NoRecord /\ x1 \in Thread!Records /\ x1.thread = 0 /\ x1.prev = 0
  BY ThreadRecords, ThreadNoRecord DEF Thread!Init, Thread!NoRecord
<1>3. x5 \in 0..MaxThreads /\ x4 \subseteq 1..x5 /\ (x13 = "legacy" => 1 \in x4)
  BY DEF Thread!Init
<1>4. Thread!StateOK
  BY <1>1, <1>2, <1>3 DEF Thread!Init, Thread!StateOK
<1>5. Thread!OpOK /\ Thread!HandOK /\ Thread!FirstOK
  BY <1>1, <1>2, <1>3 DEF Thread!Init, Thread!OpOK, Thread!HandOK, Thread!FirstOK
<1>6. Thread!ChatOK /\ Thread!EmptyOK
  BY <1>1 DEF Thread!Init, Thread!ChatOK, Thread!EmptyOK
<1> QED BY <1>4, <1>5, <1>6 DEF Thread!ThreadInv

\* What the run checks of it follows.
LEMMA ThreadHeld ==
  ASSUME Thread!ThreadInv
  PROVE  Thread!FirstOnce /\ Thread!ChatOfRecord /\ Thread!EmptyReplaced
<1>1. Thread!FirstOnce
  BY DEF Thread!ThreadInv, Thread!FirstOK, Thread!FirstOnce
<1>2. Thread!ChatOfRecord
  BY DEF Thread!ThreadInv, Thread!ChatOK, Thread!ChatOfRecord, Thread!Away, Thread!Current
<1>3. Thread!EmptyReplaced
  BY DEF Thread!ThreadInv, Thread!EmptyOK, Thread!EmptyReplaced
<1> QED BY <1>1, <1>2, <1>3

\* The claim about the part, of every behaviour.
LEMMA ThreadAlways == Spec => [](part = "thread" => Thread!ThreadInv)
<1> DEFINE Inv == part = "thread" => Thread!ThreadInv
<1>1. Init => Inv
  BY ThreadInit DEF Init
<1>2. Inv /\ [Next]_all => Inv'
  <2> SUFFICES ASSUME Inv, [Next]_all, part' = "thread" PROVE Thread!ThreadInv'
    OBVIOUS
  <2>1. CASE UNCHANGED all
    <3>1. UNCHANGED <<part, x1, x2, x3, x4, x5, x6, x7, x8, x9, x10, x11, x12, x13, x14, x15, x16, x17, x18, x19>>
      BY <2>1 DEF all
    <3> QED BY <3>1, ThreadStays
  <2>2. CASE Next
    <3>1. part = "thread" /\ Thread!Next
      BY <2>2 DEF Next
    <3> QED BY <3>1, ThreadNext
  <2> QED BY <2>1, <2>2
<1> QED BY <1>1, <1>2, PTL DEF Spec

-----------------------------------------------------------------------------
(* What a phone is told: the hub's events, the lane and the window; each step keeps PushInv,
   and so does every behaviour. *)

\* What the hub publishes, kind by kind.
LEMMA PushEvents ==
  ASSUME NEW e \in Push!Events
  PROVE  \/ e.kind = "agent" /\ e.v \in Push!Statuses
         \/ e.kind = "layout" /\ e.v \subseteq Panes
         \/ e.kind = "desk" /\ e.v \in BOOLEAN
BY DEF Push!Events

\* An event more leaves those that wait, and one that says the desk is left is heard.
LEMMA PushHeard ==
  ASSUME x5 \in Seq(Push!Events), NEW e \in Push!Events, x5' = Append(x5, e)
  PROVE  /\ x5' \in Seq(Push!Events) /\ (Push!Leaving => Push!Leaving')
         /\ e.kind = "desk" /\ e.v = FALSE => Push!Leaving'
<1>1. /\ x5' \in Seq(Push!Events) /\ Len(x5) \in Nat /\ Len(x5') = Len(x5) + 1 /\ x5'[Len(x5')] = e
      /\ \A i \in 1..Len(x5) : x5'[i] = x5[i]
  OBVIOUS
<1>2. Len(x5') \in 1..Len(x5') /\ 1..Len(x5) \subseteq 1..Len(x5')
  BY <1>1
<1> QED BY <1>1, <1>2 DEF Push!Leaving

\* Taking an event off leaves those after it.
LEMMA PushTaken ==
  ASSUME x5 \in Seq(Push!Events), x5 # <<>>, x5' = Tail(x5)
  PROVE  /\ x5' \in Seq(Push!Events) /\ Head(x5) \in Push!Events
         /\ Push!Leaving /\ ~(Head(x5).kind = "desk" /\ Head(x5).v = FALSE) => Push!Leaving'
<1>1. /\ x5' \in Seq(Push!Events) /\ Head(x5) \in Push!Events /\ Head(x5) = x5[1]
      /\ \A i \in 1..Len(x5) : i = 1 \/ (i - 1 \in 1..Len(x5') /\ x5'[i - 1] = x5[i])
  BY SeqRest
<1> QED BY <1>1 DEF Push!Leaving

\* Events in the sequence are of the kinds of TypeOK.
LEMMA PushTyped ==
  ASSUME x5' \in Seq(Push!Events)
  PROVE  \A i \in 1..Len(x5') : \/ x5'[i].kind = "agent" /\ x5'[i].v \in Push!Statuses
                                \/ x5'[i].kind = "layout" /\ x5'[i].v \subseteq Panes
                                \/ x5'[i].kind = "desk" /\ x5'[i].v \in BOOLEAN
<1>1. \A i \in 1..Len(x5') : x5'[i] \in Push!Events
  OBVIOUS
<1> QED BY <1>1, PushEvents

\* A job for the lane.
LEMMA PushJob ==
  ASSUME x7 \in 0..MaxSubs, NEW what \in Push!Alerts \cup {"retract", "digest", "retract digest"},
         NEW panes \in SUBSET Panes
  PROVE  LET j == Push!Job(what, panes) IN j \in Push!Jobs /\ j.what = what
BY DEF Push!Job, Push!Jobs

\* A job more is in the lane, and so are those before it.
LEMMA PushQueued ==
  ASSUME NEW q \in Seq(Push!Jobs), NEW j \in Push!Jobs, NEW p, p = Append(q, j)
  PROVE  /\ p \in Seq(Push!Jobs) /\ \E i \in 1..Len(p) : p[i].what = j.what
         /\ \A k : (\E i \in 1..Len(q) : q[i].what = k) => \E i \in 1..Len(p) : p[i].what = k
<1>1. /\ p \in Seq(Push!Jobs) /\ Len(q) \in Nat /\ Len(p) = Len(q) + 1 /\ p[Len(p)] = j
      /\ \A i \in 1..Len(q) : p[i] = q[i]
  OBVIOUS
<1>2. Len(p) \in 1..Len(p) /\ 1..Len(q) \subseteq 1..Len(p)
  BY <1>1
<1> QED BY <1>1, <1>2

\* Taking a job off leaves those after it.
LEMMA PushSent ==
  ASSUME x15 \in Seq(Push!Jobs), x15 # <<>>, x15' = Tail(x15)
  PROVE  /\ x15' \in Seq(Push!Jobs) /\ Head(x15) \in Push!Jobs
         /\ \A k : Push!InLane(k) /\ k # Head(x15).what => Push!InLane(k)'
<1>1. /\ x15' \in Seq(Push!Jobs) /\ Head(x15) \in Push!Jobs /\ Head(x15) = x15[1]
      /\ \A i \in 1..Len(x15) : i = 1 \/ (i - 1 \in 1..Len(x15') /\ x15'[i - 1] = x15[i])
  BY SeqRest
<1> QED BY <1>1 DEF Push!InLane

\* The window, field by field.
LEMMA PushWindows ==
  ASSUME NEW w \in Push!Windows
  PROVE  /\ w.open \in BOOLEAN /\ w.pending \in Push!Alerts \cup {"none"} /\ w.timer \in BOOLEAN
         /\ \A b \in BOOLEAN : LET v == [w EXCEPT !.open = b] IN
              v \in Push!Windows /\ v.open = b /\ v.pending = w.pending /\ v.timer = w.timer
         /\ \A k \in Push!Alerts \cup {"none"} : LET v == [w EXCEPT !.pending = k] IN
              v \in Push!Windows /\ v.open = w.open /\ v.pending = k /\ v.timer = w.timer
         /\ \A b \in BOOLEAN : LET v == [w EXCEPT !.timer = b] IN
              v \in Push!Windows /\ v.open = w.open /\ v.pending = w.pending /\ v.timer = b
BY DEF Push!Windows

\* The window with a newer alert in it.
LEMMA PushArmed ==
  ASSUME NEW w \in Push!Windows, NEW k \in Push!Alerts \cup {"none"}
  PROVE  LET v == [w EXCEPT !.pending = k, !.timer = TRUE] IN
         v \in Push!Windows /\ v.open = w.open /\ v.pending = k /\ v.timer = TRUE
<1>1. PICK u : u = [w EXCEPT !.pending = k]
  OBVIOUS
<1>2. u \in Push!Windows /\ u.open = w.open /\ u.pending = k
  BY <1>1, PushWindows
<1>3. PICK v : v = [u EXCEPT !.timer = TRUE]
  OBVIOUS
<1>4. v \in Push!Windows /\ v.open = w.open /\ v.pending = k /\ v.timer = TRUE
  BY <1>2, <1>3, PushWindows
<1>5. v = [w EXCEPT !.pending = k, !.timer = TRUE]
  BY <1>1, <1>3
<1> QED BY <1>4, <1>5

\* The window once it is over.
LEMMA PushOver ==
  LET v == [open |-> FALSE, pending |-> "none", timer |-> FALSE] IN
  v \in Push!Windows /\ v.open = FALSE /\ v.pending = "none" /\ v.timer = FALSE
BY DEF Push!Windows

\* What the push loop last knew, field by field.
LEMMA PushWatch ==
  ASSUME x6 \in [agent : Push!Statuses, blocked : SUBSET Panes]
  PROVE  /\ \A s \in Push!Statuses : LET v == [x6 EXCEPT !.agent = s] IN
              v \in [agent : Push!Statuses, blocked : SUBSET Panes] /\ v.agent = s /\ v.blocked = x6.blocked
         /\ \A b \in SUBSET Panes : LET v == [x6 EXCEPT !.blocked = b] IN
              v \in [agent : Push!Statuses, blocked : SUBSET Panes] /\ v.agent = x6.agent /\ v.blocked = b
OBVIOUS

\* What the digest's timer leaves, whatever it sends.
LEMMA PushFired ==
  ASSUME Push!TypeOK, NEW q \in Seq(Push!Jobs), Push!Fired(q)
  PROVE  /\ x15' \in Seq(Push!Jobs)
         /\ \A k : (\E i \in 1..Len(q) : q[i].what = k) => Push!InLane(k)'
         /\ x12' \subseteq Panes /\ x19' \subseteq Panes /\ x14' \in BOOLEAN
         /\ x12' = x12 \/ x12' = x6.blocked
         /\ \/ x14' = FALSE /\ x19' = {}
            \/ x14' = TRUE /\ x3 = TRUE /\ x19' = x19
<1>1. PICK j : j = Push!Job("digest", x6.blocked)
  OBVIOUS
<1>2. x6.blocked \subseteq Panes /\ x7 \in 0..MaxSubs
  BY DEF Push!TypeOK
<1>3. j \in Push!Jobs
  BY <1>1, <1>2, PushJob
<1>4. PICK p : p = Append(q, j)
  OBVIOUS
<1>5. /\ p \in Seq(Push!Jobs)
      /\ \A k : (\E i \in 1..Len(q) : q[i].what = k) => \E i \in 1..Len(p) : p[i].what = k
  BY <1>3, <1>4, PushQueued
<1>6. x15' = q \/ x15' = p
  BY <1>1, <1>4 DEF Push!Fired
<1>7. /\ x15' \in Seq(Push!Jobs)
      /\ \A k : (\E i \in 1..Len(q) : q[i].what = k) => Push!InLane(k)'
  BY <1>5, <1>6 DEF Push!InLane
<1>8. /\ x12' \subseteq Panes /\ x19' \subseteq Panes /\ x14' \in BOOLEAN
      /\ x12' = x12 \/ x12' = x6.blocked
      /\ \/ x14' = FALSE /\ x19' = {}
         \/ x14' = TRUE /\ x3 = TRUE /\ x19' = x19
  BY <1>2 DEF Push!Fired, Push!TypeOK
<1> QED BY <1>7, <1>8

\* What the push loop makes of the agent's status.
LEMMA PushAgent ==
  ASSUME Push!PushInv, NEW new \in Push!Statuses, Push!Agent(new)
  PROVE  /\ x6' \in [agent : Push!Statuses, blocked : SUBSET Panes] /\ x6'.agent = new /\ x6'.blocked = x6.blocked
         /\ x10' \in Push!Windows /\ x11' \in Push!Alerts \cup {"none"} /\ x18' \in Push!Alerts \cup {"none"}
         /\ x15' \in Seq(Push!Jobs)
         /\ \/ x6.agent = new /\ UNCHANGED <<x10, x11, x15, x18>>
            \/ x18' = "none"
            \/ x18' = new /\ ((x11' = new /\ x3 = TRUE) \/ Push!InLane(new)' \/ (x10'.pending = new /\ x10'.timer))
<1>1. /\ x10 \in Push!Windows /\ x15 \in Seq(Push!Jobs) /\ x7 \in 0..MaxSubs /\ {} \subseteq Panes
      /\ x11 \in Push!Alerts \cup {"none"} /\ x18 \in Push!Alerts \cup {"none"} /\ x3 \in BOOLEAN
      /\ x6 \in [agent : Push!Statuses, blocked : SUBSET Panes]
  BY DEF Push!PushInv, Push!TypeOK
<1>2. /\ x6' \in [agent : Push!Statuses, blocked : SUBSET Panes] /\ x6'.agent = new /\ x6'.blocked = x6.blocked
  BY <1>1, PushWatch DEF Push!Agent
<1>3. PICK k : k = Push!Pushed(x6.agent, new)
  OBVIOUS
<1>4. k = "none" \/ (k = new /\ k \in Push!Alerts)
  BY <1>3 DEF Push!Pushed, Push!Waits, Push!Alerts
<1>5. \/ x6.agent = new /\ UNCHANGED <<x10, x11, x15, x18>>
      \/ k = "none" /\ x18' = "none" /\ UNCHANGED <<x10, x11, x15>>
      \/ /\ k = "none" /\ x18' = "none" /\ x11' = "none" /\ x10' = [x10 EXCEPT !.pending = "none"]
         /\ x15' = x15 \/ x15' = Append(x15, Push!Job("retract", {}))
      \/ k # "none" /\ x18' = "none" /\ UNCHANGED <<x10, x11, x15>>
      \/ k # "none" /\ x18' = k /\ x3 = TRUE /\ x11' = k /\ UNCHANGED <<x10, x15>>
      \/ k # "none" /\ x18' = k /\ Push!Admit(k) /\ x11' = x11
  <2>1. CASE x6.agent = new
    BY <2>1 DEF Push!Agent, Push!agentq
  <2>2. CASE x6.agent # new /\ k = "none"
    BY <1>3, <2>2 DEF Push!Agent, Push!ForgetPending
  <2>3. CASE x6.agent # new /\ k # "none"
    BY <1>1, <1>3, <2>3 DEF Push!Agent
  <2> QED BY <2>1, <2>2, <2>3
<1>6. CASE x6.agent = new /\ UNCHANGED <<x10, x11, x15, x18>>
  BY <1>1, <1>2, <1>6
<1>7. CASE k = "none" /\ x18' = "none" /\ UNCHANGED <<x10, x11, x15>>
  BY <1>1, <1>2, <1>7
<1>8. CASE /\ k = "none" /\ x18' = "none" /\ x11' = "none" /\ x10' = [x10 EXCEPT !.pending = "none"]
           /\ x15' = x15 \/ x15' = Append(x15, Push!Job("retract", {}))
  <2>1. x10' \in Push!Windows
    BY <1>1, <1>8, PushWindows
  <2>2. PICK j : j = Push!Job("retract", {})
    OBVIOUS
  <2>3. j \in Push!Jobs
    BY <1>1, <2>2, PushJob
  <2>4. x15' \in Seq(Push!Jobs)
    BY <1>1, <1>8, <2>2, <2>3
  <2> QED BY <1>2, <1>8, <2>1, <2>4
<1>9. CASE k # "none" /\ x18' = "none" /\ UNCHANGED <<x10, x11, x15>>
  BY <1>1, <1>2, <1>9
<1>10. CASE k # "none" /\ x18' = k /\ x3 = TRUE /\ x11' = k /\ UNCHANGED <<x10, x15>>
  BY <1>1, <1>2, <1>4, <1>10
<1>11. CASE k # "none" /\ x18' = k /\ Push!Admit(k) /\ x11' = x11
  <2>1. PICK j : j = Push!Job(k, {})
    OBVIOUS
  <2>2. j \in Push!Jobs /\ j.what = k
    BY <1>1, <1>4, <1>11, <2>1, PushJob
  <2>3. \/ x10' = [x10 EXCEPT !.open = TRUE] /\ x15' = Append(x15, j)
        \/ x10' = [x10 EXCEPT !.pending = k, !.timer = TRUE] /\ x15' = x15
    BY <1>11, <2>1 DEF Push!Admit
  <2>4. CASE x10' = [x10 EXCEPT !.open = TRUE] /\ x15' = Append(x15, j)
    <3>1. x10' \in Push!Windows
      BY <1>1, <2>4, PushWindows
    <3>2. x15' \in Seq(Push!Jobs) /\ \E i \in 1..Len(x15') : x15'[i].what = k
      BY <1>1, <2>2, <2>4, PushQueued
    <3>3. Push!InLane(new)'
      BY <1>4, <1>11, <3>2 DEF Push!InLane
    <3> QED BY <1>1, <1>2, <1>4, <1>11, <3>1, <3>2, <3>3
  <2>5. CASE x10' = [x10 EXCEPT !.pending = k, !.timer = TRUE] /\ x15' = x15
    <3>1. x10' \in Push!Windows /\ x10'.pending = k /\ x10'.timer = TRUE
      BY <1>1, <1>4, <2>5, PushArmed
    <3> QED BY <1>1, <1>2, <1>4, <1>11, <2>5, <3>1
  <2> QED BY <2>3, <2>4, <2>5
<1> QED BY <1>5, <1>6, <1>7, <1>8, <1>9, <1>10, <1>11

\* What it makes of the panes.
LEMMA PushSettle ==
  ASSUME Push!PushInv, NEW new \in SUBSET Panes, Push!Settle(new)
  PROVE  /\ x6' \in [agent : Push!Statuses, blocked : SUBSET Panes] /\ x6'.agent = x6.agent /\ x6'.blocked = new
         /\ x12' \subseteq Panes /\ x19' \subseteq Panes /\ x13' \in BOOLEAN /\ x14' \in BOOLEAN
         /\ x15' \in Seq(Push!Jobs) /\ \A k : Push!InLane(k) => Push!InLane(k)'
         /\ x14' => x14
         /\ x21 = 1 /\ x7 # 0 => x12' \subseteq new
         /\ x21 = 1 /\ x19' # {} => x13' \/ x14'
<1>1. /\ x15 \in Seq(Push!Jobs) /\ x7 \in 0..MaxSubs /\ {} \subseteq Panes /\ x6.blocked \subseteq Panes
      /\ x6 \in [agent : Push!Statuses, blocked : SUBSET Panes]
      /\ x12 \subseteq Panes /\ x19 \subseteq Panes /\ x13 \in BOOLEAN /\ x14 \in BOOLEAN
  BY DEF Push!PushInv, Push!TypeOK
<1>2. x6' \in [agent : Push!Statuses, blocked : SUBSET Panes] /\ x6'.agent = x6.agent /\ x6'.blocked = new
  BY <1>1, PushWatch DEF Push!Settle
<1>3. x19' = IF x7 = 0 THEN {} ELSE (x19 \cap new) \cup (new \ x6.blocked)
  BY DEF Push!Settle
<1>4. /\ x21 = 1 /\ x7 # 0 => x12 \subseteq x6.blocked
      /\ x21 = 1 /\ x19 # {} => x13 \/ x14
  BY DEF Push!PushInv, Push!NamedStill, Push!PanesAreTold
<1>5. CASE (new = x6.blocked \/ x7 = 0) /\ UNCHANGED <<x12, x13, x14, x15>>
  <2>1. x21 = 1 /\ x7 # 0 => x12' \subseteq new
    BY <1>4, <1>5
  <2>2. x21 = 1 /\ x19' # {} => x13' \/ x14'
    BY <1>3, <1>4, <1>5
  <2>3. \A k : Push!InLane(k) => Push!InLane(k)'
    BY <1>5 DEF Push!InLane
  <2> QED BY <1>1, <1>2, <1>3, <1>5, <2>1, <2>2, <2>3
<1>6. CASE /\ new = {} /\ x13' = FALSE /\ x14' = FALSE /\ x12' = {}
           /\ x15' = x15 \/ x15' = Append(x15, Push!Job("retract digest", {}))
  <2>1. PICK j : j = Push!Job("retract digest", {})
    OBVIOUS
  <2>2. j \in Push!Jobs
    BY <1>1, <2>1, PushJob
  <2>3. PICK q : q = Append(x15, j)
    OBVIOUS
  <2>4. /\ q \in Seq(Push!Jobs)
        /\ \A k : (\E i \in 1..Len(x15) : x15[i].what = k) => \E i \in 1..Len(q) : q[i].what = k
    BY <1>1, <2>2, <2>3, PushQueued
  <2>5. x15' = x15 \/ x15' = q
    BY <1>6, <2>1, <2>3
  <2>6. x15' \in Seq(Push!Jobs) /\ \A k : Push!InLane(k) => Push!InLane(k)'
    BY <1>1, <2>4, <2>5 DEF Push!InLane
  <2>7. x19' = {}
    BY <1>3, <1>6
  <2> QED BY <1>1, <1>2, <1>6, <2>6, <2>7
<1>7. CASE /\ x7 # 0 /\ x12' = x12 \cap new /\ x13' = (x13 \/ (new \ x12' # {} /\ ~x14))
           /\ UNCHANGED <<x14, x15>>
  <2>1. x13' \in BOOLEAN /\ (x13 => x13')
    BY <1>1, <1>7
  <2>2. ASSUME x21 = 1, x19' # {} PROVE x13' \/ x14'
    <3>1. CASE x19 # {}
      BY <1>4, <1>7, <2>1, <2>2, <3>1
    <3>2. CASE x19 = {}
      <4>1. PICK p \in new : p \notin x6.blocked
        BY <1>3, <1>7, <2>2, <3>2
      <4>2. p \notin x12'
        BY <1>4, <1>7, <2>2, <4>1
      <4>3. new \ x12' # {}
        BY <4>1, <4>2
      <4> QED BY <1>1, <1>7, <4>3
    <3> QED BY <3>1, <3>2
  <2>3. \A k : Push!InLane(k) => Push!InLane(k)'
    BY <1>7 DEF Push!InLane
  <2>4. x12' \subseteq Panes /\ x12' \subseteq new /\ x19' \subseteq Panes
    BY <1>1, <1>3, <1>7
  <2> QED BY <1>1, <1>2, <1>7, <2>1, <2>2, <2>3, <2>4
<1> QED BY <1>2, <1>5, <1>6, <1>7 DEF Push!Settle, Push!StillNamed

\* What it makes of the desk.
LEMMA PushDesk ==
  ASSUME Push!PushInv, NEW present \in BOOLEAN, Push!Desk(present)
  PROVE  /\ x6' = x6 /\ x10' \in Push!Windows /\ x11' \in Push!Alerts \cup {"none"}
         /\ x18' \in Push!Alerts \cup {"none"} /\ x15' \in Seq(Push!Jobs)
         /\ x12' \subseteq Panes /\ x19' \subseteq Panes /\ x13' \in BOOLEAN /\ x14' \in BOOLEAN
         /\ x12' = x12 \/ x12' = x6.blocked
         /\ present = TRUE => UNCHANGED <<x10, x11, x12, x13, x14, x15, x18, x19>>
         /\ present = FALSE =>
              /\ (x14' => x3 = TRUE) /\ (x19' # {} => (x14' \/ (x19' = x19 /\ x13' = x13 /\ ~x14)))
              /\ x18' # "none" /\ x6.agent = x18' =>
                   x18' = x18 /\ (Push!InLane(x18)' \/ (x10'.pending = x18' /\ x10'.timer))
<1>1. /\ x15 \in Seq(Push!Jobs) /\ x7 \in 0..MaxSubs /\ {} \subseteq Panes /\ x6.blocked \subseteq Panes
      /\ x10 \in Push!Windows /\ x11 \in Push!Alerts \cup {"none"} /\ x18 \in Push!Alerts \cup {"none"}
      /\ x12 \subseteq Panes /\ x19 \subseteq Panes /\ x13 \in BOOLEAN /\ x14 \in BOOLEAN /\ Push!TypeOK
  BY DEF Push!PushInv, Push!TypeOK
<1>2. x6' = x6
  BY DEF Push!Desk
<1>3. CASE present = TRUE
  <2>1. UNCHANGED <<x10, x11, x12, x13, x14, x15, x18, x19>>
    BY <1>3 DEF Push!Desk, Push!agentq, Push!herdrq
  <2> QED BY <1>1, <1>2, <1>3, <2>1
<1>4. CASE present = FALSE
  <2>1. PICK k : k = x11
    OBVIOUS
  <2>2. PICK go : go = (k # "none" /\ x6.agent = k /\ Push!Wanted(k))
    OBVIOUS
  <2>3. PICK first : first = (~x10.open /\ ~x10.timer)
    OBVIOUS
  <2>4. PICK j : j = Push!Job(k, {})
    OBVIOUS
  <2>5. PICK q : q = IF go /\ first THEN Append(x15, j) ELSE x15
    OBVIOUS
  <2>6. /\ x11' = "none"
        /\ x10' = IF ~go THEN x10 ELSE IF first THEN [x10 EXCEPT !.open = TRUE] ELSE [x10 EXCEPT !.pending = k, !.timer = TRUE]
        /\ x18' = IF k # "none" /\ ~Push!Wanted(k) THEN "none" ELSE x18
        /\ IF x14 THEN Push!Fired(q) /\ x13' = FALSE ELSE x15' = q /\ UNCHANGED <<x12, x13, x14, x19>>
    BY <1>4, <2>1, <2>2, <2>3, <2>4, <2>5 DEF Push!Desk, Push!herdrq
  <2>7. go => j \in Push!Jobs /\ j.what = k /\ k \in Push!Alerts
    BY <1>1, <2>1, <2>2, <2>4, PushJob
  <2>8. /\ q \in Seq(Push!Jobs) /\ (go /\ first => \E i \in 1..Len(q) : q[i].what = k)
        /\ \A m : (\E i \in 1..Len(x15) : x15[i].what = m) => \E i \in 1..Len(q) : q[i].what = m
    BY <1>1, <2>5, <2>7, PushQueued
  <2>9. x10' \in Push!Windows /\ (go /\ ~first => x10'.pending = k /\ x10'.timer = TRUE) /\ (~go => x10' = x10)
        /\ (~(go /\ ~first) => x10'.pending = x10.pending /\ x10'.timer = x10.timer)
    <3>1. CASE ~go
      BY <1>1, <2>6, <3>1
    <3>2. CASE go /\ first
      BY <1>1, <2>6, <3>2, PushWindows
    <3>3. CASE go /\ ~first
      BY <1>1, <2>6, <2>7, <3>3, PushArmed
    <3> QED BY <2>2, <2>3, <3>1, <3>2, <3>3
  <2>10. /\ x15' \in Seq(Push!Jobs)
         /\ \A m : (\E i \in 1..Len(q) : q[i].what = m) => Push!InLane(m)'
         /\ x12' \subseteq Panes /\ x19' \subseteq Panes /\ x13' \in BOOLEAN /\ x14' \in BOOLEAN
         /\ x12' = x12 \/ x12' = x6.blocked
         /\ (x14' => x3 = TRUE) /\ (x19' # {} => (x14' \/ (x19' = x19 /\ x13' = x13 /\ ~x14)))
    <3>1. CASE x14 = TRUE
      BY <1>1, <2>6, <2>8, <3>1, PushFired
    <3>2. CASE x14 = FALSE
      BY <1>1, <2>6, <2>8, <3>2 DEF Push!InLane
    <3> QED BY <1>1, <3>1, <3>2
  <2>11. ASSUME x18' # "none", x6.agent = x18'
         PROVE  x18' = x18 /\ (Push!InLane(x18)' \/ (x10'.pending = x18' /\ x10'.timer))
    <3>1. x18' = x18
      BY <2>6, <2>11
    <3>2. Push!InLane(x18) \/ (x10.pending = x18 /\ x10.timer) \/ x11 = x18
      BY <2>11, <3>1 DEF Push!PushInv, Push!WaitingIsTold
    <3>3. CASE Push!InLane(x18)
      <4>1. \E i \in 1..Len(x15) : x15[i].what = x18
        BY <3>3 DEF Push!InLane
      <4> QED BY <2>8, <2>10, <3>1, <4>1
    <3>4. CASE x11 = x18
      <4>1. k = x18 /\ go = TRUE
        BY <2>1, <2>2, <2>6, <2>11, <3>1, <3>4
      <4>2. CASE first
        BY <2>8, <2>10, <3>1, <4>1, <4>2
      <4>3. CASE ~first
        BY <2>9, <3>1, <4>1, <4>3
      <4> QED BY <4>2, <4>3
    <3>5. CASE x10.pending = x18 /\ x10.timer
      <4>1. go => k = x18
        BY <2>2, <2>11, <3>1
      <4>2. CASE go /\ ~first
        BY <2>9, <3>1, <4>1, <4>2
      <4>3. CASE ~(go /\ ~first)
        BY <2>9, <3>1, <3>5, <4>3
      <4> QED BY <4>2, <4>3
    <3> QED BY <3>2, <3>3, <3>4, <3>5
  <2>12. x11' \in Push!Alerts \cup {"none"} /\ x18' \in Push!Alerts \cup {"none"}
    BY <1>1, <2>6
  <2> QED BY <1>2, <1>4, <2>9, <2>10, <2>11, <2>12
<1> QED BY <1>3, <1>4

LEMMA PushAgentChanges ==
  ASSUME Push!PushInv, Push!AgentChanges
  PROVE  Push!PushInv'
<1>1. PICK s \in Push!Statuses : x1' = s /\ x20 < MaxNews /\ x20' = x20 + 1 /\ x5' = Append(x5, [kind |-> "agent", v |-> s])
  BY DEF Push!AgentChanges, Push!Change
<1>2. UNCHANGED <<x4, x6, x7, x8, x9, x10, x11, x12, x13, x14, x15, x16, x17, x18, x19, x21, x22>>
  BY DEF Push!AgentChanges, Push!host, Push!Rest, Push!row, Push!agentq, Push!herdrq, Push!phone,
     Push!count
<1>3. x5 \in Seq(Push!Events) /\ x20 \in 0..MaxNews /\ x3 \in BOOLEAN
  BY DEF Push!PushInv, Push!TypeOK
<1>4. PICK e : e = [kind |-> "agent", v |-> s]
  OBVIOUS
<1>5. e \in Push!Events /\ e.kind = "agent"
  BY <1>1, <1>3, <1>4 DEF Push!Events
<1>6. /\ x5' \in Seq(Push!Events) /\ (Push!Leaving => Push!Leaving')
      /\ e.kind = "desk" /\ e.v = FALSE => Push!Leaving'
  BY <1>1, <1>3, <1>4, <1>5, PushHeard
<1>7. x3 = TRUE \/ Push!Leaving => x3' = TRUE \/ Push!Leaving'
  BY <1>1, <1>3, <1>5, <1>6 DEF Push!AgentChanges
<1>8. x20' \in 0..MaxNews
  BY <1>1, <1>3, PushAssumption
<1>9. Push!TypeOK'
  BY <1>1, <1>2, <1>5, <1>6, <1>8, PushTyped DEF Push!PushInv, Push!TypeOK, Push!AgentChanges
<1>10. Push!WaitingIsTold' /\ Push!PanesAreTold' /\ Push!WaitsForDesk' /\ Push!NamedStill'
  BY <1>2, <1>7 DEF Push!PushInv, Push!WaitingIsTold, Push!PanesAreTold, Push!WaitsForDesk,
     Push!NamedStill, Push!InLane
<1> QED BY <1>6, <1>9, <1>10 DEF Push!PushInv

LEMMA PushPanesChange ==
  ASSUME Push!PushInv, Push!PanesChange
  PROVE  Push!PushInv'
<1>1. PICK b \in SUBSET Panes : x2' = b /\ x20 < MaxNews /\ x20' = x20 + 1 /\ x5' = Append(x5, [kind |-> "layout", v |-> b])
  BY DEF Push!PanesChange, Push!Change
<1>2. UNCHANGED <<x4, x6, x7, x8, x9, x10, x11, x12, x13, x14, x15, x16, x17, x18, x19, x21, x22>>
  BY DEF Push!PanesChange, Push!host, Push!Rest, Push!row, Push!agentq, Push!herdrq, Push!phone,
     Push!count
<1>3. x5 \in Seq(Push!Events) /\ x20 \in 0..MaxNews /\ x3 \in BOOLEAN
  BY DEF Push!PushInv, Push!TypeOK
<1>4. PICK e : e = [kind |-> "layout", v |-> b]
  OBVIOUS
<1>5. e \in Push!Events /\ e.kind = "layout"
  BY <1>1, <1>3, <1>4 DEF Push!Events
<1>6. /\ x5' \in Seq(Push!Events) /\ (Push!Leaving => Push!Leaving')
      /\ e.kind = "desk" /\ e.v = FALSE => Push!Leaving'
  BY <1>1, <1>3, <1>4, <1>5, PushHeard
<1>7. x3 = TRUE \/ Push!Leaving => x3' = TRUE \/ Push!Leaving'
  BY <1>1, <1>3, <1>5, <1>6 DEF Push!PanesChange
<1>8. x20' \in 0..MaxNews
  BY <1>1, <1>3, PushAssumption
<1>9. Push!TypeOK'
  BY <1>1, <1>2, <1>5, <1>6, <1>8, PushTyped DEF Push!PushInv, Push!TypeOK, Push!PanesChange
<1>10. Push!WaitingIsTold' /\ Push!PanesAreTold' /\ Push!WaitsForDesk' /\ Push!NamedStill'
  BY <1>2, <1>7 DEF Push!PushInv, Push!WaitingIsTold, Push!PanesAreTold, Push!WaitsForDesk,
     Push!NamedStill, Push!InLane
<1> QED BY <1>6, <1>9, <1>10 DEF Push!PushInv

LEMMA PushDeskChanges ==
  ASSUME Push!PushInv, Push!DeskChanges
  PROVE  Push!PushInv'
<1>1. x3' = ~x3 /\ x20 < MaxNews /\ x20' = x20 + 1 /\ x5' = Append(x5, [kind |-> "desk", v |-> x3'])
  BY DEF Push!DeskChanges, Push!Change
<1>2. UNCHANGED <<x4, x6, x7, x8, x9, x10, x11, x12, x13, x14, x15, x16, x17, x18, x19, x21, x22>>
  BY DEF Push!DeskChanges, Push!host, Push!Rest, Push!row, Push!agentq, Push!herdrq, Push!phone,
     Push!count
<1>3. x5 \in Seq(Push!Events) /\ x20 \in 0..MaxNews /\ x3 \in BOOLEAN
  BY DEF Push!PushInv, Push!TypeOK
<1>4. PICK e : e = [kind |-> "desk", v |-> x3']
  OBVIOUS
<1>5. e \in Push!Events /\ e.kind = "desk" /\ e.v = x3'
  BY <1>1, <1>3, <1>4 DEF Push!Events
<1>6. /\ x5' \in Seq(Push!Events) /\ (Push!Leaving => Push!Leaving')
      /\ e.kind = "desk" /\ e.v = FALSE => Push!Leaving'
  BY <1>1, <1>3, <1>4, <1>5, PushHeard
<1>7. x3 = TRUE \/ Push!Leaving => x3' = TRUE \/ Push!Leaving'
  BY <1>1, <1>3, <1>5, <1>6 DEF Push!DeskChanges
<1>8. x20' \in 0..MaxNews
  BY <1>1, <1>3, PushAssumption
<1>9. Push!TypeOK'
  BY <1>1, <1>2, <1>5, <1>6, <1>8, PushTyped DEF Push!PushInv, Push!TypeOK, Push!DeskChanges
<1>10. Push!WaitingIsTold' /\ Push!PanesAreTold' /\ Push!WaitsForDesk' /\ Push!NamedStill'
  BY <1>2, <1>7 DEF Push!PushInv, Push!WaitingIsTold, Push!PanesAreTold, Push!WaitsForDesk,
     Push!NamedStill, Push!InLane
<1> QED BY <1>6, <1>9, <1>10 DEF Push!PushInv

LEMMA PushDecide ==
  ASSUME Push!PushInv, Push!Decide
  PROVE  Push!PushInv'
<1>1. x5 # <<>> /\ x5' = Tail(x5) /\ UNCHANGED <<x1, x2, x3, x4, x7, x8, x9, x16, x17, x20, x21, x22>>
  BY DEF Push!Decide, Push!host, Push!row, Push!phone, Push!count
<1>2. PICK e : e = Head(x5)
  OBVIOUS
<1>3. /\ x5' \in Seq(Push!Events) /\ e \in Push!Events
      /\ Push!Leaving /\ ~(e.kind = "desk" /\ e.v = FALSE) => Push!Leaving'
  BY <1>1, <1>2, PushTaken DEF Push!PushInv
<1>4. \/ e.kind = "agent" /\ e.v \in Push!Statuses /\ Push!Agent(e.v) /\ UNCHANGED <<x12, x13, x14, x19>>
      \/ e.kind = "layout" /\ e.v \in SUBSET Panes /\ Push!Settle(e.v) /\ UNCHANGED <<x10, x11, x18>>
      \/ e.kind = "desk" /\ e.v \in BOOLEAN /\ Push!Desk(e.v)
  <2>1. \/ e.kind = "agent" /\ e.v \in Push!Statuses
        \/ e.kind = "layout" /\ e.v \subseteq Panes
        \/ e.kind = "desk" /\ e.v \in BOOLEAN
    BY <1>3, PushEvents
  <2> QED BY <1>2, <2>1 DEF Push!Decide, Push!agentq, Push!herdrq
<1>5. CASE e.kind = "agent" /\ e.v \in Push!Statuses /\ Push!Agent(e.v) /\ UNCHANGED <<x12, x13, x14, x19>>
  <2>1. /\ x6' \in [agent : Push!Statuses, blocked : SUBSET Panes] /\ x6'.agent = e.v /\ x6'.blocked = x6.blocked
        /\ x10' \in Push!Windows /\ x11' \in Push!Alerts \cup {"none"} /\ x18' \in Push!Alerts \cup {"none"}
        /\ x15' \in Seq(Push!Jobs)
        /\ \/ x6.agent = e.v /\ UNCHANGED <<x10, x11, x15, x18>>
           \/ x18' = "none"
           \/ x18' = e.v /\ ((x11' = e.v /\ x3 = TRUE) \/ Push!InLane(e.v)' \/ (x10'.pending = e.v /\ x10'.timer))
    BY <1>5, PushAgent
  <2>2. Push!Leaving => Push!Leaving'
    BY <1>3, <1>5
  <2>3. Push!TypeOK'
    BY <1>1, <1>3, <1>5, <2>1, PushTyped DEF Push!PushInv, Push!TypeOK
  <2>4. Push!WaitingIsTold'
    <3>1. CASE x6.agent = e.v /\ UNCHANGED <<x10, x11, x15, x18>>
      BY <1>1, <2>1, <2>2, <3>1 DEF Push!PushInv, Push!WaitingIsTold, Push!InLane
    <3>2. CASE x18' = "none"
      BY <3>2 DEF Push!WaitingIsTold
    <3>3. CASE x18' = e.v /\ ((x11' = e.v /\ x3 = TRUE) \/ Push!InLane(e.v)' \/ (x10'.pending = e.v /\ x10'.timer))
      BY <1>1, <3>3 DEF Push!WaitingIsTold, Push!InLane
    <3> QED BY <2>1, <3>1, <3>2, <3>3
  <2>5. Push!PanesAreTold' /\ Push!WaitsForDesk' /\ Push!NamedStill'
    BY <1>1, <1>5, <2>1, <2>2 DEF Push!PushInv, Push!PanesAreTold, Push!WaitsForDesk,
       Push!NamedStill
  <2> QED BY <1>3, <2>3, <2>4, <2>5 DEF Push!PushInv
<1>6. CASE e.kind = "layout" /\ e.v \in SUBSET Panes /\ Push!Settle(e.v) /\ UNCHANGED <<x10, x11, x18>>
  <2>1. /\ x6' \in [agent : Push!Statuses, blocked : SUBSET Panes] /\ x6'.agent = x6.agent /\ x6'.blocked = e.v
        /\ x12' \subseteq Panes /\ x19' \subseteq Panes /\ x13' \in BOOLEAN /\ x14' \in BOOLEAN
        /\ x15' \in Seq(Push!Jobs) /\ \A k : Push!InLane(k) => Push!InLane(k)'
        /\ x14' => x14
        /\ x21 = 1 /\ x7 # 0 => x12' \subseteq e.v
        /\ x21 = 1 /\ x19' # {} => x13' \/ x14'
    BY <1>6, PushSettle
  <2>2. Push!Leaving => Push!Leaving'
    BY <1>3, <1>6
  <2>3. Push!TypeOK'
    BY <1>1, <1>3, <1>6, <2>1, PushTyped DEF Push!PushInv, Push!TypeOK
  <2>4. Push!WaitingIsTold'
    BY <1>1, <1>6, <2>1, <2>2 DEF Push!PushInv, Push!WaitingIsTold
  <2>5. Push!WaitsForDesk'
    BY <1>1, <2>1, <2>2 DEF Push!PushInv, Push!WaitsForDesk
  <2>6. Push!PanesAreTold' /\ Push!NamedStill'
    BY <1>1, <2>1, <2>5 DEF Push!PushInv, Push!PanesAreTold, Push!WaitsForDesk, Push!NamedStill
  <2> QED BY <1>3, <2>3, <2>4, <2>5, <2>6 DEF Push!PushInv
<1>7. CASE e.kind = "desk" /\ e.v \in BOOLEAN /\ Push!Desk(e.v)
  <2>1. PICK v \in BOOLEAN : v = e.v
    BY <1>7
  <2>2. /\ x6' = x6 /\ x10' \in Push!Windows /\ x11' \in Push!Alerts \cup {"none"}
        /\ x18' \in Push!Alerts \cup {"none"} /\ x15' \in Seq(Push!Jobs)
        /\ x12' \subseteq Panes /\ x19' \subseteq Panes /\ x13' \in BOOLEAN /\ x14' \in BOOLEAN
        /\ x12' = x12 \/ x12' = x6.blocked
        /\ v = TRUE => UNCHANGED <<x10, x11, x12, x13, x14, x15, x18, x19>>
        /\ v = FALSE =>
             /\ (x14' => x3 = TRUE) /\ (x19' # {} => (x14' \/ (x19' = x19 /\ x13' = x13 /\ ~x14)))
             /\ x18' # "none" /\ x6.agent = x18' =>
                  x18' = x18 /\ (Push!InLane(x18)' \/ (x10'.pending = x18' /\ x10'.timer))
    BY <1>7, <2>1, PushDesk
  <2>3. Push!TypeOK'
    BY <1>1, <1>3, <2>2, PushTyped DEF Push!PushInv, Push!TypeOK
  <2>4. CASE v = TRUE
    <3>1. Push!Leaving => Push!Leaving'
      BY <1>3, <2>1, <2>4
    <3>2. UNCHANGED <<x6, x10, x11, x12, x13, x14, x15, x18, x19>>
      BY <2>2, <2>4
    <3>3. Push!WaitingIsTold' /\ Push!PanesAreTold' /\ Push!WaitsForDesk' /\ Push!NamedStill'
      BY <1>1, <3>1, <3>2 DEF Push!PushInv, Push!WaitingIsTold, Push!PanesAreTold,
         Push!WaitsForDesk, Push!NamedStill, Push!InLane
    <3> QED BY <1>3, <2>3, <3>3 DEF Push!PushInv
  <2>5. CASE v = FALSE
    <3>1. /\ (x14' => x3 = TRUE) /\ (x19' # {} => (x14' \/ (x19' = x19 /\ x13' = x13 /\ ~x14)))
          /\ x18' # "none" /\ x6.agent = x18' =>
               x18' = x18 /\ (Push!InLane(x18)' \/ (x10'.pending = x18' /\ x10'.timer))
      BY <2>2, <2>5
    <3>2. Push!WaitingIsTold'
      BY <2>2, <3>1 DEF Push!WaitingIsTold, Push!InLane
    <3>3. Push!WaitsForDesk' /\ Push!NamedStill'
      BY <1>1, <2>2, <3>1 DEF Push!PushInv, Push!WaitsForDesk, Push!NamedStill
    <3>4. Push!PanesAreTold'
      BY <1>1, <3>1 DEF Push!PushInv, Push!PanesAreTold, Push!TypeOK
    <3> QED BY <1>3, <2>3, <3>2, <3>3, <3>4 DEF Push!PushInv
  <2> QED BY <2>1, <2>4, <2>5
<1> QED BY <1>4, <1>5, <1>6, <1>7

LEMMA PushFlush ==
  ASSUME Push!PushInv, Push!Flush
  PROVE  Push!PushInv'
<1>1. /\ UNCHANGED <<x1, x2, x3, x4, x5, x6, x7, x8, x9, x12, x13, x14, x16, x17, x19, x20, x21, x22>>
      /\ x10.timer
  BY DEF Push!Flush, Push!host, Push!row, Push!herdrq, Push!phone, Push!count
<1>2. /\ x10 \in Push!Windows /\ x15 \in Seq(Push!Jobs) /\ x7 \in 0..MaxSubs /\ TRUE \in BOOLEAN /\ {} \subseteq Panes
      /\ x11 \in Push!Alerts \cup {"none"} /\ x18 \in Push!Alerts \cup {"none"}
  BY DEF Push!PushInv, Push!TypeOK
<1>3. PICK k : k = x10.pending
  OBVIOUS
<1>4. PICK over : over = [open |-> FALSE, pending |-> "none", timer |-> FALSE]
  OBVIOUS
<1>5. PICK again : again = [over EXCEPT !.open = TRUE]
  OBVIOUS
<1>6. PICK j : j = Push!Job(k, {})
  OBVIOUS
<1>7. PICK q : q = Append(x15, j)
  OBVIOUS
<1>8. over \in Push!Windows /\ again \in Push!Windows /\ k \in Push!Alerts \cup {"none"}
  <2>1. over \in Push!Windows
    BY <1>4, PushOver
  <2> QED BY <1>2, <1>3, <1>5, <2>1, PushWindows
<1>9. k # "none" => /\ q \in Seq(Push!Jobs) /\ \E i \in 1..Len(q) : q[i].what = k
                    /\ \A m : (\E i \in 1..Len(x15) : x15[i].what = m) => \E i \in 1..Len(q) : q[i].what = m
  <2>1. k # "none" => j \in Push!Jobs /\ j.what = k
    BY <1>2, <1>6, <1>8, PushJob
  <2> QED BY <1>2, <1>7, <2>1, PushQueued
<1>10. \/ x10' = over /\ k = "none" /\ UNCHANGED <<x11, x15, x18>>
       \/ x10' = over /\ x18' = "none" /\ UNCHANGED <<x11, x15>>
       \/ x10' = over /\ k # "none" /\ x3 = TRUE /\ x11' = k /\ x15' = x15 /\ x18' = IF x11 = "none" THEN x18 ELSE "none"
       \/ x10' = again /\ k # "none" /\ x15' = q /\ UNCHANGED <<x11, x18>>
  <2>1. x3 \in BOOLEAN
    BY DEF Push!PushInv, Push!TypeOK
  <2> QED BY <1>3, <1>4, <1>5, <1>6, <1>7, <2>1 DEF Push!Flush
<1>11. Push!TypeOK' /\ x5' \in Seq(Push!Events)
  BY <1>1, <1>2, <1>8, <1>9, <1>10 DEF Push!PushInv, Push!TypeOK
<1>12. Push!InLane(x18) => x18' = "none" \/ (x18' = x18 /\ Push!InLane(x18)')
  BY <1>9, <1>10 DEF Push!InLane
<1>13. Push!WaitingIsTold'
  <2>1. SUFFICES ASSUME x18' # "none", x6'.agent = x18'
                 PROVE  \/ Push!InLane(x18)' \/ (x10'.pending = x18' /\ x10'.timer)
                        \/ (x11' = x18' /\ (x3' \/ Push!Leaving'))
    BY DEF Push!WaitingIsTold
  <2>2. x18' = x18
    BY <1>10, <2>1
  <2>3. Push!InLane(x18) \/ k = x18 \/ (x11 = x18 /\ (x3 \/ Push!Leaving))
    BY <1>1, <1>3, <2>1, <2>2 DEF Push!PushInv, Push!WaitingIsTold
  <2>4. Push!Leaving' <=> Push!Leaving
    BY <1>1 DEF Push!Leaving
  <2>5. k = x18 => Push!InLane(x18)' \/ (x11' = x18' /\ x3')
    BY <1>1, <1>9, <1>10, <2>1, <2>2 DEF Push!InLane
  <2>6. x11 = x18 => Push!InLane(x18)' \/ x11' = x18' \/ (x11' = k /\ k = x18)
    BY <1>10, <2>1, <2>2
  <2> QED BY <1>1, <1>12, <2>1, <2>2, <2>3, <2>4, <2>5, <2>6
<1>14. Push!PanesAreTold' /\ Push!WaitsForDesk' /\ Push!NamedStill'
  BY <1>1 DEF Push!PushInv, Push!PanesAreTold, Push!WaitsForDesk, Push!NamedStill, Push!Leaving
<1> QED BY <1>11, <1>13, <1>14 DEF Push!PushInv

LEMMA PushWindowOver ==
  ASSUME Push!PushInv, Push!WindowOver
  PROVE  Push!PushInv'
<1>1. /\ UNCHANGED <<x1, x2, x3, x4, x5, x6, x7, x8, x9, x11, x12, x13, x14, x15, x16, x17, x18, x19, x20, x21, x22>>
      /\ x10' = [x10 EXCEPT !.open = FALSE]
  BY DEF Push!WindowOver, Push!host, Push!row, Push!herdrq, Push!phone, Push!count
<1>2. x10 \in Push!Windows /\ FALSE \in BOOLEAN
  BY DEF Push!PushInv, Push!TypeOK
<1>3. x10' \in Push!Windows /\ x10'.pending = x10.pending /\ x10'.timer = x10.timer
  BY <1>1, <1>2, PushWindows
<1>4. Push!TypeOK' /\ x5' \in Seq(Push!Events)
  BY <1>1, <1>3 DEF Push!PushInv, Push!TypeOK
<1>5. Push!WaitingIsTold' /\ Push!PanesAreTold' /\ Push!WaitsForDesk' /\ Push!NamedStill'
  BY <1>1, <1>3 DEF Push!PushInv, Push!WaitingIsTold, Push!PanesAreTold, Push!WaitsForDesk,
     Push!NamedStill, Push!InLane, Push!Leaving
<1> QED BY <1>4, <1>5 DEF Push!PushInv

LEMMA PushFire ==
  ASSUME Push!PushInv, Push!Fire
  PROVE  Push!PushInv'
<1>1. /\ UNCHANGED <<x1, x2, x3, x4, x5, x6, x7, x8, x9, x10, x11, x16, x17, x18, x20, x21, x22>>
      /\ x13' = FALSE /\ Push!Fired(x15)
  BY DEF Push!Fire, Push!host, Push!row, Push!agentq, Push!phone, Push!count
<1>2. x15 \in Seq(Push!Jobs) /\ Push!TypeOK
  BY DEF Push!PushInv, Push!TypeOK
<1>3. /\ x15' \in Seq(Push!Jobs)
      /\ \A k : (\E i \in 1..Len(x15) : x15[i].what = k) => Push!InLane(k)'
      /\ x12' \subseteq Panes /\ x19' \subseteq Panes /\ x14' \in BOOLEAN
      /\ x12' = x12 \/ x12' = x6.blocked
      /\ \/ x14' = FALSE /\ x19' = {}
         \/ x14' = TRUE /\ x3 = TRUE /\ x19' = x19
  BY <1>1, <1>2, PushFired
<1>4. Push!TypeOK' /\ x5' \in Seq(Push!Events)
  BY <1>1, <1>3 DEF Push!PushInv, Push!TypeOK
<1>5. Push!InLane(x18) => Push!InLane(x18)'
  BY <1>1, <1>3 DEF Push!InLane
<1>6. Push!WaitingIsTold'
  BY <1>1, <1>5 DEF Push!PushInv, Push!WaitingIsTold, Push!Leaving
<1>7. Push!PanesAreTold' /\ Push!WaitsForDesk' /\ Push!NamedStill'
  BY <1>1, <1>3 DEF Push!PushInv, Push!PanesAreTold, Push!WaitsForDesk, Push!NamedStill,
     Push!Leaving
<1> QED BY <1>4, <1>6, <1>7 DEF Push!PushInv

LEMMA PushDeliver ==
  ASSUME Push!PushInv, Push!Deliver
  PROVE  Push!PushInv'
<1>1. /\ UNCHANGED <<x1, x2, x3, x4, x5, x6, x8, x9, x10, x11, x12, x13, x14, x19, x20, x21>>
      /\ x15 # <<>> /\ x15' = Tail(x15)
  BY DEF Push!Deliver, Push!host, Push!herdrq
<1>2. x15 \in Seq(Push!Jobs)
  BY DEF Push!PushInv, Push!TypeOK
<1>3. PICK j : j = Head(x15)
  OBVIOUS
<1>4. /\ x15' \in Seq(Push!Jobs) /\ j \in Push!Jobs
      /\ \A k : Push!InLane(k) /\ k # j.what => Push!InLane(k)'
  BY <1>1, <1>2, <1>3, PushSent
<1>5. (x7' = x7 \/ x7' = 0) /\ (x18' = "none" \/ (x18' = x18 /\ (j.what \in Push!Alerts => x18 # j.what)))
  BY <1>3 DEF Push!Deliver, Push!Shown, Push!Drop, Push!phone, Push!Alerts
<1>6. x16' \in Push!Alerts \cup {"none"} /\ x17' \subseteq Panes /\ x22' \in 0..MaxFaults
  <2>1. j.panes \subseteq Panes
    BY <1>4 DEF Push!Jobs
  <2>2. x22' = x22 \/ (x22 < MaxFaults /\ x22' = x22 + 1)
    BY DEF Push!Deliver
  <2>3. x22' \in 0..MaxFaults
    BY <2>2, PushAssumption DEF Push!PushInv, Push!TypeOK
  <2> QED BY <1>3, <2>1, <2>3 DEF Push!Deliver, Push!Shown, Push!phone, Push!PushInv, Push!TypeOK
<1>7. Push!TypeOK' /\ x5' \in Seq(Push!Events)
  BY <1>1, <1>4, <1>5, <1>6, PushAssumption DEF Push!PushInv, Push!TypeOK
<1>8. x18 \in Push!Alerts \cup {"none"} /\ x18 # "none" => x18 # j.what \/ x18' = "none"
  BY <1>5 DEF Push!PushInv, Push!TypeOK
<1>9. Push!WaitingIsTold'
  BY <1>1, <1>4, <1>5, <1>8 DEF Push!PushInv, Push!TypeOK, Push!WaitingIsTold, Push!Leaving
<1>10. Push!PanesAreTold' /\ Push!WaitsForDesk' /\ Push!NamedStill'
  BY <1>1, <1>5 DEF Push!PushInv, Push!PanesAreTold, Push!WaitsForDesk, Push!NamedStill,
     Push!Leaving
<1> QED BY <1>7, <1>9, <1>10 DEF Push!PushInv

LEMMA PushSubscribe ==
  ASSUME Push!PushInv, Push!Subscribe
  PROVE  Push!PushInv'
<1>1. /\ UNCHANGED <<x1, x2, x3, x4, x5, x6, x8, x9, x10, x11, x12, x13, x14, x15, x16, x17, x18, x19, x20, x22>>
      /\ x21 < MaxSubs /\ x21' = x21 + 1 /\ x7' = x21'
  BY DEF Push!Subscribe, Push!host, Push!herdrq, Push!phone
<1>2. x21 \in 1..MaxSubs
  BY DEF Push!PushInv, Push!TypeOK
<1>3. x21' \in 1..MaxSubs /\ x7' \in 0..MaxSubs /\ x21' # 1
  BY <1>1, <1>2, PushAssumption
<1>4. Push!TypeOK' /\ x5' \in Seq(Push!Events)
  BY <1>1, <1>3 DEF Push!PushInv, Push!TypeOK
<1>5. Push!WaitingIsTold' /\ Push!PanesAreTold' /\ Push!WaitsForDesk' /\ Push!NamedStill'
  BY <1>1, <1>3 DEF Push!PushInv, Push!WaitingIsTold, Push!PanesAreTold, Push!WaitsForDesk,
     Push!NamedStill, Push!InLane, Push!Leaving
<1> QED BY <1>4, <1>5 DEF Push!PushInv

LEMMA PushPrefer ==
  ASSUME Push!PushInv, Push!Prefer
  PROVE  Push!PushInv'
<1>1. /\ UNCHANGED <<x1, x2, x3, x5, x6, x7, x9, x10, x11, x12, x13, x14, x15, x16, x17, x18, x19, x21, x22>>
      /\ x20 < MaxNews /\ x20' = x20 + 1
  BY DEF Push!Prefer, Push!agentq, Push!herdrq, Push!phone
<1>2. x8' \subseteq Push!Kinds /\ x4' \in BOOLEAN
  BY DEF Push!Prefer, Push!PushInv, Push!TypeOK
<1>3. x20' \in 0..MaxNews
  BY <1>1, PushAssumption DEF Push!PushInv, Push!TypeOK
<1>4. Push!TypeOK' /\ x5' \in Seq(Push!Events)
  BY <1>1, <1>2, <1>3 DEF Push!PushInv, Push!TypeOK
<1>5. Push!WaitingIsTold' /\ Push!PanesAreTold' /\ Push!WaitsForDesk' /\ Push!NamedStill'
  BY <1>1 DEF Push!PushInv, Push!WaitingIsTold, Push!PanesAreTold, Push!WaitsForDesk,
     Push!NamedStill, Push!InLane, Push!Leaving
<1> QED BY <1>4, <1>5 DEF Push!PushInv

\* A step that changes nothing of the part.
LEMMA PushStays ==
  ASSUME Push!PushInv, UNCHANGED <<x1, x2, x3, x4, x5, x6, x7, x8, x9, x10, x11, x12, x13, x14, x15, x16, x17, x18,
                 x19, x20, x21, x22>>
  PROVE  Push!PushInv'
  BY DEF Push!PushInv, Push!TypeOK, Push!WaitingIsTold, Push!PanesAreTold, Push!WaitsForDesk,
     Push!NamedStill, Push!InLane, Push!Leaving

LEMMA PushNext ==
  ASSUME Push!PushInv, Push!Next
  PROVE  Push!PushInv'
<1>1. CASE Push!AgentChanges \/ Push!PanesChange \/ Push!DeskChanges
  BY <1>1, PushAgentChanges, PushPanesChange, PushDeskChanges
<1>2. CASE Push!Decide \/ Push!Flush \/ Push!WindowOver \/ Push!Fire
  BY <1>2, PushDecide, PushFlush, PushWindowOver, PushFire
<1>3. CASE Push!Deliver \/ Push!Subscribe \/ Push!Prefer
  BY <1>3, PushDeliver, PushSubscribe, PushPrefer
<1> QED BY <1>1, <1>2, <1>3 DEF Push!Next

LEMMA PushInit ==
  ASSUME Push!Init
  PROVE  Push!PushInv
<1> USE PushAssumption DEF Push!Init
<1>1. Push!TypeOK
  <2>1. x6 \in [agent : Push!Statuses, blocked : SUBSET Panes] /\ x10 \in Push!Windows
    BY DEF Push!Statuses, Push!Windows
  <2>2. Len(x5) = 0 /\ x5 \in Seq(Push!Events) /\ x15 \in Seq(Push!Jobs)
    OBVIOUS
  <2>3. 1 \in 0..MaxSubs /\ 1 \in 1..MaxSubs /\ 0 \in 0..MaxNews /\ 0 \in 0..MaxFaults
    OBVIOUS
  <2>4. \A i \in 1..Len(x5) :
          \/ x5[i].kind = "agent" /\ x5[i].v \in Push!Statuses
          \/ x5[i].kind = "layout" /\ x5[i].v \subseteq Panes
          \/ x5[i].kind = "desk" /\ x5[i].v \in BOOLEAN
    BY <2>2
  <2>5. /\ x1 \in Push!Statuses /\ x11 \in Push!Alerts \cup {"none"} /\ x18 \in Push!Alerts \cup {"none"}
        /\ x16 \in Push!Alerts \cup {"none"}
    BY DEF Push!Statuses
  <2>6. /\ x2 \subseteq Panes /\ x3 \in BOOLEAN /\ x4 \in BOOLEAN /\ x8 \subseteq Push!Kinds /\ x9 \in BOOLEAN
        /\ x12 \subseteq Panes /\ x19 \subseteq Panes /\ x13 \in BOOLEAN /\ x14 \in BOOLEAN
        /\ x17 \subseteq Panes
    OBVIOUS
  <2> HIDE DEF Push!Init
  <2>7. x7 \in 0..MaxSubs /\ x21 \in 1..MaxSubs /\ x20 \in 0..MaxNews /\ x22 \in 0..MaxFaults
    BY <2>3 DEF Push!Init
  <2> QED BY <2>1, <2>2, <2>4, <2>5, <2>6, <2>7 DEF Push!TypeOK
<1>2. x5 \in Seq(Push!Events)
  OBVIOUS
<1>3. Push!WaitingIsTold /\ Push!PanesAreTold /\ Push!WaitsForDesk /\ Push!NamedStill
  BY DEF Push!WaitingIsTold, Push!PanesAreTold, Push!WaitsForDesk, Push!NamedStill
<1> QED BY <1>1, <1>2, <1>3 DEF Push!PushInv

\* What the run checks of it follows.
LEMMA PushTold ==
  ASSUME Push!PushInv
  PROVE  Push!WaitingIsTold /\ Push!PanesAreTold
  BY DEF Push!PushInv

\* The claim about the part, of every behaviour.
LEMMA PushAlways == Spec => [](part = "push" => Push!PushInv)
<1> DEFINE Inv == part = "push" => Push!PushInv
<1>1. Init => Inv
  BY PushInit DEF Init
<1>2. Inv /\ [Next]_all => Inv'
  <2> SUFFICES ASSUME Inv, [Next]_all, part' = "push" PROVE Push!PushInv'
    OBVIOUS
  <2>1. CASE UNCHANGED all
    <3>1. UNCHANGED <<part, x1, x2, x3, x4, x5, x6, x7, x8, x9, x10, x11, x12, x13, x14, x15, x16, x17, x18, x19, x20, x21, x22>>
      BY <2>1 DEF all
    <3> QED BY <3>1, PushStays
  <2>2. CASE Next
    <3>1. part = "push" /\ Push!Next
      BY <2>2 DEF Next
    <3> QED BY <3>1, PushNext
  <2> QED BY <2>1, <2>2
<1> QED BY <1>1, <1>2, PTL DEF Spec

-----------------------------------------------------------------------------
(* The conversation: its coroutines and what codex has sent; each step keeps ChatInv, and so
   does every behaviour. *)

\* A request starts as asked, or as cut when there is no connection.
LEMMA ChatAsked ==
  ASSUME NEW at \in Chat!Steps, NEW w \in Words \cup {"none"}, NEW t \in 0..MaxTurns
  PROVE  LET r == Chat!Asked(at, w, t) IN
         /\ r \in Chat!Coroutines /\ r.at = at /\ r.word = w /\ r.turn = t
         /\ r.rpc \in {"asked", "cut"} /\ (r.rpc = "asked" => x11 # "off")
  BY ChatAssumption DEF Chat!Asked, Chat!Coroutines

\* An idle coroutine has asked nothing.
LEMMA ChatIdle ==
  LET r == Chat!Idle IN
  /\ r \in Chat!Coroutines /\ r.at = "idle" /\ r.word = "none" /\ r.turn = 0 /\ r.rpc = "no"
  BY ChatAssumption DEF Chat!Idle, Chat!Coroutines, Chat!Steps

\* What a coroutine is does not change with what its request has come to,
LEMMA ChatWaits ==
  ASSUME NEW q \in Chat!Coroutines, NEW m \in {"no", "asked", "replied", "done", "cut", "timeout"}
  PROVE  LET r == [q EXCEPT !.rpc = m] IN
         r \in Chat!Coroutines /\ r.at = q.at /\ r.word = q.word /\ r.turn = q.turn /\ r.val = q.val /\ r.rpc = m
  BY DEF Chat!Coroutines

\* nor with the reply.
LEMMA ChatReplied ==
  ASSUME NEW q \in Chat!Coroutines, NEW v \in 0..MaxTurns
  PROVE  LET r == [q EXCEPT !.rpc = "replied", !.val = v] IN
         /\ r \in Chat!Coroutines /\ r.at = q.at /\ r.word = q.word /\ r.turn = q.turn
         /\ r.val = v /\ r.rpc = "replied"
<1>1. PICK p : p = [q EXCEPT !.rpc = "replied"]
  OBVIOUS
<1>2. p \in Chat!Coroutines /\ p.at = q.at /\ p.word = q.word /\ p.turn = q.turn /\ p.rpc = "replied"
  BY <1>1 DEF Chat!Coroutines
<1>3. PICK s : s = [p EXCEPT !.val = v]
  OBVIOUS
<1>4. /\ s \in Chat!Coroutines /\ s.at = q.at /\ s.word = q.word /\ s.turn = q.turn
      /\ s.val = v /\ s.rpc = "replied"
  BY <1>2, <1>3 DEF Chat!Coroutines
<1>5. s = [q EXCEPT !.rpc = "replied", !.val = v]
  BY <1>1, <1>3
<1> QED BY <1>4, <1>5

\* The fields of a coroutine.
LEMMA ChatTyped ==
  ASSUME Chat!ChatInv, NEW c \in Chat!Calls
  PROVE  /\ x17 \in [Chat!Calls -> Chat!Coroutines] /\ x17[c].at \in Chat!Steps
         /\ x17[c].word \in Words \cup {"none"} /\ x17[c].turn \in 0..MaxTurns /\ x17[c].val \in 0..MaxTurns
         /\ x17[c].rpc \in {"no", "asked", "replied", "done", "cut", "timeout"}
         /\ "sync" \in Chat!Calls /\ Phones \subseteq Chat!Calls /\ Words \subseteq Chat!Calls
<1>1. x17 \in [Chat!Calls -> Chat!Coroutines]
  BY DEF Chat!ChatInv, Chat!CallOK
<1> QED BY <1>1 DEF Chat!Coroutines, Chat!Calls

\* When one coroutine other than the sync moves, and asks for no start, what codex has sent is
\* read as before.
LEMMA ChatCalls ==
  ASSUME Chat!ChatInv, NEW c \in Chat!Calls, NEW r \in Chat!Coroutines, c # "sync",
         x17' = [x17 EXCEPT ![c] = r], UNCHANGED <<x1, x2, x8, x9, x10, x11, x14, x15>>,
         x12 # 0 => x12' = x12,
         r.at = "idle" => r.rpc = "no", r.at # "attach",
         r.at \notin {"idle", "attach", "cancel"} => r.word \in Words,
         r.at \in {"now.delete", "now.steer", "cancel"} => r.turn # 0, r.rpc = "asked" => x11 # "off", x11 # "loading"
  PROVE  /\ Chat!CallOK' /\ Chat!LinkOK' /\ Chat!TurnIsTold' /\ Chat!EndedOK' /\ Chat!AsksAreTold'
         /\ \A e \in Chat!Calls : x17'[e].rpc \in {"no", "asked", "replied", "done", "cut", "timeout"}
<1>1. x17'["sync"] = x17["sync"] /\ x17 \in [Chat!Calls -> Chat!Coroutines] /\ "sync" \in Chat!Calls
  BY DEF Chat!ChatInv, Chat!CallOK, Chat!Calls
<1>2. Chat!CallOK'
  BY <1>1 DEF Chat!ChatInv, Chat!CallOK
<1>3. Chat!LinkOK'
  BY <1>1 DEF Chat!ChatInv, Chat!LinkOK, Chat!Unread, Chat!Synced
<1>4. Chat!TurnIsTold'
  <2>1. Chat!Tracking' = Chat!Tracking /\ Chat!Unread' = Chat!Unread
    BY <1>1 DEF Chat!Tracking, Chat!Unread
  <2>2. \A i : (Chat!Since(i)' <=> Chat!Since(i)) /\ (Chat!Began(i)' <=> Chat!Began(i))
    BY DEF Chat!Since, Chat!Synced, Chat!Began
  <2>3. x1 # 0 /\ Chat!Known = x1 => Chat!Known' = x1
    BY <1>1 DEF Chat!Known
  <2> QED BY <2>1, <2>2, <2>3 DEF Chat!ChatInv, Chat!TurnIsTold
<1>5. Chat!EndedOK'
  BY DEF Chat!ChatInv, Chat!EndedOK, Chat!Unread
<1>6. Chat!AsksAreTold'
  BY <1>1 DEF Chat!ChatInv, Chat!AsksAreTold, Chat!Tracking, Chat!Waiting, Chat!Unread
<1>7. \A e \in Chat!Calls : x17'[e].rpc \in {"no", "asked", "replied", "done", "cut", "timeout"}
  BY <1>2 DEF Chat!CallOK, Chat!Coroutines
<1> QED BY <1>2, <1>3, <1>4, <1>5, <1>6, <1>7

\* When the one that moves is not starting a message, no message is started anew.
LEMMA ChatStarts ==
  ASSUME Chat!ChatInv, NEW c \in Chat!Calls, NEW r \in Chat!Coroutines, r.at \notin Chat!StartSteps,
         x17' = [x17 EXCEPT ![c] = r], x7' = x7, \A w \in Words : x16'[w] = "no" => x16[w] = "no"
  PROVE  Chat!OneStart'
<1>1. \A e \in Chat!Calls : x17'[e].at \in Chat!StartSteps => e # c /\ x17'[e] = x17[e]
  BY DEF Chat!ChatInv, Chat!CallOK
<1> QED BY <1>1 DEF Chat!ChatInv, Chat!OneStart, Chat!Starts, Chat!StartSteps

\* One sentence more is a sequence of one put to the end.
LEMMA ChatSays ==
  ASSUME NEW n \in Chat!Sentences
  PROVE  /\ n.kind \in {"reply", "started", "completed", "took", "ask", "resolved"}
         /\ n.kind = "reply" => n.v \in Chat!Calls
         /\ n.kind \in {"started", "completed"} => n.v \in 1..MaxTurns
         /\ n.kind = "took" => n.v \in Words
         /\ n.kind \in {"ask", "resolved"} => n.v \subseteq Asks
BY DEF Chat!Sentences

\* The empty sequence put to the end is nothing more.
LEMMA ChatNone ==
  ASSUME Chat!ChatInv, x11 # "loading" \/ x17["sync"].rpc \notin {"replied", "timeout"}
  PROVE  \A i \in Chat!Unread : ~Chat!Synced(i)
BY DEF Chat!ChatInv, Chat!LinkOK

\* What codex says next is heard after what it has said: the claims about the connection hold
\* of the longer sequence when they hold of the new sentences.
LEMMA ChatHears ==
  ASSUME Chat!ChatInv, NEW s \in Seq(Chat!Sentences), x10' = x10 \o s, x11' = x11, x11 # "off",
         UNCHANGED <<x12, x14, x15>>, x17'["sync"] = x17["sync"],
         \A e \in Chat!Calls : x17'[e].rpc = "asked" => x17[e].rpc = "asked",
         x11 # "loading" \/ x17' = x17,
         \A i \in 1..Len(s) : s[i].kind = "reply" => s[i].v # "sync",
         x2' \in Nat, x2 \in Nat, x2 <= x2', x1' <= x2',
         \/ x1' = x1 /\ \A i \in 1..Len(s) : s[i].kind # "started"
         \/ x1' = 0
         \/ /\ x1' = x2 + 1 /\ Len(s) >= 1 /\ s[Len(s)].kind = "started" /\ s[Len(s)].v = x1'
            /\ x1 = 0 /\ \A i \in 1..Len(s) : s[i].kind = "started" => i = Len(s),
         \A i \in 1..Len(s) : s[i].kind = "completed" => s[i].v <= x2' /\ s[i].v # x1',
         \A a \in Asks : x8'[a] = "waiting" =>
           \/ x8[a] = "waiting" /\ (a \in x9 => a \in x9')
           \/ \E i \in 1..Len(s) : s[i].kind = "ask" /\ a \in s[i].v,
         \A a \in Asks : x8[a] = "over" => x8'[a] = "over",
         \A i \in 1..Len(s) : s[i].kind = "resolved" => \A a \in s[i].v : x8'[a] = "over"
  PROVE  Chat!LinkOK' /\ Chat!TurnIsTold' /\ Chat!EndedOK' /\ Chat!AsksAreTold'
<1>1. x10 \in Seq(Chat!Sentences)
  BY DEF Chat!ChatInv, Chat!LinkOK
<1>2. /\ x10' \in Seq(Chat!Sentences) /\ Len(x10') = Len(x10) + Len(s) /\ Len(x10) \in Nat /\ Len(s) \in Nat
      /\ \A i \in 1..Len(x10) : x10'[i] = x10[i]
      /\ \A i \in 1..Len(s) : x10'[Len(x10) + i] = s[i]
      /\ \A i \in 1..Len(x10') : i \in 1..Len(x10) \/ (i - Len(x10) \in 1..Len(s) /\ x10'[i] = s[i - Len(x10)])
  BY <1>1, SeqLonger
<1>3. 1..Len(x10) \subseteq 1..Len(x10')
  BY <1>2
<1>4. \A i \in 1..Len(x10') : Chat!Synced(i)' <=> i \in 1..Len(x10) /\ Chat!Synced(i)
  BY <1>2 DEF Chat!Synced
<1>5. Chat!LinkOK'
  <2>1. x11' = "off" => x10' = <<>>
    OBVIOUS
  <2>2. \A e \in Chat!Calls : x17'[e].rpc = "asked" => x11' # "off"
    BY DEF Chat!ChatInv, Chat!LinkOK
  <2>3. x11' = "on" => x17'["sync"].at = "idle"
    BY DEF Chat!ChatInv, Chat!LinkOK
  <2>4. \A i \in 1..Len(x10') : Chat!Synced(i)' => x11' = "loading" /\ x17'["sync"].rpc \in {"replied", "timeout"}
    BY <1>4 DEF Chat!ChatInv, Chat!LinkOK, Chat!Unread
  <2>5. x17'["sync"].rpc = "replied" => \E i \in 1..Len(x10') : Chat!Synced(i)'
    BY <1>3, <1>4 DEF Chat!ChatInv, Chat!LinkOK, Chat!Unread
  <2>6. \A i, j \in 1..Len(x10') : Chat!Synced(i)' /\ Chat!Synced(j)' => i = j
    BY <1>4 DEF Chat!ChatInv, Chat!LinkOK, Chat!Unread
  <2>7. x11' = "loading" => \A e \in Chat!Calls \ {"sync"} : Chat!Free(e)'
    BY DEF Chat!ChatInv, Chat!LinkOK, Chat!Free
  <2> QED BY <1>2, <2>1, <2>2, <2>3, <2>4, <2>5, <2>6, <2>7 DEF Chat!LinkOK, Chat!Unread
<1>6. Chat!TurnIsTold'
  <2>1. SUFFICES ASSUME Chat!Tracking', x1' # 0
                 PROVE  /\ Chat!Known' = x1' \/ \E i \in 1..Len(x10') : Chat!Since(i)' /\ Chat!Began(i)'
                        /\ \A i \in 1..Len(x10') : Chat!Since(i)' /\ x10'[i].kind = "started" /\ ~Chat!Began(i)' =>
                              \E j \in i + 1 .. Len(x10') : Chat!Began(j)'
    BY DEF Chat!TurnIsTold, Chat!Unread
  <2>2. Chat!Tracking /\ Chat!Known' = Chat!Known
    BY <2>1 DEF Chat!Tracking, Chat!Known
  <2>3. \A i \in 1..Len(x10) : Chat!Since(i)' <=> Chat!Since(i)
    <3>1. TAKE i \in 1..Len(x10)
    <3>2. \A j \in i..Len(x10') : j \in 1..Len(x10')
      BY <1>2
    <3>3. i..Len(x10) \subseteq i..Len(x10')
      BY <1>2
    <3>4. \A j \in i..Len(x10') : j \in 1..Len(x10) => j \in i..Len(x10)
      BY <1>2
    <3> QED BY <1>4, <3>2, <3>3, <3>4 DEF Chat!Since
  <2>4. CASE x1' = x1 /\ \A i \in 1..Len(s) : s[i].kind # "started"
    <3>1. \A i \in 1..Len(x10') : x10'[i].kind = "started" => i \in 1..Len(x10) /\ x10[i].kind = "started"
      BY <1>2, <2>4
    <3>2. \A i \in 1..Len(x10) : Chat!Began(i)' <=> Chat!Began(i)
      BY <1>2, <2>4 DEF Chat!Began
    <3>3. /\ Chat!Known = x1 \/ \E i \in 1..Len(x10) : Chat!Since(i) /\ Chat!Began(i)
          /\ \A i \in 1..Len(x10) : Chat!Since(i) /\ x10[i].kind = "started" /\ ~Chat!Began(i) =>
                \E j \in i + 1 .. Len(x10) : Chat!Began(j)
      BY <2>1, <2>2, <2>4 DEF Chat!ChatInv, Chat!TurnIsTold, Chat!Unread
    <3>4. Chat!Known' = x1' \/ \E i \in 1..Len(x10') : Chat!Since(i)' /\ Chat!Began(i)'
      BY <1>3, <2>2, <2>3, <2>4, <3>2, <3>3
    <3>5. \A i \in 1..Len(x10) : i + 1 .. Len(x10) \subseteq i + 1 .. Len(x10') /\ i + 1 .. Len(x10) \subseteq 1..Len(x10)
      BY <1>2
    <3>6. ASSUME NEW i \in 1..Len(x10'), Chat!Since(i)', x10'[i].kind = "started", ~Chat!Began(i)'
          PROVE  \E j \in i + 1 .. Len(x10') : Chat!Began(j)'
      <4>1. i \in 1..Len(x10) /\ Chat!Since(i) /\ x10[i].kind = "started" /\ ~Chat!Began(i)
        BY <2>3, <3>1, <3>2, <3>6
      <4>2. PICK j \in i + 1 .. Len(x10) : Chat!Began(j)
        BY <3>3, <4>1
      <4>3. j \in i + 1 .. Len(x10') /\ j \in 1..Len(x10)
        BY <3>5, <4>1
      <4> QED BY <3>2, <4>2, <4>3
    <3> QED BY <3>4, <3>6
  <2>5. CASE /\ x1' = x2 + 1 /\ Len(s) >= 1 /\ s[Len(s)].kind = "started" /\ s[Len(s)].v = x1'
             /\ \A i \in 1..Len(s) : s[i].kind = "started" => i = Len(s)
    <3>1. PICK l \in 1..Len(x10') : l = Len(x10')
      BY <1>2, <2>5
    <3>2. x10'[l] = s[Len(s)] /\ l \notin 1..Len(x10)
      BY <1>2, <2>5, <3>1
    <3>3. Chat!Began(l)'
      BY <2>5, <3>2 DEF Chat!Began
    <3>4. Chat!Since(l)'
      <4>1. \A j \in l..Len(x10') : j = l
        BY <1>2, <3>1
      <4>2. ~Chat!Synced(l)'
        BY <1>4, <3>1, <3>2
      <4> QED BY <4>1, <4>2 DEF Chat!Since
    <3>5. \A i \in 1..Len(x10') : ~Chat!Began(i)' => l \in i + 1 .. Len(x10')
      <4>1. TAKE i \in 1..Len(x10')
      <4>2. Len(x10') \in Nat
        BY <1>2
      <4>3. i # l => l \in i + 1 .. Len(x10')
        BY <3>1, <4>1, <4>2
      <4> QED BY <3>3, <4>3
    <3> QED BY <3>3, <3>4, <3>5
  <2> QED BY <2>1, <2>4, <2>5
<1>7. Chat!EndedOK'
  <2>1. \A i \in 1..Len(x10) : x10[i].kind = "completed" => x10[i].v <= x2 /\ x10[i].v # x1 /\ x10[i].v \in 1..MaxTurns
    BY <1>1, ChatSays DEF Chat!ChatInv, Chat!EndedOK, Chat!Unread
  <2>2. \A i \in 1..Len(x10) : x10[i].kind = "completed" => x10[i].v <= x2' /\ x10[i].v # x1'
    BY <2>1, ChatAssumption
  <2>3. \A i \in 1..Len(x10') : x10'[i].kind = "completed" => x10'[i].v <= x2' /\ x10'[i].v # x1'
    BY <1>2, <2>2
  <2> QED BY <2>3 DEF Chat!EndedOK, Chat!Unread
<1>8. Chat!AsksAreTold'
  <2>1. x14' \cap x15' = {}
    BY DEF Chat!ChatInv, Chat!AsksAreTold
  <2>2. \A i \in 1..Len(x10') : x10'[i].kind = "resolved" => \A a \in x10'[i].v : x8'[a] = "over"
    <3>1. \A i \in 1..Len(x10) :
            x10[i].kind = "resolved" => x10[i].v \subseteq Asks /\ \A a \in x10[i].v : x8[a] = "over"
      BY <1>1, ChatSays DEF Chat!ChatInv, Chat!AsksAreTold, Chat!Unread
    <3>2. \A i \in 1..Len(x10) : x10[i].kind = "resolved" => \A a \in x10[i].v : x8'[a] = "over"
      BY <3>1
    <3>3. ASSUME NEW i \in 1..Len(x10'), x10'[i].kind = "resolved", NEW a \in x10'[i].v
          PROVE  x8'[a] = "over"
      <4>1. CASE i \in 1..Len(x10)
        BY <1>2, <3>2, <3>3, <4>1
      <4>2. CASE i - Len(x10) \in 1..Len(s) /\ x10'[i] = s[i - Len(x10)]
        BY <3>3, <4>2
      <4> QED BY <1>2, <4>1, <4>2
    <3> QED BY <3>3
  <2>3. ASSUME Chat!Tracking', NEW a \in Asks, x8'[a] = "waiting"
        PROVE  a \in x14' \cup x9' \/ \E i \in 1..Len(x10') : x10'[i].kind = "ask" /\ a \in x10'[i].v
    <3>1. Chat!Tracking
      BY <2>3 DEF Chat!Tracking
    <3>2. CASE \E i \in 1..Len(s) : s[i].kind = "ask" /\ a \in s[i].v
      <4>1. PICK i \in 1..Len(s) : s[i].kind = "ask" /\ a \in s[i].v
        BY <3>2
      <4>2. Len(x10) + i \in 1..Len(x10')
        BY <1>2, <4>1
      <4>3. x10'[Len(x10) + i].kind = "ask" /\ a \in x10'[Len(x10) + i].v
        BY <1>2, <4>1
      <4> QED BY <4>2, <4>3
    <3>3. CASE x8[a] = "waiting" /\ (a \in x9 => a \in x9')
      <4>1. a \in x14 \cup x9 \/ \E i \in 1..Len(x10) : x10[i].kind = "ask" /\ a \in x10[i].v
        BY <3>1, <3>3 DEF Chat!ChatInv, Chat!AsksAreTold, Chat!Waiting, Chat!Unread
      <4> QED BY <1>2, <1>3, <3>3, <4>1
    <3> QED BY <2>3, <3>2, <3>3
  <2> QED BY <2>1, <2>2, <2>3 DEF Chat!AsksAreTold, Chat!Waiting, Chat!Unread
<1> QED BY <1>5, <1>6, <1>7, <1>8

\* A lost connection leaves nothing to read.
LEMMA ChatSilent ==
  ASSUME x11' = "off", x10' = <<>>, \A c \in Chat!Calls : x17'[c].rpc # "asked", x17'["sync"].rpc # "replied",
         x14' \cap x15' = {}, x1' <= x2'
  PROVE  Chat!LinkOK' /\ Chat!TurnIsTold' /\ Chat!EndedOK' /\ Chat!AsksAreTold'
<1>1. x10' \in Seq(Chat!Sentences) /\ Chat!Unread' = {} /\ ~Chat!Tracking'
  BY DEF Chat!Unread, Chat!Tracking
<1>2. Chat!LinkOK'
  BY <1>1 DEF Chat!LinkOK
<1>3. Chat!TurnIsTold' /\ Chat!EndedOK' /\ Chat!AsksAreTold'
  BY <1>1 DEF Chat!TurnIsTold, Chat!EndedOK, Chat!AsksAreTold
<1> QED BY <1>2, <1>3

\* Without a connection nothing is asked and nothing is unread.
LEMMA ChatAway ==
  ASSUME Chat!ChatInv, x11 = "off"
  PROVE  /\ \A c \in Chat!Calls : x17[c].rpc # "asked"
         /\ x17["sync"].rpc # "replied" /\ x14 \cap x15 = {} /\ x1 <= x2 /\ x10 = <<>>
<1>1. Chat!Unread = {} /\ x10 = <<>>
  BY DEF Chat!ChatInv, Chat!LinkOK, Chat!Unread
<1> QED BY <1>1 DEF Chat!ChatInv, Chat!LinkOK, Chat!EndedOK, Chat!AsksAreTold

\* What core reads first it has taken in when it is off the sequence: the claims about the
\* rest.
LEMMA ChatReads ==
  ASSUME Chat!ChatInv, x10 # <<>>, x10' = Tail(x10), UNCHANGED <<x1, x2, x8, x11, x15>>, x11 # "off",
         NEW h, h = Head(x10), x17'["sync"].val = x17["sync"].val,
         x11 = "loading" => /\ \A e \in Chat!Calls \ {"sync"} : x17'[e].at = "idle"
                            /\ x17["sync"].rpc # "done",
         \/ x17'["sync"] = x17["sync"] /\ (h.kind = "reply" => h.v # "sync")
         \/ /\ h.kind = "reply" /\ h.v = "sync" /\ x17["sync"].rpc = "replied" /\ x17'["sync"].rpc = "done"
         \/ /\ h.kind = "reply" /\ h.v = "sync" /\ x17["sync"].rpc # "replied" /\ x17'["sync"] = x17["sync"],
         x11 = "on" => \/ x12' = x12 /\ h.kind # "started"
                       \/ x12' = h.v /\ h.kind = "started"
                       \/ x12' = 0 /\ h.kind = "completed" /\ h.v = x12,
         x14' \cap x15' = {}, \A a \in Chat!Waiting : a \in x14 \cup x9 => a \in x14' \cup x9',
         h.kind = "ask" => \A a \in h.v : a \in x14' \cup x9'
  PROVE  Chat!LinkOK' /\ Chat!TurnIsTold' /\ Chat!EndedOK' /\ Chat!AsksAreTold'
<1>1. x10 \in Seq(Chat!Sentences) /\ x10 # <<>>
  BY DEF Chat!ChatInv, Chat!LinkOK
<1>2. /\ x10' \in Seq(Chat!Sentences) /\ Len(x10) \in Nat /\ Len(x10) >= 1 /\ Len(x10') = Len(x10) - 1
      /\ h = x10[1] /\ h \in Chat!Sentences /\ 1 \in 1..Len(x10)
      /\ \A i \in 1..Len(x10') : i + 1 \in 1..Len(x10) /\ x10'[i] = x10[i + 1]
      /\ \A i \in 1..Len(x10) : i = 1 \/ (i - 1 \in 1..Len(x10') /\ x10'[i - 1] = x10[i])
  BY <1>1, SeqRest
<1>3. \A i \in 1..Len(x10') : (Chat!Synced(i)' <=> Chat!Synced(i + 1)) /\ (Chat!Began(i)' <=> Chat!Began(i + 1))
  BY <1>2 DEF Chat!Synced, Chat!Began
<1>4. \A i \in 1..Len(x10') : Chat!Since(i)' <=> Chat!Since(i + 1)
  <2>1. TAKE i \in 1..Len(x10')
  <2>2. \A j \in i..Len(x10') : j \in 1..Len(x10') /\ j + 1 \in i + 1 .. Len(x10)
    BY <1>2
  <2>3. \A j \in i + 1 .. Len(x10) : j - 1 \in i..Len(x10') /\ j - 1 \in 1..Len(x10') /\ (j - 1) + 1 = j
    BY <1>2
  <2>4. \A j \in i + 1 .. Len(x10) : Chat!Synced(j - 1)' <=> Chat!Synced(j)
    BY <1>3, <2>3
  <2>5. ASSUME Chat!Since(i + 1), NEW j \in i..Len(x10') PROVE ~Chat!Synced(j)'
    BY <1>3, <2>2, <2>5 DEF Chat!Since
  <2>6. ASSUME Chat!Since(i)', NEW j \in i + 1 .. Len(x10) PROVE ~Chat!Synced(j)
    BY <2>3, <2>4, <2>6 DEF Chat!Since
  <2> QED BY <2>5, <2>6 DEF Chat!Since
<1>5. Chat!Synced(1) <=> h.kind = "reply" /\ h.v = "sync"
  BY <1>2 DEF Chat!Synced
<1>6. /\ \A i \in 1..Len(x10) : Chat!Synced(i) => x11 = "loading" /\ x17["sync"].rpc \in {"replied", "timeout"}
      /\ \A i, j \in 1..Len(x10) : Chat!Synced(i) /\ Chat!Synced(j) => i = j
      /\ x17["sync"].rpc = "replied" => \E i \in 1..Len(x10) : Chat!Synced(i)
  BY DEF Chat!ChatInv, Chat!LinkOK, Chat!Unread
<1>7. Chat!LinkOK'
  <2>1. ASSUME NEW i \in 1..Len(x10'), Chat!Synced(i)'
        PROVE  x11' = "loading" /\ x17'["sync"].rpc \in {"replied", "timeout"}
    <3>1. i + 1 \in 1..Len(x10) /\ i + 1 # 1 /\ Chat!Synced(i + 1)
      BY <1>2, <1>3, <2>1
    <3>2. ~Chat!Synced(1)
      BY <1>2, <1>6, <3>1
    <3> QED BY <1>5, <1>6, <3>1, <3>2
  <2>2. ASSUME x17'["sync"].rpc = "replied"
        PROVE  \E i \in 1..Len(x10') : Chat!Synced(i)'
    <3>1. x17["sync"].rpc = "replied" /\ ~Chat!Synced(1)
      BY <1>5, <2>2
    <3>2. PICK i \in 1..Len(x10) : Chat!Synced(i)
      BY <1>6, <3>1
    <3>3. PICK j : j = i - 1
      OBVIOUS
    <3>4. i # 1 /\ j \in 1..Len(x10') /\ j + 1 = i
      BY <1>2, <3>1, <3>2, <3>3
    <3> QED BY <1>3, <3>2, <3>4
  <2>3. \A i, j \in 1..Len(x10') : Chat!Synced(i)' /\ Chat!Synced(j)' => i = j
    <3>1. TAKE i, j \in 1..Len(x10')
    <3>2. i + 1 \in 1..Len(x10) /\ j + 1 \in 1..Len(x10) /\ (i + 1 = j + 1 => i = j)
      BY <1>2
    <3> QED BY <1>3, <1>6, <3>2
  <2>4. x11' = "on" => x17'["sync"].at = "idle"
    BY <1>5, <1>2, <1>6 DEF Chat!ChatInv, Chat!LinkOK
  <2>5. x11' = "loading" => \A e \in Chat!Calls \ {"sync"} : Chat!Free(e)'
    BY DEF Chat!Free
  <2> QED BY <1>2, <2>1, <2>2, <2>3, <2>4, <2>5 DEF Chat!LinkOK, Chat!Unread
<1>8. Chat!TurnIsTold'
  <2>1. SUFFICES ASSUME Chat!Tracking', x1' # 0
                 PROVE  /\ Chat!Known' = x1' \/ \E i \in 1..Len(x10') : Chat!Since(i)' /\ Chat!Began(i)'
                        /\ \A i \in 1..Len(x10') : Chat!Since(i)' /\ x10'[i].kind = "started" /\ ~Chat!Began(i)' =>
                              \E j \in i + 1 .. Len(x10') : Chat!Began(j)'
    BY DEF Chat!TurnIsTold, Chat!Unread
  <2>2. x11 = "on" \/ (x11 = "loading" /\ x17["sync"].rpc = "replied")
    BY <1>2, <1>5, <1>6, <2>1 DEF Chat!Tracking
  <2>3. /\ Chat!Known = x1 \/ \E i \in 1..Len(x10) : Chat!Since(i) /\ Chat!Began(i)
        /\ \A i \in 1..Len(x10) : Chat!Since(i) /\ x10[i].kind = "started" /\ ~Chat!Began(i) =>
              \E j \in i + 1 .. Len(x10) : Chat!Began(j)
    BY <2>1, <2>2 DEF Chat!ChatInv, Chat!TurnIsTold, Chat!Unread, Chat!Tracking
  <2>4. \A i \in 1..Len(x10) : Chat!Since(i) /\ Chat!Began(i) /\ i # 1 =>
          \E j \in 1..Len(x10') : Chat!Since(j)' /\ Chat!Began(j)'
    <3>1. TAKE i \in 1..Len(x10)
    <3>2. HAVE Chat!Since(i) /\ Chat!Began(i) /\ i # 1
    <3>3. PICK j : j = i - 1
      OBVIOUS
    <3>4. j \in 1..Len(x10') /\ j + 1 = i
      BY <1>2, <3>2, <3>3
    <3> QED BY <1>3, <1>4, <3>2, <3>4
  <2>5. \A i \in 1..Len(x10') : Chat!Since(i)' /\ x10'[i].kind = "started" /\ ~Chat!Began(i)' =>
          \E j \in i + 1 .. Len(x10') : Chat!Began(j)'
    <3>1. TAKE i \in 1..Len(x10')
    <3>2. HAVE Chat!Since(i)' /\ x10'[i].kind = "started" /\ ~Chat!Began(i)'
    <3>3. i + 1 \in 1..Len(x10) /\ Chat!Since(i + 1) /\ x10[i + 1].kind = "started" /\ ~Chat!Began(i + 1)
      BY <1>2, <1>3, <1>4, <3>2
    <3>4. PICK k \in (i + 1) + 1 .. Len(x10) : Chat!Began(k)
      BY <2>3, <3>3
    <3>5. PICK j : j = k - 1
      OBVIOUS
    <3>6. j \in i + 1 .. Len(x10') /\ j \in 1..Len(x10') /\ j + 1 = k
      BY <1>2, <3>4, <3>5
    <3> QED BY <1>3, <3>4, <3>6
  <2>6. Chat!Known' = x1' \/ \E i \in 1..Len(x10') : Chat!Since(i)' /\ Chat!Began(i)'
    <3>1. CASE x11 = "loading" /\ x17["sync"].rpc = "replied"
      <4>1. Chat!Known' = Chat!Known
        BY <3>1 DEF Chat!Known
      <4>2. PICK k \in 1..Len(x10) : Chat!Synced(k)
        BY <1>6, <3>1
      <4>3. ~Chat!Since(1)
        BY <1>2, <4>2 DEF Chat!Since
      <4> QED BY <2>3, <2>4, <4>1, <4>3
    <3>2. CASE x11 = "on"
      <4>1. \A i \in 1..Len(x10) : Chat!Since(i)
        <5>1. \A i \in 1..Len(x10) : ~Chat!Synced(i)
          BY <1>6, <3>2
        <5>2. \A i \in 1..Len(x10) : i..Len(x10) \subseteq 1..Len(x10)
          BY <1>2
        <5> QED BY <5>1, <5>2 DEF Chat!Since
      <4>2. Chat!Known = x12 /\ Chat!Known' = x12'
        BY <3>2 DEF Chat!Known
      <4>3. CASE x12' = x12 /\ h.kind # "started"
        <5>1. ~Chat!Began(1)
          BY <1>2, <4>3 DEF Chat!Began
        <5> QED BY <2>3, <2>4, <4>2, <4>3, <5>1
      <4>4. CASE x12' = h.v /\ h.kind = "started"
        <5>1. Chat!Began(1) <=> h.v = x1
          BY <1>2, <4>4 DEF Chat!Began
        <5>2. CASE ~Chat!Began(1)
          <6>1. PICK j \in 1 + 1 .. Len(x10) : Chat!Began(j)
            BY <1>2, <2>3, <4>1, <4>4, <5>2
          <6>2. j \in 1..Len(x10) /\ j # 1
            BY <1>2, <6>1
          <6> QED BY <2>4, <4>1, <6>1, <6>2
        <5> QED BY <4>2, <4>4, <5>1, <5>2
      <4>5. CASE x12' = 0 /\ h.kind = "completed" /\ h.v = x12
        <5>1. x12 # x1 /\ ~Chat!Began(1)
          BY <1>2, <4>5 DEF Chat!ChatInv, Chat!EndedOK, Chat!Unread, Chat!Began
        <5> QED BY <2>3, <2>4, <4>2, <5>1
      <4> QED BY <3>2, <4>3, <4>4, <4>5
    <3> QED BY <2>2, <3>1, <3>2
  <2> QED BY <2>5, <2>6
<1>9. Chat!EndedOK'
  BY <1>2 DEF Chat!ChatInv, Chat!EndedOK, Chat!Unread
<1>10. Chat!AsksAreTold'
  <2>1. \A i \in 1..Len(x10') : x10'[i].kind = "resolved" => \A a \in x10'[i].v : x8'[a] = "over"
    BY <1>2 DEF Chat!ChatInv, Chat!AsksAreTold, Chat!Unread
  <2>2. ASSUME Chat!Tracking', NEW a \in Chat!Waiting
        PROVE  a \in x14' \cup x9' \/ \E i \in 1..Len(x10') : x10'[i].kind = "ask" /\ a \in x10'[i].v
    <3>1. x11 = "on" \/ (x11 = "loading" /\ x17["sync"].rpc = "replied")
      BY <1>2, <1>5, <1>6, <2>2 DEF Chat!Tracking
    <3>2. a \in x14 \cup x9 \/ \E i \in 1..Len(x10) : x10[i].kind = "ask" /\ a \in x10[i].v
      BY <3>1, <2>2 DEF Chat!ChatInv, Chat!AsksAreTold, Chat!Unread, Chat!Tracking
    <3>3. ASSUME NEW i \in 1..Len(x10), x10[i].kind = "ask", a \in x10[i].v
          PROVE  a \in x14' \cup x9' \/ \E j \in 1..Len(x10') : x10'[j].kind = "ask" /\ a \in x10'[j].v
      BY <1>2, <3>3
    <3> QED BY <2>2, <3>2, <3>3
  <2>3. Chat!Waiting' = Chat!Waiting
    BY DEF Chat!Waiting
  <2> QED BY <2>1, <2>2, <2>3 DEF Chat!AsksAreTold, Chat!Unread
<1> QED BY <1>7, <1>8, <1>9, <1>10

\* A reply changes the coroutine that asked and nothing else of it than what came.
LEMMA ChatReply ==
  ASSUME Chat!ChatInv, NEW c \in Chat!Calls, NEW v \in 0..MaxTurns, Chat!Reply(c, v)
  PROVE  \E r \in Chat!Coroutines :
           /\ x17' = [x17 EXCEPT ![c] = r] /\ r.at = x17[c].at /\ r.word = x17[c].word
           /\ r.turn = x17[c].turn /\ r.val = v /\ r.rpc = "replied"
<1>1. x17 \in [Chat!Calls -> Chat!Coroutines]
  BY ChatTyped
<1>2. PICK q : q = x17[c]
  OBVIOUS
<1>3. q \in Chat!Coroutines
  BY <1>1, <1>2
<1>4. PICK r : r = [q EXCEPT !.rpc = "replied", !.val = v]
  OBVIOUS
<1>5. /\ r \in Chat!Coroutines /\ r.at = q.at /\ r.word = q.word /\ r.turn = q.turn
      /\ r.val = v /\ r.rpc = "replied"
  BY <1>3, <1>4, ChatReplied
<1>6. x17' = [x17 EXCEPT ![c] = r]
  BY <1>1, <1>2, <1>4 DEF Chat!Reply
<1> QED BY <1>2, <1>5, <1>6

\* The sync asks codex for the thread it is to attach.
LEMMA ChatResume ==
  LET r == [Chat!Asked("attach", "none", 0) EXCEPT !.rpc = "asked"] IN
  r \in Chat!Coroutines /\ r.at = "attach" /\ r.word = "none" /\ r.turn = 0 /\ r.rpc = "asked"
<1>1. PICK q : q = Chat!Asked("attach", "none", 0)
  OBVIOUS
<1>2. "attach" \in Chat!Steps /\ "none" \in Words \cup {"none"} /\ 0 \in 0..MaxTurns
  BY ChatAssumption DEF Chat!Steps, Chat!StartSteps
<1>3. q \in Chat!Coroutines /\ q.at = "attach" /\ q.word = "none" /\ q.turn = 0
  BY <1>1, <1>2, ChatAsked
<1>4. PICK r : r = [q EXCEPT !.rpc = "asked"]
  OBVIOUS
<1>5. r \in Chat!Coroutines /\ r.at = "attach" /\ r.word = "none" /\ r.turn = 0 /\ r.rpc = "asked"
  BY <1>3, <1>4, ChatWaits
<1> QED BY <1>1, <1>4, <1>5

LEMMA ChatCancel ==
  ASSUME Chat!ChatInv, NEW c \in Phones, Chat!Cancel(c)
  PROVE  Chat!ChatInv'
<1>1. c # "sync" /\ c \in Chat!Calls /\ x11 # "loading"
  BY ChatAssumption DEF Chat!Cancel, Chat!Calls, Chat!Simple, Chat!Calling, Chat!Free, Chat!Request,
     Chat!Quiet, Chat!codexVars, Chat!counts, Chat!adapter
<1>2. PICK r : r = x17'[c]
  OBVIOUS
<1>3. UNCHANGED <<x1, x2, x8, x9, x10, x11, x14, x15>> /\ (x12 # 0 => x12' = x12)
  BY DEF Chat!Cancel, Chat!Simple, Chat!Calling, Chat!Free, Chat!Request, Chat!Quiet,
     Chat!codexVars, Chat!counts, Chat!adapter
<1>4. x17 \in [Chat!Calls -> Chat!Coroutines]
  BY <1>1, ChatTyped
<1>5. x17' = [x17 EXCEPT ![c] = r]
      /\ r = Chat!Asked("cancel", "none", x12) /\ x7' = x7 /\ \A v \in Words : x16'[v] = "no" => x16[v] = "no"
  BY <1>4, <1>1, <1>2 DEF Chat!Cancel, Chat!Simple, Chat!Calling, Chat!Free, Chat!Request,
     Chat!Quiet, Chat!codexVars, Chat!counts, Chat!adapter
<1>6. /\ x12 \in 0..MaxTurns /\ 0 \in 0..MaxTurns /\ x17[c].turn \in 0..MaxTurns
      /\ "none" \in Words \cup {"none"}
      /\ x17[c].at \in {"now.delete", "now.steer"} => x17[c].word \in Words /\ x17[c].turn # 0
  BY <1>1, ChatTyped, ChatAssumption DEF Chat!ChatInv, Chat!TypeOK, Chat!CallOK
<1>7. /\ r \in Chat!Coroutines /\ r.at = "cancel" /\ r.word = "none" /\ r.turn # 0
      /\ r.rpc \in {"asked", "cut"} /\ (r.rpc = "asked" => x11 # "off")
  <2>1. "cancel" \in Chat!Steps
    BY DEF Chat!Steps, Chat!StartSteps
  <2>2. PICK q : q = Chat!Asked("cancel", "none", x12)
    OBVIOUS
  <2>3. /\ q \in Chat!Coroutines /\ q.at = "cancel" /\ q.word = "none" /\ q.turn = x12
        /\ q.rpc \in {"asked", "cut"} /\ (q.rpc = "asked" => x11 # "off")
    BY <1>6, <2>1, <2>2, ChatAsked
  <2>4. x12 # 0
    BY DEF Chat!Cancel
  <2> QED BY <1>5, <2>2, <2>3, <2>4
<1>8. /\ x17' = [x17 EXCEPT ![c] = r] /\ r \in Chat!Coroutines /\ (r.at = "idle" => r.rpc = "no") /\ r.at # "attach"
      /\ r.at \notin {"idle", "attach", "cancel"} => r.word \in Words
      /\ r.at \in {"now.delete", "now.steer", "cancel"} => r.turn # 0
      /\ r.rpc = "asked" => x11 # "off"
  BY <1>7, <1>5
<1>9. /\ Chat!CallOK' /\ Chat!LinkOK' /\ Chat!TurnIsTold' /\ Chat!EndedOK' /\ Chat!AsksAreTold'
      /\ \A e \in Chat!Calls : x17'[e].rpc \in {"no", "asked", "replied", "done", "cut", "timeout"}
  BY <1>1, <1>3, <1>8, ChatCalls
<1>10. Chat!TypeOK'
  BY <1>1, <1>8, <1>9, ChatTyped, ChatAssumption DEF Chat!Cancel, Chat!Simple, Chat!Calling,
     Chat!Request, Chat!codexVars, Chat!adapter, Chat!Free, Chat!ChatInv, Chat!TypeOK,
     Chat!CallOK, Chat!Calls
<1>11. Chat!StartedOnce'
  BY ChatAssumption DEF Chat!Cancel, Chat!Simple, Chat!Calling, Chat!Request, Chat!codexVars,
     Chat!adapter, Chat!Free, Chat!ChatInv, Chat!StartedOnce, Chat!OneStart, Chat!CallOK,
     Chat!Calls, Chat!Starts, Chat!StartSteps
<1>12. Chat!OneStart'
  <2>1. r.at \notin Chat!StartSteps /\ x7' = x7 /\ \A v \in Words : x16'[v] = "no" => x16[v] = "no"
    BY <1>7, <1>5 DEF Chat!StartSteps
  <2> QED BY <1>1, <1>8, <2>1, ChatStarts
<1> QED BY <1>9, <1>10, <1>11, <1>12 DEF Chat!ChatInv

LEMMA ChatResolve ==
  ASSUME Chat!ChatInv, NEW c \in Phones, NEW a \in Asks, Chat!Resolve(c, a)
  PROVE  Chat!ChatInv'
<1>1. Chat!TypeOK'
  BY SMTT(5), ChatAssumption DEF Chat!Resolve, Chat!Calling, Chat!counts, Chat!Free,
     Chat!ChatInv, Chat!TypeOK, Chat!CallOK, Chat!Calls
<1>2. Chat!CallOK'
  BY SMTT(5), ChatAssumption DEF Chat!Resolve, Chat!Calling, Chat!counts, Chat!Free,
     Chat!ChatInv, Chat!CallOK, Chat!TypeOK, Chat!LinkOK, Chat!Calls, Chat!Unread, Chat!Synced
<1>3. Chat!StartedOnce'
  BY SMTT(5), ChatAssumption DEF Chat!Resolve, Chat!Calling, Chat!counts, Chat!Free,
     Chat!ChatInv, Chat!StartedOnce, Chat!OneStart, Chat!CallOK, Chat!Calls, Chat!Starts, Chat!StartSteps
<1>4. Chat!OneStart'
  BY SMTT(5), ChatAssumption DEF Chat!Resolve, Chat!Calling, Chat!counts, Chat!Free,
     Chat!ChatInv, Chat!OneStart, Chat!CallOK, Chat!Calls, Chat!Starts, Chat!StartSteps
<1>5. Chat!LinkOK'
  BY SMTT(5), ChatAssumption DEF Chat!Resolve, Chat!Calling, Chat!counts, Chat!Free,
     Chat!ChatInv, Chat!LinkOK, Chat!CallOK, Chat!Calls, Chat!Unread, Chat!Synced
<1>6. Chat!TurnIsTold'
  BY SMTT(5), ChatAssumption DEF Chat!Resolve, Chat!Calling, Chat!counts, Chat!Free,
     Chat!ChatInv, Chat!TurnIsTold, Chat!LinkOK, Chat!EndedOK, Chat!CallOK, Chat!TypeOK,
     Chat!Tracking, Chat!Known, Chat!Unread, Chat!Since, Chat!Began, Chat!Calls, Chat!Synced
<1>7. Chat!EndedOK'
  BY SMTT(5), ChatAssumption DEF Chat!Resolve, Chat!Calling, Chat!counts, Chat!Free,
     Chat!ChatInv, Chat!EndedOK, Chat!TypeOK, Chat!Unread, Chat!Calls
<1>8. Chat!AsksAreTold'
  BY SMTT(5), ChatAssumption DEF Chat!Resolve, Chat!Calling, Chat!counts, Chat!Free,
     Chat!ChatInv, Chat!AsksAreTold, Chat!LinkOK, Chat!TypeOK, Chat!Tracking, Chat!Waiting,
     Chat!Unread, Chat!Calls, Chat!Synced
<1> QED BY <1>1, <1>2, <1>3, <1>4, <1>5, <1>6, <1>7, <1>8 DEF Chat!ChatInv

LEMMA ChatSend ==
  ASSUME Chat!ChatInv, NEW c \in Phones, NEW w \in Words, Chat!Send(c, w)
  PROVE  Chat!ChatInv'
<1>1. c # "sync" /\ c \in Chat!Calls /\ x11 # "loading"
  BY ChatAssumption DEF Chat!Send, Chat!Calls, Chat!Calling, Chat!Free, Chat!Request, Chat!Quiet,
     Chat!codexVars, Chat!counts, Chat!adapter
<1>2. PICK r : r = x17'[c]
  OBVIOUS
<1>3. UNCHANGED <<x1, x2, x8, x9, x10, x11, x14, x15>> /\ (x12 # 0 => x12' = x12)
  BY DEF Chat!Send, Chat!Calling, Chat!Free, Chat!Request, Chat!Quiet, Chat!codexVars, Chat!counts,
     Chat!adapter
<1>4. x17 \in [Chat!Calls -> Chat!Coroutines]
  BY <1>1, ChatTyped
<1>5. x17' = [x17 EXCEPT ![c] = r]
      /\ r = Chat!Asked("start", w, 0) /\ x7' = x7 /\ TRUE
  BY <1>4, <1>1, <1>2 DEF Chat!Send, Chat!Calling, Chat!Free, Chat!Request, Chat!Quiet,
     Chat!codexVars, Chat!counts, Chat!adapter
<1>6. /\ x12 \in 0..MaxTurns /\ 0 \in 0..MaxTurns /\ x17[c].turn \in 0..MaxTurns
      /\ "none" \in Words \cup {"none"}
      /\ x17[c].at \in {"now.delete", "now.steer"} => x17[c].word \in Words /\ x17[c].turn # 0
  BY <1>1, ChatTyped, ChatAssumption DEF Chat!ChatInv, Chat!TypeOK, Chat!CallOK
<1>7. /\ x17' = [x17 EXCEPT ![c] = r] /\ r \in Chat!Coroutines /\ (r.at = "idle" => r.rpc = "no") /\ r.at # "attach"
      /\ r.at \notin {"idle", "attach", "cancel"} => r.word \in Words
      /\ r.at \in {"now.delete", "now.steer", "cancel"} => r.turn # 0
      /\ r.rpc = "asked" => x11 # "off"
  BY <1>6, <1>5, ChatAsked, ChatIdle DEF Chat!Steps, Chat!StartSteps
<1>8. /\ Chat!CallOK' /\ Chat!LinkOK' /\ Chat!TurnIsTold' /\ Chat!EndedOK' /\ Chat!AsksAreTold'
      /\ \A e \in Chat!Calls : x17'[e].rpc \in {"no", "asked", "replied", "done", "cut", "timeout"}
  BY <1>1, <1>3, <1>7, ChatCalls
<1>9. Chat!TypeOK'
  BY <1>1, <1>7, <1>8, ChatTyped, ChatAssumption DEF Chat!Send, Chat!Calling, Chat!Unlocked, Chat!StartSteps,
     Chat!Request, Chat!Quiet, Chat!Free, Chat!codexVars, Chat!counts, Chat!ChatInv,
     Chat!TypeOK, Chat!CallOK, Chat!Calls
<1>10. Chat!StartedOnce'
  BY ChatAssumption DEF Chat!Send, Chat!Calling, Chat!Unlocked, Chat!StartSteps, Chat!Request, Chat!Quiet,
     Chat!Free, Chat!codexVars, Chat!counts, Chat!ChatInv, Chat!StartedOnce, Chat!OneStart,
     Chat!CallOK, Chat!Calls, Chat!Starts, Chat!StartSteps
<1>11. Chat!OneStart'
  <2>1. r.at = "start" /\ r.word = w /\ x7' = x7 /\ x17' = [x17 EXCEPT ![c] = r]
    BY <1>6, <1>5, ChatAsked DEF Chat!Steps, Chat!StartSteps
  <2>2. x16' = [x16 EXCEPT ![w] = "sent"] /\ x16 \in [Words -> {"no", "sent", "accepted"}] /\ x16[w] = "no"
    BY DEF Chat!Send, Chat!ChatInv, Chat!TypeOK
  <2>3. \A e \in Chat!Calls : ~Chat!Starts(e, w)
    BY <2>2 DEF Chat!ChatInv, Chat!OneStart
  <2>4. \A e \in Chat!Calls, u \in Words :
           Chat!Starts(e, u)' => (e = c /\ u = w) \/ (e # c /\ u # w /\ Chat!Starts(e, u) /\ x17'[e] = x17[e])
    BY <1>1, <2>1, <2>3, ChatTyped DEF Chat!Starts, Chat!StartSteps
  <2>5. x7[w] = 0
    BY <2>2 DEF Chat!ChatInv, Chat!OneStart
  <2> QED BY <2>1, <2>2, <2>4, <2>5 DEF Chat!ChatInv, Chat!OneStart
<1> QED BY <1>8, <1>9, <1>10, <1>11 DEF Chat!ChatInv

LEMMA ChatEnqueue ==
  ASSUME Chat!ChatInv, NEW c \in Phones, NEW w \in Words, Chat!Enqueue(c, w)
  PROVE  Chat!ChatInv'
<1>1. c # "sync" /\ c \in Chat!Calls /\ x11 # "loading"
  BY ChatAssumption DEF Chat!Enqueue, Chat!Calls, Chat!Simple, Chat!Calling, Chat!Free,
     Chat!Request, Chat!Quiet, Chat!codexVars, Chat!counts, Chat!adapter
<1>2. PICK r : r = x17'[c]
  OBVIOUS
<1>3. UNCHANGED <<x1, x2, x8, x9, x10, x11, x14, x15>> /\ (x12 # 0 => x12' = x12)
  BY DEF Chat!Enqueue, Chat!Simple, Chat!Calling, Chat!Free, Chat!Request, Chat!Quiet,
     Chat!codexVars, Chat!counts, Chat!adapter
<1>4. x17 \in [Chat!Calls -> Chat!Coroutines]
  BY <1>1, ChatTyped
<1>5. x17' = [x17 EXCEPT ![c] = r]
      /\ r = Chat!Asked("enqueue", w, 0) /\ x7' = x7 /\ \A v \in Words : x16'[v] = "no" => x16[v] = "no"
  BY <1>4, <1>1, <1>2 DEF Chat!Enqueue, Chat!Simple, Chat!Calling, Chat!Free, Chat!Request,
     Chat!Quiet, Chat!codexVars, Chat!counts, Chat!adapter
<1>6. /\ x12 \in 0..MaxTurns /\ 0 \in 0..MaxTurns /\ x17[c].turn \in 0..MaxTurns
      /\ "none" \in Words \cup {"none"}
      /\ x17[c].at \in {"now.delete", "now.steer"} => x17[c].word \in Words /\ x17[c].turn # 0
  BY <1>1, ChatTyped, ChatAssumption DEF Chat!ChatInv, Chat!TypeOK, Chat!CallOK
<1>7. /\ x17' = [x17 EXCEPT ![c] = r] /\ r \in Chat!Coroutines /\ (r.at = "idle" => r.rpc = "no") /\ r.at # "attach"
      /\ r.at \notin {"idle", "attach", "cancel"} => r.word \in Words
      /\ r.at \in {"now.delete", "now.steer", "cancel"} => r.turn # 0
      /\ r.rpc = "asked" => x11 # "off"
  BY <1>6, <1>5, ChatAsked, ChatIdle DEF Chat!Steps, Chat!StartSteps
<1>8. /\ Chat!CallOK' /\ Chat!LinkOK' /\ Chat!TurnIsTold' /\ Chat!EndedOK' /\ Chat!AsksAreTold'
      /\ \A e \in Chat!Calls : x17'[e].rpc \in {"no", "asked", "replied", "done", "cut", "timeout"}
  BY <1>1, <1>3, <1>7, ChatCalls
<1>9. Chat!TypeOK'
  BY <1>1, <1>7, <1>8, ChatTyped, ChatAssumption DEF Chat!Enqueue, Chat!Simple, Chat!Calling,
     Chat!Request, Chat!codexVars, Chat!adapter, Chat!Free, Chat!ChatInv, Chat!TypeOK,
     Chat!CallOK, Chat!Calls
<1>10. Chat!StartedOnce'
  BY ChatAssumption DEF Chat!Enqueue, Chat!Simple, Chat!Calling, Chat!Request, Chat!codexVars,
     Chat!adapter, Chat!Free, Chat!ChatInv, Chat!StartedOnce, Chat!OneStart, Chat!CallOK,
     Chat!Calls, Chat!Starts, Chat!StartSteps
<1>11. Chat!OneStart'
  <2>1. r.at \notin Chat!StartSteps /\ x7' = x7 /\ \A v \in Words : x16'[v] = "no" => x16[v] = "no"
    BY <1>6, <1>5, ChatAsked, ChatIdle DEF Chat!Steps, Chat!StartSteps
  <2> QED BY <1>1, <1>7, <2>1, ChatStarts
<1> QED BY <1>8, <1>9, <1>10, <1>11 DEF Chat!ChatInv

LEMMA ChatDelete ==
  ASSUME Chat!ChatInv, NEW c \in Phones, NEW w \in Words, Chat!Delete(c, w)
  PROVE  Chat!ChatInv'
<1>1. c # "sync" /\ c \in Chat!Calls /\ x11 # "loading"
  BY ChatAssumption DEF Chat!Delete, Chat!Calls, Chat!Simple, Chat!Calling, Chat!Free, Chat!Request,
     Chat!Quiet, Chat!codexVars, Chat!counts, Chat!adapter
<1>2. PICK r : r = x17'[c]
  OBVIOUS
<1>3. UNCHANGED <<x1, x2, x8, x9, x10, x11, x14, x15>> /\ (x12 # 0 => x12' = x12)
  BY DEF Chat!Delete, Chat!Simple, Chat!Calling, Chat!Free, Chat!Request, Chat!Quiet,
     Chat!codexVars, Chat!counts, Chat!adapter
<1>4. x17 \in [Chat!Calls -> Chat!Coroutines]
  BY <1>1, ChatTyped
<1>5. x17' = [x17 EXCEPT ![c] = r]
      /\ r = Chat!Asked("delete", w, 0) /\ x7' = x7 /\ \A v \in Words : x16'[v] = "no" => x16[v] = "no"
  BY <1>4, <1>1, <1>2 DEF Chat!Delete, Chat!Simple, Chat!Calling, Chat!Free, Chat!Request,
     Chat!Quiet, Chat!codexVars, Chat!counts, Chat!adapter
<1>6. /\ x12 \in 0..MaxTurns /\ 0 \in 0..MaxTurns /\ x17[c].turn \in 0..MaxTurns
      /\ "none" \in Words \cup {"none"}
      /\ x17[c].at \in {"now.delete", "now.steer"} => x17[c].word \in Words /\ x17[c].turn # 0
  BY <1>1, ChatTyped, ChatAssumption DEF Chat!ChatInv, Chat!TypeOK, Chat!CallOK
<1>7. /\ x17' = [x17 EXCEPT ![c] = r] /\ r \in Chat!Coroutines /\ (r.at = "idle" => r.rpc = "no") /\ r.at # "attach"
      /\ r.at \notin {"idle", "attach", "cancel"} => r.word \in Words
      /\ r.at \in {"now.delete", "now.steer", "cancel"} => r.turn # 0
      /\ r.rpc = "asked" => x11 # "off"
  BY <1>6, <1>5, ChatAsked, ChatIdle DEF Chat!Steps, Chat!StartSteps
<1>8. /\ Chat!CallOK' /\ Chat!LinkOK' /\ Chat!TurnIsTold' /\ Chat!EndedOK' /\ Chat!AsksAreTold'
      /\ \A e \in Chat!Calls : x17'[e].rpc \in {"no", "asked", "replied", "done", "cut", "timeout"}
  BY <1>1, <1>3, <1>7, ChatCalls
<1>9. Chat!TypeOK'
  BY <1>1, <1>7, <1>8, ChatTyped, ChatAssumption DEF Chat!Delete, Chat!Simple, Chat!Calling,
     Chat!Request, Chat!codexVars, Chat!adapter, Chat!Free, Chat!ChatInv, Chat!TypeOK,
     Chat!CallOK, Chat!Calls
<1>10. Chat!StartedOnce'
  BY ChatAssumption DEF Chat!Delete, Chat!Simple, Chat!Calling, Chat!Request, Chat!codexVars,
     Chat!adapter, Chat!Free, Chat!ChatInv, Chat!StartedOnce, Chat!OneStart, Chat!CallOK,
     Chat!Calls, Chat!Starts, Chat!StartSteps
<1>11. Chat!OneStart'
  <2>1. r.at \notin Chat!StartSteps /\ x7' = x7 /\ \A v \in Words : x16'[v] = "no" => x16[v] = "no"
    BY <1>6, <1>5, ChatAsked, ChatIdle DEF Chat!Steps, Chat!StartSteps
  <2> QED BY <1>1, <1>7, <2>1, ChatStarts
<1> QED BY <1>8, <1>9, <1>10, <1>11 DEF Chat!ChatInv

LEMMA ChatSteerNow ==
  ASSUME Chat!ChatInv, NEW c \in Phones, NEW w \in Words, Chat!SteerNow(c, w)
  PROVE  Chat!ChatInv'
<1>1. c # "sync" /\ c \in Chat!Calls /\ x11 # "loading"
  BY ChatAssumption DEF Chat!SteerNow, Chat!Calls, Chat!Simple, Chat!Calling, Chat!Free,
     Chat!Request, Chat!Quiet, Chat!codexVars, Chat!counts, Chat!adapter
<1>2. PICK r : r = x17'[c]
  OBVIOUS
<1>3. UNCHANGED <<x1, x2, x8, x9, x10, x11, x14, x15>> /\ (x12 # 0 => x12' = x12)
  BY DEF Chat!SteerNow, Chat!Simple, Chat!Calling, Chat!Free, Chat!Request, Chat!Quiet,
     Chat!codexVars, Chat!counts, Chat!adapter
<1>4. x17 \in [Chat!Calls -> Chat!Coroutines]
  BY <1>1, ChatTyped
<1>5. x17' = [x17 EXCEPT ![c] = r]
      /\ r = Chat!Asked("steer", w, x12) /\ x7' = x7 /\ \A v \in Words : x16'[v] = "no" => x16[v] = "no"
  BY <1>4, <1>1, <1>2 DEF Chat!SteerNow, Chat!Simple, Chat!Calling, Chat!Free, Chat!Request,
     Chat!Quiet, Chat!codexVars, Chat!counts, Chat!adapter
<1>6. /\ x12 \in 0..MaxTurns /\ 0 \in 0..MaxTurns /\ x17[c].turn \in 0..MaxTurns
      /\ "none" \in Words \cup {"none"}
      /\ x17[c].at \in {"now.delete", "now.steer"} => x17[c].word \in Words /\ x17[c].turn # 0
  BY <1>1, ChatTyped, ChatAssumption DEF Chat!ChatInv, Chat!TypeOK, Chat!CallOK
<1>7. /\ x17' = [x17 EXCEPT ![c] = r] /\ r \in Chat!Coroutines /\ (r.at = "idle" => r.rpc = "no") /\ r.at # "attach"
      /\ r.at \notin {"idle", "attach", "cancel"} => r.word \in Words
      /\ r.at \in {"now.delete", "now.steer", "cancel"} => r.turn # 0
      /\ r.rpc = "asked" => x11 # "off"
  BY <1>6, <1>5, ChatAsked, ChatIdle DEF Chat!Steps, Chat!StartSteps
<1>8. /\ Chat!CallOK' /\ Chat!LinkOK' /\ Chat!TurnIsTold' /\ Chat!EndedOK' /\ Chat!AsksAreTold'
      /\ \A e \in Chat!Calls : x17'[e].rpc \in {"no", "asked", "replied", "done", "cut", "timeout"}
  BY <1>1, <1>3, <1>7, ChatCalls
<1>9. Chat!TypeOK'
  BY <1>1, <1>7, <1>8, ChatTyped, ChatAssumption DEF Chat!SteerNow, Chat!Simple, Chat!Calling,
     Chat!Request, Chat!codexVars, Chat!adapter, Chat!Free, Chat!ChatInv, Chat!TypeOK,
     Chat!CallOK, Chat!Calls
<1>10. Chat!StartedOnce'
  BY ChatAssumption DEF Chat!SteerNow, Chat!Simple, Chat!Calling, Chat!Request, Chat!codexVars,
     Chat!adapter, Chat!Free, Chat!ChatInv, Chat!StartedOnce, Chat!OneStart, Chat!CallOK,
     Chat!Calls, Chat!Starts, Chat!StartSteps
<1>11. Chat!OneStart'
  <2>1. r.at \notin Chat!StartSteps /\ x7' = x7 /\ \A v \in Words : x16'[v] = "no" => x16[v] = "no"
    BY <1>6, <1>5, ChatAsked, ChatIdle DEF Chat!Steps, Chat!StartSteps
  <2> QED BY <1>1, <1>7, <2>1, ChatStarts
<1> QED BY <1>8, <1>9, <1>10, <1>11 DEF Chat!ChatInv

LEMMA ChatSendNow ==
  ASSUME Chat!ChatInv, NEW c \in Phones, NEW w \in Words, Chat!SendNow(c, w)
  PROVE  Chat!ChatInv'
<1>1. c # "sync" /\ c \in Chat!Calls /\ x11 # "loading"
  BY ChatAssumption DEF Chat!SendNow, Chat!Calls, Chat!Calling, Chat!Free, Chat!Request, Chat!Quiet,
     Chat!codexVars, Chat!counts, Chat!adapter
<1>2. PICK r : r = x17'[c]
  OBVIOUS
<1>3. UNCHANGED <<x1, x2, x8, x9, x10, x11, x14, x15>> /\ (x12 # 0 => x12' = x12)
  BY DEF Chat!SendNow, Chat!Calling, Chat!Free, Chat!Request, Chat!Quiet, Chat!codexVars,
     Chat!counts, Chat!adapter
<1>4. x17 \in [Chat!Calls -> Chat!Coroutines]
  BY <1>1, ChatTyped
<1>5. x17' = [x17 EXCEPT ![c] = r]
      /\ (r = Chat!Asked("now.start", w, 0) \/ (x12 # 0 /\ r = Chat!Asked("now.delete", w, x12))) /\ x7' = x7 /\ \A v \in Words : x16'[v] = "no" => x16[v] = "no"
  BY <1>4, <1>1, <1>2 DEF Chat!SendNow, Chat!Calling, Chat!Free, Chat!Request, Chat!Quiet,
     Chat!codexVars, Chat!counts, Chat!adapter
<1>6. /\ x12 \in 0..MaxTurns /\ 0 \in 0..MaxTurns /\ x17[c].turn \in 0..MaxTurns
      /\ "none" \in Words \cup {"none"}
      /\ x17[c].at \in {"now.delete", "now.steer"} => x17[c].word \in Words /\ x17[c].turn # 0
  BY <1>1, ChatTyped, ChatAssumption DEF Chat!ChatInv, Chat!TypeOK, Chat!CallOK
<1>7. /\ x17' = [x17 EXCEPT ![c] = r] /\ r \in Chat!Coroutines /\ (r.at = "idle" => r.rpc = "no") /\ r.at # "attach"
      /\ r.at \notin {"idle", "attach", "cancel"} => r.word \in Words
      /\ r.at \in {"now.delete", "now.steer", "cancel"} => r.turn # 0
      /\ r.rpc = "asked" => x11 # "off"
  BY <1>6, <1>5, ChatAsked, ChatIdle DEF Chat!Steps, Chat!StartSteps
<1>8. /\ Chat!CallOK' /\ Chat!LinkOK' /\ Chat!TurnIsTold' /\ Chat!EndedOK' /\ Chat!AsksAreTold'
      /\ \A e \in Chat!Calls : x17'[e].rpc \in {"no", "asked", "replied", "done", "cut", "timeout"}
  BY <1>1, <1>3, <1>7, ChatCalls
<1>9. Chat!TypeOK'
  BY <1>1, <1>7, <1>8, ChatTyped, ChatAssumption DEF Chat!SendNow, Chat!Calling, Chat!Unlocked, Chat!StartSteps,
     Chat!Request, Chat!Quiet, Chat!Free, Chat!codexVars, Chat!counts, Chat!ChatInv,
     Chat!TypeOK, Chat!CallOK, Chat!Calls
<1>10. Chat!StartedOnce'
  BY ChatAssumption DEF Chat!SendNow, Chat!Calling, Chat!Unlocked, Chat!StartSteps, Chat!Request, Chat!Quiet,
     Chat!Free, Chat!codexVars, Chat!counts, Chat!ChatInv, Chat!StartedOnce, Chat!OneStart,
     Chat!CallOK, Chat!Calls, Chat!Starts, Chat!StartSteps
<1>11. Chat!OneStart'
  <2>1. r.at \notin Chat!StartSteps /\ x7' = x7 /\ \A v \in Words : x16'[v] = "no" => x16[v] = "no"
    BY <1>6, <1>5, ChatAsked, ChatIdle DEF Chat!Steps, Chat!StartSteps
  <2> QED BY <1>1, <1>7, <2>1, ChatStarts
<1> QED BY <1>8, <1>9, <1>10, <1>11 DEF Chat!ChatInv

LEMMA ChatServe ==
  ASSUME Chat!ChatInv, NEW c \in Chat!Calls, Chat!Serve(c)
  PROVE  Chat!ChatInv'
<1>1. /\ x17[c].rpc = "asked" /\ UNCHANGED <<x9, x11, x12, x14, x15, x16>>
      /\ x11 # "off" /\ x17[c].at # "idle" /\ (x17[c].at = "attach" <=> c = "sync")
  BY DEF Chat!Serve, Chat!adapter, Chat!ChatInv, Chat!CallOK, Chat!LinkOK
<1>2. /\ x17 \in [Chat!Calls -> Chat!Coroutines] /\ "sync" \in Chat!Calls
      /\ x17[c].word \in Words \cup {"none"} /\ x17[c].turn \in 0..MaxTurns
      /\ x17[c].at \notin {"idle", "attach", "cancel"} => x17[c].word \in Words
  <2>1. x17[c].at \notin {"idle", "attach", "cancel"} => x17[c].word \in Words
    BY DEF Chat!ChatInv, Chat!CallOK
  <2> QED BY <2>1, ChatTyped
<1>3. /\ x1 \in 0..MaxTurns /\ x2 \in 0..MaxTurns /\ x1 <= x2 /\ x2 \in Nat
      /\ x8 \in [Asks -> {"no", "waiting", "over"}] /\ 0 \in 0..MaxTurns /\ 1 \in 0..MaxTurns
  BY ChatAssumption DEF Chat!ChatInv, Chat!TypeOK, Chat!EndedOK
<1>4. PICK v \in 0..MaxTurns : Chat!Reply(c, v) /\ (c = "sync" => v = x1)
  <2>1. x2 < MaxTurns => x2 + 1 \in 0..MaxTurns
    BY <1>3, ChatAssumption
  <2> QED BY <1>1, <1>3, <2>1 DEF Chat!Serve, Chat!StartTurn, Chat!Starting, Chat!Plain, Chat!StartSteps
<1>5. PICK r \in Chat!Coroutines :
        /\ x17' = [x17 EXCEPT ![c] = r] /\ r.at = x17[c].at /\ r.word = x17[c].word
        /\ r.turn = x17[c].turn /\ r.val = v /\ r.rpc = "replied"
  BY <1>4, ChatReply
<1>6. /\ x17' \in [Chat!Calls -> Chat!Coroutines] /\ x17'[c] = r
      /\ \A e \in Chat!Calls : e # c => x17'[e] = x17[e]
  BY <1>2, <1>5
<1>7. \A e \in Chat!Calls : x17'[e].rpc = "asked" => x17[e].rpc = "asked"
  BY <1>5, <1>6
<1>8. c # "sync" => x11 # "loading" /\ x17'["sync"] = x17["sync"]
  BY <1>1, <1>2, <1>6 DEF Chat!ChatInv, Chat!LinkOK, Chat!Free
<1>9. Chat!CallOK'
  BY <1>1, <1>2, <1>5, <1>6 DEF Chat!ChatInv, Chat!CallOK
<1>10. Chat!LinkOK' /\ Chat!TurnIsTold' /\ Chat!EndedOK' /\ Chat!AsksAreTold'
  <2>1. CASE /\ x17[c].at \in Chat!StartSteps /\ Chat!StartTurn(x17[c].word) /\ Chat!Starting(c) /\ x8' = x8
    <3>1. /\ x1 = 0 /\ x2 < MaxTurns /\ x2' = x2 + 1 /\ x1' = x2' /\ c # "sync"
          /\ x10' = x10 \o <<Chat!Note("reply", c), Chat!Note("started", x2 + 1)>>
      BY <1>1, <2>1 DEF Chat!StartTurn, Chat!Starting, Chat!StartSteps
    <3>2. PICK m : m = Chat!Note("reply", c)
      OBVIOUS
    <3>3. PICK n : n = Chat!Note("started", x2 + 1)
      OBVIOUS
    <3>4. /\ m \in Chat!Sentences /\ m.kind = "reply" /\ m.v = c
          /\ n \in Chat!Sentences /\ n.kind = "started" /\ n.v = x1' /\ x2' \in 0..MaxTurns
      BY <1>3, <3>1, <3>2, <3>3, ChatAssumption DEF Chat!Note, Chat!Sentences
    <3>5. PICK s : s = <<m, n>>
      OBVIOUS
    <3>6. /\ s \in Seq(Chat!Sentences) /\ Len(s) = 2 /\ s[1] = m /\ s[2] = n
          /\ \A i \in 1..Len(s) : i = 1 \/ i = 2
      BY <3>4, <3>5
    <3>7. x10' = x10 \o s
      BY <3>1, <3>2, <3>3, <3>5
    <3>8. /\ s \in Seq(Chat!Sentences) /\ \A i \in 1..Len(s) : s[i].kind = "reply" => s[i].v # "sync"
          /\ \/ x1' = x1 /\ \A i \in 1..Len(s) : s[i].kind # "started"
             \/ x1' = 0
             \/ /\ x1' = x2 + 1 /\ Len(s) >= 1 /\ s[Len(s)].kind = "started" /\ s[Len(s)].v = x1'
                /\ x1 = 0 /\ \A i \in 1..Len(s) : s[i].kind = "started" => i = Len(s)
          /\ \A i \in 1..Len(s) : s[i].kind = "completed" => s[i].v <= x2' /\ s[i].v # x1'
          /\ \A e \in Asks : x8'[e] = "waiting" =>
               \/ x8[e] = "waiting" /\ (e \in x9 => e \in x9')
               \/ \E i \in 1..Len(s) : s[i].kind = "ask" /\ e \in s[i].v
          /\ \A e \in Asks : x8[e] = "over" => x8'[e] = "over"
          /\ \A i \in 1..Len(s) : s[i].kind = "resolved" => \A e \in s[i].v : x8'[e] = "over"
      BY <1>1, <1>3, <2>1, <3>1, <3>4, <3>6
    <3>9. x2' \in Nat /\ x2 <= x2' /\ x1' <= x2'
      BY <1>3, <3>1
    <3> QED BY <1>1, <1>3, <1>7, <1>8, <3>1, <3>7, <3>8, <3>9, ChatHears
  <2>2. CASE /\ x17[c].at = "now.start" /\ Chat!StartTurn(x17[c].word) /\ Chat!Starting(c) /\ x8' = x8
    <3>1. /\ x1 = 0 /\ x2 < MaxTurns /\ x2' = x2 + 1 /\ x1' = x2' /\ c # "sync"
          /\ x10' = x10 \o <<Chat!Note("reply", c), Chat!Note("started", x2 + 1)>>
      BY <1>1, <2>2 DEF Chat!StartTurn, Chat!Starting
    <3>2. PICK m : m = Chat!Note("reply", c)
      OBVIOUS
    <3>3. PICK n : n = Chat!Note("started", x2 + 1)
      OBVIOUS
    <3>4. /\ m \in Chat!Sentences /\ m.kind = "reply" /\ m.v = c
          /\ n \in Chat!Sentences /\ n.kind = "started" /\ n.v = x1' /\ x2' \in 0..MaxTurns
      BY <1>3, <3>1, <3>2, <3>3, ChatAssumption DEF Chat!Note, Chat!Sentences
    <3>5. PICK s : s = <<m, n>>
      OBVIOUS
    <3>6. /\ s \in Seq(Chat!Sentences) /\ Len(s) = 2 /\ s[1] = m /\ s[2] = n
          /\ \A i \in 1..Len(s) : i = 1 \/ i = 2
      BY <3>4, <3>5
    <3>7. x10' = x10 \o s
      BY <3>1, <3>2, <3>3, <3>5
    <3>8. /\ s \in Seq(Chat!Sentences) /\ \A i \in 1..Len(s) : s[i].kind = "reply" => s[i].v # "sync"
          /\ \/ x1' = x1 /\ \A i \in 1..Len(s) : s[i].kind # "started"
             \/ x1' = 0
             \/ /\ x1' = x2 + 1 /\ Len(s) >= 1 /\ s[Len(s)].kind = "started" /\ s[Len(s)].v = x1'
                /\ x1 = 0 /\ \A i \in 1..Len(s) : s[i].kind = "started" => i = Len(s)
          /\ \A i \in 1..Len(s) : s[i].kind = "completed" => s[i].v <= x2' /\ s[i].v # x1'
          /\ \A e \in Asks : x8'[e] = "waiting" =>
               \/ x8[e] = "waiting" /\ (e \in x9 => e \in x9')
               \/ \E i \in 1..Len(s) : s[i].kind = "ask" /\ e \in s[i].v
          /\ \A e \in Asks : x8[e] = "over" => x8'[e] = "over"
          /\ \A i \in 1..Len(s) : s[i].kind = "resolved" => \A e \in s[i].v : x8'[e] = "over"
      BY <1>1, <1>3, <2>2, <3>1, <3>4, <3>6
    <3>9. x2' \in Nat /\ x2 <= x2' /\ x1' <= x2'
      BY <1>3, <3>1
    <3> QED BY <1>1, <1>3, <1>7, <1>8, <3>1, <3>7, <3>8, <3>9, ChatHears
  <2>3. CASE /\ x17[c].at = "cancel" /\ x1 = x17[c].turn /\ Chat!EndTurn(TRUE) /\ x2' = x2
             /\ x10' = x10 \o <<Chat!Note("reply", c), Chat!Note("completed", x17[c].turn)>> \o Chat!Withdrawn
             /\ x1 # 0
    <3>1. x1' = 0 /\ x8' = Chat!Over /\ c # "sync"
      BY <1>1, <2>3 DEF Chat!EndTurn
    <3>2. PICK m : m = Chat!Note("reply", c)
      OBVIOUS
    <3>3. PICK n : n = Chat!Note("completed", x17[c].turn)
      OBVIOUS
    <3>4. /\ m \in Chat!Sentences /\ m.kind = "reply" /\ m.v = c
          /\ n \in Chat!Sentences /\ n.kind = "completed" /\ n.v = x1
      BY <1>3, <2>3, <3>2, <3>3, ChatAssumption DEF Chat!Note, Chat!Sentences
    <3>5. PICK p : p = <<m, n>>
      OBVIOUS
    <3>6. /\ p \in Seq(Chat!Sentences) /\ Len(p) = 2 /\ p[1] = m /\ p[2] = n
          /\ \A i \in 1..Len(p) : i = 1 \/ i = 2
      BY <3>4, <3>5
    <3>7. PICK o : o = Chat!Withdrawn
      OBVIOUS
    <3>8. /\ o \in Seq(Chat!Sentences)
          /\ \A i \in 1..Len(o) : o[i].kind = "resolved" /\ o[i].v = Chat!Waiting
      <4>1. PICK over : over = Chat!Note("resolved", Chat!Waiting)
        OBVIOUS
      <4>2. over \in Chat!Sentences /\ over.kind = "resolved" /\ over.v = Chat!Waiting
        BY <4>1 DEF Chat!Note, Chat!Sentences, Chat!Waiting
      <4>3. o = <<>> \/ o = <<over>>
        BY <3>7, <4>1 DEF Chat!Withdrawn
      <4>4. CASE o = <<>>
        BY <4>4
      <4>5. CASE o = <<over>>
        BY <4>2, <4>5
      <4> QED BY <4>3, <4>4, <4>5
    <3>9. PICK s : s = p \o o
      OBVIOUS
    <3>10. /\ s \in Seq(Chat!Sentences)
           /\ \A i \in 1..Len(s) : s[i] = m \/ s[i] = n \/ (s[i].kind = "resolved" /\ s[i].v = Chat!Waiting)
      <4>1. /\ s \in Seq(Chat!Sentences)
            /\ \A i \in 1..Len(p) : s[i] = p[i]
            /\ \A i \in 1..Len(s) : i \in 1..Len(p) \/ (i - Len(p) \in 1..Len(o) /\ s[i] = o[i - Len(p)])
        <5>1. p \in Seq(Chat!Sentences) /\ o \in Seq(Chat!Sentences)
          BY <3>6, <3>8
        <5> QED BY <3>9, <5>1, SeqLonger
      <4> QED BY <3>6, <3>8, <4>1
    <3>11. x10' = x10 \o s
      <4>1. x10 \in Seq(Chat!Sentences)
        BY DEF Chat!ChatInv, Chat!LinkOK
      <4>2. x10' = (x10 \o p) \o o
        BY <2>3, <3>2, <3>3, <3>5, <3>7
      <4>3. p \in Seq(Chat!Sentences) /\ o \in Seq(Chat!Sentences)
        BY <3>6, <3>8
      <4>4. (x10 \o p) \o o = x10 \o (p \o o)
        BY <4>1, <4>3, ConcatAssociative
      <4> QED BY <3>9, <4>2, <4>4
    <3>12. \A e \in Asks : (x8[e] = "over" => x8'[e] = "over") /\ x8'[e] # "waiting" /\ (e \in Chat!Waiting => x8'[e] = "over")
      BY <3>1 DEF Chat!Over, Chat!Waiting
    <3>13. /\ s \in Seq(Chat!Sentences) /\ \A i \in 1..Len(s) : s[i].kind = "reply" => s[i].v # "sync"
           /\ \/ x1' = x1 /\ \A i \in 1..Len(s) : s[i].kind # "started"
              \/ x1' = 0
              \/ /\ x1' = x2 + 1 /\ Len(s) >= 1 /\ s[Len(s)].kind = "started" /\ s[Len(s)].v = x1'
                 /\ x1 = 0 /\ \A i \in 1..Len(s) : s[i].kind = "started" => i = Len(s)
           /\ \A i \in 1..Len(s) : s[i].kind = "completed" => s[i].v <= x2' /\ s[i].v # x1'
           /\ \A e \in Asks : x8'[e] = "waiting" =>
                \/ x8[e] = "waiting" /\ (e \in x9 => e \in x9')
                \/ \E i \in 1..Len(s) : s[i].kind = "ask" /\ e \in s[i].v
           /\ \A e \in Asks : x8[e] = "over" => x8'[e] = "over"
           /\ \A i \in 1..Len(s) : s[i].kind = "resolved" => \A e \in s[i].v : x8'[e] = "over"
      <4>1. Chat!Waiting \subseteq Asks
        BY DEF Chat!Waiting
      <4> QED BY <1>1, <1>3, <2>3, <3>1, <3>4, <3>10, <3>12, <4>1
    <3>14. x2' \in Nat /\ x2 <= x2' /\ x1' <= x2'
      BY <1>3, <2>3, <3>1
    <3>15. x11 # "loading" /\ x17'["sync"] = x17["sync"]
      BY <1>8, <3>1
    <3>16. \A e \in Asks : x8'[e] = "waiting" =>
             \/ x8[e] = "waiting" /\ (e \in x9 => e \in x9')
             \/ \E i \in 1..Len(s) : s[i].kind = "ask" /\ e \in s[i].v
      BY <3>12
    <3>17. x1' = 0
      BY <3>1
    <3> QED BY <1>1, <1>3, <1>7, <3>11, <3>13, <3>14, <3>15, <3>16, <3>17, ChatHears
  <2>4. CASE x10' = Append(x10, Chat!Note("reply", c)) /\ UNCHANGED <<x1, x2, x8>> /\ c # "sync"
    <3>1. x10' = Append(x10, Chat!Note("reply", c))
      BY <2>4
    <3>2. PICK m : m = Chat!Note("reply", c)
      OBVIOUS
    <3>3. m \in Chat!Sentences /\ m.kind = "reply" /\ m.v = c
      BY <3>2 DEF Chat!Note, Chat!Sentences
    <3>4. PICK s : s = <<m>>
      OBVIOUS
    <3>5. s \in Seq(Chat!Sentences) /\ Len(s) = 1 /\ s[1] = m /\ \A i \in 1..Len(s) : i = 1
      BY <3>3, <3>4
    <3>6. x10' = x10 \o s
      <4>1. x10 \in Seq(Chat!Sentences)
        BY DEF Chat!ChatInv, Chat!LinkOK
      <4> QED BY <3>1, <3>2, <3>3, <3>4, <4>1
    <3>7. /\ s \in Seq(Chat!Sentences) /\ \A i \in 1..Len(s) : s[i].kind = "reply" => s[i].v # "sync"
          /\ \/ x1' = x1 /\ \A i \in 1..Len(s) : s[i].kind # "started"
             \/ x1' = 0
             \/ /\ x1' = x2 + 1 /\ Len(s) >= 1 /\ s[Len(s)].kind = "started" /\ s[Len(s)].v = x1'
                /\ x1 = 0 /\ \A i \in 1..Len(s) : s[i].kind = "started" => i = Len(s)
          /\ \A i \in 1..Len(s) : s[i].kind = "completed" => s[i].v <= x2' /\ s[i].v # x1'
          /\ \A e \in Asks : x8'[e] = "waiting" =>
               \/ x8[e] = "waiting" /\ (e \in x9 => e \in x9')
               \/ \E i \in 1..Len(s) : s[i].kind = "ask" /\ e \in s[i].v
          /\ \A e \in Asks : x8[e] = "over" => x8'[e] = "over"
          /\ \A i \in 1..Len(s) : s[i].kind = "resolved" => \A e \in s[i].v : x8'[e] = "over"
      BY <1>1, <1>3, <2>4, <3>3, <3>5
    <3>8. x2' \in Nat /\ x2 <= x2' /\ x1' <= x2'
      BY <1>3, <2>4
    <3> QED BY <1>1, <1>3, <1>7, <1>8, <2>4, <3>6, <3>7, <3>8, ChatHears
  <2>5. CASE /\ x17[c].at = "attach" /\ Chat!Reply(c, x1) /\ UNCHANGED <<x1, x2, x8>>
             /\ x10' = Append(x10, Chat!Note("reply", c)) \o IF Chat!Waiting = {} THEN <<>> ELSE <<Chat!Note("ask", Chat!Waiting)>>
    <3>1. c = "sync" /\ x11 = "loading"
      BY <1>1, <2>5 DEF Chat!ChatInv, Chat!TypeOK, Chat!LinkOK
    <3>2. x17'["sync"].rpc = "replied" /\ x17'["sync"].val = x1
      BY <1>4, <1>5, <1>6, <3>1
    <3>3. \A i \in 1..Len(x10) : ~Chat!Synced(i)
      BY <1>1, <3>1 DEF Chat!ChatInv, Chat!LinkOK, Chat!Unread
    <3>4. PICK m : m = Chat!Note("reply", c)
      OBVIOUS
    <3>5. m \in Chat!Sentences /\ m.kind = "reply" /\ m.v = "sync"
      BY <3>1, <3>4 DEF Chat!Note, Chat!Sentences
    <3>6. PICK o : o = IF Chat!Waiting = {} THEN <<>> ELSE <<Chat!Note("ask", Chat!Waiting)>>
      OBVIOUS
    <3>7. /\ o \in Seq(Chat!Sentences) /\ (Chat!Waiting # {} => Len(o) = 1)
          /\ \A i \in 1..Len(o) : o[i].kind = "ask" /\ o[i].v = Chat!Waiting
      <4>1. PICK n : n = Chat!Note("ask", Chat!Waiting)
        OBVIOUS
      <4>2. n \in Chat!Sentences /\ n.kind = "ask" /\ n.v = Chat!Waiting
        BY <4>1 DEF Chat!Note, Chat!Sentences, Chat!Waiting
      <4>3. IF Chat!Waiting = {} THEN o = <<>> ELSE o = <<n>>
        BY <3>6, <4>1
      <4>4. CASE o = <<>>
        BY <4>3, <4>4
      <4>5. CASE o = <<n>>
        BY <4>2, <4>5
      <4> QED BY <4>3, <4>4, <4>5
    <3>8. PICK p : p = Append(x10, m)
      OBVIOUS
    <3>9. x10 \in Seq(Chat!Sentences)
      BY DEF Chat!ChatInv, Chat!LinkOK
    <3>10. /\ p \in Seq(Chat!Sentences) /\ Len(p) = Len(x10) + 1 /\ p[Len(p)] = m /\ Len(x10) \in Nat
           /\ \A i \in 1..Len(x10) : p[i] = x10[i]
      BY <3>5, <3>8, <3>9
    <3>11. x10' = p \o o
      BY <2>5, <3>4, <3>6, <3>8
    <3>12. /\ x10' \in Seq(Chat!Sentences) /\ Len(x10') = Len(p) + Len(o) /\ Len(o) \in Nat
           /\ \A i \in 1..Len(p) : x10'[i] = p[i]
           /\ \A i \in 1..Len(o) : x10'[Len(p) + i] = o[i]
           /\ \A i \in 1..Len(x10') : i \in 1..Len(p) \/ (i - Len(p) \in 1..Len(o) /\ x10'[i] = o[i - Len(p)])
      <4>1. p \in Seq(Chat!Sentences) /\ o \in Seq(Chat!Sentences)
        BY <3>7, <3>10
      <4> QED BY <3>11, <4>1, SeqLonger
    <3>13. \A i \in 1..Len(x10') : \/ i \in 1..Len(x10) /\ x10'[i] = x10[i]
                                   \/ i = Len(p) /\ x10'[i] = m
                                   \/ i > Len(p) /\ x10'[i].kind = "ask" /\ x10'[i].v = Chat!Waiting
      BY <3>7, <3>10, <3>12
    <3>14. Len(p) \in 1..Len(x10') /\ x10'[Len(p)] = m
      BY <3>10, <3>12
    <3>15. \A i \in 1..Len(x10') : Chat!Synced(i)' <=> i = Len(p)
      BY <3>3, <3>5, <3>10, <3>13, <3>14 DEF Chat!Synced
    <3>16. Chat!LinkOK'
      <4>1. \A e \in Chat!Calls \ {"sync"} : x17'[e] = x17[e]
        BY <1>2, <1>5, <1>6, <3>1
      <4> QED BY <1>1, <3>1, <3>2, <3>12, <3>14, <3>15, <4>1 DEF Chat!ChatInv, Chat!LinkOK,
         Chat!Unread, Chat!Free
    <3>17. Chat!TurnIsTold'
      <4>1. Chat!Known' = x1'
        BY <1>1, <2>5, <3>1, <3>2 DEF Chat!Known
      <4>2. \A i \in 1..Len(x10') : Chat!Since(i)' => x10'[i].kind # "started"
        <5>1. TAKE i \in 1..Len(x10')
        <5>2. CASE i \in 1..Len(x10)
          <6>1. Len(p) \in i..Len(x10')
            BY <3>10, <3>12, <5>2
          <6> QED BY <3>14, <3>15, <6>1 DEF Chat!Since
        <5> QED BY <3>5, <3>13, <5>2
      <4> QED BY <4>1, <4>2 DEF Chat!TurnIsTold, Chat!Unread
    <3>18. Chat!EndedOK'
      <4>1. \A i \in 1..Len(x10') : x10'[i].kind = "completed" => i \in 1..Len(x10) /\ x10'[i] = x10[i]
        BY <3>5, <3>13
      <4> QED BY <2>5, <4>1 DEF Chat!ChatInv, Chat!EndedOK, Chat!Unread
    <3>19. Chat!AsksAreTold'
      <4>1. \A i \in 1..Len(x10') : x10'[i].kind = "resolved" => i \in 1..Len(x10) /\ x10'[i] = x10[i]
        BY <3>5, <3>13
      <4>2. \A i \in 1..Len(x10') : x10'[i].kind = "resolved" => \A a \in x10'[i].v : x8'[a] = "over"
        BY <2>5, <4>1 DEF Chat!ChatInv, Chat!AsksAreTold, Chat!Unread
      <4>3. ASSUME NEW a \in Chat!Waiting
            PROVE  \E i \in 1..Len(x10') : x10'[i].kind = "ask" /\ a \in x10'[i].v
        <5>1. Len(o) = 1 /\ Len(p) + 1 \in 1..Len(x10') /\ x10'[Len(p) + 1] = o[1] /\ 1 \in 1..Len(o)
          BY <3>7, <3>10, <3>12, <4>3
        <5>2. x10'[Len(p) + 1].kind = "ask" /\ a \in x10'[Len(p) + 1].v
          BY <3>7, <4>3, <5>1
        <5> QED BY <5>1, <5>2
      <4>4. Chat!Waiting' = Chat!Waiting /\ x14' \cap x15' = {}
        BY <1>1, <2>5 DEF Chat!Waiting, Chat!ChatInv, Chat!AsksAreTold
      <4> QED BY <4>2, <4>3, <4>4 DEF Chat!AsksAreTold, Chat!Unread
    <3> QED BY <3>16, <3>17, <3>18, <3>19
  <2>6. x17[c].at = "cancel" => x17[c].turn # 0
    BY DEF Chat!ChatInv, Chat!CallOK
  <2> QED BY <1>1, <2>1, <2>2, <2>3, <2>4, <2>5, <2>6 DEF Chat!Serve, Chat!Plain
<1>11. /\ x7' = x7 \/ (x17[c].at \in Chat!StartSteps /\ x7' = [x7 EXCEPT ![x17[c].word] = @ + 1])
       /\ x7 \in [Words -> Nat] /\ x16' = x16
  BY <1>1 DEF Chat!Serve, Chat!ChatInv, Chat!TypeOK
<1>12. Chat!StartedOnce' /\ Chat!OneStart'
  <2>1. CASE x7' = x7
    BY <1>1, <1>5, <1>6, <1>11, <2>1 DEF Chat!ChatInv, Chat!StartedOnce, Chat!OneStart, Chat!Starts, Chat!StartSteps
  <2>2. CASE x17[c].at \in Chat!StartSteps /\ x7' = [x7 EXCEPT ![x17[c].word] = @ + 1]
    <3>1. PICK w \in Words : w = x17[c].word
      BY <1>2, <2>2 DEF Chat!StartSteps
    <3>2. /\ x7[w] = 0 /\ x16[w] # "no" /\ \A e \in Chat!Calls : Chat!Starts(e, w) => e = c
      BY <1>1, <2>2, <3>1 DEF Chat!ChatInv, Chat!OneStart, Chat!Starts, Chat!StartSteps
    <3>3. x7'[w] = 1 /\ \A u \in Words : u # w => x7'[u] = x7[u]
      BY <1>11, <2>2, <3>1, <3>2
    <3>4. \A e \in Chat!Calls : x17'[e].at \in Chat!StartSteps =>
            /\ x17[e].at \in Chat!StartSteps /\ x17[e].word = x17'[e].word /\ (x17[e].word = w => e = c)
            /\ e = c => x17'[e].rpc = "replied" /\ x17'[e].val # 0
            /\ e # c => x17'[e] = x17[e]
      <4>1. v # 0
        <5>1. x7' # x7
          BY <3>2, <3>3
        <5>2. Chat!Starting(c)
          BY <5>1 DEF Chat!Serve
        <5>3. x17'[c].val = x2 + 1
          BY <5>2, <1>2 DEF Chat!Starting, Chat!Reply, Chat!Coroutines
        <5> QED BY <5>3, <1>3, <1>5, <1>6
      <4> QED BY <4>1, <1>5, <1>6, <3>1, <3>2 DEF Chat!Starts
    <3>5. Chat!StartedOnce'
      BY <3>3 DEF Chat!ChatInv, Chat!StartedOnce
    <3>6. Chat!OneStart'
      <4>1. \A u \in Words : \A d, e \in Chat!Calls :
              x17'[d].at \in Chat!StartSteps /\ x17'[d].word = u /\ x17'[e].at \in Chat!StartSteps /\ x17'[e].word = u => d = e
        BY <3>4 DEF Chat!ChatInv, Chat!OneStart, Chat!Starts, Chat!StartSteps
      <4>2. \A u \in Words : \A d \in Chat!Calls : x17'[d].at \in Chat!StartSteps /\ x17'[d].word = u =>
              x16'[u] # "no" /\ (x17'[d].rpc = "asked" \/ x17'[d].val = 0 => x7'[u] = 0)
        <5>1. TAKE u \in Words
        <5>2. TAKE d \in Chat!Calls
        <5>3. HAVE x17'[d].at \in Chat!StartSteps /\ x17'[d].word = u
        <5>4. /\ x17[d].at \in Chat!StartSteps /\ x17[d].word = u
              /\ x17'[d].rpc = "asked" \/ x17'[d].val = 0 => x17'[d] = x17[d] /\ u # w
          BY <3>1, <3>4, <5>3
        <5>5. x16[u] # "no" /\ (x17[d].rpc = "asked" \/ x17[d].val = 0 => x7[u] = 0)
          BY <5>4 DEF Chat!ChatInv, Chat!OneStart, Chat!Starts, Chat!StartSteps
        <5> QED BY <1>11, <3>3, <5>4, <5>5
      <4>3. \A u \in Words : x16'[u] = "no" => x7'[u] = 0
        BY <1>11, <3>1, <3>2, <3>3 DEF Chat!ChatInv, Chat!OneStart
      <4> QED BY <4>1, <4>2, <4>3 DEF Chat!OneStart, Chat!Starts, Chat!StartSteps
    <3> QED BY <3>5, <3>6
  <2> QED BY <1>11, <2>1, <2>2
<1>13. Chat!TypeOK'
  <2>1. \A e \in Chat!Calls : x17'[e].rpc \in {"no", "asked", "replied", "done", "cut", "timeout"}
    BY <1>9 DEF Chat!CallOK, Chat!Coroutines
  <2>2. x1' \in 0..MaxTurns /\ x2' \in 0..MaxTurns
    <3>1. (x1' = x1 /\ x2' = x2) \/ (x1' = 0 /\ x2' = x2) \/ (x2 < MaxTurns /\ x2' = x2 + 1 /\ x1' = x2')
      BY DEF Chat!Serve, Chat!StartTurn, Chat!EndTurn
    <3> QED BY <1>3, <3>1, ChatAssumption
  <2>3. x4' \subseteq Words /\ x5' \subseteq Words /\ x6' \subseteq Words /\ x18' \subseteq Words
    BY <1>2 DEF Chat!Serve, Chat!StartSteps, Chat!StartTurn, Chat!EndTurn, Chat!ChatInv, Chat!TypeOK
  <2>4. x7' \in [Words -> Nat] /\ x8' \in [Asks -> {"no", "waiting", "over"}]
    <3>1. x8' = x8 \/ x8' = Chat!Over
      BY DEF Chat!Serve, Chat!EndTurn
    <3> QED BY <1>2, <1>3, <1>11, <3>1 DEF Chat!Over
  <2>5. UNCHANGED <<x9, x11, x12, x13, x14, x15, x16>>
    BY DEF Chat!Serve, Chat!adapter
  <2> QED BY <2>1, <2>2, <2>3, <2>4, <2>5 DEF Chat!ChatInv, Chat!TypeOK
<1> QED BY <1>9, <1>10, <1>12, <1>13 DEF Chat!ChatInv

LEMMA ChatSent ==
  ASSUME Chat!ChatInv, NEW c \in Chat!Calls, Chat!Sent(c)
  PROVE  Chat!ChatInv'
<1>1. c # "sync" /\ c \in Chat!Calls /\ x11 # "loading"
  BY DEF Chat!Sent, Chat!Rejected, Chat!Got, Chat!Refused, Chat!Late, Chat!Steps, Chat!StartSteps, Chat!ChatInv,
     Chat!CallOK, Chat!LinkOK, Chat!Free
<1>2. PICK r : r = x17'[c]
  OBVIOUS
<1>3. UNCHANGED <<x1, x2, x8, x9, x10, x11, x14, x15>> /\ (x12 # 0 => x12' = x12)
  BY DEF Chat!Sent, Chat!Return, Chat!Request, Chat!Got, Chat!Refused, Chat!Late, Chat!Quiet,
     Chat!codexVars, Chat!counts, Chat!adapter
<1>4. x17 \in [Chat!Calls -> Chat!Coroutines]
  BY <1>1, ChatTyped
<1>5. /\ x17' = [x17 EXCEPT ![c] = r]
      /\ \/ r = Chat!Idle
         \/ /\ r = Chat!Asked("words", x17[c].word, 0) /\ x17[c].at = "start"
            /\ x17[c].rpc = "done" /\ x17[c].val = 0
      /\ x7' = x7 /\ \A v \in Words : x16'[v] = "no" => x16[v] = "no"
  <2>1. \/ Chat!Return(c)
        \/ /\ Chat!Request(c, "words", x17[c].word, 0)
           /\ x17[c].at = "start" /\ x17[c].rpc = "done" /\ x17[c].val = 0
    BY DEF Chat!Sent, Chat!Rejected, Chat!Refused
  <2>2. x7' = x7 /\ \A v \in Words : x16'[v] = "no" => x16[v] = "no"
    BY DEF Chat!Sent, Chat!Quiet, Chat!codexVars, Chat!ChatInv, Chat!TypeOK
  <2> QED BY <2>1, <2>2, <1>4, <1>1, <1>2 DEF Chat!Return, Chat!Request
<1>6. /\ x12 \in 0..MaxTurns /\ 0 \in 0..MaxTurns /\ x17[c].turn \in 0..MaxTurns
      /\ "none" \in Words \cup {"none"}
      /\ x17[c].at \in {"now.delete", "now.steer"} => x17[c].word \in Words /\ x17[c].turn # 0
  BY <1>1, ChatTyped, ChatAssumption DEF Chat!ChatInv, Chat!TypeOK, Chat!CallOK
<1>12. x17[c].at = "start" => x17[c].word \in Words
  BY <1>1 DEF Chat!ChatInv, Chat!CallOK
<1>7. /\ x17' = [x17 EXCEPT ![c] = r] /\ r \in Chat!Coroutines /\ (r.at = "idle" => r.rpc = "no") /\ r.at # "attach"
      /\ r.at \notin {"idle", "attach", "cancel"} => r.word \in Words
      /\ r.at \in {"now.delete", "now.steer", "cancel"} => r.turn # 0
      /\ r.rpc = "asked" => x11 # "off"
  <2>1. CASE r = Chat!Idle
    BY <2>1, <1>6, <1>5, ChatIdle
  <2>2. CASE r = Chat!Asked("words", x17[c].word, 0) /\ x17[c].at = "start"
    BY <2>2, <1>6, <1>5, <1>12, ChatAsked DEF Chat!Steps
  <2> QED BY <1>5, <2>1, <2>2
<1>8. /\ Chat!CallOK' /\ Chat!LinkOK' /\ Chat!TurnIsTold' /\ Chat!EndedOK' /\ Chat!AsksAreTold'
      /\ \A e \in Chat!Calls : x17'[e].rpc \in {"no", "asked", "replied", "done", "cut", "timeout"}
  BY <1>1, <1>3, <1>7, ChatCalls
<1>9. Chat!TypeOK'
  BY <1>1, <1>7, <1>8, ChatTyped, ChatAssumption DEF Chat!Sent, Chat!Got, Chat!Refused,
     Chat!Late, Chat!Return, Chat!Quiet, Chat!codexVars, Chat!counts, Chat!ChatInv, Chat!TypeOK,
     Chat!CallOK, Chat!Calls
<1>10. Chat!StartedOnce'
  BY ChatAssumption DEF Chat!Sent, Chat!Got, Chat!Refused, Chat!Late, Chat!Return, Chat!Quiet,
     Chat!codexVars, Chat!counts, Chat!ChatInv, Chat!StartedOnce, Chat!OneStart, Chat!CallOK,
     Chat!Calls, Chat!Starts, Chat!StartSteps
<1>11. Chat!OneStart'
  <2>1. CASE r = Chat!Idle
    <3>1. r.at \notin Chat!StartSteps
      BY <2>1, ChatIdle DEF Chat!Idle, Chat!StartSteps
    <3> QED BY <3>1, <1>1, <1>5, <1>7, ChatStarts
  <2>2. CASE /\ r = Chat!Asked("words", x17[c].word, 0) /\ x17[c].at = "start"
             /\ x17[c].rpc = "done" /\ x17[c].val = 0
    <3>1. r.word = x17[c].word
      BY <2>2 DEF Chat!Asked
    <3>2. /\ x17'[c] = r /\ \A e \in Chat!Calls : e # c => x17'[e] = x17[e]
          /\ x17[c].at \in Chat!StartSteps /\ x17[c].val = 0
      BY <1>1, <1>4, <1>5, <2>2 DEF Chat!StartSteps
    <3>3. \A e \in Chat!Calls, w \in Words :
            Chat!Starts(e, w)' => /\ Chat!Starts(e, w)
                                  /\ x17'[e] = x17[e] \/ x17[e].val = 0
      BY <3>1, <3>2 DEF Chat!Starts
    <3> QED BY <3>3, <1>5 DEF Chat!ChatInv, Chat!OneStart
  <2> QED BY <1>5, <2>1, <2>2
<1> QED BY <1>8, <1>9, <1>10, <1>11 DEF Chat!ChatInv

LEMMA ChatNowStarted ==
  ASSUME Chat!ChatInv, NEW c \in Chat!Calls, Chat!NowStarted(c)
  PROVE  Chat!ChatInv'
<1>1. c # "sync" /\ c \in Chat!Calls /\ x11 # "loading"
  BY DEF Chat!NowStarted, Chat!Got, Chat!Refused, Chat!Late, Chat!Steps, Chat!StartSteps, Chat!ChatInv, Chat!CallOK,
     Chat!LinkOK, Chat!Free
<1>2. PICK r : r = x17'[c]
  OBVIOUS
<1>3. UNCHANGED <<x1, x2, x8, x9, x10, x11, x14, x15>> /\ (x12 # 0 => x12' = x12)
  BY DEF Chat!NowStarted, Chat!Return, Chat!Request, Chat!Got, Chat!Refused, Chat!Late, Chat!Quiet,
     Chat!codexVars, Chat!counts, Chat!adapter
<1>4. x17 \in [Chat!Calls -> Chat!Coroutines]
  BY <1>1, ChatTyped
<1>5. x17' = [x17 EXCEPT ![c] = r]
      /\ r = Chat!Idle /\ x7' = x7 /\ \A v \in Words : x16'[v] = "no" => x16[v] = "no"
  BY <1>4, <1>1, <1>2 DEF Chat!NowStarted, Chat!Return, Chat!Request, Chat!Got, Chat!Refused,
     Chat!Late, Chat!Quiet, Chat!codexVars, Chat!counts, Chat!adapter
<1>6. /\ x12 \in 0..MaxTurns /\ 0 \in 0..MaxTurns /\ x17[c].turn \in 0..MaxTurns
      /\ "none" \in Words \cup {"none"}
      /\ x17[c].at \in {"now.delete", "now.steer"} => x17[c].word \in Words /\ x17[c].turn # 0
  BY <1>1, ChatTyped, ChatAssumption DEF Chat!ChatInv, Chat!TypeOK, Chat!CallOK
<1>7. /\ x17' = [x17 EXCEPT ![c] = r] /\ r \in Chat!Coroutines /\ (r.at = "idle" => r.rpc = "no") /\ r.at # "attach"
      /\ r.at \notin {"idle", "attach", "cancel"} => r.word \in Words
      /\ r.at \in {"now.delete", "now.steer", "cancel"} => r.turn # 0
      /\ r.rpc = "asked" => x11 # "off"
  BY <1>6, <1>5, ChatAsked, ChatIdle DEF Chat!Steps, Chat!StartSteps
<1>8. /\ Chat!CallOK' /\ Chat!LinkOK' /\ Chat!TurnIsTold' /\ Chat!EndedOK' /\ Chat!AsksAreTold'
      /\ \A e \in Chat!Calls : x17'[e].rpc \in {"no", "asked", "replied", "done", "cut", "timeout"}
  BY <1>1, <1>3, <1>7, ChatCalls
<1>9. Chat!TypeOK'
  BY <1>1, <1>7, <1>8, ChatTyped, ChatAssumption DEF Chat!NowStarted, Chat!Got, Chat!Refused,
     Chat!Late, Chat!Return, Chat!Quiet, Chat!codexVars, Chat!counts, Chat!ChatInv, Chat!TypeOK,
     Chat!CallOK, Chat!Calls
<1>10. Chat!StartedOnce'
  BY ChatAssumption DEF Chat!NowStarted, Chat!Got, Chat!Refused, Chat!Late, Chat!Return,
     Chat!Quiet, Chat!codexVars, Chat!counts, Chat!ChatInv, Chat!StartedOnce, Chat!OneStart,
     Chat!CallOK, Chat!Calls, Chat!Starts, Chat!StartSteps
<1>11. Chat!OneStart'
  <2>1. r.at \notin Chat!StartSteps /\ x7' = x7 /\ \A v \in Words : x16'[v] = "no" => x16[v] = "no"
    BY <1>6, <1>5, ChatAsked, ChatIdle DEF Chat!Steps, Chat!StartSteps
  <2> QED BY <1>1, <1>7, <2>1, ChatStarts
<1> QED BY <1>8, <1>9, <1>10, <1>11 DEF Chat!ChatInv

LEMMA ChatNowTaken ==
  ASSUME Chat!ChatInv, NEW c \in Chat!Calls, Chat!NowTaken(c)
  PROVE  Chat!ChatInv'
<1>1. c # "sync" /\ c \in Chat!Calls /\ x11 # "loading"
  BY DEF Chat!NowTaken, Chat!Got, Chat!Refused, Chat!Late, Chat!Steps, Chat!StartSteps, Chat!ChatInv, Chat!CallOK,
     Chat!LinkOK, Chat!Free
<1>2. PICK r : r = x17'[c]
  OBVIOUS
<1>3. UNCHANGED <<x1, x2, x8, x9, x10, x11, x14, x15>> /\ (x12 # 0 => x12' = x12)
  BY DEF Chat!NowTaken, Chat!Return, Chat!Request, Chat!Got, Chat!Refused, Chat!Late, Chat!Quiet,
     Chat!codexVars, Chat!counts, Chat!adapter
<1>4. x17 \in [Chat!Calls -> Chat!Coroutines]
  BY <1>1, ChatTyped
<1>5. x17' = [x17 EXCEPT ![c] = r]
      /\ (r = Chat!Idle \/ (x17[c].at = "now.delete" /\ r = Chat!Asked("now.steer", x17[c].word, x17[c].turn))) /\ x7' = x7 /\ \A v \in Words : x16'[v] = "no" => x16[v] = "no"
  BY <1>4, <1>1, <1>2 DEF Chat!NowTaken, Chat!Return, Chat!Request, Chat!Got, Chat!Refused,
     Chat!Late, Chat!Quiet, Chat!codexVars, Chat!counts, Chat!adapter
<1>6. /\ x12 \in 0..MaxTurns /\ 0 \in 0..MaxTurns /\ x17[c].turn \in 0..MaxTurns
      /\ "none" \in Words \cup {"none"}
      /\ x17[c].at \in {"now.delete", "now.steer"} => x17[c].word \in Words /\ x17[c].turn # 0
  BY <1>1, ChatTyped, ChatAssumption DEF Chat!ChatInv, Chat!TypeOK, Chat!CallOK
<1>7. /\ x17' = [x17 EXCEPT ![c] = r] /\ r \in Chat!Coroutines /\ (r.at = "idle" => r.rpc = "no") /\ r.at # "attach"
      /\ r.at \notin {"idle", "attach", "cancel"} => r.word \in Words
      /\ r.at \in {"now.delete", "now.steer", "cancel"} => r.turn # 0
      /\ r.rpc = "asked" => x11 # "off"
  BY <1>6, <1>5, ChatAsked, ChatIdle DEF Chat!Steps, Chat!StartSteps
<1>8. /\ Chat!CallOK' /\ Chat!LinkOK' /\ Chat!TurnIsTold' /\ Chat!EndedOK' /\ Chat!AsksAreTold'
      /\ \A e \in Chat!Calls : x17'[e].rpc \in {"no", "asked", "replied", "done", "cut", "timeout"}
  BY <1>1, <1>3, <1>7, ChatCalls
<1>9. Chat!TypeOK'
  BY <1>1, <1>7, <1>8, ChatTyped, ChatAssumption DEF Chat!NowTaken, Chat!Got, Chat!Request,
     Chat!Refused, Chat!Late, Chat!Return, Chat!Quiet, Chat!codexVars, Chat!counts,
     Chat!ChatInv, Chat!TypeOK, Chat!CallOK, Chat!Calls
<1>10. Chat!StartedOnce'
  BY ChatAssumption DEF Chat!NowTaken, Chat!Got, Chat!Request, Chat!Refused, Chat!Late,
     Chat!Return, Chat!Quiet, Chat!codexVars, Chat!counts, Chat!ChatInv, Chat!StartedOnce,
     Chat!OneStart, Chat!CallOK, Chat!Calls, Chat!Starts, Chat!StartSteps
<1>11. Chat!OneStart'
  <2>1. r.at \notin Chat!StartSteps /\ x7' = x7 /\ \A v \in Words : x16'[v] = "no" => x16[v] = "no"
    BY <1>6, <1>5, ChatAsked, ChatIdle DEF Chat!Steps, Chat!StartSteps
  <2> QED BY <1>1, <1>7, <2>1, ChatStarts
<1> QED BY <1>8, <1>9, <1>10, <1>11 DEF Chat!ChatInv

LEMMA ChatNowSteered ==
  ASSUME Chat!ChatInv, NEW c \in Chat!Calls, Chat!NowSteered(c)
  PROVE  Chat!ChatInv'
<1>1. c # "sync" /\ c \in Chat!Calls /\ x11 # "loading"
  BY DEF Chat!NowSteered, Chat!Got, Chat!Refused, Chat!Late, Chat!Steps, Chat!StartSteps, Chat!ChatInv, Chat!CallOK,
     Chat!LinkOK, Chat!Free
<1>2. PICK r : r = x17'[c]
  OBVIOUS
<1>3. UNCHANGED <<x1, x2, x8, x9, x10, x11, x14, x15>> /\ (x12 # 0 => x12' = x12)
  BY DEF Chat!NowSteered, Chat!Return, Chat!Request, Chat!Got, Chat!Refused, Chat!Late, Chat!Quiet,
     Chat!codexVars, Chat!counts, Chat!adapter
<1>4. x17 \in [Chat!Calls -> Chat!Coroutines]
  BY <1>1, ChatTyped
<1>5. x17' = [x17 EXCEPT ![c] = r]
      /\ (r = Chat!Idle \/ (x17[c].at = "now.steer" /\ r = Chat!Asked("now.add", x17[c].word, 0))) /\ x7' = x7 /\ \A v \in Words : x16'[v] = "no" => x16[v] = "no"
  BY <1>4, <1>1, <1>2 DEF Chat!NowSteered, Chat!Return, Chat!Request, Chat!Got, Chat!Refused,
     Chat!Late, Chat!Quiet, Chat!codexVars, Chat!counts, Chat!adapter
<1>6. /\ x12 \in 0..MaxTurns /\ 0 \in 0..MaxTurns /\ x17[c].turn \in 0..MaxTurns
      /\ "none" \in Words \cup {"none"}
      /\ x17[c].at \in {"now.delete", "now.steer"} => x17[c].word \in Words /\ x17[c].turn # 0
  BY <1>1, ChatTyped, ChatAssumption DEF Chat!ChatInv, Chat!TypeOK, Chat!CallOK
<1>7. /\ x17' = [x17 EXCEPT ![c] = r] /\ r \in Chat!Coroutines /\ (r.at = "idle" => r.rpc = "no") /\ r.at # "attach"
      /\ r.at \notin {"idle", "attach", "cancel"} => r.word \in Words
      /\ r.at \in {"now.delete", "now.steer", "cancel"} => r.turn # 0
      /\ r.rpc = "asked" => x11 # "off"
  BY <1>6, <1>5, ChatAsked, ChatIdle DEF Chat!Steps, Chat!StartSteps
<1>8. /\ Chat!CallOK' /\ Chat!LinkOK' /\ Chat!TurnIsTold' /\ Chat!EndedOK' /\ Chat!AsksAreTold'
      /\ \A e \in Chat!Calls : x17'[e].rpc \in {"no", "asked", "replied", "done", "cut", "timeout"}
  BY <1>1, <1>3, <1>7, ChatCalls
<1>9. Chat!TypeOK'
  BY <1>1, <1>7, <1>8, ChatTyped, ChatAssumption DEF Chat!NowSteered, Chat!Got, Chat!Return,
     Chat!Refused, Chat!Request, Chat!Late, Chat!Quiet, Chat!codexVars, Chat!counts,
     Chat!ChatInv, Chat!TypeOK, Chat!CallOK, Chat!Calls
<1>10. Chat!StartedOnce'
  BY ChatAssumption DEF Chat!NowSteered, Chat!Got, Chat!Return, Chat!Refused, Chat!Request,
     Chat!Late, Chat!Quiet, Chat!codexVars, Chat!counts, Chat!ChatInv, Chat!StartedOnce,
     Chat!OneStart, Chat!CallOK, Chat!Calls, Chat!Starts, Chat!StartSteps
<1>11. Chat!OneStart'
  <2>1. r.at \notin Chat!StartSteps /\ x7' = x7 /\ \A v \in Words : x16'[v] = "no" => x16[v] = "no"
    BY <1>6, <1>5, ChatAsked, ChatIdle DEF Chat!Steps, Chat!StartSteps
  <2> QED BY <1>1, <1>7, <2>1, ChatStarts
<1> QED BY <1>8, <1>9, <1>10, <1>11 DEF Chat!ChatInv

LEMMA ChatReturned ==
  ASSUME Chat!ChatInv, NEW c \in Chat!Calls, Chat!Returned(c)
  PROVE  Chat!ChatInv'
<1>1. c # "sync" /\ c \in Chat!Calls /\ x11 # "loading"
  BY DEF Chat!Returned, Chat!Got, Chat!Refused, Chat!Late, Chat!Steps, Chat!StartSteps, Chat!ChatInv, Chat!CallOK,
     Chat!LinkOK, Chat!Free
<1>2. PICK r : r = x17'[c]
  OBVIOUS
<1>3. UNCHANGED <<x1, x2, x8, x9, x10, x11, x14, x15>> /\ (x12 # 0 => x12' = x12)
  BY DEF Chat!Returned, Chat!Return, Chat!Request, Chat!Got, Chat!Refused, Chat!Late, Chat!Quiet,
     Chat!codexVars, Chat!counts, Chat!adapter
<1>4. x17 \in [Chat!Calls -> Chat!Coroutines]
  BY <1>1, ChatTyped
<1>5. x17' = [x17 EXCEPT ![c] = r]
      /\ r = Chat!Idle /\ x7' = x7 /\ \A v \in Words : x16'[v] = "no" => x16[v] = "no"
  BY <1>4, <1>1, <1>2 DEF Chat!Returned, Chat!Return, Chat!Request, Chat!Got, Chat!Refused,
     Chat!Late, Chat!Quiet, Chat!codexVars, Chat!counts, Chat!adapter
<1>6. /\ x12 \in 0..MaxTurns /\ 0 \in 0..MaxTurns /\ x17[c].turn \in 0..MaxTurns
      /\ "none" \in Words \cup {"none"}
      /\ x17[c].at \in {"now.delete", "now.steer"} => x17[c].word \in Words /\ x17[c].turn # 0
  BY <1>1, ChatTyped, ChatAssumption DEF Chat!ChatInv, Chat!TypeOK, Chat!CallOK
<1>7. /\ x17' = [x17 EXCEPT ![c] = r] /\ r \in Chat!Coroutines /\ (r.at = "idle" => r.rpc = "no") /\ r.at # "attach"
      /\ r.at \notin {"idle", "attach", "cancel"} => r.word \in Words
      /\ r.at \in {"now.delete", "now.steer", "cancel"} => r.turn # 0
      /\ r.rpc = "asked" => x11 # "off"
  BY <1>6, <1>5, ChatAsked, ChatIdle DEF Chat!Steps, Chat!StartSteps
<1>8. /\ Chat!CallOK' /\ Chat!LinkOK' /\ Chat!TurnIsTold' /\ Chat!EndedOK' /\ Chat!AsksAreTold'
      /\ \A e \in Chat!Calls : x17'[e].rpc \in {"no", "asked", "replied", "done", "cut", "timeout"}
  BY <1>1, <1>3, <1>7, ChatCalls
<1>9. Chat!TypeOK'
  BY <1>1, <1>7, <1>8, ChatTyped, ChatAssumption DEF Chat!Returned, Chat!Got, Chat!Refused,
     Chat!Late, Chat!Return, Chat!Quiet, Chat!codexVars, Chat!counts, Chat!ChatInv, Chat!TypeOK,
     Chat!CallOK, Chat!Calls
<1>10. Chat!StartedOnce'
  BY ChatAssumption DEF Chat!Returned, Chat!Got, Chat!Refused, Chat!Late, Chat!Return,
     Chat!Quiet, Chat!codexVars, Chat!counts, Chat!ChatInv, Chat!StartedOnce, Chat!OneStart,
     Chat!CallOK, Chat!Calls, Chat!Starts, Chat!StartSteps
<1>11. Chat!OneStart'
  <2>1. r.at \notin Chat!StartSteps /\ x7' = x7 /\ \A v \in Words : x16'[v] = "no" => x16[v] = "no"
    BY <1>6, <1>5, ChatAsked, ChatIdle DEF Chat!Steps, Chat!StartSteps
  <2> QED BY <1>1, <1>7, <2>1, ChatStarts
<1> QED BY <1>8, <1>9, <1>10, <1>11 DEF Chat!ChatInv

LEMMA ChatTimeout ==
  ASSUME Chat!ChatInv, NEW c \in Chat!Calls, Chat!Timeout(c)
  PROVE  Chat!ChatInv'
<1>1. Chat!CallOK' /\ Chat!LinkOK' /\ Chat!TurnIsTold' /\ Chat!EndedOK' /\ Chat!AsksAreTold'
  <2>1. UNCHANGED <<x1, x2, x8, x9, x10, x11, x12, x14, x15>> /\ x17[c].rpc \in {"asked", "replied"}
    BY DEF Chat!Timeout, Chat!Cut, Chat!codexVars, Chat!adapter
  <2>2. x17 \in [Chat!Calls -> Chat!Coroutines] /\ "sync" \in Chat!Calls
    BY DEF Chat!ChatInv, Chat!CallOK, Chat!Calls
  <2>3. PICK r : r = [x17[c] EXCEPT !.rpc = "timeout"]
    OBVIOUS
  <2>4. r \in Chat!Coroutines /\ r.at = x17[c].at /\ r.word = x17[c].word /\ r.turn = x17[c].turn /\ r.rpc = "timeout"
    BY <2>2, <2>3, ChatWaits
  <2>5. x17' = [x17 EXCEPT ![c] = r]
    BY <2>3 DEF Chat!Timeout
  <2>6. x17[c].at # "idle" /\ (c # "sync" => x11 # "loading")
    BY <2>1 DEF Chat!ChatInv, Chat!CallOK, Chat!LinkOK, Chat!Free
  <2>7. CASE c # "sync"
    <3>1. /\ r.at # "attach"
          /\ r.at \notin {"idle", "attach", "cancel"} => r.word \in Words
          /\ r.at \in {"now.delete", "now.steer", "cancel"} => r.turn # 0
      BY <2>4, <2>7 DEF Chat!ChatInv, Chat!CallOK
    <3> QED BY <2>1, <2>4, <2>5, <2>6, <2>7, <3>1, ChatCalls
  <2>8. CASE c = "sync"
    <3>1. x17'["sync"] = r /\ \A e \in Chat!Calls : e # "sync" => x17'[e] = x17[e]
      BY <2>2, <2>5, <2>8
    <3>2. x17' \in [Chat!Calls -> Chat!Coroutines]
      BY <2>2, <2>4, <2>5
    <3>3. Chat!CallOK'
      BY <2>4, <2>6, <2>8, <3>1, <3>2 DEF Chat!ChatInv, Chat!CallOK
    <3>4. ~Chat!Tracking'
      BY <2>1, <2>4, <2>6, <2>8, <3>1 DEF Chat!ChatInv, Chat!LinkOK, Chat!Tracking
    <3>5. Chat!LinkOK'
      BY <2>1, <2>4, <2>6, <2>8, <3>1 DEF Chat!ChatInv, Chat!LinkOK, Chat!Unread, Chat!Synced,
         Chat!Free
    <3>6. Chat!TurnIsTold' /\ Chat!EndedOK' /\ Chat!AsksAreTold'
      BY <2>1, <3>4 DEF Chat!ChatInv, Chat!TurnIsTold, Chat!EndedOK, Chat!AsksAreTold, Chat!Unread
    <3> QED BY <3>3, <3>5, <3>6
  <2> QED BY <2>7, <2>8
<1>2. Chat!TypeOK'
  BY ChatAssumption DEF Chat!Timeout, Chat!Cut, Chat!codexVars, Chat!adapter, Chat!ChatInv,
     Chat!TypeOK, Chat!CallOK, Chat!Calls
<1>3. Chat!StartedOnce'
  BY ChatAssumption DEF Chat!Timeout, Chat!Cut, Chat!codexVars, Chat!adapter, Chat!ChatInv,
     Chat!StartedOnce, Chat!OneStart, Chat!CallOK, Chat!Calls, Chat!Starts, Chat!StartSteps
<1>4. Chat!OneStart'
  BY ChatAssumption DEF Chat!Timeout, Chat!Cut, Chat!codexVars, Chat!adapter, Chat!ChatInv,
     Chat!OneStart, Chat!CallOK, Chat!Calls, Chat!Starts, Chat!StartSteps
<1> QED BY <1>1, <1>2, <1>3, <1>4 DEF Chat!ChatInv

LEMMA ChatDrain ==
  ASSUME Chat!ChatInv, Chat!Drain
  PROVE  Chat!ChatInv'
<1>1. Chat!LinkOK' /\ Chat!TurnIsTold' /\ Chat!EndedOK' /\ Chat!AsksAreTold'
  <2>1. PICK w \in x4 : Chat!StartTurn(w) /\ Chat!Tell(<<Chat!Note("started", x2 + 1)>>)
    BY DEF Chat!Drain
  <2>2. UNCHANGED <<x11, x12, x14, x15, x17>>
    BY DEF Chat!Drain, Chat!Own, Chat!adapter
  <2>3. x1 = 0 /\ x2 < MaxTurns /\ x2' = x2 + 1 /\ x1' = x2' /\ UNCHANGED <<x8, x9>>
    BY <2>1 DEF Chat!Drain, Chat!StartTurn
  <2>4. x1 \in 0..MaxTurns /\ x2 \in 0..MaxTurns /\ x1 <= x2 /\ x8 \in [Asks -> {"no", "waiting", "over"}]
    BY DEF Chat!ChatInv, Chat!TypeOK, Chat!EndedOK
  <2>5. CASE x11 = "off"
    <3>1. x10' = <<>> /\ x1' <= x2'
      BY <2>1, <2>3, <2>4, <2>5, ChatAssumption DEF Chat!Drain, Chat!StartTurn, Chat!Tell
    <3> QED BY <2>2, <2>5, <3>1, ChatAway, ChatSilent
  <2>6. CASE x11 # "off"
    <3>1. PICK n : n = Chat!Note("started", x2 + 1)
      OBVIOUS
    <3>2. n \in Chat!Sentences /\ n.kind = "started" /\ n.v = x1'
      BY <2>1, <2>3, <2>4, <3>1, ChatAssumption DEF Chat!Note, Chat!Sentences
    <3>3. PICK s : s = <<n>>
      OBVIOUS
    <3>4. s \in Seq(Chat!Sentences) /\ Len(s) = 1 /\ s[1] = n /\ \A i \in 1..Len(s) : i = 1
      BY <3>2, <3>3
    <3>5. x10' = x10 \o s
      BY <2>1, <2>3, <2>6, <3>1, <3>3 DEF Chat!Drain, Chat!StartTurn, Chat!Tell
    <3>6. /\ \A e \in Chat!Calls : x17'[e].rpc = "asked" => x11 # "off"
          /\ x2' \in Nat /\ x2 \in Nat /\ x2 <= x2' /\ x1' <= x2'
      BY <2>3, <2>4, <2>6, ChatAssumption
    <3>7. /\ \A i \in 1..Len(s) : s[i].kind = "reply" => s[i].v # "sync"
          /\ \/ x1' = x1 /\ \A i \in 1..Len(s) : s[i].kind # "started"
             \/ x1' = 0
             \/ /\ x1' = x2 + 1 /\ Len(s) >= 1 /\ s[Len(s)].kind = "started" /\ s[Len(s)].v = x1'
                /\ x1 = 0 /\ \A i \in 1..Len(s) : s[i].kind = "started" => i = Len(s)
          /\ \A i \in 1..Len(s) : s[i].kind = "completed" => s[i].v <= x2' /\ s[i].v # x1'
      BY <2>3, <2>4, <3>2, <3>4, ChatAssumption
    <3>8. /\ \A e \in Asks : x8'[e] = "waiting" =>
             \/ x8[e] = "waiting" /\ (e \in x9 => e \in x9')
             \/ \E i \in 1..Len(s) : s[i].kind = "ask" /\ e \in s[i].v
          /\ \A e \in Asks : x8[e] = "over" => x8'[e] = "over"
          /\ \A i \in 1..Len(s) : s[i].kind = "resolved" => \A e \in s[i].v : x8'[e] = "over"
      BY <2>3, <2>4, <3>2, <3>4 DEF Chat!Over, Chat!Waiting
    <3> QED BY <2>2, <2>6, <3>4, <3>5, <3>6, <3>7, <3>8, ChatHears
  <2> QED BY <2>5, <2>6
<1>2. Chat!TypeOK'
  BY ChatAssumption DEF Chat!Drain, Chat!StartTurn, Chat!Tell, Chat!Note, Chat!Own,
     Chat!adapter, Chat!counts, Chat!ChatInv, Chat!TypeOK, Chat!CallOK, Chat!Calls
<1>3. Chat!CallOK'
  BY ChatAssumption DEF Chat!Drain, Chat!StartTurn, Chat!Tell, Chat!Note, Chat!Own,
     Chat!adapter, Chat!counts, Chat!ChatInv, Chat!CallOK, Chat!TypeOK, Chat!LinkOK, Chat!Calls,
     Chat!Free, Chat!Unread, Chat!Synced
<1>4. Chat!StartedOnce'
  BY ChatAssumption DEF Chat!Drain, Chat!StartTurn, Chat!Tell, Chat!Note, Chat!Own,
     Chat!adapter, Chat!counts, Chat!ChatInv, Chat!StartedOnce, Chat!OneStart, Chat!CallOK,
     Chat!Calls, Chat!Starts, Chat!StartSteps
<1>5. Chat!OneStart'
  BY ChatAssumption DEF Chat!Drain, Chat!StartTurn, Chat!Tell, Chat!Note, Chat!Own,
     Chat!adapter, Chat!counts, Chat!ChatInv, Chat!OneStart, Chat!CallOK, Chat!Calls,
     Chat!Starts, Chat!StartSteps
<1> QED BY <1>1, <1>2, <1>3, <1>4, <1>5 DEF Chat!ChatInv

LEMMA ChatTake ==
  ASSUME Chat!ChatInv, Chat!Take
  PROVE  Chat!ChatInv'
<1>1. Chat!LinkOK' /\ Chat!TurnIsTold' /\ Chat!EndedOK' /\ Chat!AsksAreTold'
  <2>1. PICK w \in x5 : Chat!Tell(<<Chat!Note("took", w)>>) /\ w \in Words
    BY DEF Chat!Take, Chat!ChatInv, Chat!TypeOK
  <2>2. UNCHANGED <<x11, x12, x14, x15, x17>>
    BY DEF Chat!Take, Chat!Own, Chat!adapter
  <2>3. UNCHANGED <<x1, x2, x8, x9>>
    BY <2>1 DEF Chat!Take
  <2>4. x1 \in 0..MaxTurns /\ x2 \in 0..MaxTurns /\ x1 <= x2 /\ x8 \in [Asks -> {"no", "waiting", "over"}]
    BY DEF Chat!ChatInv, Chat!TypeOK, Chat!EndedOK
  <2>5. CASE x11 = "off"
    <3>1. x10' = <<>> /\ x1' <= x2'
      BY <2>1, <2>3, <2>4, <2>5, ChatAssumption DEF Chat!Take, Chat!Tell
    <3> QED BY <2>2, <2>5, <3>1, ChatAway, ChatSilent
  <2>6. CASE x11 # "off"
    <3>1. PICK n : n = Chat!Note("took", w)
      OBVIOUS
    <3>2. n \in Chat!Sentences /\ n.kind = "took"
      BY <2>1, <2>3, <2>4, <3>1, ChatAssumption DEF Chat!Note, Chat!Sentences
    <3>3. PICK s : s = <<n>>
      OBVIOUS
    <3>4. s \in Seq(Chat!Sentences) /\ Len(s) = 1 /\ s[1] = n /\ \A i \in 1..Len(s) : i = 1
      BY <3>2, <3>3
    <3>5. x10' = x10 \o s
      BY <2>1, <2>3, <2>6, <3>1, <3>3 DEF Chat!Take, Chat!Tell
    <3>6. /\ \A e \in Chat!Calls : x17'[e].rpc = "asked" => x11 # "off"
          /\ x2' \in Nat /\ x2 \in Nat /\ x2 <= x2' /\ x1' <= x2'
      BY <2>3, <2>4, <2>6, ChatAssumption
    <3>7. /\ \A i \in 1..Len(s) : s[i].kind = "reply" => s[i].v # "sync"
          /\ \/ x1' = x1 /\ \A i \in 1..Len(s) : s[i].kind # "started"
             \/ x1' = 0
             \/ /\ x1' = x2 + 1 /\ Len(s) >= 1 /\ s[Len(s)].kind = "started" /\ s[Len(s)].v = x1'
                /\ x1 = 0 /\ \A i \in 1..Len(s) : s[i].kind = "started" => i = Len(s)
          /\ \A i \in 1..Len(s) : s[i].kind = "completed" => s[i].v <= x2' /\ s[i].v # x1'
      BY <2>3, <2>4, <3>2, <3>4, ChatAssumption
    <3>8. /\ \A e \in Asks : x8'[e] = "waiting" =>
             \/ x8[e] = "waiting" /\ (e \in x9 => e \in x9')
             \/ \E i \in 1..Len(s) : s[i].kind = "ask" /\ e \in s[i].v
          /\ \A e \in Asks : x8[e] = "over" => x8'[e] = "over"
          /\ \A i \in 1..Len(s) : s[i].kind = "resolved" => \A e \in s[i].v : x8'[e] = "over"
      BY <2>3, <2>4, <3>2, <3>4 DEF Chat!Over, Chat!Waiting
    <3> QED BY <2>2, <2>6, <3>4, <3>5, <3>6, <3>7, <3>8, ChatHears
  <2> QED BY <2>5, <2>6
<1>2. Chat!TypeOK'
  BY ChatAssumption DEF Chat!Take, Chat!Tell, Chat!Note, Chat!Own, Chat!adapter, Chat!counts,
     Chat!ChatInv, Chat!TypeOK, Chat!CallOK, Chat!Calls
<1>3. Chat!CallOK'
  BY ChatAssumption DEF Chat!Take, Chat!Tell, Chat!Note, Chat!Own, Chat!adapter, Chat!counts,
     Chat!ChatInv, Chat!CallOK, Chat!TypeOK, Chat!LinkOK, Chat!Calls, Chat!Free, Chat!Unread,
     Chat!Synced
<1>4. Chat!StartedOnce'
  BY ChatAssumption DEF Chat!Take, Chat!Tell, Chat!Note, Chat!Own, Chat!adapter, Chat!counts,
     Chat!ChatInv, Chat!StartedOnce, Chat!OneStart, Chat!CallOK, Chat!Calls, Chat!Starts, Chat!StartSteps
<1>5. Chat!OneStart'
  BY ChatAssumption DEF Chat!Take, Chat!Tell, Chat!Note, Chat!Own, Chat!adapter, Chat!counts,
     Chat!ChatInv, Chat!OneStart, Chat!CallOK, Chat!Calls, Chat!Starts, Chat!StartSteps
<1> QED BY <1>1, <1>2, <1>3, <1>4, <1>5 DEF Chat!ChatInv

LEMMA ChatAsk ==
  ASSUME Chat!ChatInv, Chat!Ask
  PROVE  Chat!ChatInv'
<1>1. Chat!LinkOK' /\ Chat!TurnIsTold' /\ Chat!EndedOK' /\ Chat!AsksAreTold'
  <2>1. PICK a \in Asks : /\ x8[a] = "no" /\ x8' = [x8 EXCEPT ![a] = "waiting"]
                          /\ Chat!Tell(<<Chat!Note("ask", {a})>>)
    BY DEF Chat!Ask
  <2>2. UNCHANGED <<x11, x12, x14, x15, x17>>
    BY DEF Chat!Ask, Chat!Own, Chat!adapter
  <2>3. UNCHANGED <<x1, x2, x9>>
    BY <2>1 DEF Chat!Ask
  <2>4. x1 \in 0..MaxTurns /\ x2 \in 0..MaxTurns /\ x1 <= x2 /\ x8 \in [Asks -> {"no", "waiting", "over"}]
    BY DEF Chat!ChatInv, Chat!TypeOK, Chat!EndedOK
  <2>5. CASE x11 = "off"
    <3>1. x10' = <<>> /\ x1' <= x2'
      BY <2>1, <2>3, <2>4, <2>5, ChatAssumption DEF Chat!Ask, Chat!Tell
    <3> QED BY <2>2, <2>5, <3>1, ChatAway, ChatSilent
  <2>6. CASE x11 # "off"
    <3>1. PICK n : n = Chat!Note("ask", {a})
      OBVIOUS
    <3>2. n \in Chat!Sentences /\ n.kind = "ask" /\ n.v = {a}
      BY <2>1, <2>3, <2>4, <3>1, ChatAssumption DEF Chat!Note, Chat!Sentences
    <3>3. PICK s : s = <<n>>
      OBVIOUS
    <3>4. s \in Seq(Chat!Sentences) /\ Len(s) = 1 /\ s[1] = n /\ \A i \in 1..Len(s) : i = 1
      BY <3>2, <3>3
    <3>5. x10' = x10 \o s
      BY <2>1, <2>3, <2>6, <3>1, <3>3 DEF Chat!Ask, Chat!Tell
    <3>6. /\ \A e \in Chat!Calls : x17'[e].rpc = "asked" => x11 # "off"
          /\ x2' \in Nat /\ x2 \in Nat /\ x2 <= x2' /\ x1' <= x2'
      BY <2>3, <2>4, <2>6, ChatAssumption
    <3>7. /\ \A i \in 1..Len(s) : s[i].kind = "reply" => s[i].v # "sync"
          /\ \/ x1' = x1 /\ \A i \in 1..Len(s) : s[i].kind # "started"
             \/ x1' = 0
             \/ /\ x1' = x2 + 1 /\ Len(s) >= 1 /\ s[Len(s)].kind = "started" /\ s[Len(s)].v = x1'
                /\ x1 = 0 /\ \A i \in 1..Len(s) : s[i].kind = "started" => i = Len(s)
          /\ \A i \in 1..Len(s) : s[i].kind = "completed" => s[i].v <= x2' /\ s[i].v # x1'
      BY <2>3, <2>4, <3>2, <3>4, ChatAssumption
    <3>8. /\ \A e \in Asks : x8'[e] = "waiting" =>
             \/ x8[e] = "waiting" /\ (e \in x9 => e \in x9')
             \/ \E i \in 1..Len(s) : s[i].kind = "ask" /\ e \in s[i].v
          /\ \A e \in Asks : x8[e] = "over" => x8'[e] = "over"
          /\ \A i \in 1..Len(s) : s[i].kind = "resolved" => \A e \in s[i].v : x8'[e] = "over"
      BY <2>1, <2>3, <2>4, <3>2, <3>4 DEF Chat!Over, Chat!Waiting
    <3> QED BY <2>2, <2>6, <3>4, <3>5, <3>6, <3>7, <3>8, ChatHears
  <2> QED BY <2>5, <2>6
<1>2. Chat!TypeOK'
  BY ChatAssumption DEF Chat!Ask, Chat!Tell, Chat!Note, Chat!Own, Chat!adapter, Chat!counts,
     Chat!ChatInv, Chat!TypeOK, Chat!CallOK, Chat!Calls
<1>3. Chat!CallOK'
  BY ChatAssumption DEF Chat!Ask, Chat!Tell, Chat!Note, Chat!Own, Chat!adapter, Chat!counts,
     Chat!ChatInv, Chat!CallOK, Chat!TypeOK, Chat!LinkOK, Chat!Calls, Chat!Free, Chat!Unread,
     Chat!Synced
<1>4. Chat!StartedOnce'
  BY ChatAssumption DEF Chat!Ask, Chat!Tell, Chat!Note, Chat!Own, Chat!adapter, Chat!counts,
     Chat!ChatInv, Chat!StartedOnce, Chat!OneStart, Chat!CallOK, Chat!Calls, Chat!Starts, Chat!StartSteps
<1>5. Chat!OneStart'
  BY ChatAssumption DEF Chat!Ask, Chat!Tell, Chat!Note, Chat!Own, Chat!adapter, Chat!counts,
     Chat!ChatInv, Chat!OneStart, Chat!CallOK, Chat!Calls, Chat!Starts, Chat!StartSteps
<1> QED BY <1>1, <1>2, <1>3, <1>4, <1>5 DEF Chat!ChatInv

LEMMA ChatFinish ==
  ASSUME Chat!ChatInv, Chat!Finish
  PROVE  Chat!ChatInv'
<1>1. Chat!LinkOK' /\ Chat!TurnIsTold' /\ Chat!EndedOK' /\ Chat!AsksAreTold'
  <2>1. Chat!Tell(<<Chat!Note("completed", x1)>>) /\ x1 # 0
    BY DEF Chat!Finish
  <2>2. UNCHANGED <<x11, x12, x14, x15, x17>>
    BY DEF Chat!Finish, Chat!Own, Chat!adapter
  <2>3. x1' = 0 /\ UNCHANGED <<x2, x9>> /\ x8' = Chat!Over /\ Chat!Waiting = {}
    BY <2>1 DEF Chat!Finish, Chat!EndTurn
  <2>4. x1 \in 0..MaxTurns /\ x2 \in 0..MaxTurns /\ x1 <= x2 /\ x8 \in [Asks -> {"no", "waiting", "over"}]
    BY DEF Chat!ChatInv, Chat!TypeOK, Chat!EndedOK
  <2>5. CASE x11 = "off"
    <3>1. x10' = <<>> /\ x1' <= x2'
      BY <2>1, <2>3, <2>4, <2>5, ChatAssumption DEF Chat!Finish, Chat!EndTurn, Chat!Tell
    <3> QED BY <2>2, <2>5, <3>1, ChatAway, ChatSilent
  <2>6. CASE x11 # "off"
    <3>1. PICK n : n = Chat!Note("completed", x1)
      OBVIOUS
    <3>2. n \in Chat!Sentences /\ n.kind = "completed" /\ n.v = x1 /\ n.v # 0
      BY <2>1, <2>3, <2>4, <3>1, ChatAssumption DEF Chat!Note, Chat!Sentences
    <3>3. PICK s : s = <<n>>
      OBVIOUS
    <3>4. s \in Seq(Chat!Sentences) /\ Len(s) = 1 /\ s[1] = n /\ \A i \in 1..Len(s) : i = 1
      BY <3>2, <3>3
    <3>5. x10' = x10 \o s
      BY <2>1, <2>3, <2>6, <3>1, <3>3 DEF Chat!Finish, Chat!EndTurn, Chat!Tell
    <3>6. /\ \A e \in Chat!Calls : x17'[e].rpc = "asked" => x11 # "off"
          /\ x2' \in Nat /\ x2 \in Nat /\ x2 <= x2' /\ x1' <= x2'
      BY <2>3, <2>4, <2>6, ChatAssumption
    <3>7. /\ \A i \in 1..Len(s) : s[i].kind = "reply" => s[i].v # "sync"
          /\ \/ x1' = x1 /\ \A i \in 1..Len(s) : s[i].kind # "started"
             \/ x1' = 0
             \/ /\ x1' = x2 + 1 /\ Len(s) >= 1 /\ s[Len(s)].kind = "started" /\ s[Len(s)].v = x1'
                /\ x1 = 0 /\ \A i \in 1..Len(s) : s[i].kind = "started" => i = Len(s)
          /\ \A i \in 1..Len(s) : s[i].kind = "completed" => s[i].v <= x2' /\ s[i].v # x1'
      BY <2>3, <2>4, <3>2, <3>4, ChatAssumption
    <3>8. /\ \A e \in Asks : x8'[e] = "waiting" =>
             \/ x8[e] = "waiting" /\ (e \in x9 => e \in x9')
             \/ \E i \in 1..Len(s) : s[i].kind = "ask" /\ e \in s[i].v
          /\ \A e \in Asks : x8[e] = "over" => x8'[e] = "over"
          /\ \A i \in 1..Len(s) : s[i].kind = "resolved" => \A e \in s[i].v : x8'[e] = "over"
      BY <2>3, <2>4, <3>2, <3>4 DEF Chat!Over, Chat!Waiting
    <3> QED BY <2>2, <2>6, <3>4, <3>5, <3>6, <3>7, <3>8, ChatHears
  <2> QED BY <2>5, <2>6
<1>2. Chat!TypeOK'
  BY ChatAssumption DEF Chat!Finish, Chat!Waiting, Chat!EndTurn, Chat!Tell, Chat!Note,
     Chat!Own, Chat!Over, Chat!adapter, Chat!counts, Chat!ChatInv, Chat!TypeOK, Chat!CallOK,
     Chat!Calls
<1>3. Chat!CallOK'
  BY ChatAssumption DEF Chat!Finish, Chat!Waiting, Chat!EndTurn, Chat!Tell, Chat!Note,
     Chat!Own, Chat!Over, Chat!adapter, Chat!counts, Chat!ChatInv, Chat!CallOK, Chat!TypeOK,
     Chat!LinkOK, Chat!Calls, Chat!Free, Chat!Unread, Chat!Synced
<1>4. Chat!StartedOnce'
  BY ChatAssumption DEF Chat!Finish, Chat!Waiting, Chat!EndTurn, Chat!Tell, Chat!Note,
     Chat!Own, Chat!Over, Chat!adapter, Chat!counts, Chat!ChatInv, Chat!StartedOnce,
     Chat!OneStart, Chat!CallOK, Chat!Calls, Chat!Starts, Chat!StartSteps
<1>5. Chat!OneStart'
  BY ChatAssumption DEF Chat!Finish, Chat!Waiting, Chat!EndTurn, Chat!Tell, Chat!Note,
     Chat!Own, Chat!Over, Chat!adapter, Chat!counts, Chat!ChatInv, Chat!OneStart, Chat!CallOK,
     Chat!Calls, Chat!Starts, Chat!StartSteps
<1> QED BY <1>1, <1>2, <1>3, <1>4, <1>5 DEF Chat!ChatInv

LEMMA ChatSettle ==
  ASSUME Chat!ChatInv, NEW a \in Asks, Chat!Settle(a)
  PROVE  Chat!ChatInv'
<1>1. Chat!LinkOK' /\ Chat!TurnIsTold' /\ Chat!EndedOK' /\ Chat!AsksAreTold'
  <2>1. Chat!Tell(<<Chat!Note("resolved", {a})>>)
    BY DEF Chat!Settle
  <2>2. UNCHANGED <<x11, x12, x14, x15, x17>>
    BY DEF Chat!Settle, Chat!Own, Chat!adapter
  <2>3. x8' = [x8 EXCEPT ![a] = "over"] /\ UNCHANGED <<x1, x2>> /\ x9' = x9 \ {a}
    BY <2>1 DEF Chat!Settle
  <2>4. x1 \in 0..MaxTurns /\ x2 \in 0..MaxTurns /\ x1 <= x2 /\ x8 \in [Asks -> {"no", "waiting", "over"}]
    BY DEF Chat!ChatInv, Chat!TypeOK, Chat!EndedOK
  <2>5. CASE x11 = "off"
    <3>1. x10' = <<>> /\ x1' <= x2'
      BY <2>1, <2>3, <2>4, <2>5, ChatAssumption DEF Chat!Settle, Chat!Tell
    <3> QED BY <2>2, <2>5, <3>1, ChatAway, ChatSilent
  <2>6. CASE x11 # "off"
    <3>1. PICK n : n = Chat!Note("resolved", {a})
      OBVIOUS
    <3>2. n \in Chat!Sentences /\ n.kind = "resolved" /\ n.v = {a}
      BY <2>1, <2>3, <2>4, <3>1, ChatAssumption DEF Chat!Note, Chat!Sentences
    <3>3. PICK s : s = <<n>>
      OBVIOUS
    <3>4. s \in Seq(Chat!Sentences) /\ Len(s) = 1 /\ s[1] = n /\ \A i \in 1..Len(s) : i = 1
      BY <3>2, <3>3
    <3>5. x10' = x10 \o s
      BY <2>1, <2>3, <2>6, <3>1, <3>3 DEF Chat!Settle, Chat!Tell
    <3>6. /\ \A e \in Chat!Calls : x17'[e].rpc = "asked" => x11 # "off"
          /\ x2' \in Nat /\ x2 \in Nat /\ x2 <= x2' /\ x1' <= x2'
      BY <2>3, <2>4, <2>6, ChatAssumption
    <3>7. /\ \A i \in 1..Len(s) : s[i].kind = "reply" => s[i].v # "sync"
          /\ \/ x1' = x1 /\ \A i \in 1..Len(s) : s[i].kind # "started"
             \/ x1' = 0
             \/ /\ x1' = x2 + 1 /\ Len(s) >= 1 /\ s[Len(s)].kind = "started" /\ s[Len(s)].v = x1'
                /\ x1 = 0 /\ \A i \in 1..Len(s) : s[i].kind = "started" => i = Len(s)
          /\ \A i \in 1..Len(s) : s[i].kind = "completed" => s[i].v <= x2' /\ s[i].v # x1'
      BY <2>3, <2>4, <3>2, <3>4, ChatAssumption
    <3>8. /\ \A e \in Asks : x8'[e] = "waiting" =>
             \/ x8[e] = "waiting" /\ (e \in x9 => e \in x9')
             \/ \E i \in 1..Len(s) : s[i].kind = "ask" /\ e \in s[i].v
          /\ \A e \in Asks : x8[e] = "over" => x8'[e] = "over"
          /\ \A i \in 1..Len(s) : s[i].kind = "resolved" => \A e \in s[i].v : x8'[e] = "over"
      BY <2>1, <2>3, <2>4, <3>2, <3>4 DEF Chat!Over, Chat!Waiting
    <3> QED BY <2>2, <2>6, <3>4, <3>5, <3>6, <3>7, <3>8, ChatHears
  <2> QED BY <2>5, <2>6
<1>2. Chat!TypeOK'
  BY ChatAssumption DEF Chat!Settle, Chat!Waiting, Chat!Tell, Chat!Note, Chat!Own,
     Chat!adapter, Chat!counts, Chat!ChatInv, Chat!TypeOK, Chat!CallOK, Chat!Calls
<1>3. Chat!CallOK'
  BY ChatAssumption DEF Chat!Settle, Chat!Waiting, Chat!Tell, Chat!Note, Chat!Own,
     Chat!adapter, Chat!counts, Chat!ChatInv, Chat!CallOK, Chat!TypeOK, Chat!LinkOK, Chat!Calls,
     Chat!Free, Chat!Unread, Chat!Synced
<1>4. Chat!StartedOnce'
  BY ChatAssumption DEF Chat!Settle, Chat!Waiting, Chat!Tell, Chat!Note, Chat!Own,
     Chat!adapter, Chat!counts, Chat!ChatInv, Chat!StartedOnce, Chat!OneStart, Chat!CallOK,
     Chat!Calls, Chat!Starts, Chat!StartSteps
<1>5. Chat!OneStart'
  BY ChatAssumption DEF Chat!Settle, Chat!Waiting, Chat!Tell, Chat!Note, Chat!Own,
     Chat!adapter, Chat!counts, Chat!ChatInv, Chat!OneStart, Chat!CallOK, Chat!Calls,
     Chat!Starts, Chat!StartSteps
<1> QED BY <1>1, <1>2, <1>3, <1>4, <1>5 DEF Chat!ChatInv

LEMMA ChatRead ==
  ASSUME Chat!ChatInv, Chat!Read
  PROVE  Chat!ChatInv'
<1>1. /\ x10 # <<>> /\ x10' = Tail(x10) /\ ~Chat!Snapshot
      /\ UNCHANGED <<x1, x2, x3, x4, x5, x6, x7, x8, x11, x15, x16, x18>>
  BY DEF Chat!Read, Chat!counts
<1>2. PICK n : n = Head(x10)
  OBVIOUS
<1>3. n \in Chat!Sentences /\ n = x10[1] /\ 1 \in Chat!Unread
  <2>1. x10 \in Seq(Chat!Sentences)
    BY DEF Chat!ChatInv, Chat!LinkOK
  <2> QED BY <1>1, <1>2, <2>1, SeqRest DEF Chat!Unread
<1>4. x11 # "off" /\ (x11 = "loading" => /\ \A e \in Chat!Calls \ {"sync"} : x17[e].at = "idle"
                                         /\ x17["sync"].rpc # "done")
  BY <1>1 DEF Chat!ChatInv, Chat!LinkOK, Chat!Free, Chat!Snapshot
<1>5. /\ x12 \in 0..MaxTurns /\ 0 \in 0..MaxTurns /\ x13 \subseteq Words \X (1..MaxTurns)
      /\ x9 \subseteq Asks /\ x14 \subseteq Asks /\ x15 \subseteq Asks /\ x14 \cap x15 = {}
      /\ 1..MaxTurns \subseteq 0..MaxTurns
  BY ChatAssumption DEF Chat!ChatInv, Chat!TypeOK, Chat!AsksAreTold
<1>6. x17 \in [Chat!Calls -> Chat!Coroutines] /\ "sync" \in Chat!Calls /\ Words \subseteq Chat!Calls
  BY DEF Chat!ChatInv, Chat!CallOK, Chat!Calls
<1>7. x17' = x17 => Chat!CallOK' /\ Chat!OneStart'
  BY <1>1 DEF Chat!ChatInv, Chat!CallOK, Chat!OneStart, Chat!Starts, Chat!StartSteps
<1>8. /\ Chat!LinkOK' /\ Chat!TurnIsTold' /\ Chat!EndedOK' /\ Chat!AsksAreTold' /\ Chat!CallOK' /\ Chat!OneStart'
      /\ x12' \in 0..MaxTurns /\ x13' \subseteq Words \X (1..MaxTurns) /\ x9' \subseteq Asks /\ x14' \subseteq Asks
  <2>1. CASE n.kind = "reply"
    <3>1. /\ UNCHANGED <<x9, x12, x13, x14>> /\ n.v \in Chat!Calls
          /\ x17' = IF x17[n.v].rpc = "replied" THEN [x17 EXCEPT ![n.v].rpc = "done"] ELSE x17
      BY <1>2, <1>3, <2>1, ChatSays DEF Chat!Read
    <3>2. CASE x17[n.v].rpc # "replied"
      <4>1. x17' = x17
        BY <3>1, <3>2
      <4>2. \/ x17'["sync"] = x17["sync"] /\ n.v # "sync"
            \/ n.v = "sync" /\ x17["sync"].rpc # "replied" /\ x17'["sync"] = x17["sync"]
        BY <3>2, <4>1
      <4> QED BY <1>1, <1>2, <1>4, <1>5, <1>7, <2>1, <3>1, <4>1, <4>2, ChatReads
    <3>3. CASE x17[n.v].rpc = "replied"
      <4>1. PICK r : r = [x17[n.v] EXCEPT !.rpc = "done"]
        OBVIOUS
      <4>2. /\ r \in Chat!Coroutines /\ r.at = x17[n.v].at /\ r.word = x17[n.v].word
            /\ r.turn = x17[n.v].turn /\ r.val = x17[n.v].val /\ r.rpc = "done"
        BY <1>6, <3>1, <4>1, ChatWaits
      <4>3. x17' = [x17 EXCEPT ![n.v] = r]
        BY <3>1, <3>3, <4>1
      <4>4. /\ x17' \in [Chat!Calls -> Chat!Coroutines]
            /\ \A e \in Chat!Calls :
                 /\ x17'[e].at = x17[e].at /\ x17'[e].word = x17[e].word /\ x17'[e].turn = x17[e].turn
                 /\ x17'[e].val = x17[e].val
                 /\ e # n.v => x17'[e] = x17[e]
            /\ x17'[n.v].rpc = "done"
        BY <1>6, <3>1, <4>2, <4>3
      <4>5. x17[n.v].at # "idle"
        BY <3>1, <3>3 DEF Chat!ChatInv, Chat!CallOK
      <4>6. Chat!CallOK'
        BY <1>6, <3>1, <4>4, <4>5 DEF Chat!ChatInv, Chat!CallOK
      <4>7. Chat!OneStart'
        BY <1>1, <4>4 DEF Chat!ChatInv, Chat!OneStart, Chat!Starts, Chat!StartSteps
      <4>8. \/ x17'["sync"] = x17["sync"] /\ n.v # "sync"
            \/ n.v = "sync" /\ x17["sync"].rpc = "replied" /\ x17'["sync"].rpc = "done"
        BY <1>6, <3>3, <4>4
      <4>9. x17'["sync"].val = x17["sync"].val
        BY <1>6, <4>4
      <4>10. x11 = "loading" => \A e \in Chat!Calls \ {"sync"} : x17'[e].at = "idle"
        BY <1>4, <4>4
      <4>11. Chat!LinkOK' /\ Chat!TurnIsTold' /\ Chat!EndedOK' /\ Chat!AsksAreTold'
        BY <1>1, <1>2, <1>4, <1>5, <2>1, <3>1, <4>8, <4>9, <4>10, ChatReads
      <4> QED BY <1>5, <3>1, <4>6, <4>7, <4>11
    <3> QED BY <3>2, <3>3
  <2>2. CASE n.kind = "ask"
    <3>1. /\ UNCHANGED <<x12, x13, x17>> /\ n.v \subseteq Asks
          /\ x14' = x14 \cup (n.v \ x15) /\ x9' = x9 \cup (n.v \cap x15)
      BY <1>2, <1>3, <2>2, ChatSays DEF Chat!Read
    <3>2. /\ x14' \cap x15' = {} /\ \A a \in Chat!Waiting : a \in x14 \cup x9 => a \in x14' \cup x9'
          /\ \A a \in n.v : a \in x14' \cup x9'
          /\ x14' \subseteq Asks /\ x9' \subseteq Asks
      BY <1>1, <1>5, <3>1
    <3>3. Chat!LinkOK' /\ Chat!TurnIsTold' /\ Chat!EndedOK' /\ Chat!AsksAreTold'
      BY <1>1, <1>2, <1>4, <2>2, <3>1, <3>2, ChatReads
    <3> QED BY <1>5, <1>7, <3>1, <3>2, <3>3
  <2>3. CASE n.kind \notin {"reply", "ask"} /\ x11 # "on"
    <3>1. UNCHANGED <<x9, x12, x13, x14, x17>>
      BY <1>2, <2>3 DEF Chat!Read
    <3> QED BY <1>1, <1>2, <1>4, <1>5, <1>7, <2>3, <3>1, ChatReads
  <2>4. CASE n.kind \notin {"reply", "ask"} /\ x11 = "on"
    <3>1. Chat!Apply(n) /\ UNCHANGED x9
      BY <1>2, <2>4 DEF Chat!Read
    <3>2. /\ n.kind \in {"started", "completed"} => n.v \in 1..MaxTurns
          /\ n.kind = "resolved" => n.v \subseteq Asks /\ \A a \in n.v : x8[a] = "over"
      BY <1>3, ChatSays DEF Chat!ChatInv, Chat!AsksAreTold
    <3>3. CASE n.kind = "started" /\ x12' = n.v /\ UNCHANGED <<x13, x14, x17>>
      <4>1. Chat!LinkOK' /\ Chat!TurnIsTold' /\ Chat!EndedOK' /\ Chat!AsksAreTold'
        BY <1>1, <1>2, <1>4, <1>5, <2>4, <3>1, <3>3, ChatReads
      <4> QED BY <1>5, <1>7, <3>1, <3>2, <3>3, <4>1
    <3>4. CASE n.kind = "took" /\ x13' = {m \in x13 : m[1] # n.v} /\ UNCHANGED <<x12, x14, x17>>
      <4>1. Chat!LinkOK' /\ Chat!TurnIsTold' /\ Chat!EndedOK' /\ Chat!AsksAreTold'
        BY <1>1, <1>2, <1>4, <1>5, <2>4, <3>1, <3>4, ChatReads
      <4> QED BY <1>5, <1>7, <3>1, <3>4, <4>1
    <3>5. CASE n.kind = "completed" /\ n.v # x12 /\ UNCHANGED <<x12, x13, x14, x17>>
      <4>1. Chat!LinkOK' /\ Chat!TurnIsTold' /\ Chat!EndedOK' /\ Chat!AsksAreTold'
        BY <1>1, <1>2, <1>4, <1>5, <2>4, <3>1, <3>5, ChatReads
      <4> QED BY <1>5, <1>7, <3>1, <3>5, <4>1
    <3>6. CASE n.kind = "resolved" /\ x14' = x14 \ n.v /\ UNCHANGED <<x12, x13, x17>>
      <4>1. \A a \in Chat!Waiting : a \notin n.v
        BY <3>2, <3>6 DEF Chat!Waiting
      <4>2. x14' \cap x15' = {} /\ \A a \in Chat!Waiting : a \in x14 \cup x9 => a \in x14' \cup x9'
        BY <1>1, <1>5, <3>1, <3>6, <4>1
      <4>3. Chat!LinkOK' /\ Chat!TurnIsTold' /\ Chat!EndedOK' /\ Chat!AsksAreTold'
        BY <1>1, <1>2, <1>4, <1>5, <2>4, <3>1, <3>6, <4>2, ChatReads
      <4> QED BY <1>5, <1>7, <3>1, <3>6, <4>3
    <3>7. CASE /\ n.kind = "completed" /\ n.v = x12 /\ x12' = 0 /\ x13' = {m \in x13 : m[2] # n.v}
               /\ x17' = [e \in Chat!Calls |-> IF e \in Chat!Untaken(n.v) THEN Chat!Asked("back", e, 0) ELSE x17[e]]
               /\ UNCHANGED x14
      <4>1. Chat!Untaken(n.v) \subseteq Words /\ "sync" \notin Chat!Untaken(n.v)
        BY ChatAssumption DEF Chat!Untaken
      <4>2. \A e \in Chat!Calls : e \notin Chat!Untaken(n.v) => x17'[e] = x17[e]
        BY <3>7
      <4>3. \A e \in Chat!Untaken(n.v) :
              x17'[e] \in Chat!Coroutines /\ x17'[e].at = "back" /\ x17'[e].word \in Words /\ e \in Words
        <5>1. TAKE e \in Chat!Untaken(n.v)
        <5>2. e \in Words /\ e \in Chat!Calls /\ "back" \in Chat!Steps
          BY <1>6, <4>1 DEF Chat!Steps, Chat!StartSteps
        <5>3. PICK r : r = Chat!Asked("back", e, 0)
          OBVIOUS
        <5>4. r \in Chat!Coroutines /\ r.at = "back" /\ r.word = e
          BY <1>5, <5>2, <5>3, ChatAsked
        <5>5. x17'[e] = r
          BY <3>7, <5>2, <5>3
        <5> QED BY <5>2, <5>4, <5>5
      <4>4. /\ x17' \in [Chat!Calls -> Chat!Coroutines]
            /\ \A e \in Chat!Calls : x17'[e] = x17[e] \/ (x17'[e].at = "back" /\ x17'[e].word \in Words)
            /\ x17'["sync"] = x17["sync"]
        <5>1. \A e \in Chat!Calls : x17'[e] \in Chat!Coroutines
          BY <1>6, <4>2, <4>3
        <5>2. x17' = [e \in Chat!Calls |-> x17'[e]]
          BY <3>7
        <5> QED BY <1>6, <4>1, <4>2, <4>3, <5>1, <5>2
      <4>5. Chat!CallOK'
        BY <4>4 DEF Chat!ChatInv, Chat!CallOK
      <4>6. Chat!OneStart'
        BY <1>1, <4>4 DEF Chat!ChatInv, Chat!OneStart, Chat!Starts, Chat!StartSteps
      <4>7. Chat!LinkOK' /\ Chat!TurnIsTold' /\ Chat!EndedOK' /\ Chat!AsksAreTold'
        BY <1>1, <1>2, <1>4, <1>5, <2>4, <3>1, <3>7, <4>4, ChatReads
      <4> QED BY <1>5, <3>1, <3>7, <4>5, <4>6, <4>7
    <3> QED BY <3>1, <3>3, <3>4, <3>5, <3>6, <3>7 DEF Chat!Apply
  <2> QED BY <2>1, <2>2, <2>3, <2>4
<1>9. Chat!TypeOK'
  <2>1. \A e \in Chat!Calls : x17'[e].rpc \in {"no", "asked", "replied", "done", "cut", "timeout"}
    BY <1>8 DEF Chat!CallOK, Chat!Coroutines
  <2> QED BY <1>1, <1>8, <2>1 DEF Chat!ChatInv, Chat!TypeOK
<1>10. Chat!StartedOnce'
  BY <1>1 DEF Chat!ChatInv, Chat!StartedOnce
<1> QED BY <1>8, <1>9, <1>10 DEF Chat!ChatInv

LEMMA ChatDrop ==
  ASSUME Chat!ChatInv, Chat!Drop
  PROVE  Chat!ChatInv'
<1>1. Chat!LinkOK' /\ Chat!TurnIsTold' /\ Chat!EndedOK' /\ Chat!AsksAreTold'
  <2>1. /\ x11' = "off" /\ x10' = <<>> /\ UNCHANGED <<x1, x2, x14, x15>> /\ x11 # "off"
        /\ x17' = [e \in Chat!Calls |-> IF Chat!Cut(e) THEN [x17[e] EXCEPT !.rpc = "cut"] ELSE x17[e]]
    BY DEF Chat!Drop
  <2>2. x17 \in [Chat!Calls -> Chat!Coroutines] /\ "sync" \in Chat!Calls
    BY DEF Chat!ChatInv, Chat!CallOK, Chat!Calls
  <2>3. \A e \in Chat!Calls : x17'[e].rpc \notin {"asked", "replied"}
    <3>1. TAKE e \in Chat!Calls
    <3>2. CASE Chat!Cut(e)
      BY <2>1, <2>2, <3>2, ChatWaits
    <3>3. CASE ~Chat!Cut(e)
      BY <2>1, <3>3 DEF Chat!Cut
    <3> QED BY <3>2, <3>3
  <2>4. x14 \cap x15 = {} /\ x1 <= x2
    BY DEF Chat!ChatInv, Chat!AsksAreTold, Chat!EndedOK
  <2> QED BY <2>1, <2>2, <2>3, <2>4, ChatSilent
<1>2. Chat!TypeOK'
  BY ChatAssumption DEF Chat!Drop, Chat!Calls, Chat!Cut, Chat!ChatInv, Chat!TypeOK, Chat!CallOK
<1>3. Chat!CallOK'
  <2>1. x17' = [e \in Chat!Calls |-> IF Chat!Cut(e) THEN [x17[e] EXCEPT !.rpc = "cut"] ELSE x17[e]]
    BY DEF Chat!Drop
  <2>2. x17 \in [Chat!Calls -> Chat!Coroutines] /\ "sync" \in Chat!Calls
    BY DEF Chat!ChatInv, Chat!CallOK, Chat!Calls
  <2>3. \A e \in Chat!Calls :
          /\ x17'[e] \in Chat!Coroutines /\ x17'[e].at = x17[e].at
          /\ x17'[e].word = x17[e].word /\ x17'[e].turn = x17[e].turn
          /\ x17'[e].at = "idle" => x17'[e].rpc = "no"
    <3>1. TAKE e \in Chat!Calls
    <3>2. CASE Chat!Cut(e)
      <4>1. x17[e].at # "idle"
        BY <2>2, <3>2 DEF Chat!ChatInv, Chat!CallOK, Chat!Cut
      <4> QED BY <2>1, <2>2, <3>2, <4>1, ChatWaits
    <3>3. CASE ~Chat!Cut(e)
      BY <2>1, <2>2, <3>3 DEF Chat!ChatInv, Chat!CallOK
    <3> QED BY <3>2, <3>3
  <2>4. x17' \in [Chat!Calls -> Chat!Coroutines]
    BY <2>1, <2>3
  <2> QED BY <2>2, <2>3, <2>4 DEF Chat!ChatInv, Chat!CallOK
<1>4. Chat!StartedOnce'
  BY ChatAssumption DEF Chat!Drop, Chat!Calls, Chat!Cut, Chat!ChatInv, Chat!StartedOnce,
     Chat!OneStart, Chat!CallOK, Chat!Starts, Chat!StartSteps
<1>5. Chat!OneStart'
  BY ChatAssumption DEF Chat!Drop, Chat!Calls, Chat!Cut, Chat!ChatInv, Chat!OneStart,
     Chat!CallOK, Chat!Starts, Chat!StartSteps
<1> QED BY <1>1, <1>2, <1>3, <1>4, <1>5 DEF Chat!ChatInv

LEMMA ChatAttach ==
  ASSUME Chat!ChatInv, Chat!Attach
  PROVE  Chat!ChatInv'
<1>1. Chat!LinkOK' /\ Chat!TurnIsTold' /\ Chat!EndedOK' /\ Chat!AsksAreTold'
  <2>1. /\ x11 = "off" /\ x11' = "loading" /\ x14' = {} /\ UNCHANGED <<x1, x2, x8, x9, x10, x15>>
        /\ \A e \in Chat!Calls : x17[e].at = "idle"
        /\ x17' = [x17 EXCEPT !["sync"] = [Chat!Asked("attach", "none", 0) EXCEPT !.rpc = "asked"]]
    BY DEF Chat!Attach, Chat!Free, Chat!codexVars
  <2>2. x17 \in [Chat!Calls -> Chat!Coroutines] /\ "sync" \in Chat!Calls
    BY DEF Chat!ChatInv, Chat!CallOK, Chat!Calls
  <2>3. x17'["sync"].rpc = "asked"
    BY <2>1, <2>2, ChatResume
  <2>4. x10' = <<>> /\ x1' <= x2'
    BY <2>1, ChatAway
  <2>5. x10' \in Seq(Chat!Sentences) /\ Chat!Unread' = {} /\ ~Chat!Tracking'
    BY <2>1, <2>3, <2>4 DEF Chat!Unread, Chat!Tracking
  <2>6. Chat!LinkOK'
    <3>1. \A e \in Chat!Calls : e # "sync" => x17'[e].at = "idle"
      BY <2>1, <2>2
    <3>2. \A e \in Chat!Calls \ {"sync"} : Chat!Free(e)'
      BY <3>1 DEF Chat!Free
    <3> QED BY <2>1, <2>3, <2>4, <2>5, <3>2 DEF Chat!LinkOK
  <2> QED BY <2>1, <2>4, <2>5, <2>6 DEF Chat!TurnIsTold, Chat!EndedOK, Chat!AsksAreTold
<1>2. Chat!TypeOK'
  BY ChatAssumption DEF Chat!Attach, Chat!Calls, Chat!Free, Chat!codexVars, Chat!counts,
     Chat!ChatInv, Chat!TypeOK, Chat!CallOK
<1>3. Chat!CallOK'
  <2>1. x17' = [x17 EXCEPT !["sync"] = [Chat!Asked("attach", "none", 0) EXCEPT !.rpc = "asked"]]
    BY DEF Chat!Attach
  <2>2. x17 \in [Chat!Calls -> Chat!Coroutines] /\ "sync" \in Chat!Calls
    BY DEF Chat!ChatInv, Chat!CallOK, Chat!Calls
  <2>3. x17'["sync"] \in Chat!Coroutines /\ x17'["sync"].at = "attach" /\ x17'["sync"].rpc = "asked"
    BY <2>1, <2>2, ChatResume
  <2>4. /\ \A e \in Chat!Calls : e # "sync" => x17'[e] = x17[e]
        /\ x17' \in [Chat!Calls -> Chat!Coroutines]
    BY <2>1, <2>2, <2>3
  <2> QED BY <2>2, <2>3, <2>4 DEF Chat!ChatInv, Chat!CallOK
<1>4. Chat!StartedOnce'
  BY ChatAssumption DEF Chat!Attach, Chat!Calls, Chat!Free, Chat!codexVars, Chat!counts,
     Chat!ChatInv, Chat!StartedOnce, Chat!OneStart, Chat!CallOK, Chat!Starts, Chat!StartSteps
<1>5. Chat!OneStart'
  <2>1. /\ x17' = [x17 EXCEPT !["sync"] = [Chat!Asked("attach", "none", 0) EXCEPT !.rpc = "asked"]]
        /\ UNCHANGED <<x7, x16>>
    BY DEF Chat!Attach, Chat!codexVars
  <2>2. PICK r : r = [Chat!Asked("attach", "none", 0) EXCEPT !.rpc = "asked"]
    OBVIOUS
  <2>3. r \in Chat!Coroutines /\ r.at \notin Chat!StartSteps /\ "sync" \in Chat!Calls
    BY <2>2, ChatResume DEF Chat!Calls, Chat!StartSteps
  <2> QED BY <2>1, <2>2, <2>3, ChatStarts
<1> QED BY <1>1, <1>2, <1>3, <1>4, <1>5 DEF Chat!ChatInv

LEMMA ChatAttached ==
  ASSUME Chat!ChatInv, Chat!Attached
  PROVE  Chat!ChatInv'
<1>1. Chat!LinkOK' /\ Chat!TurnIsTold' /\ Chat!EndedOK' /\ Chat!AsksAreTold'
  <2>1. /\ x17["sync"].at = "attach" /\ x17' = [x17 EXCEPT !["sync"] = Chat!Idle]
        /\ UNCHANGED <<x1, x2, x8, x9, x14, x15>>
    BY DEF Chat!Attached, Chat!Return, Chat!codexVars
  <2>2. x17 \in [Chat!Calls -> Chat!Coroutines] /\ "sync" \in Chat!Calls
    BY DEF Chat!ChatInv, Chat!CallOK, Chat!Calls
  <2>3. /\ x17'["sync"].at = "idle" /\ x17'["sync"].rpc = "no"
        /\ \A e \in Chat!Calls : x17'[e].rpc = "asked" => x17[e].rpc = "asked"
    BY <2>1, <2>2, ChatIdle
  <2>4. CASE Chat!Snapshot /\ x11' = "on" /\ x12' = x17["sync"].val /\ UNCHANGED x10
    <3>1. x11 = "loading" /\ x17["sync"].rpc = "done"
      BY <2>4 DEF Chat!Snapshot
    <3>2. \A i \in Chat!Unread : ~Chat!Synced(i)
      BY <3>1, ChatNone
    <3>3. Chat!LinkOK'
      BY <2>1, <2>3, <2>4, <3>2 DEF Chat!ChatInv, Chat!LinkOK, Chat!Unread, Chat!Synced
    <3>4. Chat!Tracking /\ Chat!Known' = Chat!Known /\ Chat!Unread' = Chat!Unread
      BY <2>4, <3>1 DEF Chat!Tracking, Chat!Known, Chat!Unread
    <3>5. \A i : (Chat!Since(i)' <=> Chat!Since(i)) /\ (Chat!Began(i)' <=> Chat!Began(i))
      BY <2>1, <2>4 DEF Chat!Since, Chat!Synced, Chat!Began
    <3>6. Chat!TurnIsTold'
      BY <2>1, <2>4, <3>4, <3>5 DEF Chat!ChatInv, Chat!TurnIsTold
    <3>7. Chat!EndedOK'
      BY <2>1, <2>4 DEF Chat!ChatInv, Chat!EndedOK, Chat!Unread
    <3>8. Chat!AsksAreTold'
      BY <2>1, <2>4, <3>4 DEF Chat!ChatInv, Chat!AsksAreTold, Chat!Waiting
    <3> QED BY <3>3, <3>6, <3>7, <3>8
  <2>5. CASE (x17["sync"].rpc \in {"cut", "timeout"} \/ x11 = "off") /\ x11' = "off" /\ x10' = <<>>
    <3>1. x11 \in {"off", "loading"}
      <4>1. x11 \in {"off", "loading", "on"}
        BY DEF Chat!ChatInv, Chat!TypeOK
      <4> QED BY <2>1, <4>1 DEF Chat!ChatInv, Chat!LinkOK
    <3>2. \A e \in Chat!Calls : x17[e].rpc = "asked" => e = "sync"
      BY <3>1 DEF Chat!ChatInv, Chat!LinkOK, Chat!CallOK, Chat!Free
    <3>3. \A e \in Chat!Calls : x17'[e].rpc # "asked"
      BY <2>3, <3>2
    <3>4. x14 \cap x15 = {} /\ x1 <= x2
      BY DEF Chat!ChatInv, Chat!AsksAreTold, Chat!EndedOK
    <3> QED BY <2>1, <2>3, <2>5, <3>3, <3>4, ChatSilent
  <2> QED BY <2>4, <2>5 DEF Chat!Attached
<1>2. Chat!TypeOK'
  <2>1. /\ x17["sync"].at = "attach" /\ x17' = [x17 EXCEPT !["sync"] = Chat!Idle]
        /\ UNCHANGED <<Chat!codexVars, x13, x14, x15, x18>>
    BY DEF Chat!Attached, Chat!Return
  <2>2. /\ x11' \in {"off", "on"} /\ (x12' = x12 \/ x12' = x17["sync"].val)
        /\ x16' = x16 \/ x16' = [w \in Words |-> IF x16[w] = "sent" /\ w \in x6 THEN "accepted" ELSE x16[w]]
    BY DEF Chat!Attached
  <2>3. x16' \in [Words -> {"no", "sent", "accepted"}]
    BY <2>2 DEF Chat!ChatInv, Chat!TypeOK
  <2>4. "sync" \in Chat!Calls /\ x17["sync"].val \in 0..MaxTurns /\ x17 \in [Chat!Calls -> Chat!Coroutines]
    <3>1. "sync" \in Chat!Calls
      BY DEF Chat!Calls
    <3> QED BY <3>1, ChatTyped
  <2>5. \A e \in Chat!Calls : x17'[e].rpc \in {"no", "asked", "replied", "done", "cut", "timeout"}
    <3>1. TAKE e \in Chat!Calls
    <3>2. CASE e = "sync"
      BY <2>1, <2>4, <3>2, ChatIdle
    <3>3. CASE e # "sync"
      BY <2>1, <2>4, <3>3, ChatTyped
    <3> QED BY <3>2, <3>3
  <2>6. x12' \in 0..MaxTurns
    BY <2>2, <2>4 DEF Chat!ChatInv, Chat!TypeOK
  <2> QED BY <2>1, <2>2, <2>3, <2>5, <2>6 DEF Chat!ChatInv, Chat!TypeOK, Chat!codexVars
<1>3. Chat!CallOK'
  <2>1. x17' = [x17 EXCEPT !["sync"] = Chat!Idle]
    BY DEF Chat!Attached, Chat!Return
  <2>2. x17 \in [Chat!Calls -> Chat!Coroutines] /\ "sync" \in Chat!Calls
    BY DEF Chat!ChatInv, Chat!CallOK, Chat!Calls
  <2>3. x17'["sync"] \in Chat!Coroutines /\ x17'["sync"].at = "idle" /\ x17'["sync"].rpc = "no"
    BY <2>1, <2>2, ChatIdle
  <2>4. /\ \A e \in Chat!Calls : e # "sync" => x17'[e] = x17[e]
        /\ x17' \in [Chat!Calls -> Chat!Coroutines]
    BY <2>1, <2>2, <2>3
  <2> QED BY <2>2, <2>3, <2>4 DEF Chat!ChatInv, Chat!CallOK
<1>4. Chat!StartedOnce'
  BY ChatAssumption DEF Chat!Attached, Chat!Return, Chat!Snapshot, Chat!codexVars, Chat!counts,
     Chat!ChatInv, Chat!StartedOnce, Chat!OneStart, Chat!CallOK, Chat!Calls, Chat!Starts, Chat!StartSteps
<1>5. Chat!OneStart'
  <2>1. /\ x17' = [x17 EXCEPT !["sync"] = Chat!Idle] /\ x7' = x7
        /\ x16' = x16 \/ x16' = [w \in Words |-> IF x16[w] = "sent" /\ w \in x6 THEN "accepted" ELSE x16[w]]
    BY DEF Chat!Attached, Chat!Return, Chat!codexVars
  <2>2. \A w \in Words : x16'[w] = "no" => x16[w] = "no"
    BY <2>1
  <2>3. Chat!Idle \in Chat!Coroutines /\ Chat!Idle.at \notin Chat!StartSteps /\ "sync" \in Chat!Calls
    BY ChatIdle DEF Chat!Calls, Chat!StartSteps
  <2> QED BY <2>1, <2>2, <2>3, ChatStarts
<1> QED BY <1>1, <1>2, <1>3, <1>4, <1>5 DEF Chat!ChatInv

LEMMA SeqRestart ==
  ASSUME Chat!ChatInv, Chat!Restart
  PROVE  Chat!ChatInv'
<1>1. Chat!LinkOK' /\ Chat!TurnIsTold' /\ Chat!EndedOK' /\ Chat!AsksAreTold'
  <2>1. /\ x11' = "off" /\ x10' = <<>> /\ UNCHANGED <<x1, x2>> /\ x14' = {}
        /\ x17' = [e \in Chat!Calls |-> Chat!Idle]
    BY DEF Chat!Restart
  <2>2. "sync" \in Chat!Calls /\ x1 <= x2
    BY DEF Chat!ChatInv, Chat!EndedOK, Chat!Calls
  <2>3. \A e \in Chat!Calls : x17'[e].rpc = "no"
    BY <2>1, ChatIdle
  <2> QED BY <2>1, <2>2, <2>3, ChatSilent
<1>2. Chat!TypeOK'
  <2>1. /\ x11' = "off" /\ x12' = 0 /\ x13' = {} /\ x14' = {} /\ x15' = {} /\ x9' = {}
        /\ x17' = [e \in Chat!Calls |-> Chat!Idle]
        /\ UNCHANGED <<x1, x2, x3, x4, x5, x6, x7, x8, x16, x18>>
    BY DEF Chat!Restart
  <2>2. \A e \in Chat!Calls : x17'[e].rpc = "no"
    BY <2>1, ChatIdle
  <2>3. 0 \in 0..MaxTurns
    BY ChatAssumption
  <2> QED BY <2>1, <2>2, <2>3 DEF Chat!ChatInv, Chat!TypeOK
<1>3. Chat!CallOK'
  <2>1. x17' = [e \in Chat!Calls |-> Chat!Idle] /\ "sync" \in Chat!Calls
    BY DEF Chat!Restart, Chat!Calls
  <2>2. PICK i : i = Chat!Idle
    OBVIOUS
  <2>3. i \in Chat!Coroutines /\ i.at = "idle" /\ i.rpc = "no"
    BY <2>2, ChatIdle
  <2> QED BY <2>1, <2>2, <2>3 DEF Chat!CallOK
<1>4. Chat!StartedOnce'
  BY ChatAssumption DEF Chat!Restart, Chat!Calls, Chat!ChatInv, Chat!StartedOnce,
     Chat!OneStart, Chat!CallOK, Chat!Starts, Chat!StartSteps
<1>5. Chat!OneStart'
  <2>1. /\ x17' = [e \in Chat!Calls |-> Chat!Idle] /\ UNCHANGED <<x7, x16>>
    BY DEF Chat!Restart
  <2>2. \A e \in Chat!Calls : x17'[e].at = "idle"
    BY <2>1, ChatIdle
  <2> QED BY <2>1, <2>2 DEF Chat!ChatInv, Chat!OneStart, Chat!Starts, Chat!StartSteps
<1> QED BY <1>1, <1>2, <1>3, <1>4, <1>5 DEF Chat!ChatInv

\* A step that changes nothing of the part.
LEMMA ChatStays ==
  ASSUME Chat!ChatInv, UNCHANGED <<x1, x2, x3, x4, x5, x6, x7, x8, x9, x10, x11, x12, x13, x14, x15, x16, x17, x18,
                 x19, x20, x21, x22>>
  PROVE  Chat!ChatInv'
  BY DEF Chat!ChatInv, Chat!TypeOK, Chat!CallOK, Chat!StartedOnce, Chat!OneStart, Chat!LinkOK,
     Chat!TurnIsTold, Chat!EndedOK, Chat!AsksAreTold, Chat!Starts, Chat!StartSteps, Chat!Free, Chat!Unread,
     Chat!Synced, Chat!Tracking, Chat!Known, Chat!Since, Chat!Began, Chat!Waiting

LEMMA ChatNext ==
  ASSUME Chat!ChatInv, Chat!Next
  PROVE  Chat!ChatInv'
<1>1. ASSUME NEW c \in Phones, Chat!Cancel(c) PROVE Chat!ChatInv'
  BY <1>1, ChatCancel
<1>2. ASSUME NEW c \in Phones, NEW a \in Asks, Chat!Resolve(c, a) PROVE Chat!ChatInv'
  BY <1>2, ChatResolve
<1>3. ASSUME NEW c \in Phones, NEW w \in Words,
             \/ Chat!Send(c, w) \/ Chat!Enqueue(c, w) \/ Chat!Delete(c, w) \/ Chat!SteerNow(c, w)
             \/ Chat!SendNow(c, w)
      PROVE  Chat!ChatInv'
  BY <1>3, ChatSend, ChatEnqueue, ChatDelete, ChatSteerNow, ChatSendNow
<1>4. ASSUME NEW c \in Chat!Calls, Chat!Serve(c) \/ Chat!Resumes(c) \/ Chat!Timeout(c) PROVE Chat!ChatInv'
  BY <1>4, ChatServe, ChatSent, ChatNowStarted, ChatNowTaken, ChatNowSteered, ChatReturned,
     ChatTimeout
     DEF Chat!Resumes
<1>5. CASE Chat!Drain \/ Chat!Take \/ Chat!Ask \/ Chat!Finish
  BY <1>5, ChatDrain, ChatTake, ChatAsk, ChatFinish
<1>6. ASSUME NEW a \in Asks, Chat!Settle(a) PROVE Chat!ChatInv'
  BY <1>6, ChatSettle
<1>7. CASE Chat!Read \/ Chat!Drop \/ Chat!Attach \/ Chat!Attached \/ Chat!Restart
  BY <1>7, ChatRead, ChatDrop, ChatAttach, ChatAttached, SeqRestart
<1> QED BY <1>1, <1>2, <1>3, <1>4, <1>5, <1>6, <1>7 DEF Chat!Next

LEMMA ChatInit ==
  ASSUME Chat!Init
  PROVE  Chat!ChatInv
<1> USE ChatAssumption
<1>1. \A c \in Chat!Calls : /\ x17[c] = Chat!Idle /\ x17[c].at = "idle" /\ x17[c].rpc = "no"
                            /\ x17[c] \in Chat!Coroutines
  BY ChatIdle DEF Chat!Init
<1>2. "sync" \in Chat!Calls
  BY DEF Chat!Calls
<1>3. x10 = <<>> /\ x10 \in Seq(Chat!Sentences) /\ Chat!Unread = {}
  BY DEF Chat!Init, Chat!Unread
<1>4. x17 \in [Chat!Calls -> Chat!Coroutines]
  BY <1>1 DEF Chat!Init
<1>5. Chat!TypeOK
  BY <1>1 DEF Chat!Init, Chat!TypeOK
<1>6. Chat!CallOK
  BY <1>1, <1>2, <1>4 DEF Chat!CallOK
<1>7. Chat!StartedOnce /\ Chat!OneStart
  BY <1>1 DEF Chat!Init, Chat!StartedOnce, Chat!OneStart, Chat!Starts, Chat!StartSteps
<1>8. Chat!LinkOK
  BY <1>1, <1>2, <1>3 DEF Chat!Init, Chat!LinkOK
<1>9. Chat!TurnIsTold /\ Chat!EndedOK /\ Chat!AsksAreTold
  BY <1>3 DEF Chat!Init, Chat!TurnIsTold, Chat!EndedOK, Chat!AsksAreTold, Chat!Tracking
<1> QED BY <1>5, <1>6, <1>7, <1>8, <1>9 DEF Chat!ChatInv

\* What the run checks of it follows.
LEMMA ChatTold ==
  ASSUME Chat!ChatInv
  PROVE  Chat!StartedOnce /\ Chat!RunningIsActive /\ Chat!AskedOnce
<1>1. Chat!AtRest => Chat!Unread = {} /\ Chat!Tracking /\ Chat!Known = x12
  BY DEF Chat!AtRest, Chat!Unread, Chat!Tracking, Chat!Known
<1>2. Chat!RunningIsActive
  BY <1>1 DEF Chat!ChatInv, Chat!TurnIsTold, Chat!RunningIsActive
<1>3. Chat!AskedOnce
  BY <1>1 DEF Chat!ChatInv, Chat!AsksAreTold, Chat!AskedOnce
<1> QED BY <1>2, <1>3 DEF Chat!ChatInv

\* The claim about the part, of every behaviour.
LEMMA ChatAlways == Spec => [](part = "chat" => Chat!ChatInv)
<1> DEFINE Inv == part = "chat" => Chat!ChatInv
<1>1. Init => Inv
  BY ChatInit DEF Init
<1>2. Inv /\ [Next]_all => Inv'
  <2> SUFFICES ASSUME Inv, [Next]_all, part' = "chat" PROVE Chat!ChatInv'
    OBVIOUS
  <2>1. CASE UNCHANGED all
    <3>1. UNCHANGED <<part, x1, x2, x3, x4, x5, x6, x7, x8, x9, x10, x11, x12, x13, x14, x15, x16, x17, x18, x19, x20, x21, x22>>
      BY <2>1 DEF all
    <3> QED BY <3>1, ChatStays
  <2>2. CASE Next
    <3>1. part = "chat" /\ Chat!Next
      BY <2>2 DEF Next
    <3> QED BY <3>1, ChatNext
  <2> QED BY <2>1, <2>2
<1> QED BY <1>1, <1>2, PTL DEF Spec

-----------------------------------------------------------------------------
(* What the run checks, of every behaviour. *)

\* Of agent_chat_provider.py and its codex connection: over lost connections, late replies and
\* restarts, core at rest takes the turn that runs for running, has before the person what
\* codex waits for, and puts nothing that was answered there again.
THEOREM ChatIsTold == Spec => []ChatAgrees
<1>1. (part = "chat" => Chat!ChatInv) => ChatAgrees
  BY ChatTold DEF ChatAgrees
<1> QED BY <1>1, ChatAlways, PTL

\* Of the journals of a chat's messages and of the older prompts: whatever is cut, late or
\* asked again, a message is the start of one turn at most, and a prompt the journal still
\* holds was sent once at most and is told as it went.
THEOREM StartsAreOnce == Spec => []StartedOnce
<1>1. (part = "chat" => Chat!ChatInv) /\ (part = "prompt" => Prompt!PromptInv) => StartedOnce
  BY ChatTold, PromptSent DEF StartedOnce
<1> QED BY <1>1, ChatAlways, PromptAlways, PTL

\* Of the default agent's record and its handoff: the first thread is asked of codex once, an
\* open chat is the conversation the record names, and what is replaced as empty is a thread
\* nobody wrote in.
THEOREM ThreadIsKept == Spec => []ThreadKept
<1>1. (part = "thread" => Thread!ThreadInv) => ThreadKept
  BY ThreadHeld DEF ThreadKept
<1> QED BY <1>1, ThreadAlways, PTL

\* Of push.py and the ledger of what is unseen: an alert the phone is owed is in the lane, in
\* its window or held for a desk that is yet to be left; a pane that waits is in a digest to
\* come; what needs the person is listed, or a thread has yet to list it.
THEOREM NeedsComeToBeTold == Spec => []NeedsAreTold
<1>1. (part = "push" => Push!PushInv) /\ (part = "seen" => Seen!SeenInv) => NeedsAreTold
  BY PushTold, SeenTold DEF NeedsAreTold, Seen!SeenInv
<1> QED BY <1>1, PushAlways, SeenAlways, PTL

-----------------------------------------------------------------------------
(* The prompts' types: what a submit counts and where its pane is. *)

\* What the prompts' types need beside PromptInv.
LEMMA PromptSpare ==
  ASSUME NEW q \in Seq(PromptIds), NEW r \in PromptIds,
         NEW spare, spare = IF Len(q) < MaxKeep THEN 0 ELSE Len(q) + 1 - MaxKeep
  PROVE  /\ Append(SubSeq(q, spare + 1, Len(q)), r) \in Seq(PromptIds)
         /\ {q[k] : k \in 1..spare} \subseteq PromptIds
<1>1. spare \in Nat /\ spare <= Len(q) /\ Len(q) \in Nat
  BY PromptAssumption
<1>2. SubSeq(q, spare + 1, Len(q)) \in Seq(PromptIds)
  BY <1>1
<1>3. ASSUME NEW k \in 1..spare PROVE q[k] \in PromptIds
  <2>1. k \in 1..Len(q)
    BY <1>1
  <2> QED BY <2>1
<1> QED BY <1>2, <1>3

LEMMA PromptTypesSubmit ==
  ASSUME Prompt!PromptInv, Prompt!PlaceOK, Prompt!TriesOK, NEW r \in PromptIds, Prompt!Submit(r)
  PROVE  Prompt!PlaceOK' /\ Prompt!TriesOK'
<1>1. Prompt!PlaceOK'
  BY PromptAssumption DEF Prompt!Submit, Prompt!Known, Prompt!PlaceOK
<1>2. Prompt!TriesOK'
  BY PromptAssumption DEF Prompt!Submit, Prompt!Known, Prompt!PromptInv,
     Prompt!StoreOK, Prompt!LockOK, Prompt!TriesOK
<1> QED BY <1>1, <1>2

LEMMA PromptTypesEnsure ==
  ASSUME Prompt!PromptInv, Prompt!PlaceOK, Prompt!TriesOK, Prompt!Ensure
  PROVE  Prompt!PlaceOK' /\ Prompt!TriesOK'
<1>1. Prompt!PlaceOK'
  BY PromptAssumption DEF Prompt!Ensure, Prompt!Ends, Prompt!PlaceOK
<1>2. Prompt!TriesOK'
  BY PromptAssumption DEF Prompt!Ensure, Prompt!Ends, Prompt!PromptInv,
     Prompt!StoreOK, Prompt!LockOK, Prompt!TriesOK
<1> QED BY <1>1, <1>2

LEMMA PromptTypesCreatePane ==
  ASSUME Prompt!PromptInv, Prompt!PlaceOK, Prompt!TriesOK, Prompt!CreatePane
  PROVE  Prompt!PlaceOK' /\ Prompt!TriesOK'
<1>1. Prompt!PlaceOK'
  BY PromptAssumption DEF Prompt!CreatePane, Prompt!Ends, Prompt!PlaceOK
<1>2. Prompt!TriesOK'
  BY PromptAssumption DEF Prompt!CreatePane, Prompt!Ends, Prompt!PromptInv,
     Prompt!StoreOK, Prompt!LockOK, Prompt!TriesOK
<1> QED BY <1>1, <1>2

LEMMA PromptTypesStartAgent ==
  ASSUME Prompt!PromptInv, Prompt!PlaceOK, Prompt!TriesOK, Prompt!StartAgent
  PROVE  Prompt!PlaceOK' /\ Prompt!TriesOK'
<1>1. Prompt!PlaceOK'
  BY PromptAssumption DEF Prompt!StartAgent, Prompt!Ends, Prompt!PlaceOK
<1>2. Prompt!TriesOK'
  BY PromptAssumption DEF Prompt!StartAgent, Prompt!Ends, Prompt!PromptInv,
     Prompt!StoreOK, Prompt!LockOK, Prompt!TriesOK
<1> QED BY <1>1, <1>2

LEMMA PromptTypesJournal ==
  ASSUME Prompt!PromptInv, Prompt!PlaceOK, Prompt!TriesOK, Prompt!Journal
  PROVE  Prompt!PlaceOK' /\ Prompt!TriesOK'
<1>1. CASE x1 = "idle"
  <2>1. /\ x5 = "ready" /\ x5' = "send" /\ x4 \in PromptIds /\ UNCHANGED <<x2, x3, x4, x10, x13>>
        /\ x7' = Append(SubSeq(x7, Prompt!Spare + 1, Len(x7)), x4) /\ x12' = x12 \cup Prompt!Oldest
    BY <1>1 DEF Prompt!Journal, Prompt!WriteFirst, Prompt!PromptInv, Prompt!LockOK
  <2>2. x7' \in Seq(PromptIds) /\ Prompt!Oldest \subseteq PromptIds
    BY <2>1, PromptSpare DEF Prompt!PlaceOK, Prompt!Spare, Prompt!Oldest
  <2>3. Prompt!PlaceOK'
    BY <2>1, <2>2 DEF Prompt!PlaceOK
  <2>4. Prompt!TriesOK'
    BY <2>1 DEF Prompt!TriesOK
  <2> QED BY <2>3, <2>4
<1>2. CASE x1 # "idle"
  <2>1. x5' = "free" /\ UNCHANGED <<x2, x3, x7, x10, x12, x13>>
    BY <1>2 DEF Prompt!Journal, Prompt!Ends
  <2> QED BY <2>1 DEF Prompt!PlaceOK, Prompt!TriesOK
<1> QED BY <1>1, <1>2

LEMMA PromptTypesPrompt ==
  ASSUME Prompt!PromptInv, Prompt!PlaceOK, Prompt!TriesOK, Prompt!Prompt
  PROVE  Prompt!PlaceOK' /\ Prompt!TriesOK'
<1>1. Prompt!PlaceOK'
  BY PromptAssumption DEF Prompt!Prompt, Prompt!Reaches, Prompt!Stays,
     Prompt!Unproven, Prompt!Ends, Prompt!PlaceOK
<1>2. Prompt!TriesOK'
  BY PromptAssumption DEF Prompt!Prompt, Prompt!Reaches, Prompt!Stays,
     Prompt!Unproven, Prompt!Ends, Prompt!PromptInv, Prompt!StoreOK, Prompt!LockOK, Prompt!TriesOK
<1> QED BY <1>1, <1>2

LEMMA PromptTypesRecord ==
  ASSUME Prompt!PromptInv, Prompt!PlaceOK, Prompt!TriesOK, Prompt!Record
  PROVE  Prompt!PlaceOK' /\ Prompt!TriesOK'
<1>1. Prompt!PlaceOK'
  BY PromptAssumption DEF Prompt!Record, Prompt!Ends, Prompt!PlaceOK
<1>2. Prompt!TriesOK'
  BY PromptAssumption DEF Prompt!Record, Prompt!Ends, Prompt!PromptInv,
     Prompt!StoreOK, Prompt!LockOK, Prompt!TriesOK
<1> QED BY <1>1, <1>2

LEMMA PromptTypesAgentIdles ==
  ASSUME Prompt!PromptInv, Prompt!PlaceOK, Prompt!TriesOK, Prompt!AgentIdles
  PROVE  Prompt!PlaceOK' /\ Prompt!TriesOK'
<1>1. Prompt!PlaceOK'
  BY PromptAssumption DEF Prompt!AgentIdles, Prompt!PlaceOK
<1>2. Prompt!TriesOK'
  BY PromptAssumption DEF Prompt!AgentIdles, Prompt!PromptInv,
     Prompt!StoreOK, Prompt!LockOK, Prompt!TriesOK
<1> QED BY <1>1, <1>2

LEMMA PromptTypesRevoke ==
  ASSUME Prompt!PromptInv, Prompt!PlaceOK, Prompt!TriesOK, Prompt!Revoke
  PROVE  Prompt!PlaceOK' /\ Prompt!TriesOK'
<1>1. Prompt!PlaceOK'
  BY PromptAssumption DEF Prompt!Revoke, Prompt!PlaceOK
<1>2. Prompt!TriesOK'
  BY PromptAssumption DEF Prompt!Revoke, Prompt!PromptInv, Prompt!StoreOK,
     Prompt!LockOK, Prompt!TriesOK
<1> QED BY <1>1, <1>2

LEMMA PromptTypesCrash ==
  ASSUME Prompt!PromptInv, Prompt!PlaceOK, Prompt!TriesOK, Prompt!Crash
  PROVE  Prompt!PlaceOK' /\ Prompt!TriesOK'
<1>1. Prompt!PlaceOK'
  BY PromptAssumption DEF Prompt!Crash, Prompt!Ends, Prompt!PlaceOK
<1>2. Prompt!TriesOK'
  BY PromptAssumption DEF Prompt!Crash, Prompt!Ends, Prompt!PromptInv,
     Prompt!StoreOK, Prompt!LockOK, Prompt!TriesOK
<1> QED BY <1>1, <1>2

LEMMA PromptTypesNext ==
  ASSUME Prompt!PromptInv, Prompt!PlaceOK, Prompt!TriesOK, Prompt!Next
  PROVE  Prompt!PlaceOK' /\ Prompt!TriesOK'
<1>1. ASSUME NEW r \in PromptIds, Prompt!Submit(r) PROVE Prompt!PlaceOK' /\ Prompt!TriesOK'
  BY <1>1, PromptTypesSubmit
<1>2. CASE Prompt!Ensure \/ Prompt!CreatePane \/ Prompt!StartAgent \/ Prompt!Journal
  BY <1>2, PromptTypesEnsure, PromptTypesCreatePane, PromptTypesStartAgent, PromptTypesJournal
<1>3. CASE Prompt!Prompt \/ Prompt!Record
  BY <1>3, PromptTypesPrompt, PromptTypesRecord
<1>4. CASE Prompt!AgentIdles \/ Prompt!Revoke \/ Prompt!Crash
  BY <1>4, PromptTypesAgentIdles, PromptTypesRevoke, PromptTypesCrash
<1> QED BY <1>1, <1>2, <1>3, <1>4 DEF Prompt!Next

LEMMA PromptTypesStay ==
  ASSUME Prompt!PlaceOK, Prompt!TriesOK, UNCHANGED <<x2, x3, x4, x5, x7, x10, x12, x13>>
  PROVE  Prompt!PlaceOK' /\ Prompt!TriesOK'
  BY DEF Prompt!PlaceOK, Prompt!TriesOK

LEMMA PromptTypesInit ==
  ASSUME Prompt!Init
  PROVE  Prompt!PlaceOK /\ Prompt!TriesOK
  BY PromptAssumption DEF Prompt!Init, Prompt!PlaceOK, Prompt!TriesOK

LEMMA PromptTyped ==
  ASSUME Prompt!PromptInv, Prompt!PlaceOK, Prompt!TriesOK
  PROVE  Prompt!TypeOK
<1>1. x10 \in [PromptIds -> 0..MaxTries]
  <2>1. \A r \in PromptIds : x10[r] \in 0..MaxTries
    BY PromptAssumption DEF Prompt!PromptInv, Prompt!StoreOK, Prompt!TriesOK
  <2> QED BY <2>1 DEF Prompt!PromptInv, Prompt!StoreOK
<1>2. x7 \in Seq(PromptIds) /\ x12 \subseteq PromptIds /\ x2 \in 0..MaxPanes /\ x3 \in 0..MaxPanes
  BY DEF Prompt!PlaceOK
<1> QED BY <1>1, <1>2 DEF Prompt!PromptInv, Prompt!StoreOK, Prompt!TypeOK

-----------------------------------------------------------------------------
(* The thread's types: what codex made is counted once. *)

LEMMA ThreadTypesEnsure ==
  ASSUME Thread!ThreadInv, Thread!NamesOK /\ Thread!CountsOK /\ Thread!BusyOK /\ Thread!MadeOK,
         Thread!Ensure
  PROVE  Thread!NamesOK' /\ Thread!CountsOK' /\ Thread!BusyOK' /\ Thread!MadeOK'
<1>1. Thread!NamesOK'
  BY DEF Thread!Ensure, Thread!codex, Thread!chatv, Thread!bounds,
     Thread!NamesOK
<1>2. Thread!CountsOK'
  BY ThreadNat DEF Thread!Ensure, Thread!codex, Thread!chatv,
     Thread!bounds, Thread!CountsOK
<1>3. Thread!BusyOK'
  BY ThreadNat DEF Thread!Ensure, Thread!codex, Thread!chatv, Thread!bounds,
     Thread!BusyOK, Thread!Threads
<1>4. Thread!MadeOK'
  BY DEF Thread!Ensure, Thread!codex, Thread!chatv, Thread!bounds,
     Thread!MadeOK
<1> QED BY <1>1, <1>2, <1>3, <1>4

LEMMA ThreadTypesProbe ==
  ASSUME Thread!ThreadInv, Thread!NamesOK /\ Thread!CountsOK /\ Thread!BusyOK /\ Thread!MadeOK,
         Thread!Probe
  PROVE  Thread!NamesOK' /\ Thread!CountsOK' /\ Thread!BusyOK' /\ Thread!MadeOK'
<1>1. Thread!NamesOK'
  BY DEF Thread!Probe, Thread!codex, Thread!chatv, Thread!bounds,
     Thread!NamesOK
<1>2. Thread!CountsOK'
  BY ThreadNat DEF Thread!Probe, Thread!codex, Thread!chatv, Thread!bounds,
     Thread!CountsOK
<1>3. Thread!BusyOK'
  BY ThreadNat DEF Thread!Probe, Thread!codex, Thread!chatv, Thread!bounds,
     Thread!BusyOK, Thread!Threads
<1>4. Thread!MadeOK'
  BY DEF Thread!Probe, Thread!codex, Thread!chatv, Thread!bounds,
     Thread!MadeOK
<1> QED BY <1>1, <1>2, <1>3, <1>4

LEMMA ThreadTypesNewConversation ==
  ASSUME Thread!ThreadInv, Thread!NamesOK /\ Thread!CountsOK /\ Thread!BusyOK /\ Thread!MadeOK,
         Thread!NewConversation
  PROVE  Thread!NamesOK' /\ Thread!CountsOK' /\ Thread!BusyOK' /\ Thread!MadeOK'
<1>1. Thread!NamesOK'
  BY DEF Thread!NewConversation, Thread!codex, Thread!NamesOK
<1>2. Thread!CountsOK'
  BY ThreadNat DEF Thread!NewConversation, Thread!codex, Thread!CountsOK
<1>3. Thread!BusyOK'
  BY ThreadNat DEF Thread!NewConversation, Thread!codex, Thread!BusyOK,
     Thread!Threads
<1>4. Thread!MadeOK'
  BY DEF Thread!NewConversation, Thread!codex, Thread!MadeOK
<1> QED BY <1>1, <1>2, <1>3, <1>4

LEMMA ThreadTypesRecoverEmpty ==
  ASSUME Thread!ThreadInv, Thread!NamesOK /\ Thread!CountsOK /\ Thread!BusyOK /\ Thread!MadeOK,
         Thread!RecoverEmpty
  PROVE  Thread!NamesOK' /\ Thread!CountsOK' /\ Thread!BusyOK' /\ Thread!MadeOK'
<1>1. Thread!NamesOK'
  BY DEF Thread!RecoverEmpty, Thread!codex, Thread!chatv, Thread!NamesOK
<1>2. Thread!CountsOK'
  BY ThreadNat DEF Thread!RecoverEmpty, Thread!codex, Thread!chatv,
     Thread!CountsOK
<1>3. Thread!BusyOK'
  BY ThreadNat DEF Thread!RecoverEmpty, Thread!codex, Thread!chatv,
     Thread!BusyOK, Thread!Threads
<1>4. Thread!MadeOK'
  BY DEF Thread!RecoverEmpty, Thread!codex, Thread!chatv, Thread!MadeOK
<1> QED BY <1>1, <1>2, <1>3, <1>4

LEMMA ThreadTypesOwn ==
  ASSUME Thread!ThreadInv, Thread!NamesOK /\ Thread!CountsOK /\ Thread!BusyOK /\ Thread!MadeOK,
         Thread!Own
  PROVE  Thread!NamesOK' /\ Thread!CountsOK' /\ Thread!BusyOK' /\ Thread!MadeOK'
<1>1. Thread!NamesOK'
  BY DEF Thread!Own, Thread!Refuse, Thread!codex, Thread!chatv,
     Thread!bounds, Thread!NamesOK
<1>2. Thread!CountsOK'
  BY ThreadNat DEF Thread!Own, Thread!Refuse, Thread!codex, Thread!chatv,
     Thread!bounds, Thread!CountsOK
<1>3. Thread!BusyOK'
  BY ThreadNat DEF Thread!Own, Thread!Refuse, Thread!codex, Thread!chatv,
     Thread!bounds, Thread!BusyOK, Thread!Threads
<1>4. Thread!MadeOK'
  BY DEF Thread!Own, Thread!Refuse, Thread!codex, Thread!chatv,
     Thread!bounds, Thread!MadeOK
<1> QED BY <1>1, <1>2, <1>3, <1>4

LEMMA ThreadTypesConnect ==
  ASSUME Thread!ThreadInv, Thread!NamesOK /\ Thread!CountsOK /\ Thread!BusyOK /\ Thread!MadeOK,
         Thread!Connect
  PROVE  Thread!NamesOK' /\ Thread!CountsOK' /\ Thread!BusyOK' /\ Thread!MadeOK'
<1>1. Thread!NamesOK'
  BY DEF Thread!Connect, Thread!Connected, Thread!Refuse, Thread!codex,
     Thread!chatv, Thread!bounds, Thread!NamesOK
<1>2. Thread!CountsOK'
  BY ThreadNat DEF Thread!Connect, Thread!Connected, Thread!Refuse,
     Thread!codex, Thread!chatv, Thread!bounds, Thread!CountsOK
<1>3. Thread!BusyOK'
  BY ThreadNat DEF Thread!Connect, Thread!Connected, Thread!Refuse,
     Thread!codex, Thread!chatv, Thread!bounds, Thread!BusyOK, Thread!Threads
<1>4. Thread!MadeOK'
  BY DEF Thread!Connect, Thread!Connected, Thread!Refuse, Thread!codex,
     Thread!chatv, Thread!bounds, Thread!MadeOK
<1> QED BY <1>1, <1>2, <1>3, <1>4

LEMMA ThreadTypesAsk ==
  ASSUME Thread!ThreadInv, Thread!NamesOK /\ Thread!CountsOK /\ Thread!BusyOK /\ Thread!MadeOK,
         Thread!Ask
  PROVE  Thread!NamesOK' /\ Thread!CountsOK' /\ Thread!BusyOK' /\ Thread!MadeOK'
<1>1. Thread!NamesOK'
  BY DEF Thread!Ask, Thread!Refuse, Thread!Refused, Thread!Raise,
     Thread!Intend, Thread!chatv, Thread!bounds, Thread!NamesOK
<1>2. Thread!CountsOK'
  BY ThreadNat DEF Thread!Ask, Thread!Refuse, Thread!Refused, Thread!Raise,
     Thread!Intend, Thread!chatv, Thread!bounds, Thread!CountsOK
<1>3. Thread!BusyOK'
  BY ThreadNat DEF Thread!Ask, Thread!Refuse, Thread!Refused, Thread!Raise,
     Thread!Intend, Thread!chatv, Thread!bounds, Thread!BusyOK, Thread!Threads
<1>4. Thread!MadeOK'
  BY DEF Thread!Ask, Thread!Refuse, Thread!Refused, Thread!Raise,
     Thread!Intend, Thread!chatv, Thread!bounds, Thread!MadeOK
<1> QED BY <1>1, <1>2, <1>3, <1>4

LEMMA ThreadTypesStart ==
  ASSUME Thread!ThreadInv, Thread!NamesOK /\ Thread!CountsOK /\ Thread!BusyOK /\ Thread!MadeOK,
         Thread!Start
  PROVE  Thread!NamesOK' /\ Thread!CountsOK' /\ Thread!BusyOK' /\ Thread!MadeOK'
<1>1. Thread!NamesOK'
  BY DEF Thread!Start, Thread!Raise, Thread!codex, Thread!chatv,
     Thread!NamesOK
<1>2. Thread!CountsOK'
  BY ThreadNat DEF Thread!Start, Thread!Raise, Thread!codex, Thread!chatv,
     Thread!CountsOK
<1>3. Thread!BusyOK'
  BY ThreadNat DEF Thread!Start, Thread!Raise, Thread!codex, Thread!chatv,
     Thread!BusyOK, Thread!Threads
<1>4. Thread!MadeOK'
  <2>1. CASE x7 = "dead"
    <3>1. x15' = x15 /\ x5' = x5
      BY <2>1 DEF Thread!Start, Thread!codex
    <3> QED BY <3>1 DEF Thread!MadeOK
  <2>2. CASE x7 # "dead"
    <3>1. PICK k : x5' = x5 + 1 /\ x15' = [x15 EXCEPT ![k] = @ + 1]
      BY <2>2 DEF Thread!Start
    <3>2. x15 \in [0..MaxThreads -> Nat] /\ x5 \in Nat
      BY ThreadNat DEF Thread!ThreadInv, Thread!StateOK
    <3>3. \A t \in 0..MaxThreads : x15'[t] <= x5'
      BY <3>1, <3>2 DEF Thread!MadeOK
    <3> QED BY <3>3 DEF Thread!MadeOK
  <2> QED BY <2>1, <2>2
<1> QED BY <1>1, <1>2, <1>3, <1>4

LEMMA ThreadTypesSave ==
  ASSUME Thread!ThreadInv, Thread!NamesOK /\ Thread!CountsOK /\ Thread!BusyOK /\ Thread!MadeOK,
         Thread!Save
  PROVE  Thread!NamesOK' /\ Thread!CountsOK' /\ Thread!BusyOK' /\ Thread!MadeOK'
<1>1. Thread!NamesOK'
  BY DEF Thread!Save, Thread!codex, Thread!bounds, Thread!NamesOK
<1>2. Thread!CountsOK'
  BY ThreadNat DEF Thread!Save, Thread!codex, Thread!bounds,
     Thread!CountsOK
<1>3. Thread!BusyOK'
  BY ThreadNat DEF Thread!Save, Thread!codex, Thread!bounds, Thread!BusyOK,
     Thread!Threads
<1>4. Thread!MadeOK'
  BY DEF Thread!Save, Thread!codex, Thread!bounds, Thread!MadeOK
<1> QED BY <1>1, <1>2, <1>3, <1>4

LEMMA ThreadTypesClear ==
  ASSUME Thread!ThreadInv, Thread!NamesOK /\ Thread!CountsOK /\ Thread!BusyOK /\ Thread!MadeOK,
         Thread!Clear
  PROVE  Thread!NamesOK' /\ Thread!CountsOK' /\ Thread!BusyOK' /\ Thread!MadeOK'
<1>1. Thread!NamesOK'
  BY DEF Thread!Clear, Thread!codex, Thread!bounds, Thread!NamesOK
<1>2. Thread!CountsOK'
  BY ThreadNat DEF Thread!Clear, Thread!codex, Thread!bounds,
     Thread!CountsOK
<1>3. Thread!BusyOK'
  BY ThreadNat DEF Thread!Clear, Thread!codex, Thread!bounds, Thread!BusyOK,
     Thread!Threads
<1>4. Thread!MadeOK'
  BY DEF Thread!Clear, Thread!codex, Thread!bounds, Thread!MadeOK
<1> QED BY <1>1, <1>2, <1>3, <1>4

LEMMA ThreadTypesAttach ==
  ASSUME Thread!ThreadInv, Thread!NamesOK /\ Thread!CountsOK /\ Thread!BusyOK /\ Thread!MadeOK,
         Thread!Attach
  PROVE  Thread!NamesOK' /\ Thread!CountsOK' /\ Thread!BusyOK' /\ Thread!MadeOK'
<1>1. Thread!NamesOK'
  BY DEF Thread!Attach, Thread!codex, Thread!chatv, Thread!NamesOK
<1>2. Thread!CountsOK'
  BY ThreadNat DEF Thread!Attach, Thread!codex, Thread!chatv,
     Thread!CountsOK
<1>3. Thread!BusyOK'
  BY ThreadNat DEF Thread!Attach, Thread!codex, Thread!chatv, Thread!BusyOK,
     Thread!Threads
<1>4. Thread!MadeOK'
  BY DEF Thread!Attach, Thread!codex, Thread!chatv, Thread!MadeOK
<1> QED BY <1>1, <1>2, <1>3, <1>4

LEMMA ThreadTypesPrepare ==
  ASSUME Thread!ThreadInv, Thread!NamesOK /\ Thread!CountsOK /\ Thread!BusyOK /\ Thread!MadeOK,
         Thread!Prepare
  PROVE  Thread!NamesOK' /\ Thread!CountsOK' /\ Thread!BusyOK' /\ Thread!MadeOK'
<1>1. Thread!NamesOK'
  BY DEF Thread!Prepare, Thread!codex, Thread!chatv, Thread!NamesOK
<1>2. Thread!CountsOK'
  BY ThreadNat DEF Thread!Prepare, Thread!codex, Thread!chatv,
     Thread!CountsOK
<1>3. Thread!BusyOK'
  BY ThreadNat DEF Thread!Prepare, Thread!codex, Thread!chatv, Thread!BusyOK,
     Thread!Threads
<1>4. Thread!MadeOK'
  BY DEF Thread!Prepare, Thread!codex, Thread!chatv, Thread!MadeOK
<1> QED BY <1>1, <1>2, <1>3, <1>4

LEMMA ThreadTypesConfirm ==
  ASSUME Thread!ThreadInv, Thread!NamesOK /\ Thread!CountsOK /\ Thread!BusyOK /\ Thread!MadeOK,
         Thread!Confirm
  PROVE  Thread!NamesOK' /\ Thread!CountsOK' /\ Thread!BusyOK' /\ Thread!MadeOK'
<1>1. Thread!NamesOK'
  BY DEF Thread!Confirm, Thread!Hand, Thread!codex, Thread!chatv,
     Thread!bounds, Thread!NamesOK
<1>2. Thread!CountsOK'
  BY ThreadNat DEF Thread!Confirm, Thread!Hand, Thread!codex, Thread!chatv,
     Thread!bounds, Thread!CountsOK
<1>3. Thread!BusyOK'
  BY ThreadNat DEF Thread!Confirm, Thread!Hand, Thread!codex, Thread!chatv,
     Thread!bounds, Thread!BusyOK, Thread!Threads
<1>4. Thread!MadeOK'
  BY DEF Thread!Confirm, Thread!Hand, Thread!codex, Thread!chatv,
     Thread!bounds, Thread!MadeOK
<1> QED BY <1>1, <1>2, <1>3, <1>4

LEMMA ThreadTypesStop ==
  ASSUME Thread!ThreadInv, Thread!NamesOK /\ Thread!CountsOK /\ Thread!BusyOK /\ Thread!MadeOK,
         Thread!Stop
  PROVE  Thread!NamesOK' /\ Thread!CountsOK' /\ Thread!BusyOK' /\ Thread!MadeOK'
<1>1. Thread!NamesOK'
  BY DEF Thread!Stop, Thread!Hand, Thread!codex, Thread!chatv,
     Thread!bounds, Thread!NamesOK
<1>2. Thread!CountsOK'
  BY ThreadNat DEF Thread!Stop, Thread!Hand, Thread!codex, Thread!chatv,
     Thread!bounds, Thread!CountsOK
<1>3. Thread!BusyOK'
  BY ThreadNat DEF Thread!Stop, Thread!Hand, Thread!codex, Thread!chatv,
     Thread!bounds, Thread!BusyOK, Thread!Threads
<1>4. Thread!MadeOK'
  BY DEF Thread!Stop, Thread!Hand, Thread!codex, Thread!chatv, Thread!bounds,
     Thread!MadeOK
<1> QED BY <1>1, <1>2, <1>3, <1>4

LEMMA ThreadTypesHandOwn ==
  ASSUME Thread!ThreadInv, Thread!NamesOK /\ Thread!CountsOK /\ Thread!BusyOK /\ Thread!MadeOK,
         Thread!HandOwn
  PROVE  Thread!NamesOK' /\ Thread!CountsOK' /\ Thread!BusyOK' /\ Thread!MadeOK'
<1>1. Thread!NamesOK'
  BY DEF Thread!HandOwn, Thread!codex, Thread!chatv, Thread!bounds,
     Thread!NamesOK
<1>2. Thread!CountsOK'
  BY ThreadNat DEF Thread!HandOwn, Thread!codex, Thread!chatv,
     Thread!bounds, Thread!CountsOK
<1>3. Thread!BusyOK'
  BY ThreadNat DEF Thread!HandOwn, Thread!codex, Thread!chatv, Thread!bounds,
     Thread!BusyOK, Thread!Threads
<1>4. Thread!MadeOK'
  BY DEF Thread!HandOwn, Thread!codex, Thread!chatv, Thread!bounds,
     Thread!MadeOK
<1> QED BY <1>1, <1>2, <1>3, <1>4

LEMMA ThreadTypesHandConnect ==
  ASSUME Thread!ThreadInv, Thread!NamesOK /\ Thread!CountsOK /\ Thread!BusyOK /\ Thread!MadeOK,
         Thread!HandConnect
  PROVE  Thread!NamesOK' /\ Thread!CountsOK' /\ Thread!BusyOK' /\ Thread!MadeOK'
<1>1. Thread!NamesOK'
  BY DEF Thread!HandConnect, Thread!Connected, Thread!Hand, Thread!codex,
     Thread!chatv, Thread!bounds, Thread!NamesOK
<1>2. Thread!CountsOK'
  BY ThreadNat DEF Thread!HandConnect, Thread!Connected, Thread!Hand,
     Thread!codex, Thread!chatv, Thread!bounds, Thread!CountsOK
<1>3. Thread!BusyOK'
  BY ThreadNat DEF Thread!HandConnect, Thread!Connected, Thread!Hand,
     Thread!codex, Thread!chatv, Thread!bounds, Thread!BusyOK, Thread!Threads
<1>4. Thread!MadeOK'
  BY DEF Thread!HandConnect, Thread!Connected, Thread!Hand, Thread!codex,
     Thread!chatv, Thread!bounds, Thread!MadeOK
<1> QED BY <1>1, <1>2, <1>3, <1>4

LEMMA ThreadTypesHandResume ==
  ASSUME Thread!ThreadInv, Thread!NamesOK /\ Thread!CountsOK /\ Thread!BusyOK /\ Thread!MadeOK,
         Thread!HandResume
  PROVE  Thread!NamesOK' /\ Thread!CountsOK' /\ Thread!BusyOK' /\ Thread!MadeOK'
<1>1. Thread!NamesOK'
  BY DEF Thread!HandResume, Thread!Hand, Thread!chatv, Thread!bounds,
     Thread!NamesOK
<1>2. Thread!CountsOK'
  BY ThreadNat DEF Thread!HandResume, Thread!Hand, Thread!chatv,
     Thread!bounds, Thread!CountsOK
<1>3. Thread!BusyOK'
  BY ThreadNat DEF Thread!HandResume, Thread!Hand, Thread!chatv,
     Thread!bounds, Thread!BusyOK, Thread!Threads
<1>4. Thread!MadeOK'
  BY DEF Thread!HandResume, Thread!Hand, Thread!chatv, Thread!bounds,
     Thread!MadeOK
<1> QED BY <1>1, <1>2, <1>3, <1>4

LEMMA ThreadTypesHandTui ==
  ASSUME Thread!ThreadInv, Thread!NamesOK /\ Thread!CountsOK /\ Thread!BusyOK /\ Thread!MadeOK,
         Thread!HandTui
  PROVE  Thread!NamesOK' /\ Thread!CountsOK' /\ Thread!BusyOK' /\ Thread!MadeOK'
<1>1. Thread!NamesOK'
  BY DEF Thread!HandTui, Thread!Hand, Thread!codex, Thread!chatv,
     Thread!bounds, Thread!NamesOK
<1>2. Thread!CountsOK'
  BY ThreadNat DEF Thread!HandTui, Thread!Hand, Thread!codex, Thread!chatv,
     Thread!bounds, Thread!CountsOK
<1>3. Thread!BusyOK'
  BY ThreadNat DEF Thread!HandTui, Thread!Hand, Thread!codex, Thread!chatv,
     Thread!bounds, Thread!BusyOK, Thread!Threads
<1>4. Thread!MadeOK'
  BY DEF Thread!HandTui, Thread!Hand, Thread!codex, Thread!chatv,
     Thread!bounds, Thread!MadeOK
<1> QED BY <1>1, <1>2, <1>3, <1>4

LEMMA ThreadTypesHandFailed ==
  ASSUME Thread!ThreadInv, Thread!NamesOK /\ Thread!CountsOK /\ Thread!BusyOK /\ Thread!MadeOK,
         Thread!HandFailed
  PROVE  Thread!NamesOK' /\ Thread!CountsOK' /\ Thread!BusyOK' /\ Thread!MadeOK'
<1>1. Thread!NamesOK'
  BY DEF Thread!HandFailed, Thread!bounds, Thread!NamesOK
<1>2. Thread!CountsOK'
  BY ThreadNat DEF Thread!HandFailed, Thread!bounds, Thread!CountsOK
<1>3. Thread!BusyOK'
  BY ThreadNat DEF Thread!HandFailed, Thread!bounds, Thread!BusyOK,
     Thread!Threads
<1>4. Thread!MadeOK'
  BY DEF Thread!HandFailed, Thread!bounds, Thread!MadeOK
<1> QED BY <1>1, <1>2, <1>3, <1>4

LEMMA ThreadTypesHandBack ==
  ASSUME Thread!ThreadInv, Thread!NamesOK /\ Thread!CountsOK /\ Thread!BusyOK /\ Thread!MadeOK,
         Thread!HandBack
  PROVE  Thread!NamesOK' /\ Thread!CountsOK' /\ Thread!BusyOK' /\ Thread!MadeOK'
<1>1. Thread!NamesOK'
  BY DEF Thread!HandBack, Thread!Hand, Thread!codex, Thread!chatv,
     Thread!bounds, Thread!NamesOK
<1>2. Thread!CountsOK'
  BY ThreadNat DEF Thread!HandBack, Thread!Hand, Thread!codex,
     Thread!chatv, Thread!bounds, Thread!CountsOK
<1>3. Thread!BusyOK'
  BY ThreadNat DEF Thread!HandBack, Thread!Hand, Thread!codex, Thread!chatv,
     Thread!bounds, Thread!BusyOK, Thread!Threads
<1>4. Thread!MadeOK'
  BY DEF Thread!HandBack, Thread!Hand, Thread!codex, Thread!chatv,
     Thread!bounds, Thread!MadeOK
<1> QED BY <1>1, <1>2, <1>3, <1>4

LEMMA ThreadTypesHandMark ==
  ASSUME Thread!ThreadInv, Thread!NamesOK /\ Thread!CountsOK /\ Thread!BusyOK /\ Thread!MadeOK,
         Thread!HandMark
  PROVE  Thread!NamesOK' /\ Thread!CountsOK' /\ Thread!BusyOK' /\ Thread!MadeOK'
<1>1. Thread!NamesOK'
  BY DEF Thread!HandMark, Thread!Hand, Thread!codex, Thread!chatv,
     Thread!bounds, Thread!NamesOK
<1>2. Thread!CountsOK'
  BY ThreadNat DEF Thread!HandMark, Thread!Hand, Thread!codex,
     Thread!chatv, Thread!bounds, Thread!CountsOK
<1>3. Thread!BusyOK'
  BY ThreadNat DEF Thread!HandMark, Thread!Hand, Thread!codex, Thread!chatv,
     Thread!bounds, Thread!BusyOK, Thread!Threads
<1>4. Thread!MadeOK'
  BY DEF Thread!HandMark, Thread!Hand, Thread!codex, Thread!chatv,
     Thread!bounds, Thread!MadeOK
<1> QED BY <1>1, <1>2, <1>3, <1>4

LEMMA ThreadTypesSay ==
  ASSUME Thread!ThreadInv, Thread!NamesOK /\ Thread!CountsOK /\ Thread!BusyOK /\ Thread!MadeOK,
         Thread!Say
  PROVE  Thread!NamesOK' /\ Thread!CountsOK' /\ Thread!BusyOK' /\ Thread!MadeOK'
<1>1. Thread!NamesOK'
  BY DEF Thread!Say, Thread!chatv, Thread!bounds, Thread!NamesOK
<1>2. Thread!CountsOK'
  BY ThreadNat DEF Thread!Say, Thread!chatv, Thread!bounds, Thread!CountsOK
<1>3. Thread!BusyOK'
  <2>1. x8 \in 1..MaxThreads
    BY ThreadNat DEF Thread!Say, Thread!ThreadInv, Thread!StateOK
  <2>2. x6' = x8 /\ x10' = x10 \cup {x8}
    BY DEF Thread!Say
  <2>3. x6' \in 0..MaxThreads
    BY <2>1, <2>2
  <2> QED BY <2>1, <2>2, <2>3 DEF Thread!BusyOK, Thread!Threads
<1>4. Thread!MadeOK'
  BY DEF Thread!Say, Thread!chatv, Thread!bounds, Thread!MadeOK
<1> QED BY <1>1, <1>2, <1>3, <1>4

LEMMA ThreadTypesTurnEnds ==
  ASSUME Thread!ThreadInv, Thread!NamesOK /\ Thread!CountsOK /\ Thread!BusyOK /\ Thread!MadeOK,
         Thread!TurnEnds
  PROVE  Thread!NamesOK' /\ Thread!CountsOK' /\ Thread!BusyOK' /\ Thread!MadeOK'
<1>1. Thread!NamesOK'
  BY DEF Thread!TurnEnds, Thread!chatv, Thread!bounds, Thread!NamesOK
<1>2. Thread!CountsOK'
  BY ThreadNat DEF Thread!TurnEnds, Thread!chatv, Thread!bounds,
     Thread!CountsOK
<1>3. Thread!BusyOK'
  BY ThreadNat DEF Thread!TurnEnds, Thread!chatv, Thread!bounds,
     Thread!BusyOK, Thread!Threads
<1>4. Thread!MadeOK'
  BY DEF Thread!TurnEnds, Thread!chatv, Thread!bounds, Thread!MadeOK
<1> QED BY <1>1, <1>2, <1>3, <1>4

LEMMA ThreadTypesCut ==
  ASSUME Thread!ThreadInv, Thread!NamesOK /\ Thread!CountsOK /\ Thread!BusyOK /\ Thread!MadeOK,
         Thread!Cut
  PROVE  Thread!NamesOK' /\ Thread!CountsOK' /\ Thread!BusyOK' /\ Thread!MadeOK'
<1>1. Thread!NamesOK'
  BY DEF Thread!Cut, Thread!codex, Thread!NamesOK
<1>2. Thread!CountsOK'
  BY ThreadNat DEF Thread!Cut, Thread!codex, Thread!CountsOK
<1>3. Thread!BusyOK'
  BY ThreadNat DEF Thread!Cut, Thread!codex, Thread!BusyOK, Thread!Threads
<1>4. Thread!MadeOK'
  BY DEF Thread!Cut, Thread!codex, Thread!MadeOK
<1> QED BY <1>1, <1>2, <1>3, <1>4

LEMMA ThreadTypesEnd ==
  ASSUME Thread!ThreadInv, Thread!NamesOK /\ Thread!CountsOK /\ Thread!BusyOK /\ Thread!MadeOK,
         Thread!End
  PROVE  Thread!NamesOK' /\ Thread!CountsOK' /\ Thread!BusyOK' /\ Thread!MadeOK'
<1>1. Thread!NamesOK'
  BY DEF Thread!End, Thread!NamesOK
<1>2. Thread!CountsOK'
  BY ThreadNat DEF Thread!End, Thread!CountsOK
<1>3. Thread!BusyOK'
  BY ThreadNat DEF Thread!End, Thread!BusyOK, Thread!Threads
<1>4. Thread!MadeOK'
  BY DEF Thread!End, Thread!MadeOK
<1> QED BY <1>1, <1>2, <1>3, <1>4

LEMMA ThreadTypesNext ==
  ASSUME Thread!ThreadInv, Thread!NamesOK /\ Thread!CountsOK /\ Thread!BusyOK /\ Thread!MadeOK,
         Thread!Next
  PROVE  Thread!NamesOK' /\ Thread!CountsOK' /\ Thread!BusyOK' /\ Thread!MadeOK'
<1>1. CASE Thread!Ensure \/ Thread!Probe \/ Thread!NewConversation \/ Thread!RecoverEmpty
  BY <1>1, ThreadTypesEnsure, ThreadTypesProbe, ThreadTypesNewConversation,
     ThreadTypesRecoverEmpty
<1>2. CASE Thread!Own \/ Thread!Connect \/ Thread!Ask \/ Thread!Start
  BY <1>2, ThreadTypesOwn, ThreadTypesConnect, ThreadTypesAsk, ThreadTypesStart
<1>3. CASE Thread!Save \/ Thread!Clear \/ Thread!Attach \/ Thread!Prepare
  BY <1>3, ThreadTypesSave, ThreadTypesClear, ThreadTypesAttach, ThreadTypesPrepare
<1>4. CASE Thread!Confirm \/ Thread!Stop \/ Thread!HandOwn \/ Thread!HandConnect
  BY <1>4, ThreadTypesConfirm, ThreadTypesStop, ThreadTypesHandOwn, ThreadTypesHandConnect
<1>5. CASE Thread!HandResume \/ Thread!HandTui \/ Thread!HandFailed \/ Thread!HandBack
  BY <1>5, ThreadTypesHandResume, ThreadTypesHandTui, ThreadTypesHandFailed, ThreadTypesHandBack
<1>6. CASE Thread!HandMark \/ Thread!Say \/ Thread!TurnEnds \/ Thread!Cut
  BY <1>6, ThreadTypesHandMark, ThreadTypesSay, ThreadTypesTurnEnds, ThreadTypesCut
<1>7. CASE Thread!End
  BY <1>7, ThreadTypesEnd
<1> QED BY <1>1, <1>2, <1>3, <1>4, <1>5, <1>6, <1>7 DEF Thread!Next

LEMMA ThreadTypesStay ==
  ASSUME Thread!NamesOK /\ Thread!CountsOK /\ Thread!BusyOK /\ Thread!MadeOK,
         UNCHANGED <<x2, x5, x6, x7, x9, x10, x12, x14, x15, x17, x18, x19>>
  PROVE  Thread!NamesOK' /\ Thread!CountsOK' /\ Thread!BusyOK' /\ Thread!MadeOK'
  BY DEF Thread!NamesOK, Thread!CountsOK, Thread!BusyOK, Thread!MadeOK

LEMMA ThreadTypesInit ==
  ASSUME Thread!Init
  PROVE  Thread!NamesOK /\ Thread!CountsOK /\ Thread!BusyOK /\ Thread!MadeOK
<1>1. x6 = 0 /\ x10 = {} /\ x17 = 0 /\ x18 = 0 /\ x19 = 0 /\ x5 \in Nat
  BY DEF Thread!Init
<1>2. Thread!CountsOK /\ Thread!BusyOK
  BY <1>1, ThreadNat DEF Thread!CountsOK, Thread!BusyOK
<1>3. Thread!NamesOK
  BY DEF Thread!Init, Thread!NamesOK
<1>4. Thread!MadeOK
  BY <1>1 DEF Thread!Init, Thread!MadeOK
<1> QED BY <1>2, <1>3, <1>4

LEMMA ThreadTyped ==
  ASSUME Thread!ThreadInv, Thread!NamesOK /\ Thread!CountsOK /\ Thread!BusyOK /\ Thread!MadeOK
  PROVE  Thread!TypeOK
<1>1. x15 \in [0..MaxThreads -> 0..MaxThreads]
  <2>1. \A t \in 0..MaxThreads : x15[t] \in 0..MaxThreads
    BY ThreadNat DEF Thread!ThreadInv, Thread!StateOK, Thread!MadeOK
  <2> QED BY <2>1 DEF Thread!ThreadInv, Thread!StateOK
<1>2. x5 \in 0..MaxThreads /\ x8 \in 0..MaxThreads /\ 1..x5 \subseteq 1..MaxThreads
  BY ThreadNat DEF Thread!ThreadInv, Thread!StateOK
<1>3. x3 \subseteq Thread!Threads /\ x4 \subseteq Thread!Threads /\ x16 \subseteq Thread!Threads
  BY <1>2 DEF Thread!ThreadInv, Thread!StateOK, Thread!Threads
<1>4. x1 \in Thread!Records /\ x11 \in Thread!Ops /\ x13 \in {"shell", "legacy", "remote"}
  BY DEF Thread!ThreadInv, Thread!StateOK, Thread!HandOK
<1>5. x11.do \in {"none", "ensure", "new", "lost"} /\ x11.at \in Thread!Steps
  BY <1>4 DEF Thread!Ops
<1> QED BY <1>1, <1>2, <1>3, <1>4, <1>5 DEF Thread!TypeOK, Thread!Records, Thread!Steps, Thread!NamesOK,
       Thread!CountsOK, Thread!BusyOK

LEMMA PromptTypesAlways == Spec => [](part = "prompt" => Prompt!PlaceOK /\ Prompt!TriesOK)
<1> DEFINE Inv == part = "prompt" => Prompt!PlaceOK /\ Prompt!TriesOK
<1>1. Init => Inv
  BY PromptTypesInit DEF Init
<1>2. (part = "prompt" => Prompt!PromptInv) /\ Inv /\ [Next]_all => Inv'
  <2> SUFFICES ASSUME part = "prompt" => Prompt!PromptInv, Inv, [Next]_all, part' = "prompt"
               PROVE  (Prompt!PlaceOK /\ Prompt!TriesOK)'
    OBVIOUS
  <2>1. CASE UNCHANGED all
    <3>1. UNCHANGED <<part, x2, x3, x4, x5, x7, x10, x12, x13>>
      BY <2>1 DEF all
    <3> QED BY <3>1, PromptTypesStay
  <2>2. CASE Next
    <3>1. part = "prompt" /\ Prompt!Next
      BY <2>2 DEF Next
    <3> QED BY <3>1, PromptTypesNext
  <2> QED BY <2>1, <2>2
<1> QED BY <1>1, <1>2, PromptAlways, PTL DEF Spec

LEMMA ThreadTypesAlways == Spec => [](part = "thread" => Thread!NamesOK /\ Thread!CountsOK /\ Thread!BusyOK /\ Thread!MadeOK)
<1> DEFINE Inv == part = "thread" => Thread!NamesOK /\ Thread!CountsOK /\ Thread!BusyOK /\ Thread!MadeOK
<1>1. Init => Inv
  BY ThreadTypesInit DEF Init
<1>2. (part = "thread" => Thread!ThreadInv) /\ Inv /\ [Next]_all => Inv'
  <2> SUFFICES ASSUME part = "thread" => Thread!ThreadInv, Inv, [Next]_all, part' = "thread"
               PROVE  (Thread!NamesOK /\ Thread!CountsOK /\ Thread!BusyOK /\ Thread!MadeOK)'
    OBVIOUS
  <2>1. CASE UNCHANGED all
    <3>1. UNCHANGED <<part, x2, x5, x6, x7, x9, x10, x12, x14, x15, x17, x18, x19>>
      BY <2>1 DEF all
    <3> QED BY <3>1, ThreadTypesStay
  <2>2. CASE Next
    <3>1. part = "thread" /\ Thread!Next
      BY <2>2 DEF Next
    <3> QED BY <3>1, ThreadTypesNext
  <2> QED BY <2>1, <2>2
<1> QED BY <1>1, <1>2, ThreadAlways, PTL DEF Spec

(***************************************************************************)
(* Whatever the daemon and codex do, each part of the default agent keeps  *)
(* its types: a request's words reach the pane no more often than they     *)
(* were submitted, and codex made each thread for one creation.            *)
(***************************************************************************)
THEOREM AgentKeepsTypes == Spec => []TypeOK
<1>1. (part = "thread" => Thread!ThreadInv) /\ (part = "thread" => Thread!NamesOK /\ Thread!CountsOK /\ Thread!BusyOK /\ Thread!MadeOK)
      => (part = "thread" => Thread!TypeOK)
  BY ThreadTyped
<1>2. (part = "prompt" => Prompt!PromptInv) /\ (part = "prompt" => Prompt!PlaceOK /\ Prompt!TriesOK)
      => (part = "prompt" => Prompt!TypeOK)
  BY PromptTyped
<1>3. (part = "chat" => Chat!ChatInv) => (part = "chat" => Chat!TypeOK)
  BY DEF Chat!ChatInv
<1>4. (part = "push" => Push!PushInv) => (part = "push" => Push!TypeOK)
  BY DEF Push!PushInv
<1>5. (part = "seen" => Seen!SeenInv) => (part = "seen" => Seen!TypeOK)
  BY DEF Seen!SeenInv
<1>6. TypeOK <=> /\ part = "chat" => Chat!TypeOK
                 /\ part = "thread" => Thread!TypeOK
                 /\ part = "push" => Push!TypeOK
                 /\ part = "seen" => Seen!TypeOK
                 /\ part = "prompt" => Prompt!TypeOK
  BY Zenon DEF TypeOK
<1> QED BY <1>1, <1>2, <1>3, <1>4, <1>5, <1>6, ThreadAlways, ThreadTypesAlways, PromptAlways,
       PromptTypesAlways, ChatAlways, PushAlways, SeenAlways, PTL
=============================================================================
