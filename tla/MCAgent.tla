------------------------------ MODULE MCAgent -------------------------------
(***************************************************************************)
(* The default agent's parts, checked side by side in one run: the         *)
(* conversation, the thread it belongs to, what a phone is told of it, the *)
(* list of what needs the person and the prompts of the older way in. They *)
(* share no state: part says which one a behaviour is of, and its          *)
(* variables are the first of x1, x2, ...; those it does not need are      *)
(* Blank.                                                                  *)
(***************************************************************************)
EXTENDS Naturals, Sequences, FiniteSets, TLC

CONSTANTS
  Phones, Words, Asks, MaxTurns, MaxCalls, MaxChatFaults, MaxRestarts, MaxThreads, MaxAsks, MaxCuts,
  MaxEnds, Panes, MaxNews, MaxSubs, MaxFaults, SeenPanes, AgentKey, Callers, MaxMoves, PromptIds, Nobody,
  MaxTries, MaxKeep, MaxCrash, MaxPanes, Blank, w1, w2, n1, n2

ASSUME PromptAssumption == MaxPanes \in Nat /\ MaxTries \in Nat /\ MaxKeep \in Nat \ {0} /\ Nobody \notin PromptIds
ASSUME SeenAssumption   == MaxMoves \in Nat /\ AgentKey \notin SeenPanes /\ Callers \cap {"poll", "loop"} = {}
ASSUME ThreadAssumption == MaxThreads \in Nat \ {0} /\ MaxAsks \in Nat /\ MaxCuts \in Nat /\ MaxEnds \in Nat
ASSUME PushAssumption   == MaxNews \in Nat /\ MaxSubs \in Nat \ {0} /\ MaxFaults \in Nat
ASSUME ChatAssumption   == MaxTurns \in Nat \ {0} /\ "sync" \notin Words \cup Phones

VARIABLES
  part, x1, x2, x3, x4, x5, x6, x7, x8, x9, x10, x11, x12, x13, x14, x15, x16, x17, x18, x19, x20, x21, x22

Chat == INSTANCE AgentChat WITH
  running <- x1, turns <- x2, stopped <- x3, queue <- x4, steered <- x5, taken <- x6, starts <- x7,
  asking <- x8, sent <- x9, down <- x10, link <- x11, active <- x12, memo <- x13, pending <- x14,
  answered <- x15, journal <- x16, call <- x17, queued <- x18, gone <- x19, calls <- x20, faults <- x21,
  restarts <- x22, MaxFaults <- MaxChatFaults
Thread == INSTANCE AgentThread WITH
  record <- x1, unit <- x2, loaded <- x3, written <- x4, made <- x5, busy <- x6, rpc <- x7, chat <- x8,
  alive <- x9, delivery <- x10, op <- x11, hand <- x12, tui <- x13, plan <- x14, begun <- x15,
  emptied <- x16, asks <- x17, cuts <- x18, ends <- x19
Push == INSTANCE PushDelivery WITH
  agent <- x1, blocked <- x2, desk <- x3, native <- x4, events <- x5, watch <- x6, sub <- x7, want <- x8,
  apple <- x9, window <- x10, held <- x11, announced <- x12, timer <- x13, waiting <- x14, lane <- x15,
  screen <- x16, digest <- x17, kept <- x18, fresh <- x19, news <- x20, subs <- x21, faults <- x22
Seen == INSTANCE Overview WITH
  status <- x1, row <- x2, watching <- x3, over <- x4, read <- x5, hubAgent <- x6, unseen <- x7, list <- x8,
  thread <- x9, moves <- x10, Agent <- AgentKey, Panes <- SeenPanes
Prompt == INSTANCE AgentPrompts WITH
  agent <- x1, pane <- x2, panes <- x3, holder <- x4, at <- x5, journal <- x6, order <- x7, outcome <- x8,
  answer <- x9, reached <- x10, valid <- x11, evicted <- x12, tries <- x13, crashes <- x14,
  Requests <- PromptIds
all == <<part, x1, x2, x3, x4, x5, x6, x7, x8, x9, x10, x11, x12, x13, x14, x15, x16, x17, x18, x19, x20, x21, x22>>

Init ==
  \/ part = "chat" /\ Chat!Init
  \/ part = "thread" /\ Thread!Init
     /\ x20 = Blank /\ x21 = Blank /\ x22 = Blank
  \/ part = "push" /\ Push!Init
  \/ part = "seen" /\ Seen!Init
     /\ x11 = Blank /\ x12 = Blank /\ x13 = Blank /\ x14 = Blank /\ x15 = Blank /\ x16 = Blank
     /\ x17 = Blank /\ x18 = Blank /\ x19 = Blank /\ x20 = Blank /\ x21 = Blank /\ x22 = Blank
  \/ part = "prompt" /\ Prompt!Init
     /\ x15 = Blank /\ x16 = Blank /\ x17 = Blank /\ x18 = Blank /\ x19 = Blank /\ x20 = Blank
     /\ x21 = Blank /\ x22 = Blank
Next ==
  \/ part = "chat" /\ Chat!Next /\ UNCHANGED <<part>>
  \/ part = "thread" /\ Thread!Next /\ UNCHANGED <<part, x20, x21, x22>>
  \/ part = "push" /\ Push!Next /\ UNCHANGED <<part>>
  \/ part = "seen" /\ Seen!Next /\ UNCHANGED <<part, x11, x12, x13, x14, x15, x16, x17, x18, x19, x20, x21, x22>>
  \/ part = "prompt" /\ Prompt!Next /\ UNCHANGED <<part, x15, x16, x17, x18, x19, x20, x21, x22>>
Spec == Init /\ [][Next]_all

Perms == Permutations(Words) \cup Permutations(Panes)

-----------------------------------------------------------------------------
\* Every part keeps its types.
TypeOK ==
  /\ part = "chat" => Chat!TypeOK
  /\ part = "thread" => Thread!TypeOK
  /\ part = "push" => Push!TypeOK
  /\ part = "seen" => Seen!TypeOK
  /\ part = "prompt" => Prompt!TypeOK

\* At rest core knows of the turn that runs; what codex waits for is before the person,
\* and what was answered never is again.
ChatAgrees == part = "chat" => Chat!RunningIsActive /\ Chat!AskedOnce
\* The first thread is asked of codex once, the chat the phones write to is the
\* conversation the record names, and only a thread nobody wrote in is replaced as empty.
ThreadKept == part = "thread" => Thread!FirstOnce /\ Thread!ChatOfRecord /\ Thread!EmptyReplaced
\* A message is the start of one turn at most, and a prompt is sent once, whatever is
\* lost on the way or asked again.
StartedOnce ==
  /\ part = "chat" => Chat!StartedOnce
  /\ part = "prompt" => Prompt!SentOnce /\ Prompt!ToldTruly
\* An alert the phone is owed is on its way, in its window or held for the desk, and a
\* pane that starts to wait is named by a digest to come; what needs the person is
\* published or somebody still has to, and what is on a screen is seen.
NeedsAreTold ==
  /\ part = "push" => Push!WaitingIsTold /\ Push!PanesAreTold
  /\ part = "seen" => Seen!ToldOrToCome /\ Seen!WatchedIsSeen
=============================================================================
