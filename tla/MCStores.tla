------------------------------ MODULE MCStores ------------------------------
(***************************************************************************)
(* The parts of core that look after what others may do and have here,     *)
(* checked side by side in one run: the credential of a device, its        *)
(* certificate in the fork, the sessions and panes of Herdr, the toasts of *)
(* the desktop, the clipboard, files and preferences a device shares. They *)
(* share no state here: part says which one a behaviour is of, and its     *)
(* variables are the first of x1, x2, ...; those it does not need are      *)
(* Blank.                                                                  *)
(***************************************************************************)
EXTENDS Naturals, Sequences, FiniteSets, TLC

CONSTANTS
  Ttl, Window, Grace, MaxTime, MaxCreds, MaxAsks, MaxCrashes, Devices, Certs, MaxRequests, MaxTroubles,
  MaxMoves, MaxFaults, Streams, NoStream, Writers, NoWriter, MaxSizes, MaxRuns, Ours, Strangers, ToastIds,
  NoRequest, MaxRestarts, ToastMaxAsks, Texts, Nothing, Picture, Threads, MaxCopies, MaxSwitch, MaxWrites,
  ClipMaxFaults, Files, UploadIds, Unset, MaxCrash, MaxHours, UploadMaxAsks, Marks, MaxText, MaxFiles,
  Pages, Shared, Newer, Absent, MaxRevision, MaxBuilds, Sends, Drafts, Waiters, Memory, MaxAttempts,
  MaxAnswers, MaxTurns, Blank, d1, d2, s1, s2, w1, w2

\* A toast is of a request of ours or of somebody else's program, never of both.
ASSUME ToastAssumption == Ours \cap Strangers = {} /\ NoRequest \notin ToastIds /\ ToastMaxAsks \in Nat

VARIABLES
  part, x1, x2, x3, x4, x5, x6, x7, x8, x9, x10, x11, x12, x13, x14, x15, x16, x17, x18, x19

Cred == INSTANCE Credentials WITH
  now <- x1, iat <- x2, issued <- x3, revoked <- x4, known <- x5, retire <- x6, asks <- x7, line <- x8,
  extend <- x9, held <- x10, lost <- x11, shut <- x12, purged <- x13, crashes <- x14, MaxRequests <- MaxAsks
Media == INSTANCE MediaPairing WITH
  allowed <- x1, att <- x2, bind <- x3, pins <- x4, auths <- x5, hand <- x6, late <- x7, req <- x8,
  trust <- x9, canRevoke <- x10, pinned <- x11, dropped <- x12, troubles <- x13
Herdr == INSTANCE HerdrWatch WITH
  now <- x1, wire <- x2, sig <- x3, told <- x4, read <- x5, dirty <- x6, soon <- x7, handle <- x8,
  follow <- x9, poll <- x10, panes <- x11, changed <- x12, sock <- x13, events <- x14, failed <- x15
Pane == INSTANCE HerdrPanes WITH
  holder <- x1, stream <- x2, wanted <- x3, shown <- x4, restart <- x5, view <- x6, writer <- x7,
  lock <- x8, screen <- x9, blocked <- x10, last <- x11, proved <- x12, runs <- x13
Toast == INSTANCE Notices WITH
  waiting <- x1, asks <- x2, screen <- x3, past <- x4, for <- x5, rows <- x6, withdrawn <- x7, told <- x8,
  watch <- x9, act <- x10, settled <- x11, restarts <- x12, Requests <- ToastIds, MaxAsks <- ToastMaxAsks
Clip == INSTANCE Clipboard WITH
  clip <- x1, mode <- x2, stop <- x3, thread <- x4, at <- x5, lines <- x6, killed <- x7, echo <- x8,
  hot <- x9, pending <- x10, writing <- x11, applying <- x12, known <- x13, news <- x14, missed <- x15,
  copies <- x16, switches <- x17, writes <- x18, faults <- x19, None <- Nothing, MaxFaults <- ClipMaxFaults
Upload == INSTANCE Uploads WITH
  kind <- x1, stage <- x2, files <- x3, age <- x4, known <- x5, answered <- x6, gone <- x7, valid <- x8,
  checked <- x9, spared <- x10, ask <- x11, crashes <- x12, hours <- x13, asks <- x14, Ids <- Files,
  Asks <- UploadIds, Off <- Unset, MaxAsks <- UploadMaxAsks
Attach == INSTANCE Attachments WITH
  text <- x1, attachments <- x2, line <- x3, body <- x4, images <- x5, sent <- x6
Pref == INSTANCE Preferences WITH
  version <- x1, revision <- x2, values <- x3, build <- x4, seen <- x5, lost <- x6, dropped <- x7,
  builds <- x8
Text == INSTANCE RemoteText WITH
  session <- x1, host <- x2, attempt <- x3, memory <- x4, waiter <- x5, told <- x6, turns <- x7
\* Of the days of a credential: Credentials says what is assumed of them.
ASSUME CredAssumption == Cred!DaysOk
\* An attempt and a binding of nobody are of no device.
ASSUME MediaAssumption == "none" \notin Devices
ASSUME HerdrAssumption == MaxMoves \in Nat /\ MaxFaults \in Nat
\* Whoever types is a writer, and a view begins with a size.
ASSUME PaneAssumption == NoWriter \notin Writers /\ MaxSizes \in Nat \ {0} /\ MaxRuns \in Nat
\* The rest of an ask is not a state of one, the empty clipboard is no text, and marker 0 none.
ASSUME UploadAssumption == Unset \notin {"found", "scanned", "gone"}
ASSUME ClipAssumption == Nothing \notin Texts
ASSUME AttachAssumption == Marks \subseteq Nat \ {0}
ASSUME TextAssumption == Memory \in Nat /\ MaxAttempts \in Nat
ASSUME BoundAssumption == MaxTroubles \in Nat /\ MaxRevision \in Nat /\ MaxTurns \in Nat
all == <<part, x1, x2, x3, x4, x5, x6, x7, x8, x9, x10, x11, x12, x13, x14, x15, x16, x17, x18, x19>>

Init ==
  \/ part = "cred" /\ Cred!Init
     /\ x15 = Blank /\ x16 = Blank /\ x17 = Blank /\ x18 = Blank /\ x19 = Blank
  \/ part = "media" /\ Media!Init
     /\ x14 = Blank /\ x15 = Blank /\ x16 = Blank /\ x17 = Blank /\ x18 = Blank
     /\ x19 = Blank
  \/ part = "herdr" /\ Herdr!Init
     /\ x16 = Blank /\ x17 = Blank /\ x18 = Blank /\ x19 = Blank
  \/ part = "pane" /\ Pane!Init
     /\ x14 = Blank /\ x15 = Blank /\ x16 = Blank /\ x17 = Blank /\ x18 = Blank /\ x19 = Blank
  \/ part = "toast" /\ Toast!Init
     /\ x13 = Blank /\ x14 = Blank /\ x15 = Blank /\ x16 = Blank /\ x17 = Blank /\ x18 = Blank
     /\ x19 = Blank
  \/ part = "clip" /\ Clip!Init
  \/ part = "upload" /\ Upload!Init
     /\ x15 = Blank /\ x16 = Blank /\ x17 = Blank /\ x18 = Blank /\ x19 = Blank
  \/ part = "attach" /\ Attach!Init
     /\ x7 = Blank /\ x8 = Blank /\ x9 = Blank /\ x10 = Blank /\ x11 = Blank /\ x12 = Blank /\ x13 = Blank
     /\ x14 = Blank /\ x15 = Blank /\ x16 = Blank /\ x17 = Blank /\ x18 = Blank /\ x19 = Blank
  \/ part = "pref" /\ Pref!Init
     /\ x9 = Blank /\ x10 = Blank /\ x11 = Blank /\ x12 = Blank /\ x13 = Blank /\ x14 = Blank /\ x15 = Blank
     /\ x16 = Blank /\ x17 = Blank /\ x18 = Blank /\ x19 = Blank
  \/ part = "text" /\ Text!Init
     /\ x8 = Blank /\ x9 = Blank /\ x10 = Blank /\ x11 = Blank /\ x12 = Blank /\ x13 = Blank /\ x14 = Blank
     /\ x15 = Blank /\ x16 = Blank /\ x17 = Blank /\ x18 = Blank /\ x19 = Blank
Next ==
  \/ part = "cred" /\ Cred!Next /\ UNCHANGED <<part, x15, x16, x17, x18, x19>>
  \/ part = "media" /\ Media!Next /\ UNCHANGED <<part, x14, x15, x16, x17, x18, x19>>
  \/ part = "herdr" /\ Herdr!Next /\ UNCHANGED <<part, x16, x17, x18, x19>>
  \/ part = "pane" /\ Pane!Next /\ UNCHANGED <<part, x14, x15, x16, x17, x18, x19>>
  \/ part = "toast" /\ Toast!Next /\ UNCHANGED <<part, x13, x14, x15, x16, x17, x18, x19>>
  \/ part = "clip" /\ Clip!Next /\ UNCHANGED <<part>>
  \/ part = "upload" /\ Upload!Next /\ UNCHANGED <<part, x15, x16, x17, x18, x19>>
  \/ part = "attach" /\ Attach!Next /\ UNCHANGED <<part, x7, x8, x9, x10, x11, x12, x13, x14, x15, x16, x17, x18, x19>>
  \/ part = "pref" /\ Pref!Next /\ UNCHANGED <<part, x9, x10, x11, x12, x13, x14, x15, x16, x17, x18, x19>>
  \/ part = "text" /\ Text!Next /\ UNCHANGED <<part, x8, x9, x10, x11, x12, x13, x14, x15, x16, x17, x18, x19>>
Spec == Init /\ [][Next]_all

Perms == Permutations(Devices) \cup Permutations(Streams) \cup Permutations(Writers)

-----------------------------------------------------------------------------
\* Every part keeps its types.
TypeOK ==
  /\ part = "cred" => Cred!TypeOK
  /\ part = "media" => Media!TypeOK
  /\ part = "herdr" => Herdr!TypeOK
  /\ part = "pane" => Pane!TypeOK
  /\ part = "toast" => Toast!TypeOK
  /\ part = "clip" => Clip!TypeOK
  /\ part = "upload" => Upload!TypeOK
  /\ part = "attach" => Attach!TypeOK
  /\ part = "pref" => Pref!TypeOK
  /\ part = "text" => Text!TypeOK

\* A device that keeps to its days always holds a credential that works, and while one
\* works the terminal that goes with it opens.
CredentialWorks == part = "cred" => Cred!NeverStranded /\ Cred!LineCovers
\* A request that nobody has decided stays on every list, and no stranger's toast is
\* withdrawn.
WaitingStays == part = "toast" => Toast!WaitingStays
\* The fork is sent one PIN for a request, nothing it authorizes is forgotten, and
\* pairing again is not a way to undo a revoke.
FollowedUp ==
  /\ [](part = "media" => Media!PinSentOnce /\ Media!TrustIsOnRecord)
  /\ [][part = "media" => Media!NotUndone]_all
\* A session whose events say it moved is read for it and its panes are listened to; a
\* stream nobody took the pane from holds it, and Enter submits a reply that was seen to
\* arrive and nothing else.
HerdrIsHeld ==
  /\ part = "herdr" => Herdr!PokeNotLost /\ Herdr!SubscribedToThePanes
  /\ part = "pane" => Pane!HolderStays /\ Pane!EnterIsProved
\* What a person shares between the host and a device is shared as they asked: the
\* clipboard both ways, a file and what is said of it in a message, a preference of one
\* client beside another's, a draft typed once.
SharedAsAsked ==
  /\ part = "clip" => Clip!OwnWriteIsNotNews /\ Clip!LastIsTold
  /\ part = "upload" => Upload!NothingIsLeft /\ Upload!SavedStays /\ Upload!RefusedIsGone
  /\ part = "attach" => Attach!NoneIsDropped /\ Attach!NumbersAgree
  /\ part = "pref" => Pref!NothingIsLost /\ Pref!OthersKept
  /\ part = "text" => Text!TypedOnce /\ Text!SameAnswer
=============================================================================
