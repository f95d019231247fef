------------------------------- MODULE MCHost -------------------------------
(***************************************************************************)
(* What core does at the desk and on the host's disk, checked side by side *)
(* in one run: fingerprint approvals, the microphone, the conditions and   *)
(* commands of the menu, the workspaces, and what an install puts on the   *)
(* host and takes away. They share no state here: part says which one a    *)
(* behaviour is of, and its variables are the first of x1, x2, ...; those  *)
(* it does not need are Blank.                                             *)
(***************************************************************************)
EXTENDS Naturals, Sequences, FiniteSets, TLC

CONSTANTS
  Phones, NoDevice, Prompts, MaxKeys, MaxPending, MaxPeople, MaxSockets, MaxLeases, MaxVoiceEdits, MaxRuns,
  MaxWork, Workers, Watched, Demands, MaxMoves, MaxEdits, MaxMade, MaxActs, MaxTurns, Spaces, Windows,
  MaxTime, MaxMoved, MaxShown, Devices, MaxStore, MaxTaps, MaxSends, MaxRowEdits, MaxVersions, PamMaxRuns,
  FileMaxEdits, FileMaxRuns, ServeMaxTurns, ServeMaxRuns, SunMaxTurns, SunMaxRuns, Daemons, MaxStarts,
  Blank, d1, d2, g1, g2, g3

\* A device makes a key at least, and the user has written Voxtype's file at least once.
ASSUME ApproveAssumption == NoDevice \notin Phones /\ MaxKeys \in Nat \ {0} /\ MaxPeople \in Nat
ASSUME MicAssumption == MaxSockets \in Nat /\ MaxLeases \in Nat /\ MaxVoiceEdits \in Nat \ {0}
ASSUME CondAssumption == MaxMoves \in Nat
\* There is a workspace, a window and a moment; the vendor's file and the person's say something.
ASSUME DeskAssumption ==
  /\ Spaces # {} /\ Windows # {} /\ MaxTime \in Nat \ {0} /\ {MaxMoved, MaxShown, MaxMade} \subseteq Nat
  /\ {MaxStore, MaxSends, MaxRowEdits} \subseteq Nat
ASSUME FilesAssumption ==
  /\ MaxVersions \in Nat \ {0, 1} /\ {MaxRuns, FileMaxEdits, MaxStarts} \subseteq Nat

VARIABLES
  part, x1, x2, x3, x4, x5, x6, x7, x8, x9, x10, x11, x12, x13, x14, x15, x16, x17, x18, x19

Approve == INSTANCE Approvals WITH
  paired <- x1, held <- x2, store <- x3, lock <- x4, enrol <- x5, revoke <- x6, root <- x7, offer <- x8,
  helper <- x9, record <- x10, cards <- x11, answers <- x12, told <- x13, acts <- x14, Devices <- Phones,
  MaxActs <- MaxPeople
Mic == INSTANCE Microphone WITH
  lease <- x1, leases <- x2, revoked <- x3, sock <- x4, attached <- x5, last <- x6, vlast <- x7,
  holder <- x8, mic <- x9, mods <- x10, dict <- x11, edits <- x12, calm <- x13, config <- x14,
  backup <- x15, default <- x16, spoiled <- x17, MaxEdits <- MaxVoiceEdits
Tree == INSTANCE InstalledTrees WITH
  venv <- x1, ids <- x2, tree <- x3, kept <- x4, work <- x5, run <- x6, runs <- x7
Cond == INSTANCE Conditions WITH
  rows <- x1, value <- x2, told <- x3, entries <- x4, reading <- x5, due <- x6, inflight <- x7,
  watched <- x8, stale <- x9, events <- x10, thread <- x11, dirty <- x12, shelf <- x13, over <- x14,
  overlap <- x15, missed <- x16, edits <- x17, revived <- x18, Files <- Watched
Layout == INSTANCE WorkspaceLayout WITH
  here <- x1, layout <- x2, file <- x3, temp <- x4, left <- x5, made <- x6, owned <- x7, binding <- x8,
  fresh <- x9, step <- x10, from <- x11, expected <- x12, staged <- x13, result <- x14, acts <- x15,
  turns <- x16, quiet <- x17
Probe == INSTANCE WorkspaceProbe WITH
  desk <- x1, shown <- x2, tokens <- x3, revision <- x4, gen <- x5, probe <- x6, copy <- x7, act <- x8,
  back <- x9, moved <- x10, acts <- x11, MaxActs <- MaxMoved
Call == INSTANCE Invocations WITH
  text <- x1, edits <- x2, compiled <- x3, owned <- x4, copy <- x5, tap <- x6, taps <- x7, store <- x8,
  arms <- x9, refused <- x10, job <- x11, ran <- x12, runs <- x13, forgotten <- x14, stale <- x15,
  MaxEdits <- MaxRowEdits
Pam == INSTANCE PamStack WITH
  vendor <- x1, live <- x2, backup <- x3, absent <- x4, helper <- x5, keys <- x6, dropin <- x7,
  manifest <- x8, run <- x9, result <- x10, runs <- x11, versions <- x12, theirs <- x13, raced <- x14,
  killed <- x15, deleted <- x16, updated <- x17, MaxRuns <- PamMaxRuns
File == INSTANCE HostFiles WITH
  file <- x1, mine <- x2, raced <- x3, apps <- x4, wanted <- x5, backup <- x6, vox <- x7, daemon <- x8,
  keys <- x9, rules <- x10, pam <- x11, sources <- x12, run <- x13, result <- x14, edits <- x15,
  runs <- x16, MaxEdits <- FileMaxEdits, MaxRuns <- FileMaxRuns
Serve == INSTANCE ServeMapping WITH
  map <- x1, made <- x2, theirs <- x3, record <- x4, run <- x5, raced <- x6, turns <- x7, runs <- x8,
  MaxTurns <- ServeMaxTurns, MaxRuns <- ServeMaxRuns
Sun == INSTANCE SunshineUnit WITH
  unit <- x1, packaged <- x2, dropins <- x3, enabled <- x4, active <- x5, chosen <- x6, record <- x7,
  config <- x8, clients <- x9, tree <- x10, aside <- x11, login <- x12, run <- x13, result <- x14,
  meddled <- x15, built <- x16, raced <- x17, turns <- x18, runs <- x19, MaxTurns <- SunMaxTurns,
  MaxRuns <- SunMaxRuns
Sock == INSTANCE LocalSocket WITH
  path <- x1, link <- x2, at <- x3, saw <- x4, mine <- x5, linked <- x6, listens <- x7, asked <- x8,
  stolen <- x9, inodes <- x10, bound <- x11
all == <<part, x1, x2, x3, x4, x5, x6, x7, x8, x9, x10, x11, x12, x13, x14, x15, x16, x17, x18, x19>>

Init ==
  \/ part = "approve" /\ Approve!Init
     /\ x15 = Blank /\ x16 = Blank /\ x17 = Blank /\ x18 = Blank /\ x19 = Blank
  \/ part = "mic" /\ Mic!Init
     /\ x18 = Blank /\ x19 = Blank
  \/ part = "tree" /\ Tree!Init
     /\ x8 = Blank /\ x9 = Blank /\ x10 = Blank /\ x11 = Blank /\ x12 = Blank /\ x13 = Blank /\ x14 = Blank
     /\ x15 = Blank /\ x16 = Blank /\ x17 = Blank /\ x18 = Blank /\ x19 = Blank
  \/ part = "cond" /\ Cond!Init /\ x19 = Blank
  \/ part = "layout" /\ Layout!Init
     /\ x18 = Blank /\ x19 = Blank
  \/ part = "probe" /\ Probe!Init
     /\ x12 = Blank /\ x13 = Blank /\ x14 = Blank /\ x15 = Blank /\ x16 = Blank /\ x17 = Blank
     /\ x18 = Blank /\ x19 = Blank
  \/ part = "call" /\ Call!Init
     /\ x16 = Blank /\ x17 = Blank /\ x18 = Blank /\ x19 = Blank
  \/ part = "pam" /\ Pam!Init
     /\ x18 = Blank /\ x19 = Blank
  \/ part = "file" /\ File!Init
     /\ x17 = Blank /\ x18 = Blank /\ x19 = Blank
  \/ part = "serve" /\ Serve!Init
     /\ x9 = Blank /\ x10 = Blank /\ x11 = Blank /\ x12 = Blank /\ x13 = Blank /\ x14 = Blank /\ x15 = Blank
     /\ x16 = Blank /\ x17 = Blank /\ x18 = Blank /\ x19 = Blank
  \/ part = "sun" /\ Sun!Init
  \/ part = "sock" /\ Sock!Init
     /\ x12 = Blank /\ x13 = Blank /\ x14 = Blank /\ x15 = Blank /\ x16 = Blank
     /\ x17 = Blank /\ x18 = Blank /\ x19 = Blank
Next ==
  \/ part = "approve" /\ Approve!Next /\ UNCHANGED <<part, x15, x16, x17, x18, x19>>
  \/ part = "mic" /\ Mic!Next /\ UNCHANGED <<part, x18, x19>>
  \/ part = "tree" /\ Tree!Next /\ UNCHANGED <<part, x8, x9, x10, x11, x12, x13, x14, x15, x16, x17, x18, x19>>
  \/ part = "cond" /\ Cond!Next /\ UNCHANGED <<part, x19>>
  \/ part = "layout" /\ Layout!Next /\ UNCHANGED <<part, x18, x19>>
  \/ part = "probe" /\ Probe!Next /\ UNCHANGED <<part, x12, x13, x14, x15, x16, x17, x18, x19>>
  \/ part = "call" /\ Call!Next /\ UNCHANGED <<part, x16, x17, x18, x19>>
  \/ part = "pam" /\ Pam!Next /\ UNCHANGED <<part, x18, x19>>
  \/ part = "file" /\ File!Next /\ UNCHANGED <<part, x17, x18, x19>>
  \/ part = "serve" /\ Serve!Next /\ UNCHANGED <<part, x9, x10, x11, x12, x13, x14, x15, x16, x17, x18, x19>>
  \/ part = "sun" /\ Sun!Next /\ UNCHANGED <<part>>
  \/ part = "sock" /\ Sock!Next /\ UNCHANGED <<part, x12, x13, x14, x15, x16, x17, x18, x19>>
Spec == Init /\ [][Next]_all

Perms == Permutations(Phones) \cup Permutations(Daemons)

-----------------------------------------------------------------------------
\* Every part keeps its types.
TypeOK ==
  /\ part = "approve" => Approve!TypeOK
  /\ part = "mic" => Mic!TypeOK
  /\ part = "tree" => Tree!TypeOK
  /\ part = "cond" => Cond!TypeOK
  /\ part = "layout" => Layout!TypeOK
  /\ part = "probe" => Probe!TypeOK
  /\ part = "call" => Call!TypeOK
  /\ part = "pam" => Pam!TypeOK
  /\ part = "file" => File!TypeOK
  /\ part = "serve" => Serve!TypeOK
  /\ part = "sun" => Sun!TypeOK
  /\ part = "sock" => Sock!TypeOK

\* A revoked device has no key, a prompt has one outcome, and what is granted was signed
\* by the key root trusts.
ApprovalIsSound == part = "approve" => Approve!RevokedHasNoKey /\ Approve!OneOutcome /\ Approve!GrantIsSigned
\* One microphone is loaded at a time, the configuration of the user is whole or its copy
\* is, and dictation leaves what it found.
MicrophoneKept == part = "mic" => Mic!OneMicrophone /\ Mic!ConfigIsSafe /\ Mic!DictationRestores
\* What a phone is shown of the desk's conditions was read after they last fired, one
\* command of a person is run once and as confirmed, and a workspace or its layout is
\* changed as it was read and reported as it is.
DeskAsAsked ==
  /\ part = "cond" => Cond!QuietIsRead /\ Cond!OneShell /\ Cond!ShelfIsMarked
  /\ part = "layout" => Layout!OthersFileKept /\ Layout!AsReported
  /\ part = "probe" => Probe!ReadbackStands /\ Probe!MovesTheShown
  /\ part = "call" => Call!RunsOnce /\ Call!RunsConfirmed /\ Call!RunsTheSource
\* The work of a person in a checkout outlives every run of the installer, an update that
\* fails leaves what ran before, and a directory of theirs is never moved or removed.
TreesAreKept ==
  /\ [](part = "tree" => Tree!WorkIsKept /\ Tree!FailedUpdateKeeps)
  /\ [][part = "tree" => Tree!NotMoved]_all
\* What an install adds to the host's own files is all that a removal takes away, a
\* person's file, mapping, Sunshine or PAM line stays, what runs has its login, and a daemon
\* that listens keeps its socket.  Each part names what it exempts: the lines of a file that is
\* written while core rewrites it or while the daemon the removal did not stop still runs
\* (HostFiles), a Sunshine the removal did not stop (SunshineUnit), and the inode that changed
\* under a daemon between its look and its unlink (LocalSocket).
HostFilesKept ==
  /\ part = "pam" => Pam!TheirsKept /\ Pam!RemovedIsGone /\ Pam!LinesHaveHelper
  /\ part = "file" => File!PersonsFileStays /\ File!AppsKept /\ File!PamNeedsSources /\ File!RemovedIsComplete
  /\ part = "serve" => Serve!UsersMappingStays
  /\ part = "sun" => Sun!PersonsSunshineStays /\ Sun!BuildsAreKept /\ Sun!RunsLocked
  /\ part = "sock" => Sock!ListenerWins
=============================================================================
