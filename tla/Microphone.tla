----------------------------- MODULE Microphone -----------------------------
(***************************************************************************)
(* The one virtual microphone of the host and the two that may own it:     *)
(* audio_uplink.py (a socket of the remote session), voice_service.py (a   *)
(* socket of its own, and dictation), audio_virtual_input.py (the modules  *)
(* on the audio server) and voice.py (Voxtype's file, the default source). *)
(*                                                                         *)
(* A socket's number is also the generation its device sends: it numbers   *)
(* its captures upwards.  A module has the side that loaded it, or is a    *)
(* stray of nobody.  That a command or a writer fails is a choice.         *)
(***************************************************************************)
EXTENDS Naturals

CONSTANTS
  MaxSockets, \* sockets that are ever opened
  MaxLeases,  \* remote sessions there ever are
  MaxEdits    \* times the user writes Voxtype's file

VARIABLES
  lease,    \* the remote session that is live, 0 for none
  leases,   \* how many there were
  revoked,  \* the device's credential is gone
  sock,     \* each socket: its side, its step, its lease
  attached, \* AudioUplinkManager._attached
  last,     \* its _last_generation: of which lease, and the generation
  vlast,    \* VoiceService._generations
  holder,   \* MicrophoneArbiter
  mic,      \* the session of each side: its step and its socket
  mods,     \* whose the sink and the remapped source on the audio server are
  dict,     \* the dictation: its step, its route and the default source before it
  edits,    \* what the user wrote in Voxtype's file last
  calm,     \* what the user wrote last while no dictation was on
  config,   \* the file: the user's version, and whether it names our source
  backup,   \* the copy beside it
  default,  \* the default source
  spoiled   \* a restart or a failure cut a dictation's restoration short

micVars == <<lease, leases, revoked, sock, attached, last, vlast, holder, mic, mods, dict, edits, calm, config, backup, default, spoiled>>
leaseVars == <<lease, leases, revoked>>
chanVars  == <<sock, attached, last, vlast>>
dictVars  == <<dict, edits, calm, config, backup, spoiled>>

Sockets == 1..MaxSockets
Sides   == {"remote", "voice"}
Kinds   == {"sink", "remap"}
Idle    == [at |-> "none", chan |-> 0]
NoDict  == [at |-> "none", route |-> "none", prev |-> "none"]
NoCopy  == [edit |-> 0, ours |-> FALSE]

\* Each side does one job at a time: AudioUplinkManager._lock, VoiceService._lock.
Free(s) == mic[s].at \in {"none", "active", "pending"} /\ (s = "voice" => dict.at \in {"none", "recording"})
Allowed(c) == ~revoked /\ lease # 0 /\ sock[c].lease = lease

-----------------------------------------------------------------------------
(* The modules on the audio server *)

Without(s, gone) == [k \in Kinds |-> IF mods[k] = s /\ k \in gone THEN "none" ELSE mods[k]]

\* _cleanup_modules: the source before the sink it is made from, as far as it gets.
Tries(s) == {Without(s, {}), Without(s, {"remap"}), Without(s, Kinds)}

\* A default source that is gone is replaced by the server.
Served(m) ==
  /\ mods' = m
  /\ default' = IF default = "mic" /\ m["remap"] = "none" THEN "other" ELSE default

\* Slip: what could not be unloaded is left to nobody.
CleanedAnyway(s, m) ==
  /\ mic' = [mic EXCEPT ![s] = Idle] /\ holder' = "none" /\ Served(m)
\* A failed cleanup keeps the session and the arbiter for another try.
Cleaned(s, m) ==
  /\ IF \A k \in Kinds : m[k] # s THEN mic' = [mic EXCEPT ![s] = Idle] /\ holder' = "none"
     ELSE mic' = [mic EXCEPT ![s].at = "pending"] /\ UNCHANGED holder
  /\ Served(m)
Detached(s, m) == IF s = "remote" /\ \A k \in Kinds : m[k] # s THEN 0 ELSE attached

\* begin: modules of that name that a crash left are unloaded first.
Reclaim(s) ==
  /\ mic[s].at = "reclaim" /\ mic' = [mic EXCEPT ![s].at = "sink"]
  /\ Served([k \in Kinds |-> "none"])
  /\ UNCHANGED <<leaseVars, chanVars, holder, dictVars>>
Load(s, k) ==
  /\ mic[s].at = k /\ mods[k] = "none" /\ mods' = [mods EXCEPT ![k] = s]
  /\ mic' = [mic EXCEPT ![s].at = IF k = "sink" THEN "remap" ELSE "check"]
  /\ UNCHANGED <<leaseVars, chanVars, holder, dictVars, default>>
\* Verified, and the writer is up; the manager looks at the lease again.
Begun(s) ==
  LET c == mic[s].chan IN
  /\ mic[s].at = "check" /\ (s = "remote" => Allowed(c))
  /\ mic' = [mic EXCEPT ![s].at = "active"] /\ sock' = [sock EXCEPT ![c].at = "begun"]
  /\ vlast' = IF s = "voice" THEN c ELSE vlast
  /\ UNCHANGED <<leaseVars, attached, last, holder, mods, dictVars, default>>
\* Any of these fails.  The manager keeps what is left; the voice service lets it go.
BeginFails(s) ==
  LET c == mic[s].chan IN
  /\ mic[s].at \in {"reclaim", "sink", "remap", "check"}
  /\ \E m \in Tries(s) :
       IF s = "remote" THEN Cleaned(s, m) /\ attached' = Detached(s, m)
       ELSE /\ mic' = [mic EXCEPT ![s] = Idle] /\ holder' = "none" /\ UNCHANGED attached
            /\ Served([k \in Kinds |-> IF m[k] = s THEN "stray" ELSE m[k]])
  /\ sock' = [sock EXCEPT ![c].at = "ending"]
  /\ UNCHANGED <<leaseVars, last, vlast, dictVars>>

-----------------------------------------------------------------------------
(* The sockets *)

Open(c, s) ==
  /\ sock[c].at = "new" /\ ~revoked /\ (c > 1 => sock[c - 1].at # "new") /\ (s = "remote" => lease # 0)
  /\ sock' = [sock EXCEPT ![c] = [at |-> "open", side |-> s, lease |-> IF s = "remote" THEN lease ELSE 0]]
  /\ UNCHANGED <<leaseVars, attached, last, vlast, holder, mic, mods, dictVars, default>>

\* attach: one channel of the live session, and a later one than began before.
Attach(c) ==
  /\ sock[c].at = "open" /\ sock[c].side = "remote" /\ Allowed(c)
  /\ last.lease = lease => c > last.gen
  /\ mic["remote"] = Idle /\ attached = 0
  /\ attached' = c /\ sock' = [sock EXCEPT ![c].at = "attached"]
  /\ UNCHANGED <<leaseVars, last, vlast, holder, mic, mods, dictVars, default>>

\* MicrophoneArbiter.claim
Claim(s) == holder \in {"none", s} /\ holder' = s
Starts(c, s) ==
  /\ Claim(s) /\ mic' = [mic EXCEPT ![s] = [at |-> "reclaim", chan |-> c]]
  /\ UNCHANGED <<leaseVars, sock, attached, vlast, mods, dictVars, default>>
MayBegin(c) == Free("remote") /\ sock[c].at = "attached" /\ mic["remote"] = Idle /\ Allowed(c) /\ attached = c
BeginRemote(c) == MayBegin(c) /\ Starts(c, "remote") /\ last' = [lease |-> lease, gen |-> c]
\* There is no backend to be had: the channel goes, and the arbiter stays claimed.
NoBackend(c) ==
  /\ MayBegin(c) /\ Claim("remote") /\ last' = [lease |-> lease, gen |-> c]
  /\ attached' = 0 /\ sock' = [sock EXCEPT ![c].at = "ending"]
  /\ UNCHANGED <<leaseVars, vlast, mic, mods, dictVars, default>>
BeginVoice(c) ==
  /\ Free("voice") /\ sock[c].at = "open" /\ sock[c].side = "voice" /\ mic["voice"] = Idle
  /\ c > vlast /\ Starts(c, "voice") /\ UNCHANGED last

\* The socket closes, its authority is gone, it was refused or nothing began in time.
Leaves(c) ==
  /\ sock[c].at \in {"open", "attached", "begun"} /\ \A s \in Sides : mic[s].chan = c => Free(s)
  /\ sock' = [sock EXCEPT ![c].at = "ending"]
  /\ UNCHANGED <<leaseVars, attached, last, vlast, holder, mic, mods, dictVars, default>>

\* end, of the device's own accord: the channel is the one it began.
End(c) ==
  LET s == sock[c].side IN
  /\ sock[c].at = "begun" /\ Free(s) /\ mic[s].chan = c /\ (s = "remote" => Allowed(c))
  /\ \E m \in Tries(s) : Cleaned(s, m) /\ attached' = Detached(s, m)
  /\ sock' = [sock EXCEPT ![c].at = "ending"]
  /\ UNCHANGED <<leaseVars, last, vlast, dictVars>>

\* close_channel, VoiceService.end: an old socket closes nothing newer.
ItsOwn(c) == mic[sock[c].side].chan = c
Close(c) ==
  LET s == sock[c].side IN
  /\ sock[c].at = "ending" /\ Free(s) /\ sock' = [sock EXCEPT ![c].at = "gone"]
  /\ IF ItsOwn(c) THEN \E m \in Tries(s) : Cleaned(s, m) /\ attached' = Detached(s, m)
     ELSE /\ attached' = IF attached = c THEN 0 ELSE attached
          /\ UNCHANGED <<holder, mic, mods, default>>
  /\ UNCHANGED <<leaseVars, last, vlast, dictVars>>

\* maintain, and accept when the writer is dead: a session whose lease is gone, or that
\* could not be cleaned up, or that no longer writes.
Maintain ==
  /\ mic["remote"].at \in {"active", "pending"}
  /\ \E m \in Tries("remote") : Cleaned("remote", m) /\ attached' = Detached("remote", m)
  /\ UNCHANGED <<leaseVars, sock, last, vlast, dictVars>>
Prune ==
  /\ mic["remote"] = Idle /\ attached # 0 /\ sock[attached].lease # lease /\ attached' = 0
  /\ UNCHANGED <<leaseVars, sock, last, vlast, holder, mic, mods, dictVars, default>>

-----------------------------------------------------------------------------
(* Dictation *)

\* point_at keeps the bytes before it changes one line of them; not over an older copy.
Unsaved == backup = NoCopy

\* dictation_start: Voxtype can name our source, or the default source has to be it.
DictationStart ==
  /\ Free("voice") /\ dict = NoDict /\ mic["voice"].at = "active"
  /\ \/ /\ Unsaved /\ backup' = config /\ dict' = [NoDict EXCEPT !.at = "saved", !.route = "config"]
     \/ \E prev \in {default, "unknown"} :
          dict' = [at |-> "set", route |-> "source", prev |-> prev] /\ UNCHANGED backup
  /\ UNCHANGED <<leaseVars, chanVars, holder, mic, mods, edits, calm, config, default, spoiled>>
PointAt ==
  /\ dict.at = "saved"
  /\ \/ config' = [config EXCEPT !.ours = TRUE] /\ dict' = [dict EXCEPT !.at = "restart"] /\ UNCHANGED spoiled
     \/ dict' = NoDict /\ spoiled' = TRUE /\ UNCHANGED config
  /\ UNCHANGED <<leaseVars, chanVars, holder, mic, mods, edits, calm, backup, default>>
SetDefault ==
  /\ dict.at = "set" /\ default' \in {"mic", default} /\ dict' = [dict EXCEPT !.at = "restart"]
  /\ UNCHANGED <<leaseVars, chanVars, holder, mic, mods, edits, calm, config, backup, spoiled>>
\* Recording; or a step failed, or it was stopped, and all is put back.
Recording ==
  /\ dict.at = "restart" /\ dict' = [dict EXCEPT !.at = "recording"]
  /\ UNCHANGED <<leaseVars, chanVars, holder, mic, mods, edits, calm, config, backup, default, spoiled>>
DictationStop ==
  /\ dict.at \in {"restart", "recording"} /\ (dict.at = "recording" => Free("voice"))
  /\ dict' = [dict EXCEPT !.at = "restore"]
  /\ UNCHANGED <<leaseVars, chanVars, holder, mic, mods, edits, calm, config, backup, default, spoiled>>
\* _restore
RestoreConfig ==
  /\ dict.at = "restore" /\ dict.route = "config"
  /\ \/ config' = backup /\ dict' = [dict EXCEPT !.at = "unlink"] /\ UNCHANGED spoiled
     \/ dict' = NoDict /\ spoiled' = TRUE /\ UNCHANGED config
  /\ UNCHANGED <<leaseVars, chanVars, holder, mic, mods, edits, calm, backup, default>>
Unlink ==
  /\ dict.at = "unlink" /\ backup' = NoCopy /\ dict' = NoDict
  /\ UNCHANGED <<leaseVars, chanVars, holder, mic, mods, edits, calm, config, default, spoiled>>
RestoreDefault ==
  /\ dict.at = "restore" /\ dict.route = "source" /\ dict' = NoDict
  /\ \/ dict.prev # "unknown" /\ default' = dict.prev /\ UNCHANGED spoiled
     \/ UNCHANGED default /\ spoiled' = TRUE
  /\ UNCHANGED <<leaseVars, chanVars, holder, mic, mods, edits, calm, config, backup>>

-----------------------------------------------------------------------------
(* Around it *)

LeaseBegins ==
  /\ lease = 0 /\ leases < MaxLeases /\ lease' = leases + 1 /\ leases' = leases + 1
  /\ UNCHANGED <<revoked, chanVars, holder, mic, mods, dictVars, default>>
LeaseEnds ==
  /\ lease # 0 /\ lease' = 0 /\ revoked' \in {revoked, TRUE}
  /\ UNCHANGED <<leases, chanVars, holder, mic, mods, dictVars, default>>
\* At any time: what is written while a dictation is on is overwritten when it ends.
UserWrites ==
  /\ edits < MaxEdits /\ edits' = edits + 1 /\ config' = [edit |-> edits + 1, ours |-> FALSE]
  /\ calm' = IF dict = NoDict THEN edits + 1 ELSE calm
  /\ UNCHANGED <<leaseVars, chanVars, holder, mic, mods, dict, backup, default, spoiled>>
\* The daemon ends: what it loaded stays on the audio server.
Restart ==
  /\ \E s \in Sides : mic[s] # Idle
  /\ lease' = 0 /\ attached' = 0 /\ last' = [lease |-> 0, gen |-> 0] /\ vlast' = 0
  /\ sock' = [c \in Sockets |-> IF sock[c].at = "new" THEN sock[c] ELSE [sock[c] EXCEPT !.at = "gone"]]
  /\ holder' = "none" /\ mic' = [s \in Sides |-> Idle] /\ dict' = NoDict
  /\ mods' = [k \in Kinds |-> IF mods[k] = "none" THEN "none" ELSE "stray"]
  /\ spoiled' = (spoiled \/ dict # NoDict)
  /\ UNCHANGED <<leases, revoked, edits, calm, config, backup, default>>

Init ==
  /\ lease = 0 /\ leases = 0 /\ revoked = FALSE
  /\ sock = [c \in Sockets |-> [at |-> "new", side |-> "none", lease |-> 0]]
  /\ attached = 0 /\ last = [lease |-> 0, gen |-> 0] /\ vlast = 0 /\ holder = "none"
  /\ mic = [s \in Sides |-> Idle] /\ mods = [k \in Kinds |-> "none"]
  /\ dict = NoDict /\ edits = 1 /\ calm = 1 /\ config = [edit |-> 1, ours |-> FALSE] /\ backup = NoCopy
  /\ default = "own" /\ spoiled = FALSE

Next ==
  \/ \E s \in Sides : Reclaim(s) \/ Begun(s) \/ BeginFails(s) \/ \E k \in Kinds : Load(s, k)
  \/ \E c \in Sockets :
       \/ Attach(c) \/ BeginRemote(c) \/ NoBackend(c) \/ BeginVoice(c) \/ Leaves(c) \/ End(c) \/ Close(c)
       \/ \E s \in Sides : Open(c, s)
  \/ Maintain \/ Prune
  \/ DictationStart \/ PointAt \/ SetDefault \/ Recording \/ DictationStop
  \/ RestoreConfig \/ Unlink \/ RestoreDefault
  \/ LeaseBegins \/ LeaseEnds \/ UserWrites \/ Restart
Spec == Init /\ [][Next]_micVars

TypeOK ==
  /\ lease \in 0..MaxLeases /\ leases \in 0..MaxLeases /\ revoked \in BOOLEAN /\ spoiled \in BOOLEAN
  /\ attached \in 0..MaxSockets /\ vlast \in 0..MaxSockets /\ holder \in Sides \cup {"none"}
  /\ mods \in [Kinds -> Sides \cup {"none", "stray"}]
  /\ \A s \in Sides : mic[s].chan \in 0..MaxSockets
  /\ default \in {"own", "mic", "other"} /\ edits \in 1..MaxEdits

\* The source that is open is made of its own two modules, and everything a side loaded
\* is of a session that still has the arbiter: a failed cleanup keeps both to try again.
OneMicrophone == \A s \in Sides :
  /\ mic[s].at = "active" => holder = s /\ \A k \in Kinds : mods[k] = s
  /\ \A k \in Kinds : mods[k] = s => holder = s /\ mic[s] # Idle

\* Whatever fails and whenever the daemon ends, what the user wrote in Voxtype's file is in
\* the file or in the copy beside it, and a copy never comes back over something newer;
\* but for what was written while a dictation was on.
ConfigIsSafe ==
  /\ config.edit >= calm
  /\ config.ours => backup.edit >= calm /\ ~backup.ours

\* A dictation that ended without a fault leaves the file, the copy and the default source
\* as they were, also when its microphone went away under it.
DictationRestores ==
  dict = NoDict /\ ~spoiled => default = "own" /\ ~config.ours /\ backup = NoCopy

\* What keeps them: who is not idle holds the arbiter, and has loaded what its step says;
\* the copy a dictation took is of the user's last quiet version until it is back, and
\* what the dictation will restore is what it found.
MicSteps  == {"none", "reclaim", "sink", "remap", "check", "active", "pending"}
DictSteps == {"none", "saved", "set", "restart", "recording", "restore", "unlink"}
Copies    == [edit : Nat, ours : BOOLEAN]
SockSteps == {"new", "open", "attached", "begun", "ending", "gone"}
Socks     == [at : SockSteps, side : Sides \cup {"none"}, lease : 0..MaxLeases]
SockOK == /\ sock \in [Sockets -> Socks]
          /\ \A c \in Sockets : sock[c].at # "new" => sock[c].side \in Sides
ChanOpen == \A s \in Sides : mic[s].chan \in Sockets => sock[mic[s].chan].at # "new"
MicOK  == mic \in [Sides -> [at : MicSteps, chan : 0..MaxSockets]]
DictOK == /\ dict \in [at : DictSteps, route : {"none", "config", "source"},
                       prev : {"none", "unknown", "own", "mic", "other"}]
          /\ dict.at = "none" => dict = NoDict
          /\ dict.route = "source" => dict.prev # "none"
FileOK == config \in Copies /\ backup \in Copies /\ calm \in 1..MaxEdits
HolderHasIt == \A s \in Sides : /\ mic[s] # Idle => holder = s
                                /\ mic[s] = Idle <=> mic[s].at = "none"
LoadedInTurn == \A s \in Sides :
  /\ mic[s].at = "sink" => \A k \in Kinds : mods[k] = "none"
  /\ mic[s].at = "remap" => mods["sink"] = s /\ mods["remap"] = "none"
  /\ mic[s].at \in {"check", "active"} => \A k \in Kinds : mods[k] = s
  /\ \A k \in Kinds : mods[k] = s => mic[s] # Idle
CopyIsKept ==
  /\ config.edit >= calm /\ calm <= edits /\ (config.ours => backup.edit >= calm /\ ~backup.ours)
  /\ dict.at \in {"saved", "restart", "recording", "restore"} /\ dict.route = "config"
       => backup.edit >= calm /\ ~backup.ours
  /\ dict.at = "saved" => dict.route = "config"
  /\ dict.at = "set" => dict.route = "source"
  /\ dict.at = "unlink" => ~config.ours
Unspoiled ==
  ~spoiled =>
    /\ dict = NoDict => default = "own" /\ ~config.ours /\ backup = NoCopy
    /\ dict.at \in {"saved", "unlink"} => default = "own" /\ ~config.ours
    /\ dict.route = "config" => default = "own"
    /\ dict.route = "source" => dict.prev \in {"own", "unknown"} /\ ~config.ours /\ backup = NoCopy
    /\ dict.at # "none" => dict.route # "none"
MicInv == /\ TypeOK /\ SockOK /\ MicOK /\ ChanOpen /\ DictOK /\ FileOK
          /\ HolderHasIt /\ LoadedInTurn /\ CopyIsKept /\ Unspoiled
=============================================================================
