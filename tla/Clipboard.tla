----------------------------- MODULE Clipboard -----------------------------
(***************************************************************************)
(* The host's clipboard shared with paired devices (clipboard.py).  A      *)
(* device reads and writes it under one preference; a watcher thread reads *)
(* a line from `wl-paste --watch` for every change of the selection and    *)
(* announces the change, at most once per THROTTLE and never when it is    *)
(* the text a device just wrote.  The announcement carries no text: what a *)
(* device has to go on is that there was one.                              *)
(*                                                                         *)
(* A text is a member of Texts; None is an empty clipboard and Picture one *)
(* that holds no text.  The lock of the service is held by nobody, by the  *)
(* write between its `wl-copy` and the note of its digest, or for the      *)
(* whole of a read, so a read is one step here.  stop() waits two seconds  *)
(* for its thread, which can be four in `wl-paste`: a thread that outlives *)
(* that wait goes on when the watcher is started again.                    *)
(***************************************************************************)
EXTENDS Naturals, FiniteSets

CONSTANTS Texts, None, Picture,
          Threads,    \* watcher threads, in the order they are made
          MaxCopies,  \* bound on the selections the person makes
          MaxSwitch,  \* bound on the writes of the preference
          MaxWrites,  \* bound on the texts devices write
          MaxFaults   \* bound on the reads the compositor does not answer

Modes == {"off", "host_to_device", "both"}
Watching == {"host_to_device", "both"}

VARIABLES
  clip,     \* the selection of the desktop
  mode,     \* preference clipboard_sync
  stop,     \* Event _stop
  thread,   \* _thread: the newest thread, or 0
  at,       \* thread -> where it is
  lines,    \* thread -> its wl-paste has lines nobody read
  killed,   \* thread -> its wl-paste is dead
  echo,     \* _echo
  hot,      \* less than THROTTLE since _last_event
  pending,  \* _pending
  writing,  \* the text a device's write holds the lock with, or None
  applying, \* apply() of a preference just written is still to run
  known,    \* the text devices last wrote or were told of
  news,     \* texts announced, in the order they were: the last two
  missed,   \* a read failed, or was of no text, since the last announcement
  copies, switches, writes, faults

clipVars == <<clip, mode, stop, thread, at, lines, killed, echo, hot, pending,
              writing, applying, known, news, missed, copies, switches, writes, faults>>

Alive(t) == at[t] \in {"open", "line", "check", "hold", "flush", "rest"}
\* apply() made it, and its wl-paste runs
Listens(t) == at[t] \in {"line", "check", "hold", "flush"} /\ ~killed[t]

TypeOK ==
  /\ clip \in Texts \cup {None, Picture} /\ mode \in Modes /\ stop \in BOOLEAN
  /\ thread \in Threads \cup {0}
  /\ at \in [Threads -> {"none", "open", "line", "check", "hold", "flush", "rest", "ended"}]
  /\ lines \in [Threads -> BOOLEAN] /\ killed \in [Threads -> BOOLEAN]
  /\ {echo, known, writing} \subseteq Texts \cup {None}
  /\ {hot, pending, applying, missed} \subseteq BOOLEAN
  /\ news \in [told : Texts \cup {None}, before : Texts \cup {None}]

Init ==
  /\ clip = None /\ mode \in {"off", "both"} /\ stop = FALSE /\ thread = 0
  /\ at = [t \in Threads |-> "none"]
  /\ lines = [t \in Threads |-> FALSE] /\ killed = [t \in Threads |-> FALSE]
  /\ echo = None /\ hot = FALSE /\ pending = FALSE /\ writing = None
  /\ applying = TRUE /\ known = None
  /\ news = [told |-> None, before |-> None] /\ missed = FALSE
  /\ copies = 0 /\ switches = 0 /\ writes = 0 /\ faults = 0

\* Every wl-paste --watch says a line when the selection changes.
Heard == lines' = [t \in Threads |-> lines[t] \/ Listens(t)]

-----------------------------------------------------------------------------
(* The desktop and the settings page.                                      *)

PersonCopies ==
  /\ copies < MaxCopies /\ copies' = copies + 1
  /\ clip' \in (Texts \cup {None, Picture}) \ {clip}
  /\ Heard
  /\ missed' = (missed \/ clip' \notin Texts)
  /\ UNCHANGED <<mode, stop, thread, at, killed, echo, hot, pending, writing,
                 applying, known, news, switches, writes, faults>>

SetPreference ==
  /\ switches < MaxSwitch /\ ~applying
  /\ switches' = switches + 1
  /\ mode' \in Modes \ {mode} /\ applying' = TRUE
  /\ UNCHANGED <<clip, stop, thread, at, lines, killed, echo, hot, pending, writing,
                 known, news, missed, copies, writes, faults>>

\* start(): nothing when the thread of the last start lives.
Start ==
  /\ applying /\ writing = None /\ mode \in Watching
  /\ applying' = FALSE
  /\ IF thread # 0 /\ Alive(thread)
       THEN UNCHANGED <<thread, at, stop>>
       ELSE \E t \in Threads :
              /\ at[t] = "none" /\ \A u \in Threads : u < t => at[u] # "none"
              /\ thread' = t /\ at' = [at EXCEPT ![t] = "open"] /\ stop' = FALSE
  /\ UNCHANGED <<clip, mode, lines, killed, echo, hot, pending, writing, known, news,
                 missed, copies, switches, writes, faults>>

\* stop(): the last thread's wl-paste is killed; join() may give up on a
\* thread that is inside changed().
Stop ==
  /\ applying /\ writing = None /\ mode \notin Watching
  /\ applying' = FALSE /\ stop' = TRUE /\ thread' = 0
  /\ killed' = [t \in Threads |-> killed[t] \/ t = thread]
  /\ UNCHANGED <<clip, mode, lines, echo, hot, pending, writing, known, news, missed,
                 copies, switches, writes, faults>>
  /\ \/ at' = [t \in Threads |-> IF t = thread /\ Alive(t) THEN "ended" ELSE at[t]]
     \/ /\ \E t \in Threads : t = thread /\ at[t] \in {"check", "flush"}
        /\ UNCHANGED at

-----------------------------------------------------------------------------
(* A device's write: wl-copy and the digest, under the lock.               *)

Holds == writing # None
\* wl-copy has the selection, the digest is not noted yet.
WlCopy ==
  /\ ~Holds /\ mode = "both" /\ writes < MaxWrites
  /\ writes' = writes + 1
  /\ \E text \in Texts : clip' = text /\ writing' = text /\ known' = text
  /\ Heard
  /\ UNCHANGED <<mode, stop, thread, at, killed, echo, hot, pending, applying,
                 news, missed, copies, switches, faults>>

NoteEcho ==
  /\ Holds
  /\ echo' = writing /\ writing' = None
  /\ UNCHANGED <<clip, mode, stop, thread, at, lines, killed, hot, pending, applying,
                 known, news, missed, copies, switches, writes, faults>>

\* wl-copy did not end in time: the device is refused, whatever the selection is.
WriteFails ==
  /\ Holds /\ faults < MaxFaults
  /\ faults' = faults + 1
  /\ writing' = None /\ known' = echo
  /\ UNCHANGED <<clip, mode, stop, thread, at, lines, killed, echo, hot, pending,
                 applying, news, missed, copies, switches, writes>>

-----------------------------------------------------------------------------
(* _watch_loop and changed().                                              *)

\* A wl-paste is made; it says a line for the selection it finds.
Open(t) ==
  /\ at[t] = "open" /\ ~Holds
  /\ at' = [at EXCEPT ![t] = IF stop THEN "ended" ELSE "line"]
  /\ killed' = [killed EXCEPT ![t] = FALSE]
  /\ lines' = [lines EXCEPT ![t] = ~stop]
  /\ UNCHANGED <<clip, mode, stop, thread, echo, hot, pending, writing, applying, known,
                 news, missed, copies, switches, writes, faults>>

\* readline(): a line, or the end of a wl-paste that is gone.
ReadLine(t) ==
  /\ at[t] = "line" /\ (lines[t] \/ killed[t] \/ stop)
  /\ at' = [at EXCEPT ![t] = IF lines[t] /\ ~stop THEN "check" ELSE "rest"]
  /\ lines' = [lines EXCEPT ![t] = FALSE]
  /\ UNCHANGED <<clip, mode, stop, thread, killed, echo, hot, pending, writing, applying,
                 known, news, missed, copies, switches, writes, faults>>

\* The session went away, and its wl-paste with it.
WatcherDies(t) ==
  /\ Listens(t) /\ faults < MaxFaults
  /\ faults' = faults + 1
  /\ killed' = [killed EXCEPT ![t] = TRUE]
  /\ UNCHANGED <<clip, mode, stop, thread, at, lines, echo, hot, pending, writing,
                 applying, known, news, missed, copies, switches, writes>>

Rest(t) ==
  /\ at[t] = "rest"
  /\ at' = [at EXCEPT ![t] = IF stop THEN "ended" ELSE "open"]
  /\ UNCHANGED <<clip, mode, stop, thread, lines, killed, echo, hot, pending, writing,
                 applying, known, news, missed, copies, switches, writes, faults>>

\* What a wl-paste answers with: the text, no text, or no answer in time.
IsNews == clip \in Texts /\ clip # echo
Announce ==
  /\ echo' = clip /\ known' = clip
  /\ news' = [told |-> clip, before |-> known]
  /\ missed' = FALSE
ReadBytes ==
  \/ IsNews /\ Announce /\ UNCHANGED faults
  \/ ~IsNews /\ UNCHANGED <<echo, known, news, missed, faults>>
  \/ /\ faults < MaxFaults /\ faults' = faults + 1
     /\ missed' = TRUE /\ UNCHANGED <<echo, known, news>>

Free == ~Holds
Held(t) == /\ at' = [at EXCEPT ![t] = IF @ = "check" THEN "hold" ELSE "line"]
           /\ pending' = TRUE
           /\ UNCHANGED <<echo, known, news, missed, faults, hot>>

\* changed() with the preference off.
NotWanted(t) ==
  /\ at[t] \in {"check", "flush"} /\ mode \notin Watching
  /\ at' = [at EXCEPT ![t] = IF pending /\ at[t] = "check" THEN "hold" ELSE "line"]
  /\ UNCHANGED <<clip, mode, stop, thread, lines, killed, echo, hot, pending, writing,
                 applying, known, news, missed, copies, switches, writes, faults>>

Changed(t) ==
  /\ at[t] \in {"check", "flush"} /\ mode \in Watching /\ Free
  /\ \/ hot /\ Held(t)
     \/ /\ ~hot
        /\ hot' = TRUE /\ pending' = FALSE
        /\ at' = [at EXCEPT ![t] = "line"]
        /\ ReadBytes
  /\ UNCHANGED <<clip, mode, stop, thread, lines, killed, writing, applying, copies,
                 switches, writes>>

\* The window is over: the clock passes what _last_event allows.
Elapse ==
  /\ hot /\ hot' = FALSE
  /\ UNCHANGED <<clip, mode, stop, thread, at, lines, killed, echo, pending, writing,
                 applying, known, news, missed, copies, switches, writes, faults>>

\* flush() after the wait of a held change; a stop ends the wait.
Flush(t) ==
  /\ at[t] = "hold" /\ Free /\ (stop \/ ~hot)
  /\ at' = [at EXCEPT ![t] = CASE stop    -> "rest"
                               [] pending -> "flush"
                               [] OTHER   -> "line"]
  /\ pending' = (pending /\ stop)
  /\ hot' = (hot /\ stop)
  /\ UNCHANGED <<clip, mode, stop, thread, lines, killed, echo, writing, applying,
                 known, news, missed, copies, switches, writes, faults>>

Next ==
  \/ PersonCopies \/ SetPreference \/ Start \/ Stop
  \/ WlCopy \/ NoteEcho \/ WriteFails \/ Elapse
  \/ \E t \in Threads : Open(t) \/ ReadLine(t) \/ WatcherDies(t) \/ Rest(t)
                        \/ NotWanted(t) \/ Changed(t) \/ Flush(t)

Spec == Init /\ [][Next]_clipVars
-----------------------------------------------------------------------------
(***************************************************************************)
(* A device is never told of the text it has: what is announced differs    *)
(* from what devices last wrote or were told, with a write, a burst and a  *)
(* leftover watcher in any order.                                          *)
(***************************************************************************)
OwnWriteIsNotNews == news.told # None => news.told # news.before

(***************************************************************************)
(* A burst ends with the truth on the wire: when nobody has a line to read *)
(* and the watcher waits, the text on the clipboard is the one devices     *)
(* know of, unless a read of it failed.                                    *)
(***************************************************************************)
Waits == /\ thread # 0 /\ at[thread] = "line" /\ ~lines[thread] /\ ~killed[thread]
         /\ \A t \in Threads : at[t] \notin {"check", "hold", "flush"}
         /\ mode \in Watching /\ ~applying /\ writing = None
LastIsTold == Waits /\ ~missed /\ clip \in Texts => clip = known

-----------------------------------------------------------------------------
ThreadsOK ==
  /\ at \in [Threads -> {"none", "open", "line", "check", "hold", "flush", "rest", "ended"}]
  /\ lines \in [Threads -> BOOLEAN] /\ killed \in [Threads -> BOOLEAN]
  /\ thread \in Threads \cup {0} /\ mode \in Modes
  /\ stop => thread = 0
  /\ ~applying /\ mode \notin Watching => thread = 0
\* What devices know is the text of the write that holds the lock, or the digest.
EchoOK == known = IF writing = None THEN echo ELSE writing
\* Somebody still has to read: a line is waiting, or a thread is on its way to the clipboard.
Owed == /\ clip \in Texts /\ ~missed /\ (clip # known \/ writing # None)
        /\ mode \in Watching /\ thread # 0 /\ Listens(thread)
Coming == \/ lines[thread]
          \/ \E t \in Threads : \/ at[t] = "check"
                                \/ at[t] = "flush" /\ ~hot
                                \/ at[t] = "hold" /\ pending
OwedIsComing == Owed => Coming
ClipInv == ThreadsOK /\ EchoOK /\ OwedIsComing /\ OwnWriteIsNotNews
=============================================================================
