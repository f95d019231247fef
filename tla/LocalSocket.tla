---------------------------- MODULE LocalSocket ----------------------------
(***************************************************************************)
(* The socket a daemon answers the desktop on (ipc.py) and the link the    *)
(* path of an older release is kept as.  A start reclaims the inode a      *)
(* killed daemon left, binds, makes the link and listens; a close removes  *)
(* the link and the inode, each only when it is its own.                   *)
(*                                                                         *)
(* Each look at the path and each change of it is a system call, and an    *)
(* action: others act between a look and the unlink it permits, between    *)
(* bind() and the lstat that takes the inode's name, and between bind()    *)
(* and listen(), where nobody answers.  An inode number is never used      *)
(* twice (the socket is on a tmpfs, which counts them).                    *)
(***************************************************************************)
EXTENDS Naturals, FiniteSets

CONSTANTS Daemons,   \* daemons that are started, by systemd or by hand
          MaxStarts  \* bound on starts, the inodes there can be

VARIABLES
  path,    \* the inode at the path, or 0
  link,    \* the compatibility path: "none", "link" or "theirs"
  at,      \* daemon -> where its start, its life or its close is
  saw,     \* daemon -> the inode its last lstat found
  mine,    \* daemon -> _socket_identity, or 0
  linked,  \* daemon -> _linked
  listens, \* the inodes somebody listens on
  asked,   \* daemon -> the inode that refused its probe, or 0
  stolen,  \* history: how listening inodes were removed by others than their daemons
  inodes,  \* how many were made
  bound    \* daemon -> the inode it bound, or 0

socketVars == <<path, link, at, saw, mine, linked, listens, asked, stolen, inodes, bound>>

Steps == {"down", "look", "probe", "again", "unlink", "bind", "name", "listen", "up", "shut", "remove"}

TypeOK ==
  /\ path \in 0..MaxStarts /\ link \in {"none", "link", "theirs"}
  /\ at \in [Daemons -> Steps] /\ saw \in [Daemons -> 0..MaxStarts]
  /\ mine \in [Daemons -> 0..MaxStarts] /\ linked \in [Daemons -> BOOLEAN]
  /\ listens \subseteq 1..MaxStarts /\ stolen \subseteq {"known", "swapped"}
  /\ {asked, bound} \subseteq [Daemons -> 0..MaxStarts] /\ inodes \in 0..MaxStarts

Nobody == [d \in Daemons |-> 0]
Init ==
  /\ path = 0 /\ link \in {"none", "theirs"}
  /\ at = [d \in Daemons |-> "down"] /\ linked = [d \in Daemons |-> FALSE]
  /\ saw = Nobody /\ mine = Nobody /\ asked = Nobody /\ bound = Nobody
  /\ listens = {} /\ stolen = {} /\ inodes = 0

To(d, step) == at' = [at EXCEPT ![d] = step]
Forgets(d)  == /\ saw' = [saw EXCEPT ![d] = 0] /\ asked' = [asked EXCEPT ![d] = 0]
               /\ mine' = [mine EXCEPT ![d] = 0] /\ bound' = [bound EXCEPT ![d] = 0]
Ends(d)     == To(d, "down") /\ Forgets(d)

\* What the unlink d is at takes from whoever listens there: an inode d knew, or one that
\* was put at the path, or came to bear the name d has for its own, behind its back.
Knew(d) == path = saw[d] /\ mine[d] \in {0, bound[d]}
Takes(d, mayGo) ==
  stolen' = stolen \cup (IF path \notin listens \/ mayGo THEN {}
                         ELSE IF Knew(d) THEN {"known"} ELSE {"swapped"})
-----------------------------------------------------------------------------
Start(d) ==
  /\ at[d] = "down" /\ inodes < MaxStarts
  /\ To(d, "look")
  /\ UNCHANGED <<path, link, saw, mine, linked, listens, asked, stolen, inodes, bound>>

\* _reclaim_dead_socket(): the inode is looked at, asked, and looked at again.
Look(d) ==
  /\ at[d] = "look"
  /\ saw' = [saw EXCEPT ![d] = path]
  /\ To(d, IF path = 0 THEN "bind" ELSE "probe")
  /\ UNCHANGED <<path, link, mine, linked, listens, asked, stolen, inodes, bound>>

\* Only a refused connection says that nobody listens.
Refused == path # 0 /\ path \notin listens
Probe(d) ==
  /\ at[d] = "probe"
  /\ asked' = [asked EXCEPT ![d] = IF Refused THEN path ELSE 0]
  /\ To(d, IF Refused THEN "again" ELSE "bind")
  /\ UNCHANGED <<path, link, saw, mine, linked, listens, stolen, inodes, bound>>

\* The second look raises where there is nothing any more, and the start with it.
SameInode(d) == path = saw[d]
LookAgain(d) ==
  /\ at[d] = "again"
  /\ IF path = 0 THEN Ends(d)
     ELSE /\ To(d, IF SameInode(d) THEN "unlink" ELSE "bind")
          /\ saw' = [saw EXCEPT ![d] = path] /\ UNCHANGED <<mine, asked, bound>>
  /\ UNCHANGED <<path, link, linked, listens, stolen, inodes>>

\* unlink() takes what is at the path by then.
Reclaim(d) ==
  /\ at[d] = "unlink"
  /\ path' = 0 /\ Takes(d, path = asked[d])
  /\ IF path = 0 THEN Ends(d) ELSE To(d, "bind") /\ Forgets(d)
  /\ UNCHANGED <<link, linked, listens, inodes>>

\* bind() fails where there is an inode, and the start with it.
Bind(d) ==
  /\ at[d] = "bind"
  /\ \/ /\ path = 0 /\ inodes < MaxStarts
        /\ inodes' = inodes + 1 /\ path' = inodes + 1
        /\ bound' = [bound EXCEPT ![d] = inodes + 1]
        /\ To(d, "name") /\ UNCHANGED <<saw, asked, mine>>
     \/ /\ path # 0 /\ Ends(d) /\ UNCHANGED <<path, inodes>>
  /\ UNCHANGED <<link, linked, listens, stolen>>

\* The inode is known by the lstat that follows.
Name(d) ==
  /\ at[d] = "name"
  /\ IF path = 0 THEN Ends(d)
     ELSE mine' = [mine EXCEPT ![d] = path] /\ To(d, "listen") /\ UNCHANGED <<saw, asked, bound>>
  /\ UNCHANGED <<path, link, linked, listens, stolen, inodes>>

\* The link is made unless something that is not ours has its name.
Listen(d) ==
  /\ at[d] = "listen"
  /\ linked' = [linked EXCEPT ![d] = link # "theirs"]
  /\ link' = IF link = "theirs" THEN link ELSE "link"
  /\ listens' = listens \cup {bound[d]}
  /\ To(d, "up")
  /\ UNCHANGED <<path, saw, mine, asked, stolen, inodes, bound>>

\* close(), or the clean-up of a start that failed after its bind.
Close(d) ==
  /\ at[d] \in {"listen", "up"}
  /\ listens' = listens \ {bound[d]}
  /\ link' = IF linked[d] /\ link = "link" THEN "none" ELSE link
  /\ linked' = [linked EXCEPT ![d] = FALSE]
  /\ To(d, "shut")
  /\ UNCHANGED <<path, saw, mine, asked, stolen, inodes, bound>>

\* _remove_owned_socket(): a look, and the unlink it permits.
Owned(d) == path # 0 /\ path = mine[d]
LookOwn(d) ==
  /\ at[d] = "shut"
  /\ IF Owned(d) THEN /\ To(d, "remove") /\ saw' = [saw EXCEPT ![d] = path]
                      /\ UNCHANGED <<mine, asked, bound>>
                 ELSE Ends(d)
  /\ UNCHANGED <<path, link, linked, listens, stolen, inodes>>
RemoveOwn(d) ==
  /\ at[d] = "remove"
  /\ path' = 0 /\ Takes(d, path = bound[d])
  /\ Ends(d)
  /\ UNCHANGED <<link, linked, listens, inodes>>

\* kill -9: the inode and the link stay.
Killed(d) ==
  /\ at[d] # "down"
  /\ listens' = listens \ {bound[d]}
  /\ linked' = [linked EXCEPT ![d] = FALSE]
  /\ Ends(d)
  /\ UNCHANGED <<path, link, stolen, inodes>>

Next ==
  \E d \in Daemons : Start(d) \/ Look(d) \/ Probe(d) \/ LookAgain(d) \/ Reclaim(d) \/ Bind(d) \/ Name(d)
                     \/ Listen(d) \/ Close(d) \/ LookOwn(d) \/ RemoveOwn(d) \/ Killed(d)

Spec == Init /\ [][Next]_socketVars
-----------------------------------------------------------------------------
(***************************************************************************)
(* A daemon that listens keeps its socket, whatever starts and closes      *)
(* beside it: nobody removes an inode it knew to be another's and that did *)
(* not refuse it.  Exempt is the inode that came to the path between a     *)
(* daemon's last look and the unlink (ipc.py:181-185, 191-194), or between *)
(* its bind and the lstat after it (83-84).                                *)
(***************************************************************************)
ListenerWins == "known" \notin stolen

\* ipc.py:103 and 169 say that a live listener always wins: no listening inode is removed
\* by another daemon that was not refused by it.  TLC refutes it by those two gaps.
LiveListenerWins == stolen = {}

\* What is known of inodes is of one that was made; a start that looks again at the one it
\* saw was refused by it; and what a close is to remove bears the name it has for its own.
MadeOK ==
  /\ {path, inodes} \subseteq 0..inodes /\ inodes \in Nat
  /\ at \in [Daemons -> Steps] /\ asked \in [Daemons -> 0..inodes] /\ bound \in [Daemons -> 0..inodes]
  /\ saw \in [Daemons -> 0..inodes] /\ mine \in [Daemons -> 0..inodes]
AskedOK ==
  \A d \in Daemons :
    /\ at[d] = "again" /\ path = saw[d] /\ path # 0 => path = asked[d]
    /\ at[d] = "unlink" => saw[d] = asked[d]
    /\ at[d] = "remove" => saw[d] = mine[d] /\ mine[d] # 0
SocketInv == MadeOK /\ AskedOK /\ ListenerWins
\* What keeps TypeOK with it: a daemon that is to listen has made the inode it listens on.
ListensOK ==
  /\ inodes <= MaxStarts /\ listens \subseteq 1..MaxStarts
  /\ \A d \in Daemons : at[d] \in {"name", "listen"} => bound[d] # 0
  /\ link \in {"none", "link", "theirs"} /\ linked \in [Daemons -> BOOLEAN] /\ stolen \subseteq {"known", "swapped"}
=============================================================================
