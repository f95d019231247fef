---------------------------- MODULE AgentPrompts ---------------------------
(***************************************************************************)
(* A task submitted to the default agent of Herdr (agent_lifecycle.py): a  *)
(* device names the request; the lifecycle lock lets one submit through at *)
(* a time, which makes the agent exist (ensure), writes the request down   *)
(* as sent with an unknown outcome, sends the prompt and writes what came  *)
(* of it.  A request written down is answered from the journal.            *)
(*                                                                         *)
(* Outcomes of `herdr agent prompt`: "accepted", the agent was prompted;   *)
(* "refused", Herdr proves nothing was sent; "lost", no proof either way,  *)
(* and the words may have reached the pane.                                *)
(***************************************************************************)
EXTENDS Naturals, Sequences

CONSTANTS Requests,  \* (device, request id)
          Nobody,    \* no request
          MaxTries,  \* bound on the submits
          MaxKeep,   \* results the journal keeps (256)
          MaxCrash,  \* bound on the daemon's deaths
          MaxPanes   \* bound on the panes created

VARIABLES
  agent,    \* the default agent of Herdr: "none", "idle" or "working"
  pane,     \* the pane of owned-herdr-pane.json, or 0
  panes,    \* panes Omodachi created, in Herdr
  holder,   \* the request whose submit has the lock, or Nobody
  at,       \* where that submit is
  journal,  \* request -> what the journal says of it
  order,    \* requests in the journal, oldest first
  outcome,  \* what the prompt of that submit came to
  answer,   \* request -> the delivery its device was last told
  reached,  \* request -> how often its words reached the pane
  valid,    \* the device's credential is
  evicted,  \* requests the journal had and let go
  tries, crashes

promptVars == <<agent, pane, panes, holder, at, journal, order, outcome, answer,
                reached, valid, evicted, tries, crashes>>

Outcomes == {"accepted", "not_sent", "unknown"}
Marks == Outcomes \cup {"none"}

TypeOK ==
  /\ agent \in {"none", "idle", "working"} /\ pane \in 0..MaxPanes /\ panes \in 0..MaxPanes
  /\ holder \in Requests \cup {Nobody}
  /\ at \in {"free", "ensure", "pane", "start", "ready", "send", "record"}
  /\ journal \in [Requests -> Marks] /\ answer \in [Requests -> Marks]
  /\ order \in Seq(Requests) /\ outcome \in Marks /\ reached \in [Requests -> 0..MaxTries]
  /\ valid \in BOOLEAN /\ evicted \subseteq Requests

Init ==
  /\ agent = "none" /\ pane = 0 /\ panes = 0 /\ holder = Nobody /\ at = "free"
  /\ journal = [r \in Requests |-> "none"] /\ order = <<>> /\ outcome = "none"
  /\ answer = [r \in Requests |-> "none"] /\ reached = [r \in Requests |-> 0]
  /\ valid = TRUE /\ evicted = {} /\ tries = 0 /\ crashes = 0

Ends == holder' = Nobody /\ at' = "free"
-----------------------------------------------------------------------------
\* Under the lock: a request of the journal is answered with what it says.
Known(r) == journal[r] # "none"
Submit(r) ==
  /\ at = "free" /\ tries < MaxTries /\ tries' = tries + 1
  /\ IF Known(r)
       THEN answer' = [answer EXCEPT ![r] = journal[r]] /\ UNCHANGED <<holder, at>>
       ELSE holder' = r /\ at' = "ensure" /\ UNCHANGED answer
  /\ UNCHANGED <<agent, pane, panes, journal, order, outcome, reached, valid, evicted,
                 crashes>>

\* _ensure(): the agent that is there, or one started in the owned pane.
Ensure ==
  /\ at = "ensure"
  /\ IF ~valid THEN Ends
       ELSE /\ at' = IF agent # "none" THEN "ready" ELSE IF pane # 0 THEN "start" ELSE "pane"
            /\ UNCHANGED holder
  /\ UNCHANGED <<agent, pane, panes, journal, order, outcome, answer, reached, valid,
                 evicted, tries, crashes>>

\* A pane is created, then written down as Omodachi's.
CreatePane ==
  /\ at = "pane" /\ panes < MaxPanes
  /\ panes' = panes + 1
  /\ \/ pane' = panes + 1 /\ at' = "start" /\ UNCHANGED <<holder, crashes>>
     \/ crashes < MaxCrash /\ crashes' = crashes + 1 /\ Ends /\ UNCHANGED pane
  /\ UNCHANGED <<agent, journal, order, outcome, answer, reached, valid, evicted, tries>>

StartAgent ==
  /\ at = "start"
  /\ \/ valid /\ agent' = "idle" /\ at' = "ready" /\ UNCHANGED holder
     \/ Ends /\ UNCHANGED agent
  /\ UNCHANGED <<pane, panes, journal, order, outcome, answer, reached, valid, evicted, tries,
                 crashes>>

\* How many requests make room for one more, and which: the oldest.
Spare  == IF Len(order) < MaxKeep THEN 0 ELSE Len(order) + 1 - MaxKeep
Oldest == {order[k] : k \in 1..Spare}
\* The request is in the journal before anything is sent; the oldest goes.
WriteFirst(r) ==
  /\ journal' = [q \in Requests |-> IF q = r THEN "unknown" ELSE IF q \in Oldest THEN "none"
                                                          ELSE journal[q]]
  /\ order' = Append(SubSeq(order, Spare + 1, Len(order)), r)
  /\ evicted' = evicted \cup Oldest
Journal ==
  /\ at = "ready"
  /\ IF agent = "idle"
       THEN WriteFirst(holder) /\ at' = "send" /\ UNCHANGED holder
       ELSE Ends /\ UNCHANGED <<journal, order, evicted>>
  /\ UNCHANGED <<agent, pane, panes, outcome, answer, reached, valid, tries, crashes>>

Reaches == reached' = [reached EXCEPT ![holder] = @ + 1] /\ agent' = "working"
Stays == UNCHANGED <<reached, agent>>

Unproven == "unknown"
\* The credential is asked for once more, then the prompt goes: Herdr says it
\* prompted the agent, or proves it did not, or says nothing that proves either.
Prompt ==
  /\ at = "send"
  /\ \/ valid /\ Reaches /\ outcome' = "accepted"
     \/ valid /\ Stays /\ outcome' = "not_sent"
     \/ valid /\ Reaches /\ outcome' = Unproven
     \/ valid /\ Stays /\ outcome' = Unproven
     \/ ~valid /\ Stays /\ outcome' = "none"
  /\ IF valid THEN at' = "record" /\ UNCHANGED holder ELSE Ends
  /\ UNCHANGED <<pane, panes, journal, order, answer, valid, evicted, tries, crashes>>

\* The outcome is written down, then told.
Record ==
  /\ at = "record"
  /\ journal' = [journal EXCEPT ![holder] = outcome]
  /\ answer' = [answer EXCEPT ![holder] = outcome]
  /\ outcome' = "none" /\ Ends
  /\ UNCHANGED <<agent, pane, panes, order, reached, valid, evicted, tries, crashes>>

\* The agent finishes; its pane is closed by hand; the credential is revoked.
AgentIdles ==
  /\ agent = "working" /\ agent' = "idle"
  /\ UNCHANGED <<pane, panes, holder, at, journal, order, outcome, answer, reached, valid,
                 evicted, tries, crashes>>
Revoke ==
  /\ valid /\ valid' = FALSE
  /\ UNCHANGED <<agent, pane, panes, holder, at, journal, order, outcome, answer, reached, evicted,
                 tries, crashes>>

\* What came of a prompt is lost with the daemon that sent it.
Crash ==
  /\ at \notin {"free", "pane"} /\ crashes < MaxCrash /\ crashes' = crashes + 1
  /\ outcome' = "none" /\ Ends
  /\ UNCHANGED <<agent, pane, panes, journal, order, answer, reached, valid,
                 evicted, tries>>

Next ==
  \/ \E r \in Requests : Submit(r)
  \/ Ensure \/ CreatePane \/ StartAgent \/ Journal \/ Prompt \/ Record
  \/ AgentIdles \/ Revoke \/ Crash

Spec == Init /\ [][Next]_promptVars
-----------------------------------------------------------------------------
(***************************************************************************)
(* A task reaches the agent once, whatever is retried after a crash, a     *)
(* lost answer or another device's task in between - as long as the        *)
(* journal has it, which the code bounds to its newest MaxKeep.            *)
(***************************************************************************)
SentOnce == \A r \in Requests \ evicted : reached[r] <= 1

(***************************************************************************)
(* A device is told "accepted" of words that reached the agent, and "not   *)
(* sent" only of words that did not.                                       *)
(***************************************************************************)
ToldTruly ==
  \A r \in Requests \ evicted :
    /\ answer[r] = "accepted" => reached[r] = 1
    /\ answer[r] = "not_sent" => reached[r] = 0

-----------------------------------------------------------------------------
\* What keeps them: a submit that has the lock is of a request the journal does not have
\* until it is about to send, and what the journal and a device hold of a request fits how
\* often its words reached the pane.
Fits(mark, times) ==
  times <= 1 /\ (mark = "accepted" => times = 1) /\ (mark = "not_sent" => times = 0)
Unsent(r) == reached[r] = 0 /\ answer[r] = "none"
StoreOK ==
  /\ agent \in {"none", "idle", "working"} /\ valid \in BOOLEAN
  /\ holder \in Requests \cup {Nobody} /\ outcome \in Marks
  /\ at \in {"free", "ensure", "pane", "start", "ready", "send", "record"}
  /\ journal \in [Requests -> Marks] /\ answer \in [Requests -> Marks] /\ reached \in [Requests -> Nat]
LockOK ==
  /\ at # "free" => holder \in Requests
  /\ at \in {"ensure", "pane", "start", "ready"} => journal[holder] = "none"
  /\ at \in {"send", "record"} => journal[holder] = "unknown"
  /\ at = "record" => outcome \in Outcomes
JournalOK == \A r \in Requests \ evicted :
  /\ Fits(journal[r], reached[r]) /\ Fits(answer[r], reached[r])
  /\ journal[r] = "none" \/ (at = "send" /\ r = holder) => Unsent(r)
  /\ at = "record" /\ r = holder => Fits(outcome, reached[r]) /\ answer[r] = "none"
PromptInv == StoreOK /\ LockOK /\ JournalOK

\* What keeps the types with it: a submit is counted before its words may reach the pane.
PlaceOK == pane \in 0..MaxPanes /\ panes \in 0..MaxPanes /\ order \in Seq(Requests) /\ evicted \subseteq Requests
TriesOK ==
  /\ tries \in 0..MaxTries /\ \A r \in Requests : reached[r] <= tries
  /\ at \in {"ensure", "pane", "start", "ready", "send"} => reached[holder] < tries
=============================================================================
