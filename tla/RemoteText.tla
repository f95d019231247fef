---------------------------- MODULE RemoteText ----------------------------
(***************************************************************************)
(* A draft the phone sends into the focused window (remote/service.py,     *)
(* remote/text.py): one press of Send is typed at most once, although its  *)
(* reply may be lost and the phone then asks again with the same id.       *)
(*                                                                         *)
(* The requests are of the device that holds the session.  An attempt is   *)
(* an entry of _text_sends with its future and the thread that types; the  *)
(* n-th is n, and _text_sends is the set of those remembered, of which the *)
(* least is the oldest.  What wtype was asked to type may have arrived whatever   *)
(* it answers, so an attempt that reached it has run.                      *)
(***************************************************************************)
EXTENDS Naturals, Sequences, FiniteSetsExt

CONSTANTS
  Sends, Drafts,  \* ids of a press of Send, texts
  Waiters,        \* requests under way at once
  Memory,         \* SEND_MEMORY
  MaxAttempts,    \* bound on the attempts
  MaxAnswers,     \* bound on the answers
  MaxTurns        \* bound on the changes of the session and of the host

VARIABLES
  session,  \* the state of the session the ids are of
  host,     \* wtype and a graphical session are there
  attempt,  \* n -> the attempt
  memory,   \* _text_sends
  waiter,   \* request -> the attempt it waits for, or 0
  told,     \* the answers that were given, in their order
  turns

textVars == <<session, host, attempt, memory, waiter, told, turns>>

Attempts == 1..MaxAttempts
Running  == {"asked", "ready", "typing", "typed!", "failed!", "refused!"}  \* its thread
Settled  == {"typed", "failed", "refused"}
NoSend   == [id |-> "none", text |-> "none", at |-> "none", ran |-> FALSE]
Answer   == [id : Sends, text : Drafts, says : Settled \cup {"not ready", "other text"},
             of : 0..MaxAttempts, made : 0..MaxAttempts]

Made == {n \in Attempts : attempt[n].at # "none"}
Newest == IF Made = {} THEN 0 ELSE CHOOSE n \in Made : \A m \in Made : m <= n
Known(i) == {n \in memory : attempt[n].id = i}
Tell(i, x, says, n) == told' = Append(told, [id |-> i, text |-> x, says |-> says, of |-> n, made |-> Newest])
\* Those a settled future has woken.
Woken == {w \in Waiters : waiter[w] # 0 /\ attempt[waiter[w]].at \in Settled}
Asks == Len(told) + Cardinality({w \in Waiters : waiter[w] # 0}) < MaxAnswers

\* The oldest go when there are more than SEND_MEMORY, whatever they are at.
Kept(sends) == IF Cardinality(sends) > Memory THEN sends \ {Min(sends)} ELSE sends

Begun(w, i, x) ==
  LET n == Newest + 1 IN
  /\ n \in Attempts
  /\ attempt' = [attempt EXCEPT ![n] = [id |-> i, text |-> x, at |-> "asked", ran |-> FALSE]]
  /\ memory' = Kept(memory \cup {n}) /\ waiter' = [waiter EXCEPT ![w] = n] /\ UNCHANGED told

\* text() with an id.  The memory is asked before the session is.
Send(w, i, x) ==
  /\ waiter[w] = 0 /\ Asks /\ UNCHANGED <<session, host, turns>>
  /\ \/ /\ Known(i) = {} /\ session # "ready" /\ Tell(i, x, "not ready", 0)
        /\ UNCHANGED <<attempt, memory, waiter>>
     \/ Known(i) = {} /\ session = "ready" /\ Begun(w, i, x)
     \/ \E n \in Known(i) :
          /\ \/ attempt[n].text # x /\ Tell(i, x, "other text", n) /\ UNCHANGED waiter
             \/ attempt[n].text = x /\ waiter' = [waiter EXCEPT ![w] = n] /\ UNCHANGED told
          /\ UNCHANGED <<attempt, memory>>

\* The answer reaches the phone, or it has given up on the request.
Reply(w, lost) ==
  LET n == waiter[w] IN
  /\ n # 0 /\ (lost \/ w \in Woken) /\ waiter' = [waiter EXCEPT ![w] = 0]
  /\ IF lost THEN UNCHANGED told ELSE Tell(attempt[n].id, attempt[n].text, attempt[n].at, n)
  /\ UNCHANGED <<session, host, attempt, memory, turns>>

Goes(n, at) == attempt' = [attempt EXCEPT ![n].at = at]

\* HostText.type() on a thread: what it needs, the lock, wtype.
Look(n) ==
  /\ attempt[n].at = "asked" /\ Goes(n, IF host THEN "ready" ELSE "refused!")
  /\ UNCHANGED <<session, host, memory, waiter, told, turns>>

Type(n) ==
  /\ attempt[n].at = "ready" /\ \A m \in Attempts : attempt[m].at # "typing"
  /\ attempt' = [attempt EXCEPT ![n].at = "typing", ![n].ran = TRUE]
  /\ UNCHANGED <<session, host, memory, waiter, told, turns>>

Typed(n) ==
  /\ attempt[n].at = "typing" /\ \E ends \in {"typed!", "failed!"} : Goes(n, ends)
  /\ UNCHANGED <<session, host, memory, waiter, told, turns>>

Outcome(at) == CASE at = "typed!" -> "typed" [] at = "failed!" -> "failed" [] at = "refused!" -> "refused"

\* Only what was refused before wtype ran.
Frees(at) == at = "refused!"

\* settle(), which the loop runs when the thread has ended; whom it wakes is answered
\* before another thread's end is taken up.
Settle(n) ==
  /\ Woken = {} /\ attempt[n].at \in {"typed!", "failed!", "refused!"}
  /\ Goes(n, Outcome(attempt[n].at))
  /\ memory' = IF Frees(attempt[n].at) THEN memory \ {n} ELSE memory
  /\ UNCHANGED <<session, host, waiter, told, turns>>

\* The session is resized or rebuilt and ready again, or it ends; the desktop goes and
\* comes back.
Turn ==
  /\ turns < MaxTurns /\ turns' = turns + 1
  /\ \/ session = "ready" /\ session' \in {"busy", "ended"} /\ UNCHANGED host
     \/ session = "busy" /\ session' \in {"ready", "ended"} /\ UNCHANGED host
     \/ host' = ~host /\ UNCHANGED session
  /\ UNCHANGED <<attempt, memory, waiter, told>>

\* The daemon starts again without the memory, and without the session its ids are of.
\* What wtype has it types.
Restart ==
  /\ session # "lost" /\ session' = "lost" /\ memory' = {} /\ waiter' = [w \in Waiters |-> 0]
  /\ attempt' = [n \in Attempts |-> IF attempt[n].at \in Running
                                      THEN [attempt[n] EXCEPT !.at = "failed"] ELSE attempt[n]]
  /\ UNCHANGED <<host, told, turns>>

Init ==
  /\ session = "ready" /\ host = TRUE /\ attempt = [n \in Attempts |-> NoSend] /\ memory = {}
  /\ waiter = [w \in Waiters |-> 0] /\ told = <<>> /\ turns = 0

Next ==
  \/ \E w \in Waiters : \/ \E i \in Sends, x \in Drafts : Send(w, i, x)
                        \/ \E lost \in BOOLEAN : Reply(w, lost)
  \/ \E n \in Attempts : Look(n) \/ Type(n) \/ Typed(n) \/ Settle(n)
  \/ Turn \/ Restart

Spec == Init /\ [][Next]_textVars

TypeOK ==
  /\ session \in {"ready", "busy", "ended", "lost"} /\ host \in BOOLEAN /\ turns \in 0..MaxTurns
  /\ attempt \in [Attempts -> {NoSend} \cup [id : Sends, text : Drafts, at : Running \cup Settled,
                                             ran : BOOLEAN]]
  /\ memory \subseteq Attempts /\ Cardinality(memory) <= Memory /\ waiter \in [Waiters -> 0..MaxAttempts]
  /\ told \in Seq(Answer)

\* A press of Send reaches the window once, whatever is retried, with whatever text, while the
\* first typing goes on, after it failed, after the session ended or across a restart - until
\* as many later sends as are remembered have pushed its id out.
TypedOnce ==
  \A n, m \in Made : n < m /\ attempt[n].id = attempt[m].id /\ attempt[n].ran /\ attempt[m].ran
                     => m - n > Memory

\* A phone that asks again hears what became of its draft: once it was typed no answer says
\* that it was not, and no other text takes its id, as long as the id is remembered.  (An
\* older request may still be told of an attempt whose id had been pushed out.)
SameAnswer ==
  \A p, q \in 1..Len(told) :
    LET first == told[p]  later == told[q] IN
    /\ p < q /\ first.says = "typed" /\ first.id = later.id /\ session # "lost"
    /\ later.of \notin 1..first.of - 1 /\ later.made - first.of < Memory
    => later.says = IF later.text = first.text THEN "typed" ELSE "other text"

-----------------------------------------------------------------------------
\* The attempts are made one after another; a request waits for one of them, and one that
\* has run is never refused.
AttemptsOK ==
  /\ attempt \in [Attempts -> {NoSend} \cup [id : Sends, text : Drafts, at : Running \cup Settled,
                                             ran : BOOLEAN]]
  /\ Newest \in 0..MaxAttempts /\ Made = 1..Newest
  /\ memory \subseteq Made /\ waiter \in [Waiters -> Made \cup {0}]
  /\ \A n \in Made : attempt[n].ran => attempt[n].at \notin {"asked", "ready", "refused!", "refused"}
\* An attempt is remembered, unless it was refused or Memory others were made since.
Remembered ==
  session # "lost" => \A n \in Made : n \in memory \/ attempt[n].at = "refused" \/ Newest - n >= Memory
\* So a press is tried again only then.
TriedOnce ==
  \A n, m \in Made : n < m /\ attempt[n].id = attempt[m].id
                     => m - n > Memory \/ attempt[n].at = "refused"
\* What an answer says is so of the attempt it is of; without one the request was refused.
TrueOf(r) ==
  /\ r.made <= Newest /\ r.of <= r.made /\ (r.of = 0 <=> r.says = "not ready")
  /\ r.of # 0 => /\ r.id = attempt[r.of].id
                 /\ IF r.says = "other text" THEN r.text # attempt[r.of].text
                    ELSE r.text = attempt[r.of].text /\ r.says = attempt[r.of].at
AnswersOK == told \in Seq(Answer) /\ \A p \in 1..Len(told) : TrueOf(told[p])
\* A press that was typed is refused for the session only when its id was pushed out.
RefusedLate ==
  session # "lost" =>
    \A p, q \in 1..Len(told) :
      p < q /\ told[p].says = "typed" /\ told[p].id = told[q].id /\ told[q].of = 0
      => told[q].made - told[p].of >= Memory
TextInv == AttemptsOK /\ Remembered /\ TriedOnce /\ AnswersOK /\ RefusedLate
=============================================================================
