---------------------------- MODULE BorrowedHost ----------------------------
(***************************************************************************)
(* What the remote session journal promises, without its mechanism: things *)
(* of the desk are borrowed by sessions, each session that has borrowed    *)
(* anything has a note that survives a crash, and a note is only thrown    *)
(* away when nothing is borrowed under it any more.                        *)
(***************************************************************************)
CONSTANTS Sessions,     \* who may borrow
          Things        \* what there is to borrow

VARIABLES lent,         \* the pairs <<session, thing>> still out
          noted         \* the sessions a durable note names

Init ==
  /\ lent = {}
  /\ noted = {}

Note(s) ==              \* the note is written before anything is taken
  /\ noted' = noted \cup {s}
  /\ UNCHANGED lent

Borrow(s) ==            \* some things at once, only under a note
  /\ s \in noted
  /\ lent \subseteq lent'
  /\ lent' \ lent \subseteq {s} \X Things
  /\ UNCHANGED noted

Return ==               \* in any order, several at once, or by the user's own hand
  /\ lent' \subseteq lent
  /\ UNCHANGED noted

Forget ==               \* only once everything is back
  /\ noted' \subseteq noted
  /\ \A s \in noted \ noted' : \A t \in Things : <<s, t>> \notin lent
  /\ UNCHANGED lent

Next ==
  \/ \E s \in Sessions : Note(s) \/ Borrow(s)
  \/ Return
  \/ Forget

Spec == Init /\ [][Next]_<<lent, noted>>

\* Nothing is ever out without a note.
NotedWhileLent == \A s \in Sessions, t \in Things : <<s, t>> \in lent => s \in noted
=============================================================================
