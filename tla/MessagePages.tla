---------------------------- MODULE MessagePages ----------------------------
(***************************************************************************)
(* How the chat store reads messages out of a room's database:             *)
(* the reads of src/utils/idb/chat-store.ts.                               *)
(*                                                                         *)
(* A message is known by its uuid, a natural number for the sake of the    *)
(* order IndexedDB puts on keys; Stamp is its timestamp.  A cursor on the  *)
(* index "timestamp" visits the messages by timestamp and, where those are *)
(* equal, by uuid (external).  A read runs in one transaction, so the      *)
(* messages do not change under it.                                        *)
(***************************************************************************)
EXTENDS Naturals, Sequences, FiniteSets, SequencesExt

CONSTANTS Message, Stamp, NoLimit

ASSUME PagesAssumption == /\ Message \subseteq Nat
                          /\ Stamp \in [Message -> Nat]
                          /\ NoLimit \notin Nat

Precedes(a, b) == Stamp[a] < Stamp[b] \/ (Stamp[a] = Stamp[b] /\ a < b)

Follows(reverse, a, b) == IF reverse THEN Precedes(b, a) ELSE Precedes(a, b)

InOrder(s, reverse) == \A i, j \in DOMAIN s : i < j => Follows(reverse, s[i], s[j])

\* A cursor's course over the messages msgs, forward or backward.
Course(msgs, reverse) ==
  CHOOSE s \in [1 .. Cardinality(msgs) -> msgs] : InOrder(s, reverse)

\* The range the cursor is opened on: from the target's timestamp, inclusive.
InRange(msgs, target, reverse) ==
  {m \in msgs : IF reverse THEN Stamp[m] <= Stamp[target]
                           ELSE Stamp[m] >= Stamp[target]}

\* Mutant of Collected: the target is left out, but does not empty the list.
CollectedUnemptied(rows, target) ==
  LET list[i \in 0 .. Len(rows)] ==
        IF i = 0 THEN <<>>
        ELSE IF rows[i] = target THEN list[i - 1] ELSE Append(list[i - 1], rows[i])
  IN  list

\* The list after the cursor has visited the first i rows: a row is pushed,
\* and meeting the target empties the list.
Collected(rows, target) ==
  LET list[i \in 0 .. Len(rows)] ==
        IF i = 0 \/ rows[i] = target THEN <<>> ELSE Append(list[i - 1], rows[i])
  IN  list

\* Whether the cursor goes on after row i.
GoesOn(rows, target, limit, i) ==
  \/ limit = NoLimit
  \/ /\ Len(Collected(rows, target)[i]) < limit
     /\ Stamp[target] # Stamp[rows[i]]

\* getContinueMessages; target is in msgs (the code rejects otherwise).
ContinueMessages(msgs, target, reverse, limit) ==
  LET rows == Course(InRange(msgs, target, reverse), reverse)
      last == CHOOSE i \in 1 .. Len(rows) :
                /\ i = Len(rows) \/ ~GoesOn(rows, target, limit, i)
                /\ \A j \in 1 .. i - 1 : GoesOn(rows, target, limit, j)
      list == Collected(rows, target)[last]
      cut  == IF limit = NoLimit \/ Len(list) <= limit THEN list
              ELSE SubSeq(list, 1, limit)
  IN  IF reverse THEN Reverse(cut) ELSE cut

AfterMessages(msgs, target, limit) == ContinueMessages(msgs, target, FALSE, limit)

BeforeMessages(msgs, target, limit) == ContinueMessages(msgs, target, TRUE, limit)

AllMessages(msgs) == Course(msgs, FALSE)

\* getLatestMessage: the first row of the course backward; null is <<>>.
LatestMessage(msgs) == IF msgs = {} THEN <<>> ELSE <<Head(Course(msgs, TRUE))>>

\* countAfterMessage counts on an open range: without the target's timestamp.
CountAfterMessage(msgs, target) == Cardinality({m \in msgs : Stamp[m] > Stamp[target]})

=============================================================================
