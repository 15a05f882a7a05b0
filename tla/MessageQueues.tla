--------------------------- MODULE MessageQueues ---------------------------
(***************************************************************************)
(* The per-topic []*PubsubMessage slices of MergeBackend, as the values    *)
(* the properties tell apart: which messages a slice holds and which of    *)
(* two comes first.  A slice is a record [ids, before]: the set of its     *)
(* message ids and the set of pairs <<a, b>> such that an occurrence of a  *)
(* precedes an occurrence of b.  No length and no index is needed, and a   *)
(* message that occurs twice is visible as the pair <<a, a>>.              *)
(***************************************************************************)
EXTENDS Integers

\* An empty slice; a nil slice and an absent map entry read the same in Go.
EmptyQueue == [ids |-> {}, before |-> {}]

\* Mutant: the new elements go to the front.
Prepend(q, r) == [ids    |-> q.ids \cup r.ids,
                  before |-> q.before \cup r.before \cup (r.ids \X q.ids)]

\* append(q, r...)
Concat(q, r) == [ids    |-> q.ids \cup r.ids,
                 before |-> q.before \cup r.before \cup (q.ids \X r.ids)]

\* The sub-slice of the messages in S, in the order they have in q.
Keep(q, S) == [ids    |-> q.ids \cap S,
               before |-> {p \in q.before : p[1] \in S /\ p[2] \in S}]

\* Mutant: off by one, the slice starts at m - 1.
AscendingFromBefore(m, n) ==
  [ids    |-> (m - 1) .. n,
   before |-> {p \in ((m - 1) .. n) \X ((m - 1) .. n) : p[1] < p[2]}]

\* The slice m, m+1, ..., n of freshly numbered messages.
Ascending(m, n) ==
  [ids    |-> m .. n,
   before |-> {p \in (m .. n) \X (m .. n) : p[1] < p[2]}]

\* A well-formed slice of messages of S.
IsQueue(q, S) == /\ q = [ids |-> q.ids, before |-> q.before]
                 /\ q.ids \subseteq S
                 /\ q.before \subseteq q.ids \X q.ids
=============================================================================
