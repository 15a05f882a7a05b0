--------------------------- MODULE PubSubPromise ---------------------------
(***************************************************************************)
(* What the emulator's Pub/Sub promises, without slices, marks or maps: a  *)
(* topic has a set of pending messages; a subscription is attached to one  *)
(* topic; a pull hands it everything pending there that it has not been    *)
(* handed before; an acknowledgement, or deleting the topic, discards      *)
(* pending messages for every subscription at once (the "simplified        *)
(* single-consumer model" of the Pub/Sub service's package comment).       *)
(***************************************************************************)
EXTENDS Naturals

CONSTANTS Topic, Sub, MaxId, MaxBatch

VARIABLES pending,   \* topic -> the messages a pull can still hand out
          attached,  \* the subscriptions that exist, each with its topic
          handed,    \* subscription name -> all it was ever handed
          lastId     \* messages are numbered as they are published

vars == <<pending, attached, handed, lastId>>

Init == /\ pending = [t \in Topic |-> {}]
        /\ attached = {}
        /\ handed = [s \in Sub |-> {}]
        /\ lastId = 0

Publish(t, k) == /\ lastId + k <= MaxId
                 /\ lastId' = lastId + k
                 /\ pending' = [pending EXCEPT ![t] = @ \cup (lastId + 1) .. (lastId + k)]
                 /\ UNCHANGED <<attached, handed>>

Discard(t, ids) == /\ pending' = [pending EXCEPT ![t] = @ \ ids]
                   /\ UNCHANGED <<attached, handed, lastId>>

\* A subscription is attached to one topic at a time.
Attach(s, t) == /\ attached' = {a \in attached : a[1] # s} \cup {<<s, t>>}
                /\ UNCHANGED <<pending, handed, lastId>>

Detach(s) == /\ attached' = {a \in attached : a[1] # s}
             /\ UNCHANGED <<pending, handed, lastId>>

\* A pull hands out all that is pending, old or new, and discards nothing.
Hand(s, t) == /\ <<s, t>> \in attached
              /\ handed' = [handed EXCEPT ![s] = @ \cup pending[t]]
              /\ UNCHANGED <<pending, attached, lastId>>

Next == \/ \E t \in Topic : \/ \E k \in 0 .. MaxBatch : Publish(t, k)
                            \/ \E ids \in SUBSET (1 .. MaxId) : Discard(t, ids)
        \/ \E s \in Sub : \/ Detach(s)
                          \/ \E t \in Topic : Attach(s, t) \/ Hand(s, t)

Spec == Init /\ [][Next]_vars
=============================================================================
