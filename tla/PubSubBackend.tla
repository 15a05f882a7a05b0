--------------------------- MODULE PubSubBackend ---------------------------
(***************************************************************************)
(* internal/grpcsvc/pubsub.MergeBackend: the topics, subscriptions and     *)
(* messages that the Pub/Sub REST service and the gRPC Publisher and       *)
(* Subscriber services share.  Every method takes the backend's mutex for  *)
(* its whole body, so each is one action.  The callers, which combine      *)
(* several calls without a lock around them, are in PubSubREST and         *)
(* StreamingPull.                                                          *)
(*                                                                         *)
(* Message ids are random in the code (protow.ID(16)) and never compared;  *)
(* here they are numbered in the order Publish assigns them, which lets    *)
(* the properties speak of the order of publication.                       *)
(***************************************************************************)
EXTENDS MessageQueues

CONSTANTS Topic,     \* fully qualified topic names
          Sub,       \* fully qualified subscription names
          MaxId,     \* bound: how many messages are ever published
          MaxBatch   \* bound: how many messages one Publish carries

ASSUME BackendAssumption == MaxId \in Nat /\ MaxBatch \in Nat

VARIABLES
  topics,         \* Topics: the topics that exist
  subscriptions,  \* Subscriptions: a partial function, name -> topic
  messages,       \* Messages: topic -> slice, kept even without the topic
  acked,          \* Acked: a partial function, name -> ids handed out to it
  lastId,         \* the number of ids handed out by Publish
  (* history, read by no action *)
  topicOf,        \* the topic each message was published to
  delivered,      \* what Pull returned to each subscription name, in order
  released        \* messages acknowledged or deleted with their topic

stored  == <<topics, subscriptions, messages, acked>>
history == <<topicOf, delivered, released>>
backend == <<stored, lastId, history>>

Init ==
  /\ topics = {}
  /\ subscriptions = [s \in {} |-> s]
  /\ messages = [t \in Topic |-> EmptyQueue]
  /\ acked = [s \in {} |-> {}]
  /\ lastId = 0
  /\ topicOf = [m \in {} |-> m]
  /\ delivered = [s \in Sub |-> EmptyQueue]
  /\ released = {}

----------------------------------------------------------------------------
(* Map access: f[k] = v and delete(f, k). *)
Put(f, k, v)  == [x \in DOMAIN f \cup {k} |-> IF x = k THEN v ELSE f[x]]
Delete(f, k)  == [x \in DOMAIN f \ {k} |-> f[x]]

GetTopic(t)        == t \in topics
GetSubscription(s) == s \in DOMAIN subscriptions

Publish(t, k) ==
  /\ lastId + k <= MaxId
  /\ messages' = [messages EXCEPT ![t] = Concat(@, Ascending(lastId + 1, lastId + k))]
  /\ lastId' = lastId + k
  /\ topicOf' = [m \in 1 .. (lastId + k) |-> IF m > lastId THEN t ELSE topicOf[m]]
  /\ UNCHANGED <<topics, subscriptions, acked, delivered, released>>

\* Messages left under the name by an earlier Publish stay and are served.
CreateTopic(t) ==
  /\ topics' = topics \cup {t}
  /\ UNCHANGED <<subscriptions, messages, acked, lastId, history>>

\* Mutant: the topic goes, its messages stay.
DeleteTopicOnly(t) ==
  /\ GetTopic(t)
  /\ topics' = topics \ {t}
  /\ released' = released \cup messages[t].ids
  /\ UNCHANGED <<subscriptions, messages, acked, lastId, topicOf, delivered>>

\* Mutant: the topic's subscriptions go with it.
DeleteTopicCascades(t) ==
  /\ GetTopic(t)
  /\ topics' = topics \ {t}
  /\ messages' = [messages EXCEPT ![t] = EmptyQueue]
  /\ released' = released \cup messages[t].ids
  /\ subscriptions' = [s \in {x \in DOMAIN subscriptions : subscriptions[x] # t} |->
                         subscriptions[s]]
  /\ UNCHANGED <<acked, lastId, topicOf, delivered>>

\* The topic's messages go with it, its subscriptions do not.
DeleteTopic(t) ==
  /\ GetTopic(t)
  /\ topics' = topics \ {t}
  /\ messages' = [messages EXCEPT ![t] = EmptyQueue]
  /\ released' = released \cup messages[t].ids
  /\ UNCHANGED <<subscriptions, acked, lastId, topicOf, delivered>>

\* Mutant: no Acked map is made for a new subscription.
CreateSubscriptionNoMap(s, t) ==
  /\ subscriptions' = Put(subscriptions, s, t)
  /\ UNCHANGED <<topics, messages, acked, lastId, history>>

\* Mutant: every creation starts with an empty Acked map.
CreateSubscriptionFresh(s, t) ==
  /\ subscriptions' = Put(subscriptions, s, t)
  /\ acked' = Put(acked, s, {})
  /\ UNCHANGED <<topics, messages, lastId, history>>

\* Overwrites the topic of an existing subscription, and keeps the Acked
\* marks that a deleted subscription of the same name left behind.
CreateSubscription(s, t) ==
  /\ subscriptions' = Put(subscriptions, s, t)
  /\ acked' = IF s \in DOMAIN acked THEN acked ELSE Put(acked, s, {})
  /\ UNCHANGED <<topics, messages, lastId, history>>

DeleteSubscription(s) ==
  /\ GetSubscription(s)
  /\ subscriptions' = Delete(subscriptions, s)
  /\ UNCHANGED <<topics, messages, acked, lastId, history>>

\* Mutant: the messages already handed out are returned again.
ReceivedAgain(s) == messages[subscriptions[s]]

\* What a Pull by s would return: the messages of its topic without its mark.
Received(s) ==
  LET queue == messages[subscriptions[s]] IN Keep(queue, queue.ids \ acked[s])

\* Mutants: the received messages first, or not put back at all.
RebuiltReversed(s) == Concat(Received(s), Keep(messages[subscriptions[s]], acked[s]))
RebuiltWithout(s)  == Keep(messages[subscriptions[s]], acked[s])

\* The slice is rebuilt: the messages already marked, then the received ones.
Rebuilt(s) == Concat(Keep(messages[subscriptions[s]], acked[s]), Received(s))

Pull(s) ==
  /\ GetSubscription(s)
  /\ messages' = [messages EXCEPT ![subscriptions[s]] = Rebuilt(s)]
  /\ acked' = [acked EXCEPT ![s] = @ \cup Received(s).ids]
  /\ delivered' = [delivered EXCEPT ![s] = Concat(@, Received(s))]
  /\ UNCHANGED <<topics, subscriptions, lastId, topicOf, released>>

\* Takes the messages off the topic, whoever has or has not pulled them; an
\* ack id is the message id with or without the "-ack" suffix.
Acknowledge(s, ids) ==
  /\ GetSubscription(s)
  /\ LET t == subscriptions[s] IN
       /\ messages' = [messages EXCEPT ![t] = Keep(@, @.ids \ ids)]
       /\ released' = released \cup {m \in ids \cap DOMAIN topicOf : topicOf[m] = t}
  /\ UNCHANGED <<topics, subscriptions, acked, lastId, topicOf, delivered>>

Next ==
  \/ \E t \in Topic : \/ \E k \in 0 .. MaxBatch : Publish(t, k)
                      \/ CreateTopic(t)
                      \/ DeleteTopic(t)
                      \/ \E s \in Sub : CreateSubscription(s, t)
  \/ \E s \in Sub : \/ DeleteSubscription(s)
                    \/ Pull(s)
                    \/ \E ids \in SUBSET (1 .. lastId) : Acknowledge(s, ids)

Spec == Init /\ [][Next]_backend

----------------------------------------------------------------------------
(* Type invariant: the maps are partial functions over the names, and every *)
(* id that Publish assigned, and no other, has a topic.                     *)
TypeOK ==
  /\ topics \subseteq Topic
  /\ DOMAIN subscriptions \subseteq Sub
  /\ subscriptions \in [DOMAIN subscriptions -> Topic]
  /\ DOMAIN acked \subseteq Sub
  /\ acked \in [DOMAIN acked -> SUBSET (1 .. lastId)]
  /\ lastId \in 0 .. MaxId
  /\ topicOf \in [1 .. lastId -> Topic]
  /\ DOMAIN messages = Topic
  /\ \A t \in Topic : IsQueue(messages[t], 1 .. lastId)
  /\ DOMAIN delivered = Sub
  /\ \A s \in Sub : IsQueue(delivered[s], 1 .. lastId)
  /\ released \subseteq 1 .. lastId

(* Pull writes acked[id] = true without asking whether the subscription has *)
(* a map (pubsub.go:193-207): a subscription without one would be a write   *)
(* to a nil map, which panics.  Every existing subscription has one, in     *)
(* whatever order names are created, deleted, re-created and re-pointed.    *)
PullNeverPanics == DOMAIN subscriptions \subseteq DOMAIN acked

(* A topic's slice holds exactly the messages published to it that nobody   *)
(* acknowledged and that were not deleted with it: the rebuild in Pull      *)
(* neither loses nor resurrects a message, publishing to a topic that does  *)
(* not exist keeps the message, and "once acknowledged a message is gone".  *)
NothingLostNothingBack ==
  \A t \in Topic : messages[t].ids = {m \in 1 .. lastId : topicOf[m] = t} \ released

(* No subscription name is handed a message twice, although Pull leaves     *)
(* every message in the slice and although deleting, re-creating or         *)
(* re-pointing the subscription may happen between two pulls.               *)
AtMostOnce == \A s \in Sub : \A m \in 1 .. lastId : <<m, m>> \notin delivered[s].before

(* The Acked marks of a name are exactly the messages that were handed out  *)
(* to it: no mark is set without the message being returned, none is lost.  *)
MarksAreDeliveries ==
  \A s \in Sub : delivered[s].ids = IF s \in DOMAIN acked THEN acked[s] ELSE {}

(* The messages of one topic reach a subscription in the order they were    *)
(* published, although Pull moves what it returns to the end of the slice.  *)
DeliveredInOrder ==
  \A s \in Sub : \A p \in delivered[s].before :
    (p[1] # p[2] /\ topicOf[p[1]] = topicOf[p[2]]) => p[1] < p[2]

(* Action property: Pull hands a subscription only messages of the topic it *)
(* is attached to at that moment, and takes them from what is stored there. *)
OnlyItsTopic ==
  [][\A s \in Sub : \A m \in delivered'[s].ids \ delivered[s].ids :
       /\ s \in DOMAIN subscriptions
       /\ topicOf[m] = subscriptions[s]
       /\ m \in messages[subscriptions[s]].ids]_backend

(* Action property: no call ever exchanges two messages of a slice; the     *)
(* partition in Pull (marked first, received last) never moves anything.    *)
SliceOrderStable ==
  [][\A t \in Topic : \A m, n \in messages[t].ids \cap messages'[t].ids :
       <<m, n>> \in messages'[t].before => <<m, n>> \in messages[t].before]_backend
=============================================================================
