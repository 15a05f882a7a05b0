----------------------- MODULE PubSubBackend_proofs -----------------------
(***************************************************************************)
(* Theorems of PubSubBackend, for every set of topics and subscriptions    *)
(* and every bound, and that it implements PubSubPromise.                  *)
(***************************************************************************)
EXTENDS PubSubRefinement, TLAPS

(* The slices are strictly increasing: with this, before is a function of   *)
(* ids, and the partition in Pull can be seen to move nothing.              *)
Sorted(q) == q.before = {p \in q.ids \X q.ids : p[1] < p[2]}

SlicesSorted == \A t \in Topic : Sorted(messages[t])

(* A subscription that was handed a message was handed every older message  *)
(* that its topic still holds: Pull always takes everything.                *)
MarkedFromTheFront ==
  \A s \in DOMAIN acked : \A n \in acked[s] : \A m \in messages[topicOf[n]].ids :
     m < n => m \in acked[s]

----------------------------------------------------------------------------
(* Slices stay well formed and sorted under the three ways code builds them. *)

LEMMA KeepQueue ==
  ASSUME NEW S, NEW q, IsQueue(q, S), NEW T
  PROVE  IsQueue(Keep(q, T), S)
BY DEF IsQueue, Keep

LEMMA ConcatQueue ==
  ASSUME NEW S, NEW q, IsQueue(q, S), NEW r, IsQueue(r, S)
  PROVE  IsQueue(Concat(q, r), S)
BY DEF IsQueue, Concat

LEMMA WidenQueue ==
  ASSUME NEW S, NEW T, S \subseteq T, NEW q, IsQueue(q, S)
  PROVE  IsQueue(q, T)
BY DEF IsQueue

LEMMA AscendingQueue ==
  ASSUME NEW m \in Nat, NEW n \in Nat
  PROVE  /\ IsQueue(Ascending(m, n), m .. n)
         /\ Ascending(m, n).ids = m .. n
         /\ Sorted(Ascending(m, n))
BY DEF IsQueue, Ascending, Sorted

LEMMA KeepSorted ==
  ASSUME NEW S, NEW q, IsQueue(q, S), Sorted(q), NEW T
  PROVE  Sorted(Keep(q, T))
BY DEF IsQueue, Keep, Sorted

LEMMA ConcatSorted ==
  ASSUME NEW S \in SUBSET Nat, NEW q, IsQueue(q, S), Sorted(q),
         NEW r, IsQueue(r, S), Sorted(r),
         \A a \in q.ids : \A b \in r.ids : a < b
  PROVE  Sorted(Concat(q, r))
<1> DEFINE c == Concat(q, r)
<1>1. c.ids = q.ids \cup r.ids /\ c.before = q.before \cup r.before \cup (q.ids \X r.ids)
  BY DEF Concat
<1>2. ASSUME NEW p \in c.before
      PROVE  p \in c.ids \X c.ids /\ p[1] < p[2]
  BY <1>1, <1>2 DEF Sorted, IsQueue
<1>3. ASSUME NEW a \in c.ids, NEW b \in c.ids, a < b
      PROVE  <<a, b>> \in c.before
  <2>1. a \in Nat /\ b \in Nat /\ ~(b < a)
    BY <1>1, <1>3 DEF IsQueue
  <2>2. CASE a \in q.ids /\ b \in q.ids
    BY <1>1, <1>3, <2>2 DEF Sorted
  <2>3. CASE a \in r.ids /\ b \in r.ids
    BY <1>1, <1>3, <2>3 DEF Sorted
  <2>4. CASE a \in q.ids /\ b \in r.ids
    BY <1>1, <2>4
  <2> QED BY <1>1, <2>1, <2>2, <2>3, <2>4
<1>4. c.before = {p \in c.ids \X c.ids : p[1] < p[2]}
  BY <1>2, <1>3
<1> QED BY <1>4 DEF Sorted

----------------------------------------------------------------------------
(* The inductive invariant: the properties the runs check, strengthened by  *)
(* the two facts above.                                                     *)
IInv == /\ TypeOK
        /\ PullNeverPanics
        /\ NothingLostNothingBack
        /\ MarksAreDeliveries
        /\ SlicesSorted
        /\ MarkedFromTheFront
        /\ AtMostOnce
        /\ DeliveredInOrder

USE DEF history, stored

LEMMA InitIInv == Init => IInv
BY BackendAssumption
   DEF Init, IInv, TypeOK, PullNeverPanics, NothingLostNothingBack, MarksAreDeliveries,
       SlicesSorted, Sorted, MarkedFromTheFront, AtMostOnce, DeliveredInOrder,
       EmptyQueue, IsQueue

LEMMA PublishStep ==
  ASSUME IInv, NEW t \in Topic, NEW k \in 0 .. MaxBatch, Publish(t, k)
  PROVE  IInv'
<1> DEFINE new == Ascending(lastId + 1, lastId + k)
<1> USE BackendAssumption
<1>1. /\ lastId \in Nat /\ k \in Nat /\ lastId' = lastId + k /\ lastId' \in 0 .. MaxId
      /\ 1 .. lastId \subseteq 1 .. lastId'
  BY DEF IInv, TypeOK, Publish
<1>2. /\ new.ids = (lastId + 1) .. (lastId + k)
      /\ IsQueue(new, 1 .. lastId')
      /\ Sorted(new)
  <2> DEFINE fresh == (lastId + 1) .. (lastId + k)
  <2>1. lastId + 1 \in Nat /\ lastId + k \in Nat /\ fresh \subseteq 1 .. lastId'
    BY <1>1
  <2>2. IsQueue(new, fresh) /\ new.ids = fresh /\ Sorted(new)
    BY <2>1, AscendingQueue
  <2> QED BY <2>1, <2>2, WidenQueue
<1>3. /\ topicOf' \in [1 .. lastId' -> Topic]
      /\ \A m \in 1 .. lastId : topicOf'[m] = topicOf[m]
      /\ \A m \in new.ids : topicOf'[m] = t
  BY <1>1, <1>2 DEF IInv, TypeOK, Publish
<1>4. /\ DOMAIN messages' = Topic
      /\ messages'[t] = Concat(messages[t], new)
      /\ \A u \in Topic \ {t} : messages'[u] = messages[u]
  BY DEF IInv, TypeOK, Publish
<1> HIDE DEF new
<1>5. \A u \in Topic : IsQueue(messages[u], 1 .. lastId) /\ IsQueue(messages[u], 1 .. lastId')
  BY <1>1, WidenQueue DEF IInv, TypeOK
<1>6. \A u \in Topic : IsQueue(messages'[u], 1 .. lastId')
  BY <1>2, <1>4, <1>5, ConcatQueue
<1>7. TypeOK'
  BY <1>1, <1>3, <1>4, <1>6, WidenQueue DEF IInv, TypeOK, Publish
<1>8. PullNeverPanics'
  BY DEF IInv, PullNeverPanics, Publish
<1>9. NothingLostNothingBack'
  <2>1. released' = released /\ released \subseteq 1 .. lastId
    BY DEF IInv, TypeOK, Publish
  <2>2. messages'[t].ids = messages[t].ids \cup new.ids
    BY <1>4 DEF Concat
  <2>3. \A u \in Topic : messages[u].ids = {m \in 1 .. lastId : topicOf[m] = u} \ released
    BY DEF IInv, NothingLostNothingBack
  <2> QED BY <1>1, <1>2, <1>3, <1>4, <2>1, <2>2, <2>3 DEF NothingLostNothingBack
<1>10. MarksAreDeliveries'
  BY DEF IInv, MarksAreDeliveries, Publish
<1>11. SlicesSorted'
  <2>1. \A a \in messages[t].ids : \A b \in new.ids : a < b
    <3>1. messages[t].ids \subseteq 1 .. lastId
      BY <1>5 DEF IsQueue
    <3> QED BY <1>1, <1>2, <3>1
  <2>2. 1 .. lastId' \in SUBSET Nat /\ Sorted(messages[t])
    BY <1>1 DEF IInv, SlicesSorted
  <2>3. Sorted(Concat(messages[t], new))
    BY <1>2, <1>5, <2>1, <2>2, ConcatSorted
  <2> QED BY <1>4, <2>3 DEF IInv, SlicesSorted
<1>12. MarkedFromTheFront'
  <2> SUFFICES ASSUME NEW s \in DOMAIN acked, NEW n \in acked[s],
                      NEW m \in messages'[topicOf'[n]].ids, m < n
               PROVE  m \in acked[s]
    BY DEF MarkedFromTheFront, Publish
  <2>1. n \in 1 .. lastId /\ topicOf[n] \in Topic /\ topicOf'[n] = topicOf[n]
    BY <1>3 DEF IInv, TypeOK
  <2>2. m \in messages[topicOf[n]].ids
    BY <1>1, <1>2, <1>4, <1>5, <2>1 DEF Concat, IsQueue
  <2> QED BY <2>2 DEF IInv, MarkedFromTheFront
<1>13. AtMostOnce' /\ DeliveredInOrder'
  <2>1. delivered' = delivered /\ \A s \in Sub : IsQueue(delivered[s], 1 .. lastId)
    BY DEF IInv, TypeOK, Publish
  <2>2. AtMostOnce'
    BY <1>1, <2>1 DEF IInv, AtMostOnce, IsQueue
  <2>3. DeliveredInOrder'
    BY <1>3, <2>1 DEF IInv, DeliveredInOrder, IsQueue
  <2> QED BY <2>2, <2>3
<1> QED BY <1>7, <1>8, <1>9, <1>10, <1>11, <1>12, <1>13 DEF IInv

LEMMA CreateTopicStep ==
  ASSUME IInv, NEW t \in Topic, CreateTopic(t)
  PROVE  IInv'
<1>1. TypeOK'
  BY DEF IInv, TypeOK, CreateTopic
<1> QED BY <1>1 DEF IInv, CreateTopic, PullNeverPanics, NothingLostNothingBack, MarksAreDeliveries,
              SlicesSorted, MarkedFromTheFront, AtMostOnce, DeliveredInOrder

(* The two calls that take messages off a topic, DeleteTopic and            *)
(* Acknowledge, both keep a part of one slice.                              *)
LEMMA RemovalStep ==
  ASSUME IInv, NEW t \in Topic, NEW gone,
         topics' \subseteq Topic,
         messages' = [messages EXCEPT ![t] = Keep(@, @.ids \ gone)],
         released' = released \cup {m \in gone \cap DOMAIN topicOf : topicOf[m] = t},
         UNCHANGED <<subscriptions, acked, lastId, topicOf, delivered>>
  PROVE  IInv'
<1>1. DOMAIN messages = Topic /\ \A u \in Topic : IsQueue(messages[u], 1 .. lastId)
  BY DEF IInv, TypeOK
<1>2. /\ DOMAIN messages' = Topic
      /\ messages'[t] = Keep(messages[t], messages[t].ids \ gone)
      /\ \A u \in Topic \ {t} : messages'[u] = messages[u]
  BY <1>1
<1>3. \A u \in Topic : IsQueue(messages'[u], 1 .. lastId)
  BY <1>1, <1>2, KeepQueue
<1>4. messages'[t].ids = messages[t].ids \ gone
  BY <1>2 DEF Keep
<1>5. DOMAIN topicOf = 1 .. lastId
  BY DEF IInv, TypeOK
<1>6. TypeOK'
  BY <1>2, <1>3, <1>5 DEF IInv, TypeOK
<1>7. PullNeverPanics'
  BY DEF IInv, PullNeverPanics
<1>8. NothingLostNothingBack'
  <2>1. \A u \in Topic : messages[u].ids = {m \in 1 .. lastId : topicOf[m] = u} \ released
    BY DEF IInv, NothingLostNothingBack
  <2> DEFINE of(u) == {m \in 1 .. lastId : topicOf[m] = u}
  <2>2. released' = released \cup (gone \cap of(t))
    BY <1>5
  <2>3. messages'[t].ids = of(t) \ released'
    BY <1>4, <2>1, <2>2
  <2>4. ASSUME NEW u \in Topic \ {t}
        PROVE  messages'[u].ids = of(u) \ released'
    BY <1>2, <2>1, <2>2
  <2>5. \A u \in Topic : messages'[u].ids = of(u) \ released'
    BY <2>3, <2>4
  <2>6. \A u \in Topic : of(u) = {m \in 1 .. lastId' : topicOf'[m] = u}
    OBVIOUS
  <2> QED BY <2>5, <2>6 DEF NothingLostNothingBack
<1>9. MarksAreDeliveries'
  BY DEF IInv, MarksAreDeliveries
<1>10. SlicesSorted'
  <2>1. Sorted(messages'[t])
    BY <1>1, <1>2, KeepSorted DEF IInv, SlicesSorted
  <2> QED BY <1>2, <2>1 DEF IInv, SlicesSorted
<1>11. MarkedFromTheFront'
  <2>1. \A u \in Topic : messages'[u].ids \subseteq messages[u].ids
    BY <1>2, <1>4
  <2>2. \A s \in DOMAIN acked : \A n \in acked[s] : topicOf[n] \in Topic
    BY DEF IInv, TypeOK
  <2> QED BY <2>1, <2>2 DEF IInv, MarkedFromTheFront
<1>12. AtMostOnce' /\ DeliveredInOrder'
  BY DEF IInv, AtMostOnce, DeliveredInOrder
<1> QED BY <1>6, <1>7, <1>8, <1>9, <1>10, <1>11, <1>12 DEF IInv

LEMMA DeleteTopicStep ==
  ASSUME IInv, NEW t \in Topic, DeleteTopic(t)
  PROVE  IInv'
<1> DEFINE gone == messages[t].ids
<1>1. IsQueue(messages[t], 1 .. lastId) /\ topics \subseteq Topic /\ DOMAIN topicOf = 1 .. lastId
  BY DEF IInv, TypeOK
<1>2. Keep(messages[t], messages[t].ids \ gone) = EmptyQueue
  BY <1>1 DEF Keep, EmptyQueue, IsQueue
<1>3. gone = {m \in gone \cap DOMAIN topicOf : topicOf[m] = t}
  BY <1>1 DEF IInv, NothingLostNothingBack
<1>4. topics' \subseteq Topic
  BY <1>1 DEF DeleteTopic
<1>5. messages' = [messages EXCEPT ![t] = Keep(@, @.ids \ gone)]
  BY <1>2 DEF DeleteTopic, IInv, TypeOK
<1>6. released' = released \cup {m \in gone \cap DOMAIN topicOf : topicOf[m] = t}
  BY <1>3 DEF DeleteTopic
<1>7. UNCHANGED <<subscriptions, acked, lastId, topicOf, delivered>>
  BY DEF DeleteTopic
<1> HIDE DEF gone
<1> QED BY <1>4, <1>5, <1>6, <1>7, RemovalStep

LEMMA AcknowledgeStep ==
  ASSUME IInv, NEW s \in Sub, NEW ids, Acknowledge(s, ids)
  PROVE  IInv'
<1> DEFINE t == subscriptions[s]
<1>1. t \in Topic /\ topics \subseteq Topic
  BY DEF IInv, TypeOK, Acknowledge, GetSubscription
<1>2. /\ topics' \subseteq Topic
      /\ messages' = [messages EXCEPT ![t] = Keep(@, @.ids \ ids)]
      /\ released' = released \cup {m \in ids \cap DOMAIN topicOf : topicOf[m] = t}
      /\ UNCHANGED <<subscriptions, acked, lastId, topicOf, delivered>>
  BY <1>1 DEF Acknowledge
<1> HIDE DEF t
<1> QED BY <1>1, <1>2, RemovalStep

LEMMA CreateSubscriptionStep ==
  ASSUME IInv, NEW s \in Sub, NEW t \in Topic, CreateSubscription(s, t)
  PROVE  IInv'
<1>1. /\ DOMAIN subscriptions' = DOMAIN subscriptions \cup {s}
      /\ subscriptions' \in [DOMAIN subscriptions' -> Topic]
  BY DEF IInv, TypeOK, CreateSubscription, Put
<1>2. /\ DOMAIN acked' = DOMAIN acked \cup {s}
      /\ acked' \in [DOMAIN acked' -> SUBSET (1 .. lastId)]
      /\ \A x \in DOMAIN acked : acked'[x] = acked[x]
      /\ s \notin DOMAIN acked => acked'[s] = {}
  BY DEF IInv, TypeOK, CreateSubscription, Put
<1>3. UNCHANGED <<topics, messages, lastId, topicOf, delivered, released>>
  BY DEF CreateSubscription
<1>4. TypeOK'
  BY <1>1, <1>2, <1>3 DEF IInv, TypeOK
<1>5. PullNeverPanics'
  BY <1>1, <1>2 DEF IInv, PullNeverPanics
<1>6. MarksAreDeliveries'
  BY <1>2, <1>3 DEF IInv, MarksAreDeliveries
<1>7. MarkedFromTheFront'
  BY <1>2, <1>3 DEF IInv, MarkedFromTheFront
<1>8. NothingLostNothingBack' /\ SlicesSorted' /\ AtMostOnce' /\ DeliveredInOrder'
  BY <1>3 DEF IInv, NothingLostNothingBack, SlicesSorted, AtMostOnce, DeliveredInOrder
<1> QED BY <1>4, <1>5, <1>6, <1>7, <1>8 DEF IInv

LEMMA DeleteSubscriptionStep ==
  ASSUME IInv, NEW s \in Sub, DeleteSubscription(s)
  PROVE  IInv'
<1>1. /\ DOMAIN subscriptions' \subseteq DOMAIN subscriptions
      /\ subscriptions' \in [DOMAIN subscriptions' -> Topic]
  BY DEF IInv, TypeOK, DeleteSubscription, Delete
<1>2. UNCHANGED <<topics, messages, acked, lastId, topicOf, delivered, released>>
  BY DEF DeleteSubscription
<1>3. TypeOK' /\ PullNeverPanics'
  BY <1>1, <1>2 DEF IInv, TypeOK, PullNeverPanics
<1> QED BY <1>2, <1>3 DEF IInv, NothingLostNothingBack, MarksAreDeliveries, SlicesSorted,
                      MarkedFromTheFront, AtMostOnce, DeliveredInOrder

LEMMA PullStep ==
  ASSUME IInv, NEW s \in Sub, Pull(s)
  PROVE  IInv'
<1> DEFINE t == subscriptions[s]
           old == Keep(messages[t], acked[s])
           got == Keep(messages[t], messages[t].ids \ acked[s])
<1>1. /\ s \in DOMAIN acked /\ t \in Topic /\ acked[s] \subseteq 1 .. lastId
      /\ DOMAIN messages = Topic /\ IsQueue(messages[t], 1 .. lastId) /\ Sorted(messages[t])
      /\ DOMAIN delivered = Sub /\ IsQueue(delivered[s], 1 .. lastId)
  BY DEF IInv, TypeOK, PullNeverPanics, SlicesSorted, Pull, GetSubscription
<1>2. /\ DOMAIN messages' = Topic
      /\ messages'[t] = Concat(old, got)
      /\ \A u \in Topic \ {t} : messages'[u] = messages[u]
      /\ DOMAIN acked' = DOMAIN acked
      /\ acked'[s] = acked[s] \cup got.ids
      /\ acked' = [acked EXCEPT ![s] = @ \cup got.ids]
      /\ DOMAIN delivered' = Sub
      /\ delivered'[s] = Concat(delivered[s], got)
      /\ \A x \in Sub \ {s} : delivered'[x] = delivered[x]
      /\ UNCHANGED <<topics, subscriptions, lastId, topicOf, released>>
  BY <1>1 DEF Pull, Rebuilt, Received
<1>3. old.ids = messages[t].ids \cap acked[s] /\ got.ids = messages[t].ids \ acked[s]
  BY DEF Keep
<1>4. /\ IsQueue(old, 1 .. lastId) /\ IsQueue(got, 1 .. lastId)
      /\ Sorted(old) /\ Sorted(got)
  BY <1>1, KeepQueue, KeepSorted
<1> HIDE DEF t, old, got
<1>5. messages[t].ids = {m \in 1 .. lastId : topicOf[m] = t} \ released
  BY <1>1 DEF IInv, NothingLostNothingBack
<1>6. lastId \in Nat /\ messages[t].ids \subseteq 1 .. lastId
  BY <1>1, BackendAssumption DEF IInv, TypeOK, IsQueue
<1>7. \A n \in acked[s] : \A m \in got.ids : topicOf[n] = t => n < m
  BY <1>1, <1>3, <1>6 DEF IInv, MarkedFromTheFront
<1>8. messages'[t].ids = messages[t].ids
  BY <1>2, <1>3 DEF Concat
<1>9. TypeOK'
  <2>1. IsQueue(messages'[t], 1 .. lastId) /\ IsQueue(delivered'[s], 1 .. lastId)
    BY <1>1, <1>2, <1>4, ConcatQueue
  <2>2. acked' \in [DOMAIN acked' -> SUBSET (1 .. lastId)]
    BY <1>1, <1>2, <1>3, <1>6 DEF IInv, TypeOK
  <2> QED BY <1>2, <2>1, <2>2 DEF IInv, TypeOK
<1>10. PullNeverPanics'
  BY <1>2 DEF IInv, PullNeverPanics
<1>11. NothingLostNothingBack'
  BY <1>2, <1>8 DEF IInv, NothingLostNothingBack
<1>12. MarksAreDeliveries'
  <2>1. delivered[s].ids = acked[s]
    BY <1>1 DEF IInv, MarksAreDeliveries
  <2>2. delivered'[s].ids = acked'[s]
    BY <1>2, <2>1 DEF Concat
  <2> QED BY <1>1, <1>2, <2>2 DEF IInv, MarksAreDeliveries
<1>13. SlicesSorted'
  <2>1. \A a \in old.ids : \A b \in got.ids : a < b
    BY <1>3, <1>5, <1>7
  <2>2. Sorted(messages'[t])
    BY <1>2, <1>4, <1>6, <2>1, ConcatSorted
  <2> QED BY <1>2, <2>2 DEF IInv, SlicesSorted
<1>14. MarkedFromTheFront'
  <2> SUFFICES ASSUME NEW x \in DOMAIN acked, NEW n \in acked'[x],
                      NEW m \in messages'[topicOf[n]].ids, m < n
               PROVE  m \in acked'[x]
    BY <1>2 DEF MarkedFromTheFront
  <2>1. n \in 1 .. lastId /\ topicOf[n] \in Topic
    BY <1>2, <1>9 DEF TypeOK
  <2>2. m \in messages[topicOf[n]].ids
    BY <1>2, <1>8, <2>1
  <2>3. CASE n \in acked[x]
    BY <1>2, <2>2, <2>3 DEF IInv, MarkedFromTheFront
  <2>4. CASE n \notin acked[x]
    <3>1. x = s /\ n \in got.ids
      BY <1>2, <2>4
    <3>2. topicOf[n] = t
      BY <1>3, <1>5, <3>1
    <3> QED BY <1>2, <1>3, <2>2, <3>1, <3>2
  <2> QED BY <2>3, <2>4
<1>15. AtMostOnce' /\ DeliveredInOrder'
  <2>1. delivered[s].ids = acked[s]
    BY <1>1 DEF IInv, MarksAreDeliveries
  <2>2. delivered'[s].before = delivered[s].before \cup got.before \cup (acked[s] \X got.ids)
    BY <1>2, <2>1 DEF Concat
  <2>3. \A m \in 1 .. lastId : <<m, m>> \notin got.before
    BY <1>4 DEF Sorted, IsQueue
  <2>4. \A m \in 1 .. lastId : <<m, m>> \notin acked[s] \X got.ids
    BY <1>3
  <2>5. AtMostOnce'
    BY <1>2, <2>2, <2>3, <2>4 DEF IInv, AtMostOnce
  <2>6. \A p \in got.before : p[1] < p[2]
    BY <1>4 DEF Sorted
  <2>7. \A p \in acked[s] \X got.ids : topicOf[p[1]] = topicOf[p[2]] => p[1] < p[2]
    BY <1>3, <1>5, <1>7
  <2>8. DeliveredInOrder'
    BY <1>2, <2>2, <2>6, <2>7 DEF IInv, DeliveredInOrder
  <2> QED BY <2>5, <2>8
<1> QED BY <1>9, <1>10, <1>11, <1>12, <1>13, <1>14, <1>15 DEF IInv

LEMMA NextStep == IInv /\ [Next]_backend => IInv'
<1> SUFFICES ASSUME IInv, [Next]_backend
             PROVE  IInv'
  OBVIOUS
<1>1. ASSUME NEW t \in Topic, NEW k \in 0 .. MaxBatch, Publish(t, k)
      PROVE  IInv'
  BY <1>1, PublishStep
<1>2. ASSUME NEW t \in Topic, CreateTopic(t)
      PROVE  IInv'
  BY <1>2, CreateTopicStep
<1>3. ASSUME NEW t \in Topic, DeleteTopic(t)
      PROVE  IInv'
  BY <1>3, DeleteTopicStep
<1>4. ASSUME NEW t \in Topic, NEW s \in Sub, CreateSubscription(s, t)
      PROVE  IInv'
  BY <1>4, CreateSubscriptionStep
<1>5. ASSUME NEW s \in Sub, DeleteSubscription(s)
      PROVE  IInv'
  BY <1>5, DeleteSubscriptionStep
<1>6. ASSUME NEW s \in Sub, Pull(s)
      PROVE  IInv'
  BY <1>6, PullStep
<1>7. ASSUME NEW s \in Sub, NEW ids \in SUBSET (1 .. lastId), Acknowledge(s, ids)
      PROVE  IInv'
  BY <1>7, AcknowledgeStep
<1>8. CASE UNCHANGED backend
  BY <1>8 DEF backend, IInv, TypeOK, PullNeverPanics, NothingLostNothingBack, MarksAreDeliveries,
              SlicesSorted, MarkedFromTheFront, AtMostOnce, DeliveredInOrder
<1> QED BY <1>1, <1>2, <1>3, <1>4, <1>5, <1>6, <1>7, <1>8 DEF Next

----------------------------------------------------------------------------
(* The strengthened invariant holds in every reachable state, whatever the  *)
(* order of the calls: init and every method of MergeBackend preserve it.   *)
THEOREM Inductive == Spec => []IInv
<1>1. IInv /\ [Next]_backend => IInv'
  BY NextStep
<1> QED BY InitIInv, <1>1, PTL DEF Spec

(* Every reachable state of the backend is well typed: the maps of          *)
(* MergeBackend are partial functions over names, every stored id is known. *)
THEOREM TypeCorrect == Spec => []TypeOK
<1>1. IInv => TypeOK
  BY DEF IInv
<1> QED BY <1>1, Inductive, PTL

(* Pull never writes to a missing Acked map, so it never panics.            *)
THEOREM NoPanic == Spec => []PullNeverPanics
<1>1. IInv => PullNeverPanics
  BY DEF IInv
<1> QED BY <1>1, Inductive, PTL

(* A topic's slice always holds exactly its unreleased messages.            *)
THEOREM Retention == Spec => []NothingLostNothingBack
<1>1. IInv => NothingLostNothingBack
  BY DEF IInv
<1> QED BY <1>1, Inductive, PTL

(* A message is handed to a subscription's name at most once, and the marks *)
(* of the name are exactly the messages it was handed.                      *)
THEOREM Delivery == Spec => [](AtMostOnce /\ MarksAreDeliveries)
<1>1. IInv => AtMostOnce /\ MarksAreDeliveries
  BY DEF IInv
<1> QED BY <1>1, Inductive, PTL

(* The messages of a topic reach a name in the order they were published,   *)
(* although Pull moves what it returns to the end of the slice.             *)
THEOREM DeliveryOrder == Spec => []DeliveredInOrder
<1>1. IInv => DeliveredInOrder
  BY DEF IInv
<1> QED BY <1>1, Inductive, PTL

(* Pull serves a subscription only from the topic it is attached to: the    *)
(* other methods return nothing, and Pull reads one slice.                  *)
THEOREM Attachment == Spec => OnlyItsTopic
<1> DEFINE Step == \A s \in Sub : \A m \in delivered'[s].ids \ delivered[s].ids :
                     /\ s \in DOMAIN subscriptions
                     /\ topicOf[m] = subscriptions[s]
                     /\ m \in messages[subscriptions[s]].ids
<1>1. IInv /\ [Next]_backend => Step \/ UNCHANGED backend
  <2> SUFFICES ASSUME IInv, Next, NEW s \in Sub, NEW m \in delivered'[s].ids \ delivered[s].ids
               PROVE  /\ s \in DOMAIN subscriptions
                      /\ topicOf[m] = subscriptions[s]
                      /\ m \in messages[subscriptions[s]].ids
    OBVIOUS
  <2>1. PICK x \in Sub : Pull(x)
    BY DEF Next, Publish, CreateTopic, DeleteTopic, CreateSubscription, DeleteSubscription,
           Acknowledge
  <2>2. x \in DOMAIN subscriptions /\ subscriptions[x] \in Topic
    BY <2>1 DEF IInv, TypeOK, Pull, GetSubscription
  <2>3. s = x /\ m \in Received(s).ids
    BY <2>1 DEF IInv, TypeOK, Pull, Concat
  <2>4. m \in messages[subscriptions[s]].ids
    BY <2>3 DEF Received, Keep
  <2> QED BY <2>2, <2>3, <2>4 DEF IInv, NothingLostNothingBack
<1> QED BY <1>1, Inductive, PTL DEF Spec, OnlyItsTopic

(* No call exchanges two messages of a slice: both before and after it the  *)
(* slice is in publication order.                                           *)
THEOREM StableOrder == Spec => SliceOrderStable
<1> DEFINE Step == \A t \in Topic : \A m, n \in messages[t].ids \cap messages'[t].ids :
                     <<m, n>> \in messages'[t].before => <<m, n>> \in messages[t].before
<1>1. IInv /\ IInv' => Step
  BY DEF IInv, SlicesSorted, Sorted
<1> QED BY <1>1, Inductive, PTL DEF SliceOrderStable

----------------------------------------------------------------------------
(* Each method of MergeBackend is one step of the promise, or none.         *)
LEMMA StepKeepsPromise == IInv /\ IInv' /\ [Next]_backend => [Promise!Next]_Promise!vars
<1> DEFINE pending  == [t \in Topic |-> messages[t].ids]
           attached == {<<s, subscriptions[s]>> : s \in DOMAIN subscriptions}
           handed   == [s \in Sub |-> delivered[s].ids]
<1> SUFFICES ASSUME IInv, IInv', [Next]_backend
             PROVE  Promise!Next \/ UNCHANGED <<pending, attached, handed, lastId>>
  BY DEF Promise!vars
<1>1. DOMAIN messages = Topic /\ DOMAIN delivered = Sub /\ lastId \in 0 .. MaxId
  BY DEF IInv, TypeOK
<1>2. ASSUME NEW t \in Topic, NEW k \in 0 .. MaxBatch, Publish(t, k)
      PROVE  Promise!Next
  <2>1. pending' = [pending EXCEPT ![t] = @ \cup (lastId + 1) .. (lastId + k)]
    BY <1>1, <1>2 DEF Publish, Concat, Ascending
  <2>2. Promise!Publish(t, k)
    BY <1>2, <2>1 DEF Publish, Promise!Publish
  <2> QED BY <2>2 DEF Promise!Next
<1>3. ASSUME NEW t \in Topic, CreateTopic(t)
      PROVE  UNCHANGED <<pending, attached, handed, lastId>>
  BY <1>3 DEF CreateTopic
<1>4. ASSUME NEW t \in Topic, DeleteTopic(t)
      PROVE  Promise!Next
  <2>1. pending' = [pending EXCEPT ![t] = @ \ messages[t].ids]
    BY <1>1, <1>4 DEF DeleteTopic, EmptyQueue
  <2>2. messages[t].ids \subseteq 1 .. MaxId
    BY <1>1, BackendAssumption DEF IInv, TypeOK, IsQueue
  <2>3. PICK all \in SUBSET (1 .. MaxId) : all = messages[t].ids
    BY <2>2
  <2>4. Promise!Discard(t, all)
    BY <1>4, <2>1, <2>3 DEF DeleteTopic, Promise!Discard
  <2> QED BY <2>4 DEF Promise!Next
<1>5. ASSUME NEW s \in Sub, NEW t \in Topic, CreateSubscription(s, t)
      PROVE  Promise!Next
  <2>1. attached' = {a \in attached : a[1] # s} \cup {<<s, t>>}
    BY <1>5 DEF CreateSubscription, Put
  <2>2. Promise!Attach(s, t)
    BY <1>5, <2>1 DEF CreateSubscription, Promise!Attach
  <2> QED BY <2>2 DEF Promise!Next
<1>6. ASSUME NEW s \in Sub, DeleteSubscription(s)
      PROVE  Promise!Next
  <2>1. attached' = {a \in attached : a[1] # s}
    BY <1>6 DEF DeleteSubscription, Delete
  <2>2. Promise!Detach(s)
    BY <1>6, <2>1 DEF DeleteSubscription, Promise!Detach
  <2> QED BY <2>2 DEF Promise!Next
<1>7. ASSUME NEW s \in Sub, Pull(s)
      PROVE  Promise!Next
  <2>1. s \in DOMAIN subscriptions /\ s \in DOMAIN acked
    BY <1>7 DEF IInv, TypeOK, PullNeverPanics, Pull, GetSubscription
  <2> PICK t \in Topic : t = subscriptions[s]
    BY <2>1 DEF IInv, TypeOK
  <2>2. delivered[s].ids = acked[s]
    BY <2>1 DEF IInv, MarksAreDeliveries
  <2>3. delivered'[s].ids = delivered[s].ids \cup messages[t].ids
    BY <1>1, <1>7, <2>2 DEF Pull, Rebuilt, Received, Concat, Keep
  <2>4. handed' = [handed EXCEPT ![s] = @ \cup pending[t]]
    BY <1>1, <1>7, <2>1, <2>3 DEF Pull
  <2>5. messages'[t].ids = messages[t].ids
    BY <1>1, <1>7, <2>1 DEF Pull, Rebuilt, Received, Concat, Keep
  <2>6. UNCHANGED <<pending, attached, lastId>>
    BY <1>1, <1>7, <2>5 DEF Pull
  <2>7. <<s, t>> \in attached
    BY <2>1
  <2>8. Promise!Hand(s, t)
    BY <2>4, <2>6, <2>7 DEF Promise!Hand
  <2> QED BY <2>8 DEF Promise!Next
<1>8. ASSUME NEW s \in Sub, NEW ids \in SUBSET (1 .. lastId), Acknowledge(s, ids)
      PROVE  Promise!Next
  <2> PICK t \in Topic : t = subscriptions[s]
    BY <1>8 DEF IInv, TypeOK, Acknowledge, GetSubscription
  <2>1. t \in Topic /\ ids \in SUBSET (1 .. MaxId)
    BY <1>1, <1>8, BackendAssumption DEF IInv, TypeOK, Acknowledge, GetSubscription
  <2>2. pending' = [pending EXCEPT ![t] = @ \ ids]
    <3>1. Keep(messages[t], messages[t].ids \ ids).ids = messages[t].ids \ ids
      BY DEF Keep
    <3>2. messages' = [messages EXCEPT ![t] = Keep(messages[t], messages[t].ids \ ids)]
      BY <1>1, <1>8, <2>1 DEF Acknowledge
    <3> QED BY <1>1, <2>1, <3>1, <3>2
  <2>3. Promise!Discard(t, ids)
    BY <1>8, <2>2 DEF Acknowledge, Promise!Discard
  <2> QED BY <2>1, <2>3 DEF Promise!Next
<1>9. CASE UNCHANGED backend
  BY <1>9 DEF backend
<1> HIDE DEF pending, attached, handed
<1> QED BY <1>2, <1>3, <1>4, <1>5, <1>6, <1>7, <1>8, <1>9 DEF Next

(* The backend implements what the emulator promises of a subscription.     *)
THEOREM Implements == Spec => KeepsPromise
<1>1. Init => Promise!Init
  BY DEF Init, Promise!Init, EmptyQueue
<1> QED BY <1>1, StepKeepsPromise, Inductive, PTL DEF Spec, KeepsPromise, Promise!Spec
=============================================================================
