------------------------- MODULE StreamingPull_proofs -------------------------
(***************************************************************************)
(* Any number of StreamingPull calls, of subscriptions and of other        *)
(* callers on one backend: the streams use it as any caller does, every    *)
(* message handed out is in one place, and a clean end loses none.         *)
(***************************************************************************)
EXTENDS StreamingPull, PubSubBackend_proofs

USE DEF history, stored, handler, client, account

\* A request, or the end of the stream, that names only published messages.
Known == {r \in Request \cup {EOF} : r.acks \subseteq 1 .. lastId}

\* The types of a stream's state.
StreamTyped ==
  /\ loop \in [Stream -> {"select", "ack", "send", "returned"}]
  /\ clean \in [Stream -> BOOLEAN]
  /\ named \in [Stream -> Sub \cup {NoSub}]
  /\ acking \in [Stream -> SUBSET (1 .. lastId)]
  /\ batch \in [Stream -> SUBSET (1 .. lastId)]
  /\ receiver \in [Stream -> {"recv", "offer", "ended"}]
  /\ offered \in [Stream -> Known]
  /\ wire \in [Stream -> Known]
  /\ halfClosed \in [Stream -> BOOLEAN]
  /\ cancelled \in [Stream -> BOOLEAN]
  /\ sent \in [Stream -> SUBSET (Sub \X (1 .. lastId))]
  /\ lost \in [Stream -> SUBSET (Sub \X (1 .. lastId))]
  /\ unary \in [Sub -> SUBSET (1 .. lastId)]

\* Where the handler is tells what it may hold: a batch only while it sends
\* to a subscription it knows, a loss only once it returned; and the receiver
\* ends exactly with a handler that took the error it offered.
LoopInv ==
  \A x \in Stream : /\ loop[x] = "send" => named[x] # NoSub
                    /\ loop[x] # "send" => batch[x] = {}
                    /\ loop[x] # "returned" => lost[x] = {}
                    /\ clean[x] => loop[x] = "returned" /\ lost[x] = {}
                    /\ receiver[x] = "ended" <=> clean[x]

(* The inductive invariant of the streams, over that of the backend.        *)
SInv == IInv /\ StreamTyped /\ LoopInv /\ ExactlyOneHolder

----------------------------------------------------------------------------
(* The empty request is a request.                                          *)
LEMMA NothingKnown == Nothing \in Known /\ EOF \in Known
<1>1. Nothing \in Request /\ Nothing.acks = {} /\ EOF.acks = {}
  BY DEF Nothing, Request, EOF
<1> QED BY <1>1 DEF Known

(* No stream has done anything yet.                                         *)
LEMMA SInvInit == StreamInit => SInv
<1> SUFFICES ASSUME StreamInit PROVE SInv
  OBVIOUS
<1>1. IInv
  BY InitIInv DEF StreamInit
<1>2. StreamTyped
  BY NothingKnown DEF StreamInit, StreamTyped
<1>3. LoopInv
  BY DEF StreamInit, LoopInv
<1>4. ExactlyOneHolder
  BY DEF StreamInit, Init, ExactlyOneHolder
<1> QED BY <1>1, <1>2, <1>3, <1>4 DEF SInv

(* A step of a stream alone: the backend stands still.                      *)
LEMMA BackendRests ==
  ASSUME IInv, UNCHANGED backend
  PROVE  IInv' /\ lastId' = lastId /\ delivered' = delivered
<1>1. [Next]_backend
  OBVIOUS
<1>2. IInv'
  BY <1>1, NextStep
<1> QED BY <1>2 DEF backend

(* What becomes of the pairs of a stream, when nothing is handed out.       *)
LEMMA HoldersRest ==
  ASSUME ExactlyOneHolder, lastId' = lastId, delivered' = delivered,
         UNCHANGED <<sent, lost, unary>>,
         \A x \in Stream : batch'[x] = batch[x] /\ (batch[x] # {} => named'[x] = named[x])
  PROVE  ExactlyOneHolder'
<1>1. \A s \in Sub, m \in 1 .. lastId : Holders(s, m)' = Holders(s, m)
  <2> SUFFICES ASSUME NEW s \in Sub, NEW m \in 1 .. lastId
               PROVE  Holders(s, m)' = Holders(s, m)
    OBVIOUS
  <2>1. {y \in Stream : named'[y] = s /\ m \in batch'[y]} = {y \in Stream : named[y] = s /\ m \in batch[y]}
    OBVIOUS
  <2> QED BY <2>1 DEF Holders
<1> QED BY <1>1 DEF ExactlyOneHolder

----------------------------------------------------------------------------
(* The receiver and the client's side of the stream.                        *)
LEMMA ClientSide ==
  ASSUME SInv, NEW x \in Stream,
         RecvRequest(x) \/ RecvError(x) \/ ClientSends(x) \/ ClientCloses(x) \/ Cancel(x)
  PROVE  SInv'
<1>1. IInv' /\ lastId' = lastId /\ delivered' = delivered
  BY BackendRests DEF SInv, RecvRequest, RecvError, ClientSends, ClientCloses, Cancel
<1>2. UNCHANGED <<loop, clean, named, acking, batch, sent, lost, unary>>
  BY DEF RecvRequest, RecvError, ClientSends, ClientCloses, Cancel
<1>3. ExactlyOneHolder'
  BY <1>1, <1>2, HoldersRest DEF SInv
<1>4. Known' = Known
  BY <1>1 DEF Known
<1>5. StreamTyped'
  <2>1. CASE RecvRequest(x) \/ RecvError(x)
    BY <1>1, <1>2, <1>4, <2>1, NothingKnown DEF SInv, StreamTyped, RecvRequest, RecvError
  <2>2. CASE ClientSends(x)
    <3>1. PICK r \in Request : r.acks \subseteq {p[2] : p \in sent[x]} /\ wire' = [wire EXCEPT ![x] = r]
      BY <2>2 DEF ClientSends
    <3>2. sent[x] \subseteq Sub \X (1 .. lastId)
      BY DEF SInv, StreamTyped
    <3>3. \A p \in sent[x] : p[2] \in 1 .. lastId
      BY <3>2
    <3>4. r \in Known
      BY <3>1, <3>3 DEF Known
    <3>5. wire' \in [Stream -> Known]
      BY <3>1, <3>4 DEF SInv, StreamTyped
    <3> QED BY <1>1, <1>2, <1>4, <2>2, <3>5 DEF SInv, StreamTyped, ClientSends
  <2>3. CASE ClientCloses(x) \/ Cancel(x)
    BY <1>1, <1>2, <1>4, <2>3 DEF SInv, StreamTyped, ClientCloses, Cancel
  <2> QED BY <2>1, <2>2, <2>3
<1>6. LoopInv'
  <2>1. \A y \in Stream : receiver'[y] = "ended" <=> receiver[y] = "ended"
    BY DEF SInv, StreamTyped, RecvRequest, RecvError, ClientSends, ClientCloses, Cancel
  <2> QED BY <1>2, <2>1 DEF SInv, LoopInv
<1> QED BY <1>1, <1>3, <1>5, <1>6 DEF SInv

----------------------------------------------------------------------------
(* The handler's steps that hand nothing out.                               *)

LEMMA ContextDoneStep ==
  ASSUME SInv, NEW x \in Stream, ContextDone(x)
  PROVE  SInv'
<1>1. IInv' /\ lastId' = lastId /\ delivered' = delivered
  BY BackendRests DEF SInv, ContextDone
<1>2. ExactlyOneHolder'
  BY <1>1, HoldersRest DEF SInv, ContextDone
<1>3. StreamTyped'
  BY <1>1 DEF SInv, StreamTyped, ContextDone, Known
<1>4. LoopInv'
  BY DEF SInv, StreamTyped, LoopInv, ContextDone, Selecting
<1> QED BY <1>1, <1>2, <1>3, <1>4 DEF SInv

LEMMA TakeErrorStep ==
  ASSUME SInv, NEW x \in Stream, TakeError(x)
  PROVE  SInv'
<1>1. IInv' /\ lastId' = lastId /\ delivered' = delivered
  BY BackendRests DEF SInv, TakeError
<1>2. ExactlyOneHolder'
  BY <1>1, HoldersRest DEF SInv, TakeError
<1>3. StreamTyped'
  <2>1. Known' = Known
    BY <1>1 DEF Known
  <2> QED BY <1>1, <2>1, NothingKnown DEF SInv, StreamTyped, TakeError
<1>4. LoopInv'
  BY DEF SInv, StreamTyped, LoopInv, TakeError, Selecting
<1> QED BY <1>1, <1>2, <1>3, <1>4 DEF SInv

LEMMA TakeRequestStep ==
  ASSUME SInv, NEW x \in Stream, TakeRequest(x)
  PROVE  SInv'
<1>1. IInv' /\ lastId' = lastId /\ delivered' = delivered
  BY BackendRests DEF SInv, TakeRequest
<1>2. batch[x] = {}
  BY DEF SInv, LoopInv, TakeRequest, Selecting
<1>3. ExactlyOneHolder'
  <2>1. \A y \in Stream : batch'[y] = batch[y] /\ (batch[y] # {} => named'[y] = named[y])
    BY <1>2 DEF SInv, StreamTyped, TakeRequest
  <2> QED BY <1>1, <2>1, HoldersRest DEF SInv, TakeRequest
<1>4. StreamTyped'
  <2>1. Known' = Known /\ offered[x] \in Known
    BY <1>1 DEF Known, SInv, StreamTyped
  <2>2. offered[x].acks \subseteq 1 .. lastId /\ offered[x].sub \in Sub \cup {NoSub}
    <3>1. offered[x] \in Request \cup {EOF} /\ offered[x].acks \subseteq 1 .. lastId
      BY <2>1 DEF Known
    <3>2. offered[x] \in Request => offered[x].sub \in Sub \cup {NoSub}
      BY DEF Request
    <3> QED BY <3>1, <3>2 DEF EOF
  <2>3. NamedBy(x) \in Sub \cup {NoSub}
    BY <2>2 DEF NamedBy, SInv, StreamTyped
  <2>4. named' \in [Stream -> Sub \cup {NoSub}]
    BY <2>3 DEF SInv, StreamTyped, TakeRequest
  <2>5. /\ loop' \in [Stream -> {"select", "ack", "send", "returned"}]
        /\ acking' \in [Stream -> SUBSET (1 .. lastId)]
    BY <2>2 DEF SInv, StreamTyped, TakeRequest
  <2>6. /\ receiver' \in [Stream -> {"recv", "offer", "ended"}]
        /\ offered' \in [Stream -> Known]
    BY NothingKnown DEF SInv, StreamTyped, TakeRequest
  <2> QED BY <1>1, <2>1, <2>4, <2>5, <2>6 DEF SInv, StreamTyped, TakeRequest
<1>5. LoopInv'
  BY DEF SInv, StreamTyped, LoopInv, TakeRequest, Selecting
<1> QED BY <1>1, <1>3, <1>4, <1>5 DEF SInv

(* Acknowledging takes messages off the topic and hands nothing out.        *)
LEMMA ApplyAcksStep ==
  ASSUME SInv, NEW x \in Stream, ApplyAcks(x)
  PROVE  /\ SInv'
         /\ [Next]_backend
<1>1. [Next]_backend /\ lastId' = lastId /\ delivered' = delivered
  <2>1. CASE GetSubscription(named[x])
    <3>1. Acknowledge(named[x], acking[x]) /\ acking[x] \in SUBSET (1 .. lastId)
      BY <2>1 DEF ApplyAcks, SInv, StreamTyped
    <3>2. named[x] \in Sub
      BY <2>1 DEF GetSubscription, SInv, IInv, TypeOK
    <3>3. Next
      BY <3>1, <3>2 DEF Next
    <3> QED BY <3>1, <3>3 DEF Acknowledge
  <2>2. CASE ~GetSubscription(named[x])
    <3>1. UNCHANGED backend
      BY <2>2 DEF ApplyAcks
    <3> QED BY <3>1 DEF backend
  <2> QED BY <2>1, <2>2
<1>2. IInv'
  BY <1>1, NextStep DEF SInv
<1>3. ExactlyOneHolder'
  BY <1>1, HoldersRest DEF SInv, ApplyAcks
<1>4. StreamTyped'
  BY <1>1 DEF SInv, StreamTyped, ApplyAcks, Known
<1>5. LoopInv'
  BY DEF SInv, StreamTyped, LoopInv, ApplyAcks
<1> QED BY <1>1, <1>2, <1>3, <1>4, <1>5 DEF SInv

----------------------------------------------------------------------------
(* A pull hands out what its subscription has no mark of: nobody holds it.  *)
LEMMA PullHands ==
  ASSUME IInv, NEW s \in Sub, Pull(s)
  PROVE  /\ IInv' /\ [Next]_backend /\ lastId' = lastId
         /\ DOMAIN delivered = Sub
         /\ delivered'[s].ids = delivered[s].ids \cup Received(s).ids
         /\ \A t \in Sub \ {s} : delivered'[t] = delivered[t]
         /\ Received(s).ids \subseteq 1 .. lastId
         /\ Received(s).ids \cap delivered[s].ids = {}
<1>1. Next
  BY DEF Next
<1>2. IInv'
  BY <1>1, NextStep
<1>3. s \in DOMAIN subscriptions /\ s \in DOMAIN acked /\ subscriptions[s] \in Topic
  BY DEF IInv, TypeOK, PullNeverPanics, Pull, GetSubscription
<1>4. delivered[s].ids = acked[s]
  BY <1>3 DEF IInv, MarksAreDeliveries
<1>5. Received(s).ids = messages[subscriptions[s]].ids \ acked[s]
  BY DEF Received, Keep
<1>6. messages[subscriptions[s]].ids \subseteq 1 .. lastId
  BY <1>3 DEF IInv, TypeOK, IsQueue
<1>7. DOMAIN delivered = Sub /\ delivered' = [delivered EXCEPT ![s] = Concat(@, Received(s))]
  BY DEF Pull, IInv, TypeOK
<1>8. /\ delivered'[s].ids = delivered[s].ids \cup Received(s).ids
      /\ \A t \in Sub \ {s} : delivered'[t] = delivered[t]
  BY <1>7 DEF Concat
<1> QED BY <1>1, <1>2, <1>4, <1>5, <1>6, <1>7, <1>8 DEF Pull

(* What nobody holds is nowhere,                                            *)
LEMMA HeldByNobody ==
  ASSUME NEW s, NEW m
  PROVE  Holders(s, m) = {} <=> /\ \A y \in Stream : /\ <<s, m>> \notin sent[y] /\ <<s, m>> \notin lost[y]
                                                     /\ ~(named[y] = s /\ m \in batch[y])
                                /\ m \notin unary[s]
<1>1. ASSUME Holders(s, m) = {}
      PROVE  /\ \A y \in Stream : /\ <<s, m>> \notin sent[y] /\ <<s, m>> \notin lost[y]
                                  /\ ~(named[y] = s /\ m \in batch[y])
             /\ m \notin unary[s]
  <2>1. /\ {y \in Stream : <<s, m>> \in sent[y]} = {}
        /\ {y \in Stream : <<s, m>> \in lost[y]} = {}
        /\ {y \in Stream : named[y] = s /\ m \in batch[y]} = {}
        /\ {j \in {m} : j \in unary[s]} = {}
    BY <1>1 DEF Holders
  <2> QED BY <2>1
<1>2. ASSUME \A y \in Stream : /\ <<s, m>> \notin sent[y] /\ <<s, m>> \notin lost[y]
                               /\ ~(named[y] = s /\ m \in batch[y]),
             m \notin unary[s]
      PROVE  Holders(s, m) = {}
  BY <1>2 DEF Holders
<1> QED BY <1>1, <1>2

(* and what one stream is sending is nowhere else.                          *)
LEMMA HeldByBatch ==
  ASSUME NEW s, NEW m, NEW x \in Stream, named[x] = s, m \in batch[x],
         \E h \in Holders(s, m) : Holders(s, m) = {h}
  PROVE  /\ \A y \in Stream : /\ <<s, m>> \notin sent[y] /\ <<s, m>> \notin lost[y]
                              /\ named[y] = s /\ m \in batch[y] => y = x
         /\ m \notin unary[s]
<1>1. <<x, "batch">> \in Holders(s, m)
  BY DEF Holders
<1>2. Holders(s, m) = {<<x, "batch">>}
  BY <1>1
<1>3. \A y \in Stream : <<s, m>> \in sent[y] => <<y, "sent">> \in Holders(s, m)
  BY DEF Holders
<1>4. \A y \in Stream : <<s, m>> \in lost[y] => <<y, "lost">> \in Holders(s, m)
  BY DEF Holders
<1>5. \A y \in Stream : named[y] = s /\ m \in batch[y] => <<y, "batch">> \in Holders(s, m)
  BY DEF Holders
<1>6. m \in unary[s] => <<s, "unary">> \in Holders(s, m)
  BY DEF Holders
<1>7. /\ \A y : <<y, "sent">> # <<x, "batch">> /\ <<y, "lost">> # <<x, "batch">>
      /\ \A y : <<y, "batch">> = <<x, "batch">> => y = x
      /\ <<s, "unary">> # <<x, "batch">>
  OBVIOUS
<1> QED BY <1>2, <1>3, <1>4, <1>5, <1>6, <1>7

(* A message that neither moves nor is handed out stays where it is.        *)
LEMMA HeldAsBefore ==
  ASSUME ExactlyOneHolder, NEW s \in Sub, NEW m \in 1 .. lastId, Holders(s, m)' = Holders(s, m),
         m \in delivered'[s].ids <=> m \in delivered[s].ids
  PROVE  IF m \in delivered'[s].ids THEN \E h \in Holders(s, m)' : Holders(s, m)' = {h}
                                    ELSE Holders(s, m)' = {}
BY DEF ExactlyOneHolder

----------------------------------------------------------------------------
(* A tick pulls: what nobody held is in the batch.                          *)
LEMMA PollStep ==
  ASSUME SInv, NEW x \in Stream, Poll(x)
  PROVE  SInv' /\ [Next]_backend
<1> DEFINE s == named[x]
           R == Received(s).ids
<1>1. s \in Sub /\ Pull(s)
  BY DEF Poll, GetSubscription, SInv, IInv, TypeOK
<1>2. /\ IInv' /\ [Next]_backend /\ lastId' = lastId /\ DOMAIN delivered = Sub
      /\ delivered'[s].ids = delivered[s].ids \cup R
      /\ \A t \in Sub \ {s} : delivered'[t] = delivered[t]
      /\ R \subseteq 1 .. lastId /\ R \cap delivered[s].ids = {}
  BY <1>1, PullHands DEF SInv
<1>3. /\ batch' = [batch EXCEPT ![x] = R] /\ loop' = [loop EXCEPT ![x] = "send"]
      /\ loop[x] = "select" /\ s # NoSub
      /\ UNCHANGED <<clean, named, acking, receiver, offered, wire, halfClosed, cancelled,
                     sent, lost, unary>>
  BY DEF Poll, Selecting
<1> HIDE DEF R
<1>4. StreamTyped'
  BY <1>2, <1>3 DEF SInv, StreamTyped, Known
<1>5. LoopInv'
  BY <1>3 DEF SInv, StreamTyped, LoopInv
<1>6. batch[x] = {} /\ DOMAIN batch = Stream
  BY <1>3 DEF SInv, LoopInv, StreamTyped
<1>7. ExactlyOneHolder'
  <2> SUFFICES ASSUME NEW t \in Sub, NEW m \in 1 .. lastId
               PROVE  IF m \in delivered'[t].ids THEN \E h \in Holders(t, m)' : Holders(t, m)' = {h}
                                                 ELSE Holders(t, m)' = {}
    BY <1>2 DEF ExactlyOneHolder
  <2>1. CASE t = s /\ m \in R
    <3>1. Holders(t, m) = {}
      BY <1>2, <2>1 DEF SInv, ExactlyOneHolder
    <3>2. /\ \A y \in Stream : /\ <<t, m>> \notin sent[y] /\ <<t, m>> \notin lost[y]
                               /\ ~(named[y] = t /\ m \in batch[y])
          /\ m \notin unary[t]
      BY <3>1, HeldByNobody
    <3>3. {y \in Stream : named'[y] = t /\ m \in batch'[y]} = {x}
      BY <1>3, <1>6, <2>1, <3>2
    <3>4. Holders(t, m)' = {<<x, "batch">>}
      BY <1>3, <3>2, <3>3 DEF Holders
    <3>5. m \in delivered'[t].ids
      BY <1>2, <2>1
    <3> QED BY <3>4, <3>5
  <2>2. CASE ~(t = s /\ m \in R)
    <3>1. {y \in Stream : named'[y] = t /\ m \in batch'[y]}
            = {y \in Stream : named[y] = t /\ m \in batch[y]}
      BY <1>3, <1>6, <2>2
    <3>2. Holders(t, m)' = Holders(t, m)
      BY <1>3, <3>1 DEF Holders
    <3>3. m \in delivered'[t].ids <=> m \in delivered[t].ids
      BY <1>2, <2>2
    <3> QED BY <3>2, <3>3, HeldAsBefore DEF SInv
  <2> QED BY <2>1, <2>2
<1> QED BY <1>2, <1>4, <1>5, <1>7 DEF SInv

(* The batch is accepted, or lost with the stream: what was in it is there. *)
LEMMA SendStep ==
  ASSUME SInv, NEW x \in Stream, SendOk(x) \/ SendFails(x)
  PROVE  SInv'
<1> DEFINE s == named[x]
           B == batch[x]
<1>1. IInv' /\ lastId' = lastId /\ delivered' = delivered
  BY BackendRests DEF SInv, SendOk, SendFails
<1>2. s \in Sub /\ B \subseteq 1 .. lastId /\ loop[x] = "send" /\ lost[x] = {} /\ ~clean[x]
  BY DEF SendOk, SendFails, SInv, StreamTyped, LoopInv
<1>3. /\ batch' = [batch EXCEPT ![x] = {}]
      /\ UNCHANGED <<clean, named, acking, receiver, offered, wire, halfClosed, cancelled, unary>>
  BY DEF SendOk, SendFails
<1>4. {s} \X B \subseteq Sub \X (1 .. lastId)
  BY <1>2
<1>5. \/ /\ sent' = [sent EXCEPT ![x] = @ \cup ({s} \X B)] /\ lost' = lost
         /\ loop' = [loop EXCEPT ![x] = "select"]
      \/ /\ lost' = [lost EXCEPT ![x] = @ \cup ({s} \X B)] /\ sent' = sent
         /\ loop' = [loop EXCEPT ![x] = "returned"]
  BY DEF SendOk, SendFails
<1> HIDE DEF B
<1>6. StreamTyped'
  <2>1. /\ sent' \in [Stream -> SUBSET (Sub \X (1 .. lastId))]
        /\ lost' \in [Stream -> SUBSET (Sub \X (1 .. lastId))]
    BY <1>4, <1>5 DEF SInv, StreamTyped
  <2>2. /\ loop' \in [Stream -> {"select", "ack", "send", "returned"}]
        /\ batch' \in [Stream -> SUBSET (1 .. lastId)]
    BY <1>3, <1>5 DEF SInv, StreamTyped
  <2> QED BY <1>1, <1>3, <2>1, <2>2 DEF SInv, StreamTyped, Known
<1>7. LoopInv'
  BY <1>2, <1>3, <1>5 DEF SInv, StreamTyped, LoopInv
<1>8. DOMAIN sent = Stream /\ DOMAIN lost = Stream /\ DOMAIN batch = Stream
  BY DEF SInv, StreamTyped
<1>9. ExactlyOneHolder'
  <2> SUFFICES ASSUME NEW t \in Sub, NEW m \in 1 .. lastId
               PROVE  IF m \in delivered'[t].ids THEN \E h \in Holders(t, m)' : Holders(t, m)' = {h}
                                                 ELSE Holders(t, m)' = {}
    BY <1>1 DEF ExactlyOneHolder
  <2>1. CASE t = s /\ m \in B
    <3>1. m \in delivered[t].ids /\ \E h \in Holders(t, m) : Holders(t, m) = {h}
      <4>1. <<x, "batch">> \in Holders(t, m)
        BY <2>1 DEF Holders, B
      <4> QED BY <4>1 DEF SInv, ExactlyOneHolder
    <3>2. /\ \A y \in Stream : /\ <<t, m>> \notin sent[y] /\ <<t, m>> \notin lost[y]
                               /\ named[y] = t /\ m \in batch[y] => y = x
          /\ m \notin unary[t]
      BY <2>1, <3>1, HeldByBatch DEF B
    <3>3. {y \in Stream : named'[y] = t /\ m \in batch'[y]} = {}
      BY <1>3, <1>8, <3>2
    <3>4. <<t, m>> \in {s} \X B
      BY <2>1
    <3>5. \/ /\ {y \in Stream : <<t, m>> \in sent'[y]} = {x}
             /\ {y \in Stream : <<t, m>> \in lost'[y]} = {}
          \/ /\ {y \in Stream : <<t, m>> \in sent'[y]} = {}
             /\ {y \in Stream : <<t, m>> \in lost'[y]} = {x}
      BY <1>5, <1>8, <3>2, <3>4
    <3>6. Holders(t, m)' = {<<x, "sent">>} \/ Holders(t, m)' = {<<x, "lost">>}
      BY <1>3, <3>2, <3>3, <3>5 DEF Holders
    <3> QED BY <1>1, <3>1, <3>6
  <2>2. CASE ~(t = s /\ m \in B)
    <3>1. {y \in Stream : named'[y] = t /\ m \in batch'[y]}
            = {y \in Stream : named[y] = t /\ m \in batch[y]}
      BY <1>3, <1>8, <2>2 DEF B
    <3>2. <<t, m>> \notin {s} \X B
      BY <2>2
    <3>3. /\ {y \in Stream : <<t, m>> \in sent'[y]} = {y \in Stream : <<t, m>> \in sent[y]}
          /\ {y \in Stream : <<t, m>> \in lost'[y]} = {y \in Stream : <<t, m>> \in lost[y]}
      BY <1>5, <1>8, <3>2
    <3>4. Holders(t, m)' = Holders(t, m)
      BY <1>3, <3>1, <3>3 DEF Holders
    <3> QED BY <1>1, <3>4, HeldAsBefore DEF SInv
  <2> QED BY <2>1, <2>2
<1> QED BY <1>1, <1>6, <1>7, <1>9 DEF SInv

----------------------------------------------------------------------------
(* Another caller pulls: what nobody held is in its answer.                 *)
LEMMA UnaryPullStep ==
  ASSUME SInv, NEW s \in Sub, UnaryPull(s)
  PROVE  SInv' /\ [Next]_backend
<1> DEFINE R == Received(s).ids
<1>1. /\ IInv' /\ [Next]_backend /\ lastId' = lastId
      /\ delivered'[s].ids = delivered[s].ids \cup R
      /\ \A t \in Sub \ {s} : delivered'[t] = delivered[t]
      /\ R \subseteq 1 .. lastId /\ R \cap delivered[s].ids = {}
  BY PullHands DEF SInv, UnaryPull
<1>2. /\ unary' = [unary EXCEPT ![s] = @ \cup R]
      /\ UNCHANGED <<loop, clean, named, acking, batch, receiver, offered, wire, halfClosed,
                     cancelled, sent, lost>>
  BY DEF UnaryPull
<1> HIDE DEF R
<1>3. StreamTyped'
  BY <1>1, <1>2 DEF SInv, StreamTyped, Known
<1>4. LoopInv'
  BY <1>2 DEF SInv, LoopInv
<1>5. DOMAIN unary = Sub
  BY DEF SInv, StreamTyped
<1>6. ExactlyOneHolder'
  <2> SUFFICES ASSUME NEW t \in Sub, NEW m \in 1 .. lastId
               PROVE  IF m \in delivered'[t].ids THEN \E h \in Holders(t, m)' : Holders(t, m)' = {h}
                                                 ELSE Holders(t, m)' = {}
    BY <1>1 DEF ExactlyOneHolder
  <2>1. CASE t = s /\ m \in R
    <3>1. Holders(t, m) = {}
      BY <1>1, <2>1 DEF SInv, ExactlyOneHolder
    <3>2. /\ \A y \in Stream : /\ <<t, m>> \notin sent[y] /\ <<t, m>> \notin lost[y]
                               /\ ~(named[y] = t /\ m \in batch[y])
          /\ m \notin unary[t]
      BY <3>1, HeldByNobody
    <3>3. {j \in {m} : j \in unary'[t]} = {m}
      BY <1>2, <1>5, <2>1
    <3>4. Holders(t, m)' = {<<t, "unary">>}
      BY <1>2, <3>2, <3>3 DEF Holders
    <3>5. m \in delivered'[t].ids
      BY <1>1, <2>1
    <3> QED BY <3>4, <3>5
  <2>2. CASE ~(t = s /\ m \in R)
    <3>1. {j \in {m} : j \in unary'[t]} = {j \in {m} : j \in unary[t]}
      BY <1>2, <1>5, <2>2
    <3>2. Holders(t, m)' = Holders(t, m)
      BY <1>2, <3>1 DEF Holders
    <3>3. m \in delivered'[t].ids <=> m \in delivered[t].ids
      BY <1>1, <2>2
    <3> QED BY <3>2, <3>3, HeldAsBefore DEF SInv
  <2> QED BY <2>1, <2>2
<1> QED BY <1>1, <1>3, <1>4, <1>6 DEF SInv

(* Any other call hands nothing out; published messages are new to everyone.*)
LEMMA OtherCallStep ==
  ASSUME SInv, OtherCall
  PROVE  SInv' /\ [Next]_backend
<1>1. Next
  <2>1. 1 .. MaxBatch \subseteq 0 .. MaxBatch
    BY BackendAssumption
  <2> QED BY <2>1 DEF OtherCall, Next
<1>2. IInv'
  BY <1>1, NextStep DEF SInv
<1>3. UNCHANGED <<loop, clean, named, acking, batch, receiver, offered, wire, halfClosed,
                  cancelled, sent, lost, unary>>
  BY DEF OtherCall, streams
<1>4. delivered' = delivered
  BY DEF OtherCall, Publish, CreateTopic, DeleteTopic, CreateSubscription, DeleteSubscription,
         Acknowledge
<1>5. lastId \in Nat /\ lastId' \in Nat /\ lastId <= lastId'
  <2>1. lastId \in 0 .. MaxId /\ lastId' \in 0 .. MaxId
    BY <1>2 DEF SInv, IInv, TypeOK
  <2>2. lastId' = lastId \/ \E k \in 1 .. MaxBatch : lastId' = lastId + k
    BY DEF OtherCall, Publish, CreateTopic, DeleteTopic, CreateSubscription, DeleteSubscription,
           Acknowledge
  <2> QED BY <2>1, <2>2, BackendAssumption
<1>6. 1 .. lastId \subseteq 1 .. lastId'
  BY <1>5
<1>7. StreamTyped'
  <2>1. Known \subseteq Known'
    BY <1>6 DEF Known
  <2>2. /\ acking \in [Stream -> SUBSET (1 .. lastId')]
        /\ batch \in [Stream -> SUBSET (1 .. lastId')]
        /\ unary \in [Sub -> SUBSET (1 .. lastId')]
    BY <1>6 DEF SInv, StreamTyped
  <2>3. SUBSET (Sub \X (1 .. lastId)) \subseteq SUBSET (Sub \X (1 .. lastId'))
    BY <1>6
  <2>4. /\ sent \in [Stream -> SUBSET (Sub \X (1 .. lastId'))]
        /\ lost \in [Stream -> SUBSET (Sub \X (1 .. lastId'))]
    BY <2>3 DEF SInv, StreamTyped
  <2>5. offered \in [Stream -> Known'] /\ wire \in [Stream -> Known']
    BY <2>1 DEF SInv, StreamTyped
  <2> QED BY <1>3, <2>2, <2>4, <2>5 DEF SInv, StreamTyped
<1>8. LoopInv'
  BY <1>3 DEF SInv, LoopInv
<1>9. ExactlyOneHolder'
  <2> SUFFICES ASSUME NEW s \in Sub, NEW m \in 1 .. lastId'
               PROVE  IF m \in delivered'[s].ids THEN \E h \in Holders(s, m)' : Holders(s, m)' = {h}
                                                 ELSE Holders(s, m)' = {}
    BY DEF ExactlyOneHolder
  <2>1. Holders(s, m)' = Holders(s, m)
    BY <1>3 DEF Holders
  <2>2. CASE m \in 1 .. lastId
    BY <1>4, <2>1, <2>2, HeldAsBefore DEF SInv
  <2>3. CASE m \notin 1 .. lastId
    <3>1. m \notin delivered[s].ids
      BY <2>3 DEF SInv, IInv, TypeOK, IsQueue
    <3>2. \A y \in Stream : /\ sent[y] \subseteq Sub \X (1 .. lastId)
                            /\ lost[y] \subseteq Sub \X (1 .. lastId)
                            /\ batch[y] \subseteq 1 .. lastId
      BY DEF SInv, StreamTyped
    <3>3. m \notin unary[s]
      BY <2>3 DEF SInv, StreamTyped
    <3>4. Holders(s, m) = {}
      BY <2>3, <3>2, <3>3, HeldByNobody
    <3> QED BY <1>4, <2>1, <3>1, <3>4
  <2> QED BY <2>2, <2>3
<1> QED BY <1>1, <1>2, <1>7, <1>8, <1>9 DEF SInv

----------------------------------------------------------------------------
(* Every step keeps the invariant and is a step of the backend or none.     *)
LEMMA SStep == SInv /\ [StreamNext]_all => SInv' /\ [Next]_backend
<1> SUFFICES ASSUME SInv, [StreamNext]_all
             PROVE  SInv' /\ [Next]_backend
  OBVIOUS
<1>1. ASSUME UNCHANGED backend PROVE [Next]_backend
  BY <1>1
<1>2. ASSUME NEW x \in Stream, Receiver(x) \/ ClientSends(x) \/ ClientCloses(x) \/ Cancel(x)
      PROVE  SInv' /\ [Next]_backend
  <2>1. SInv'
    BY <1>2, ClientSide DEF Receiver
  <2>2. UNCHANGED backend
    BY <1>2 DEF Receiver, RecvRequest, RecvError, ClientSends, ClientCloses, Cancel
  <2> QED BY <1>1, <2>1, <2>2
<1>3. ASSUME NEW x \in Stream, Handler(x)
      PROVE  SInv' /\ [Next]_backend
  <2>1. CASE ContextDone(x) \/ TakeError(x) \/ TakeRequest(x)
    <3>1. SInv'
      BY <2>1, ContextDoneStep, TakeErrorStep, TakeRequestStep
    <3>2. UNCHANGED backend
      BY <2>1 DEF ContextDone, TakeError, TakeRequest
    <3> QED BY <1>1, <3>1, <3>2
  <2>2. CASE ApplyAcks(x)
    BY <2>2, ApplyAcksStep
  <2>3. CASE Poll(x)
    BY <2>3, PollStep
  <2>4. CASE SendOk(x) \/ SendFails(x)
    <3>1. SInv'
      BY <2>4, SendStep
    <3>2. UNCHANGED backend
      BY <2>4 DEF SendOk, SendFails
    <3> QED BY <1>1, <3>1, <3>2
  <2> QED BY <1>3, <2>1, <2>2, <2>3, <2>4 DEF Handler
<1>4. ASSUME NEW s \in Sub, UnaryPull(s)
      PROVE  SInv' /\ [Next]_backend
  BY <1>4, UnaryPullStep
<1>5. CASE OtherCall
  BY <1>5, OtherCallStep
<1>6. CASE UNCHANGED all
  <2>1. UNCHANGED backend /\ UNCHANGED streams
    BY <1>6 DEF all
  <2>2. IInv' /\ lastId' = lastId /\ delivered' = delivered
    BY <2>1, BackendRests DEF SInv
  <2>3. ExactlyOneHolder'
    BY <2>1, <2>2, HoldersRest DEF SInv, streams
  <2>4. StreamTyped' /\ LoopInv'
    BY <2>1, <2>2 DEF SInv, StreamTyped, LoopInv, Known, streams
  <2> QED BY <1>1, <2>1, <2>2, <2>3, <2>4 DEF SInv
<1> QED BY <1>2, <1>3, <1>4, <1>5, <1>6 DEF StreamNext

(* The invariant of the streams holds in every reachable state.             *)
THEOREM StreamInductive == StreamSpec => []SInv
<1>1. SInv /\ [StreamNext]_all => SInv'
  BY SStep
<1> QED BY <1>1, SInvInit, PTL DEF StreamSpec

(* A StreamingPull call is one more caller of MergeBackend: a run with      *)
(* streams is a run of the backend, whose theorems hold of it.              *)
THEOREM StreamsUseBackend == StreamSpec => Spec
<1>1. StreamInit => Init
  BY DEF StreamInit
<1>2. SInv /\ [StreamNext]_all => [Next]_backend
  BY SStep
<1> QED BY <1>1, <1>2, StreamInductive, PTL DEF StreamSpec, Spec

(* So the emulator's promise is kept under streams too: a round of a stream *)
(* hands over all that is pending, an acknowledgement read from it discards *)
(* messages, and no other step of a stream has an effect on the topics.     *)
THEOREM StreamsKeepPromise == StreamSpec => KeepsPromise
BY StreamsUseBackend, Implements, PTL

(* Streams and unary pulls share a subscription, and each message that the  *)
(* backend handed to it is in one answer, one stream or one failed SendMsg. *)
THEOREM OneHolder == StreamSpec => []ExactlyOneHolder
<1>1. SInv => ExactlyOneHolder
  BY DEF SInv
<1> QED BY <1>1, StreamInductive, PTL

(* A stream that ended with its client's end of stream lost nothing.        *)
THEOREM CleanClose == StreamSpec => []CleanCloseLosesNothing
<1>1. SInv => CleanCloseLosesNothing
  BY DEF SInv, LoopInv, CleanCloseLosesNothing
<1> QED BY <1>1, StreamInductive, PTL

(* The receiver goroutine has ended only if its handler returned nil: behind *)
(* any other return it is still there, at RecvMsg or at its offer.          *)
THEOREM ReceiverOutlives ==
  StreamSpec => [](\A x \in Stream : receiver[x] = "ended" <=> clean[x])
<1>1. SInv => \A x \in Stream : receiver[x] = "ended" <=> clean[x]
  BY DEF SInv, LoopInv
<1> QED BY <1>1, StreamInductive, PTL
=============================================================================
