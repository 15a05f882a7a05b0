---------------------------- MODULE StreamingPull ----------------------------
(***************************************************************************)
(* The bidirectional StreamingPull RPC (_Subscriber_StreamingPull_Handler) *)
(* on the shared backend.  A call is two goroutines: the handler's select  *)
(* loop, which takes client requests, polls the backend on a ticker and    *)
(* sends what it pulled; and a receiver, which reads the client's requests *)
(* and offers them on the unbuffered channel recvCh.  Every other caller   *)
(* of the backend is an action of PubSubBackend taken at any moment.       *)
(***************************************************************************)
EXTENDS PubSubBackend

CONSTANTS Stream,  \* StreamingPull calls
          NoSub    \* the empty subscription name, ""

ASSUME StreamAssumption == NoSub \notin Sub

VARIABLES
  loop,       \* the handler: "select", "ack", "send", or "returned"
  clean,      \* it returned nil, on the client's end of stream
  named,      \* its local variable subscription
  acking,     \* the ack ids of the request it is handling
  batch,      \* the messages it is sending
  receiver,   \* the receiver: "recv", "offer" (blocked on recvCh) or "ended"
  offered,    \* what it offers: a request, or EOF for an error of RecvMsg
  wire,       \* the request on its way from the client, if any
  halfClosed, \* the client closed its sending side
  cancelled,  \* the stream's context is done
  (* history: <<subscription, message>> pairs, by what became of them *)
  sent,       \* accepted by SendMsg
  lost,       \* pulled for a SendMsg that failed
  unary       \* returned to a unary or REST pull, per subscription

EOF     == [sub |-> NoSub, acks |-> {}, eof |-> TRUE]
Request == [sub : Sub \cup {NoSub}, acks : SUBSET (1 .. MaxId), eof : {FALSE}]
Nothing == [sub |-> NoSub, acks |-> {}, eof |-> FALSE]   \* also an empty request

handler == <<loop, clean, named, acking, batch>>
client  == <<wire, halfClosed>>
account == <<sent, lost, unary>>
streams == <<handler, receiver, offered, client, cancelled, account>>
all     == <<backend, streams>>

StreamInit ==
  /\ Init
  /\ loop       = [x \in Stream |-> "select"]
  /\ clean      = [x \in Stream |-> FALSE]
  /\ named      = [x \in Stream |-> NoSub]
  /\ acking     = [x \in Stream |-> {}]
  /\ batch      = [x \in Stream |-> {}]
  /\ receiver   = [x \in Stream |-> "recv"]
  /\ offered    = [x \in Stream |-> Nothing]
  /\ wire       = [x \in Stream |-> Nothing]
  /\ halfClosed = [x \in Stream |-> FALSE]
  /\ cancelled  = [x \in Stream |-> FALSE]
  /\ sent       = [x \in Stream |-> {}]
  /\ lost       = [x \in Stream |-> {}]
  /\ unary      = [s \in Sub |-> {}]

----------------------------------------------------------------------------
(* The receiver goroutine. *)

\* RecvMsg returns the client's next request.
RecvRequest(x) ==
  /\ receiver[x] = "recv" /\ wire[x] # Nothing
  /\ receiver' = [receiver EXCEPT ![x] = "offer"]
  /\ offered' = [offered EXCEPT ![x] = wire[x]]
  /\ wire' = [wire EXCEPT ![x] = Nothing]
  /\ UNCHANGED <<backend, handler, halfClosed, cancelled, account>>

\* Mutant: closing the sending side is not noticed.
RecvFailsOnCancel(x) == cancelled[x]

\* RecvMsg fails at the client's end of stream, or once the context is done.
RecvFails(x) == cancelled[x] \/ (halfClosed[x] /\ wire[x] = Nothing)

\* Mutant: the receiver does not offer an error that nobody will take.
RecvErrorUnlessReturned(x) ==
  /\ receiver[x] = "recv" /\ RecvFails(x)
  /\ receiver' = [receiver EXCEPT ![x] = IF loop[x] = "returned" THEN "ended" ELSE "offer"]
  /\ offered' = [offered EXCEPT ![x] = EOF]
  /\ UNCHANGED <<backend, handler, client, cancelled, account>>

\* The error is offered like a request.
RecvError(x) ==
  /\ receiver[x] = "recv" /\ RecvFails(x)
  /\ receiver' = [receiver EXCEPT ![x] = "offer"]
  /\ offered' = [offered EXCEPT ![x] = EOF]
  /\ UNCHANGED <<backend, handler, client, cancelled, account>>

----------------------------------------------------------------------------
(* The select loop.  Returning from the handler cancels the context. *)

\* Mutants: SendMsg runs beside the loop; the loop waits for a request first.
SelectingBesideSend(x)     == loop[x] \in {"select", "send"}
SelectingAfterARequest(x)  == loop[x] = "select" /\ receiver[x] = "offer"

Selecting(x) == loop[x] = "select"

ContextDone(x) ==
  /\ Selecting(x) /\ cancelled[x]
  /\ loop' = [loop EXCEPT ![x] = "returned"]
  /\ UNCHANGED <<backend, clean, named, acking, batch, receiver, offered, client, cancelled,
                 account>>

\* A receive on recvCh frees the receiver, which ends after an error.
TakeError(x) ==
  /\ Selecting(x) /\ receiver[x] = "offer" /\ offered[x] = EOF
  /\ loop' = [loop EXCEPT ![x] = "returned"]
  /\ clean' = [clean EXCEPT ![x] = TRUE]
  /\ cancelled' = [cancelled EXCEPT ![x] = TRUE]
  /\ receiver' = [receiver EXCEPT ![x] = "ended"]
  /\ offered' = [offered EXCEPT ![x] = Nothing]
  /\ UNCHANGED <<backend, named, acking, batch, client, account>>

\* Mutant: every request sets the subscription, empty name or not.
NamedByLast(x) == offered[x].sub

\* Requests after the first usually leave the name empty.
NamedBy(x) == IF offered[x].sub # NoSub THEN offered[x].sub ELSE named[x]

\* Ack ids are dropped as long as no request has named a subscription.
TakeRequest(x) ==
  /\ Selecting(x) /\ receiver[x] = "offer" /\ offered[x] # EOF
  /\ receiver' = [receiver EXCEPT ![x] = "recv"]
  /\ offered' = [offered EXCEPT ![x] = Nothing]
  /\ named' = [named EXCEPT ![x] = NamedBy(x)]
  /\ IF offered[x].acks # {} /\ NamedBy(x) # NoSub
       THEN /\ loop' = [loop EXCEPT ![x] = "ack"]
            /\ acking' = [acking EXCEPT ![x] = offered[x].acks]
       ELSE UNCHANGED <<loop, acking>>
  /\ UNCHANGED <<backend, clean, batch, client, cancelled, account>>

\* The result of Acknowledge is ignored: the subscription may be gone.
ApplyAcks(x) ==
  /\ loop[x] = "ack"
  /\ loop' = [loop EXCEPT ![x] = "select"]
  /\ acking' = [acking EXCEPT ![x] = {}]
  /\ IF GetSubscription(named[x]) THEN Acknowledge(named[x], acking[x])
                                  ELSE UNCHANGED backend
  /\ UNCHANGED <<clean, named, batch, receiver, offered, client, cancelled, account>>

\* A tick that pulls something; the other ticks change nothing that matters.
Poll(x) ==
  /\ Selecting(x) /\ named[x] # NoSub /\ GetSubscription(named[x])
  /\ Received(named[x]).ids # {}
  /\ Pull(named[x])
  /\ batch' = [batch EXCEPT ![x] = Received(named[x]).ids]
  /\ loop' = [loop EXCEPT ![x] = "send"]
  /\ UNCHANGED <<clean, named, acking, receiver, offered, client, cancelled, account>>

SendOk(x) ==
  /\ loop[x] = "send" /\ ~cancelled[x]
  /\ sent' = [sent EXCEPT ![x] = @ \cup ({named[x]} \X batch[x])]
  /\ batch' = [batch EXCEPT ![x] = {}]
  /\ loop' = [loop EXCEPT ![x] = "select"]
  /\ UNCHANGED <<backend, clean, named, acking, receiver, offered, client, cancelled, lost, unary>>

\* SendMsg fails once the context is done; the batch is already marked.
SendFails(x) ==
  /\ loop[x] = "send" /\ cancelled[x]
  /\ lost' = [lost EXCEPT ![x] = @ \cup ({named[x]} \X batch[x])]
  /\ batch' = [batch EXCEPT ![x] = {}]
  /\ loop' = [loop EXCEPT ![x] = "returned"]
  /\ UNCHANGED <<backend, clean, named, acking, receiver, offered, client, cancelled, sent, unary>>

----------------------------------------------------------------------------
(* The client of a stream, and everyone else. *)

\* A request names a subscription, acknowledges messages it was sent, or both.
ClientSends(x) ==
  /\ ~halfClosed[x] /\ ~cancelled[x] /\ wire[x] = Nothing
  /\ \E r \in Request : /\ r # Nothing /\ r.acks \subseteq {p[2] : p \in sent[x]}
                        /\ wire' = [wire EXCEPT ![x] = r]
  /\ UNCHANGED <<backend, handler, receiver, offered, halfClosed, cancelled, account>>

ClientCloses(x) ==
  /\ ~halfClosed[x]
  /\ halfClosed' = [halfClosed EXCEPT ![x] = TRUE]
  /\ UNCHANGED <<backend, handler, receiver, offered, wire, cancelled, account>>

\* The client cancels the call or its connection breaks.
Cancel(x) ==
  /\ ~cancelled[x]
  /\ cancelled' = [cancelled EXCEPT ![x] = TRUE]
  /\ UNCHANGED <<backend, handler, receiver, offered, client, account>>

UnaryPull(s) ==
  /\ Pull(s)
  /\ unary' = [unary EXCEPT ![s] = @ \cup Received(s).ids]
  /\ UNCHANGED <<handler, receiver, offered, client, cancelled, sent, lost>>

OtherCall ==
  /\ \/ \E t \in Topic : \/ \E k \in 1 .. MaxBatch : Publish(t, k)
                         \/ CreateTopic(t)
                         \/ DeleteTopic(t)
                         \/ \E s \in Sub : CreateSubscription(s, t)
     \/ \E s \in Sub : \/ DeleteSubscription(s)
                       \/ \E ids \in SUBSET (1 .. lastId) : Acknowledge(s, ids)
  /\ UNCHANGED streams

Receiver(x) == RecvRequest(x) \/ RecvError(x)

Handler(x) == \/ ContextDone(x) \/ TakeError(x) \/ TakeRequest(x)
              \/ ApplyAcks(x) \/ Poll(x) \/ SendOk(x) \/ SendFails(x)

StreamNext ==
  \/ \E x \in Stream : \/ Receiver(x) \/ Handler(x)
                       \/ ClientSends(x) \/ ClientCloses(x) \/ Cancel(x)
  \/ \E s \in Sub : UnaryPull(s)
  \/ OtherCall

StreamSpec == StreamInit /\ [][StreamNext]_all

(* Goroutines that can run do run.  A select chooses uniformly among the    *)
(* cases that are ready, so a case that is ready again and again is taken.  *)
Fairness ==
  \A x \in Stream :
    /\ WF_all(Receiver(x))
    /\ WF_all(ApplyAcks(x)) /\ WF_all(SendOk(x)) /\ WF_all(SendFails(x))
    /\ SF_all(ContextDone(x)) /\ SF_all(TakeError(x)) /\ SF_all(TakeRequest(x))
    /\ SF_all(Poll(x))

FairStreamSpec == StreamSpec /\ Fairness

----------------------------------------------------------------------------
(* Where a message handed to subscription s is: streams and unary pulls.    *)
Holders(s, m) ==
  {<<x, "sent">> : x \in {y \in Stream : <<s, m>> \in sent[y]}} \cup
  {<<x, "lost">> : x \in {y \in Stream : <<s, m>> \in lost[y]}} \cup
  {<<x, "batch">> : x \in {y \in Stream : named[y] = s /\ m \in batch[y]}} \cup
  {<<s, "unary">> : i \in {j \in {m} : j \in unary[s]}}

(* Several streams, and unary pulls, share one subscription: each message   *)
(* the backend hands to it ends in exactly one place.  None is sent twice,  *)
(* by one stream or by two, and none vanishes but in a failed SendMsg.      *)
ExactlyOneHolder ==
  \A s \in Sub : \A m \in 1 .. lastId :
    IF m \in delivered[s].ids THEN \E h \in Holders(s, m) : Holders(s, m) = {h}
                              ELSE Holders(s, m) = {}

(* A message can only be lost on a stream that was cut while it was being   *)
(* sent: a client that closes its sending side and waits misses nothing.    *)
CleanCloseLosesNothing ==
  \A x \in Stream : clean[x] => lost[x] = {} /\ batch[x] = {}

(* Once a stream is closed or cut, its handler returns.                     *)
HandlerReturns == \A x \in Stream : (halfClosed[x] \/ cancelled[x]) ~> loop[x] = "returned"

(* While a stream is open on a subscription, every message pending for it   *)
(* is handed out, unless the message or the attachment goes away.           *)
Attached(x, m) == /\ loop[x] # "returned"
                  /\ IF GetSubscription(named[x])
                       THEN m \in messages[subscriptions[named[x]]].ids ELSE FALSE
PendingIsHandedOut ==
  \A x \in Stream : \A s \in Sub : \A m \in 1 .. MaxId :
    (Attached(x, m) /\ named[x] = s)
      ~> (m \in delivered[s].ids \/ ~Attached(x, m) \/ named[x] # s)

\* The messages published to the topic of subscription s.
TopicOf(s) == {m \in 1 .. lastId : s \in DOMAIN subscriptions /\ topicOf[m] = subscriptions[s]}

\* The subscription that a request on its way will be taken for: the one it
\* names, or else the last one named before it.
Heading(x) == CASE wire[x].sub # NoSub -> wire[x].sub
                [] wire[x].sub = NoSub /\ offered[x].sub # NoSub -> offered[x].sub
                [] wire[x].sub = NoSub /\ offered[x].sub = NoSub -> named[x]

(* An acknowledgement on its way takes the message off the topic of the     *)
(* subscription that its stream will be on then, unless the stream ends     *)
(* first or that topic is not the message's.  Most acknowledgements name no *)
(* subscription, and a stream may name several, one after the other.        *)
AcksTakeEffect ==
  \A x \in Stream : \A s \in Sub : \A m \in 1 .. MaxId :
    (m \in wire[x].acks /\ Heading(x) = s)
      ~> (m \in released \/ loop[x] = "returned" \/ m \notin TopicOf(s))

(* When the handler returns for any reason but the client's end of stream,  *)
(* nobody receives from recvCh again: the receiver goroutine stays blocked  *)
(* on its offer for ever; it ends exactly when the handler saw the error.   *)
ReceiverLeaksUnlessClean ==
  \A x \in Stream : /\ loop[x] = "returned" /\ ~clean[x] ~> [](receiver[x] = "offer")
                    /\ clean[x] ~> [](receiver[x] = "ended")
=============================================================================
