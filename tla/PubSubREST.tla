----------------------------- MODULE PubSubREST -----------------------------
(***************************************************************************)
(* The Pub/Sub REST handlers and the cross-service Publish, on the backend *)
(* they share with gRPC.  A REST handler looks before it acts, and each    *)
(* look and the act take the mutex separately: anything may happen in      *)
(* between.  The handlers with a single backend call, and all the unary    *)
(* gRPC methods, are single steps (Single and GRPC below).                 *)
(***************************************************************************)
EXTENDS PubSubBackend

CONSTANTS Client,  \* concurrent requests to handlers of several steps
          None     \* no argument

VARIABLES
  at,        \* where each request is: a step of its handler and its arguments
  (* history *)
  standing,  \* names whose creation was answered, and not deleted since
  seen       \* of those, the ones standing from a request's start till now

requests == <<at, standing, seen>>
restvars == <<backend, requests>>

Name == ({"topic"} \X Topic) \cup ({"sub"} \X Sub)
Step == {"free topic?", "make topic", "topic known?", "free subscription?",
         "make subscription", "publish to?", "publish"}
Idle == [step |-> "idle", topic |-> None, sub |-> None]
Handling(step, t, s) == [step |-> step, topic |-> t, sub |-> s]

RestInit == /\ Init
            /\ at = [c \in Client |-> Idle]
            /\ standing = {}
            /\ seen = [c \in Client |-> {}]

----------------------------------------------------------------------------
Goto(c, step) == /\ at' = [at EXCEPT ![c].step = step]
                 /\ UNCHANGED <<backend, standing, seen>>

\* The handler answers with an error.
Refuse(c) == /\ at' = [at EXCEPT ![c] = Idle]
             /\ UNCHANGED <<backend, standing, seen>>

\* A request arrives.
Begin(c, step, t, s) ==
  /\ at[c].step = "idle"
  /\ at' = [at EXCEPT ![c] = Handling(step, t, s)]
  /\ seen' = [seen EXCEPT ![c] = standing]
  /\ UNCHANGED <<backend, standing>>

\* createTopic
TopicCheck(c) == /\ at[c].step = "free topic?"
                 /\ IF GetTopic(at[c].topic) THEN Refuse(c) ELSE Goto(c, "make topic")
TopicMake(c) == /\ at[c].step = "make topic"
                /\ CreateTopic(at[c].topic)
                /\ standing' = standing \cup {<<"topic", at[c].topic>>}
                /\ at' = [at EXCEPT ![c] = Idle]
                /\ UNCHANGED seen

\* createSubscription
ParentCheck(c) == /\ at[c].step = "topic known?"
                  /\ IF GetTopic(at[c].topic) THEN Goto(c, "free subscription?") ELSE Refuse(c)
SubCheckSkipped(c) == /\ at[c].step = "free subscription?"   \* mutant
                      /\ Goto(c, "make subscription")
SubCheck(c) == /\ at[c].step = "free subscription?"
               /\ IF GetSubscription(at[c].sub) THEN Refuse(c)
                                                ELSE Goto(c, "make subscription")
SubMake(c) == /\ at[c].step = "make subscription"
              /\ CreateSubscription(at[c].sub, at[c].topic)
              /\ standing' = standing \cup {<<"sub", at[c].sub>>}
              /\ at' = [at EXCEPT ![c] = Idle]
              /\ UNCHANGED seen

\* topicAction (:publish) and Service.Publish
PublishCheck(c) == /\ at[c].step = "publish to?"
                   /\ IF GetTopic(at[c].topic) THEN Goto(c, "publish") ELSE Refuse(c)
PublishStore(c) == /\ at[c].step = "publish"
                   /\ \E k \in 1 .. MaxBatch : Publish(at[c].topic, k)
                   /\ at' = [at EXCEPT ![c] = Idle]
                   /\ UNCHANGED <<standing, seen>>

\* A deletion ends the standing of a name, for the requests under way too.
Gone(name) == /\ standing' = standing \ {name}
              /\ seen' = [c \in Client |-> seen[c] \ {name}]
              /\ UNCHANGED at

\* deleteTopic, deleteSubscription, pull and acknowledge, REST and gRPC.
Single ==
  \/ \E t \in Topic : DeleteTopic(t) /\ Gone(<<"topic", t>>)
  \/ \E s \in Sub : DeleteSubscription(s) /\ Gone(<<"sub", s>>)
  \/ \E s \in Sub : /\ Pull(s) \/ \E ids \in SUBSET (1 .. lastId) : Acknowledge(s, ids)
                    /\ UNCHANGED requests

\* The gRPC methods that create or publish without looking first.
GRPC ==
  \E t \in Topic :
    \/ CreateTopic(t) /\ standing' = standing \cup {<<"topic", t>>} /\ UNCHANGED <<at, seen>>
    \/ \E s \in Sub : /\ CreateSubscription(s, t)
                      /\ standing' = standing \cup {<<"sub", s>>}
                      /\ UNCHANGED <<at, seen>>
    \/ \E k \in 1 .. MaxBatch : Publish(t, k) /\ UNCHANGED requests

Request(c) ==
  \/ \E t \in Topic, s \in Sub, step \in {"free topic?", "topic known?", "publish to?"} :
       Begin(c, step, t, s)
  \/ TopicCheck(c) \/ TopicMake(c)
  \/ ParentCheck(c) \/ SubCheck(c) \/ SubMake(c)
  \/ PublishCheck(c) \/ PublishStore(c)

RestNext == Single \/ GRPC \/ \E c \in Client : Request(c)

RestSpec == RestInit /\ [][RestNext]_restvars

----------------------------------------------------------------------------
(* Type invariant of the requests under way.                                *)
RestTypeOK ==
  /\ at \in [Client -> [step : Step \cup {"idle"}, topic : Topic \cup {None},
                        sub : Sub \cup {None}]]
  /\ \A c \in Client : at[c].step # "idle" => at[c].topic \in Topic /\ at[c].sub \in Sub
  /\ standing \subseteq Name
  /\ seen \in [Client -> SUBSET Name]

\* The names that exist.
Existing == ({"topic"} \X topics) \cup ({"sub"} \X DOMAIN subscriptions)

(* A name whose creation was answered when a request began, and which       *)
(* nobody has deleted since, still exists: a handler does not answer "not   *)
(* found" for it (404), whatever other requests do in between its steps.    *)
AnsweredCreatesStand == \A c \in Client : seen[c] \subseteq Existing

(* A create handler gets past its check only if the name was free at some   *)
(* moment of the request: a duplicate of a creation already answered is     *)
(* refused (409).  Two creates both succeed only when they overlap.         *)
DuplicatesRefused ==
  \A c \in Client : /\ at[c].step = "make topic" => <<"topic", at[c].topic>> \notin seen[c]
                    /\ at[c].step = "make subscription" => <<"sub", at[c].sub>> \notin seen[c]

(* Service.Publish returns the assigned message IDs, "or nil if the topic   *)
(* is unknown": a publish stores its messages only under a topic that       *)
(* exists when it does.                                                     *)
PublishKnowsTopic ==
  [][\A c \in Client : PublishStore(c) => GetTopic(at[c].topic)]_restvars
=============================================================================
