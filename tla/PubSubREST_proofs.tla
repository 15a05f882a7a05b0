------------------------- MODULE PubSubREST_proofs -------------------------
(***************************************************************************)
(* The REST handlers of several steps neither break the backend nor answer *)
(* wrongly about names that stand, for any number of concurrent requests;  *)
(* and Cloud Scheduler, composed with them, is one more client of theirs,  *)
(* whose lock keeps a job in place while it runs.                          *)
(***************************************************************************)
EXTENDS CloudScheduler, PubSubBackend_proofs

(* What is standing exists, and what a request saw is still standing.       *)
RestInv == /\ RestTypeOK
           /\ topics \subseteq Topic
           /\ DOMAIN subscriptions \subseteq Sub
           /\ standing \subseteq Existing
           /\ \A c \in Client : seen[c] \subseteq standing
           /\ DuplicatesRefused

(* A request is idle, or it is at a step and has its arguments.             *)
Place == {r \in [step : Step \cup {"idle"}, topic : Topic \cup {None}, sub : Sub \cup {None}] :
            r.step # "idle" => r.topic \in Topic /\ r.sub \in Sub}

USE DEF requests, history, stored

LEMMA Places == (at \in [Client -> Place] <=> /\ at \in [Client -> [step : Step \cup {"idle"},
                                                  topic : Topic \cup {None}, sub : Sub \cup {None}]]
                                             /\ \A c \in Client : at[c].step # "idle" =>
                                                  at[c].topic \in Topic /\ at[c].sub \in Sub)
BY DEF Place

LEMMA IdlePlace == Idle \in Place /\ Idle.step = "idle"
BY DEF Idle, Place

LEMMA RestInitInv == RestInit => RestInv
BY DEF RestInit, Init, RestInv, RestTypeOK, Existing, DuplicatesRefused, Idle, Step

(* A step that creates nothing and deletes nothing, and moves one request.  *)
LEMMA MoveStep ==
  ASSUME RestInv, NEW c \in Client,
         UNCHANGED <<topics, subscriptions, standing, seen>>,
         NEW r \in Place, at' = [at EXCEPT ![c] = r],
         r.step = "make topic" => <<"topic", r.topic>> \notin seen[c],
         r.step = "make subscription" => <<"sub", r.sub>> \notin seen[c]
  PROVE  RestInv'
<1>1. RestTypeOK'
  <2>1. at' \in [Client -> Place]
    BY Places DEF RestInv, RestTypeOK
  <2> QED BY <2>1, Places DEF RestInv, RestTypeOK, Place
<1>2. DuplicatesRefused'
  BY DEF RestInv, RestTypeOK, DuplicatesRefused
<1> QED BY <1>1, <1>2 DEF RestInv, Existing

(* A name is created, and one request (or none) goes idle.                  *)
LEMMA CreationStep ==
  ASSUME RestInv, NEW name \in Name,
         topics' \subseteq Topic, DOMAIN subscriptions' \subseteq Sub,
         Existing' = Existing \cup {name}, standing' = standing \cup {name},
         seen' = seen,
         at' = at \/ \E c \in Client : at' = [at EXCEPT ![c] = Idle]
  PROVE  RestInv'
<1>1. RestTypeOK'
  BY DEF RestInv, RestTypeOK, Idle
<1>2. DuplicatesRefused'
  <2>1. CASE at' = at
    BY <2>1 DEF RestInv, DuplicatesRefused
  <2>2. CASE \E c \in Client : at' = [at EXCEPT ![c] = Idle]
    <3>1. PICK c \in Client : at' = [at EXCEPT ![c] = Idle]
      BY <2>2
    <3>2. \A d \in Client : at'[d].step # "idle" => at'[d] = at[d]
      BY <3>1, IdlePlace DEF RestInv, RestTypeOK
    <3> QED BY <3>2 DEF RestInv, DuplicatesRefused
  <2> QED BY <2>1, <2>2
<1> QED BY <1>1, <1>2 DEF RestInv

(* A name is deleted: it stops standing for every request.                  *)
LEMMA DeletionStep ==
  ASSUME RestInv, NEW name,
         topics' \subseteq Topic, DOMAIN subscriptions' \subseteq Sub,
         Existing' = Existing \ {name}, Gone(name)
  PROVE  RestInv'
<1>1. RestTypeOK'
  BY DEF RestInv, RestTypeOK, Gone
<1>2. DuplicatesRefused'
  BY DEF RestInv, RestTypeOK, DuplicatesRefused, Gone
<1> QED BY <1>1, <1>2 DEF RestInv, Gone

LEMMA RestStep == RestInv /\ [RestNext]_restvars => RestInv'
<1> SUFFICES ASSUME RestInv, [RestNext]_restvars
             PROVE  RestInv'
  OBVIOUS
<1>1. ASSUME NEW t \in Topic, DeleteTopic(t), Gone(<<"topic", t>>)
      PROVE  RestInv'
  <2>1. Existing' = Existing \ {<<"topic", t>>} /\ topics' \subseteq Topic
                    /\ subscriptions' = subscriptions
    BY <1>1 DEF DeleteTopic, Existing, RestInv
  <2> QED BY <1>1, <2>1, DeletionStep DEF RestInv
<1>2. ASSUME NEW s \in Sub, DeleteSubscription(s), Gone(<<"sub", s>>)
      PROVE  RestInv'
  <2>1. Existing' = Existing \ {<<"sub", s>>} /\ topics' = topics
                    /\ DOMAIN subscriptions' \subseteq Sub
    BY <1>2 DEF DeleteSubscription, Delete, Existing, RestInv
  <2> QED BY <1>2, <2>1, DeletionStep DEF RestInv
<1>3. ASSUME UNCHANGED <<topics, subscriptions, at, standing, seen>>
      PROVE  RestInv'
  BY <1>3 DEF RestInv, RestTypeOK, Existing, DuplicatesRefused
<1>4. ASSUME NEW t \in Topic, CreateTopic(t), standing' = standing \cup {<<"topic", t>>},
             seen' = seen, at' = at \/ \E c \in Client : at' = [at EXCEPT ![c] = Idle]
      PROVE  RestInv'
  <2>1. /\ Existing' = Existing \cup {<<"topic", t>>} /\ topics' \subseteq Topic
        /\ subscriptions' = subscriptions /\ <<"topic", t>> \in Name
    BY <1>4 DEF CreateTopic, Existing, RestInv, Name
  <2> QED BY <1>4, <2>1, CreationStep DEF RestInv
<1>5. ASSUME NEW s \in Sub, NEW t \in Topic, CreateSubscription(s, t),
             standing' = standing \cup {<<"sub", s>>},
             seen' = seen, at' = at \/ \E c \in Client : at' = [at EXCEPT ![c] = Idle]
      PROVE  RestInv'
  <2>1. /\ Existing' = Existing \cup {<<"sub", s>>} /\ topics' = topics
        /\ DOMAIN subscriptions' \subseteq Sub /\ <<"sub", s>> \in Name
    BY <1>5 DEF CreateSubscription, Put, Existing, RestInv, Name
  <2> QED BY <1>5, <2>1, CreationStep DEF RestInv
<1>6. CASE Single
  <2>1. CASE \E s \in Sub : /\ Pull(s) \/ \E ids \in SUBSET (1 .. lastId) : Acknowledge(s, ids)
                            /\ UNCHANGED requests
    BY <1>3, <2>1 DEF Pull, Acknowledge
  <2> QED BY <1>1, <1>2, <1>6, <2>1 DEF Single
<1>7. CASE GRPC
  <2>1. CASE \E t \in Topic : \E k \in 1 .. MaxBatch : Publish(t, k) /\ UNCHANGED requests
    BY <1>3, <2>1 DEF Publish
  <2>2. CASE \E t \in Topic : CreateTopic(t) /\ standing' = standing \cup {<<"topic", t>>}
                              /\ UNCHANGED <<at, seen>>
    BY <1>4, <2>2
  <2>3. CASE \E t \in Topic : \E s \in Sub : /\ CreateSubscription(s, t)
                                             /\ standing' = standing \cup {<<"sub", s>>}
                                             /\ UNCHANGED <<at, seen>>
    BY <1>5, <2>3
  <2> QED BY <1>7, <2>1, <2>2, <2>3 DEF GRPC
<1>8. ASSUME NEW c \in Client, Request(c)
      PROVE  RestInv'
  <2>1. /\ at \in [Client -> Place] /\ at[c] \in Place
        /\ at[c].step # "idle" => at[c].topic \in Topic /\ at[c].sub \in Sub
    BY Places DEF RestInv, RestTypeOK
  <2>2. CASE \E t \in Topic, s \in Sub,
                step \in {"free topic?", "topic known?", "publish to?"} : Begin(c, step, t, s)
    <3>1. PICK t \in Topic, s \in Sub, step \in {"free topic?", "topic known?", "publish to?"} :
             Begin(c, step, t, s)
      BY <2>2
    <3> DEFINE r == Handling(step, t, s)
    <3>0. /\ r \in Place /\ r.step \notin {"make topic", "make subscription"}
          /\ at' = [at EXCEPT ![c] = r]
      BY <3>1 DEF Begin, Handling, Step, Place
    <3> HIDE DEF r
    <3>2. seen' = [seen EXCEPT ![c] = standing] /\ UNCHANGED <<topics, subscriptions, standing>>
      BY <3>1 DEF Begin, backend
    <3>3. RestTypeOK'
      <4>1. at' \in [Client -> Place]
        BY <2>1, <3>0
      <4> QED BY <3>2, <4>1, Places DEF RestInv, RestTypeOK, Place
    <3>4. DuplicatesRefused'
      BY <2>1, <3>0, <3>2 DEF RestInv, RestTypeOK, DuplicatesRefused
    <3> QED BY <3>2, <3>3, <3>4 DEF RestInv, RestTypeOK, Existing
  <2>3. ASSUME Refuse(c)
        PROVE  RestInv'
    <3>1. UNCHANGED <<topics, subscriptions, standing, seen>> /\ at' = [at EXCEPT ![c] = Idle]
      BY <2>3 DEF Refuse, backend
    <3> QED BY <3>1, IdlePlace, MoveStep
  <2>4. ASSUME NEW step \in Step, at[c].step # "idle", Goto(c, step),
               step = "make topic" => <<"topic", at[c].topic>> \notin seen[c],
               step = "make subscription" => <<"sub", at[c].sub>> \notin seen[c]
        PROVE  RestInv'
    <3> DEFINE r == [at[c] EXCEPT !.step = step]
    <3>1. /\ at' = [at EXCEPT ![c] = r] /\ r.step = step /\ r \in Place
          /\ r.topic = at[c].topic /\ r.sub = at[c].sub
      BY <2>1, <2>4 DEF Goto, Place
    <3>2. UNCHANGED <<topics, subscriptions, standing, seen>>
      BY <2>4 DEF Goto, backend
    <3> HIDE DEF r
    <3> QED BY <2>4, <3>1, <3>2, MoveStep
  <2>5. seen[c] \subseteq Existing
    BY DEF RestInv
  <2>6. CASE TopicCheck(c)
    BY <2>3, <2>4, <2>5, <2>6 DEF TopicCheck, GetTopic, Existing, Step
  <2>7. CASE TopicMake(c)
    BY <1>4, <2>1, <2>7 DEF TopicMake
  <2>8. CASE ParentCheck(c)
    BY <2>3, <2>4, <2>8 DEF ParentCheck, Step
  <2>9. CASE SubCheck(c)
    BY <2>3, <2>4, <2>5, <2>9 DEF SubCheck, GetSubscription, Existing, Step
  <2>10. CASE SubMake(c)
    BY <1>5, <2>1, <2>10 DEF SubMake
  <2>11. CASE PublishCheck(c)
    BY <2>3, <2>4, <2>11 DEF PublishCheck, Step
  <2>12. CASE PublishStore(c)
    <3>1. UNCHANGED <<topics, subscriptions, standing, seen>> /\ at' = [at EXCEPT ![c] = Idle]
      BY <2>12 DEF PublishStore, Publish
    <3> QED BY <3>1, IdlePlace, MoveStep
  <2> QED BY <1>8, <2>2, <2>6, <2>7, <2>8, <2>9, <2>10, <2>11, <2>12 DEF Request
<1>9. CASE UNCHANGED restvars
  BY <1>3, <1>9 DEF restvars, backend
<1> QED BY <1>6, <1>7, <1>8, <1>9 DEF RestNext

----------------------------------------------------------------------------
(* Whatever the interleaving, a creation that was answered and not undone   *)
(* stands: none of the handlers answers "not found" for it.                 *)
THEOREM RestAnswers == RestSpec => []AnsweredCreatesStand
<1>1. RestInv => AnsweredCreatesStand
  BY DEF RestInv, AnsweredCreatesStand
<1> QED BY <1>1, RestInitInv, RestStep, PTL DEF RestSpec

(* A create that begins after an equal one was answered is refused, whatever *)
(* other requests do between its check and its creation.                    *)
THEOREM RestRefuses == RestSpec => []DuplicatesRefused
<1>1. RestInv => DuplicatesRefused
  BY DEF RestInv
<1> QED BY <1>1, RestInitInv, RestStep, PTL DEF RestSpec

(* The handlers touch the backend only through its methods, so all that is  *)
(* proved of the backend alone holds under them.                            *)
THEOREM RestUsesBackend == RestSpec => Spec
<1>1. RestInit => Init
  BY DEF RestInit
<1>2. RestInv /\ [RestNext]_restvars => [Next]_backend
  <2> SUFFICES ASSUME RestInv, [RestNext]_restvars
               PROVE  Next \/ UNCHANGED backend
    OBVIOUS
  <2>1. CASE Single
    BY <2>1 DEF Single, Next
  <2>2. CASE GRPC
    BY <2>2, BackendAssumption DEF GRPC, Next
  <2>3. ASSUME NEW c \in Client, Request(c)
        PROVE  Next \/ UNCHANGED backend
    <3>1. at[c].step # "idle" => at[c].topic \in Topic /\ at[c].sub \in Sub
      BY DEF RestInv, RestTypeOK
    <3>2. CASE TopicMake(c)
      <4>1. PICK t \in Topic : t = at[c].topic
        BY <3>1, <3>2 DEF TopicMake
      <4>2. CreateTopic(t)
        BY <3>2, <4>1 DEF TopicMake, CreateTopic
      <4> QED BY <4>2 DEF Next
    <3>3. CASE SubMake(c)
      <4>1. PICK t \in Topic, s \in Sub : t = at[c].topic /\ s = at[c].sub
        BY <3>1, <3>3 DEF SubMake
      <4>2. CreateSubscription(s, t)
        BY <3>3, <4>1 DEF SubMake, CreateSubscription
      <4> QED BY <4>2 DEF Next
    <3>4. CASE PublishStore(c)
      <4>1. PICK t \in Topic : t = at[c].topic
        BY <3>1, <3>4 DEF PublishStore
      <4>2. PICK k \in 1 .. MaxBatch : Publish(t, k)
        BY <3>4, <4>1 DEF PublishStore, Publish
      <4> QED BY <4>1, <4>2, BackendAssumption DEF Next
    <3>5. CASE UNCHANGED backend
      BY <3>5
    <3> QED BY <2>3, <3>2, <3>3, <3>4, <3>5
            DEF Request, Begin, TopicCheck, ParentCheck, SubCheck, PublishCheck, Refuse, Goto
  <2>4. CASE UNCHANGED restvars
    BY <2>4 DEF restvars
  <2> QED BY <2>1, <2>2, <2>3, <2>4 DEF RestNext
<1> QED BY <1>1, <1>2, RestInitInv, RestStep, PTL DEF RestSpec, Spec

(* And so the backend keeps the promise of PubSubPromise to every client of *)
(* the REST handlers.                                                       *)
THEOREM RestKeepsPromise == RestSpec => KeepsPromise
BY RestUsesBackend, Implements, PTL

----------------------------------------------------------------------------
(* Cloud Scheduler on top of the handlers. *)

Jobs == [state : {"ENABLED", "PAUSED"}, target : Topic \cup {None}]

Publishing == {"publish to?", "publish"}

(* Who runs a job holds the lock, and its request is at one of the two steps *)
(* of Service.Publish, on the topic of the job, or through with them.       *)
Runs(c) == running[c] # None =>
             /\ schedLock = c
             /\ running[c] \in DOMAIN jobs
             /\ at[c] # Idle => at[c].step \in Publishing /\ at[c].topic = jobs[running[c]].target

SchedulerInv ==
  /\ RestInv
  /\ DOMAIN jobs \subseteq Job
  /\ jobs \in [DOMAIN jobs -> Jobs]
  /\ running \in [Client -> Job \cup {None}]
  /\ \A c \in Client : Runs(c)

\* The scheduler's lock belongs to the request that runs a job: initially ...
LEMMA SchedulerInitInv == SchedulerInit => SchedulerInv
BY RestInitInv DEF SchedulerInit, SchedulerInv, Runs

(* With the lock free nobody runs a job, and the jobs may change.           *)
LEMMA FreeLock ==
  ASSUME SchedulerInv, schedLock = None
  PROVE  \A c \in Client : running[c] = None
BY SchedulerAssumption DEF SchedulerInv, Runs

(* Each request is at a place of its own: a step of Pub/Sub moves one.      *)
LEMMA OneMoves ==
  ASSUME SchedulerInv, NEW c \in Client, Request(c), running[c] # None => at[c] # Idle
  PROVE  /\ \A d \in Client \ {c} : at'[d] = at[d]
         /\ running[c] # None =>
              at'[c] = Idle \/ (at'[c].step \in Publishing /\ at'[c].topic = at[c].topic)
<1>1. /\ at \in [Client -> Place] /\ at[c] \in Place
  BY Places DEF SchedulerInv, RestInv, RestTypeOK
<1>2. ASSUME Refuse(c)
      PROVE  at' = [at EXCEPT ![c] = Idle]
  BY <1>2 DEF Refuse
<1>3. CASE \E t \in Topic, s \in Sub, step \in {"free topic?", "topic known?", "publish to?"} :
             Begin(c, step, t, s)
  <2>1. at[c].step = "idle" /\ \A d \in Client \ {c} : at'[d] = at[d]
    BY <1>1, <1>3 DEF Begin
  <2>2. running[c] = None
    BY <2>1 DEF SchedulerInv, Runs, Publishing
  <2> QED BY <2>1, <2>2
<1>4. CASE TopicCheck(c) \/ ParentCheck(c) \/ SubCheck(c)
  <2>1. at[c].step \notin Publishing /\ at[c].step # "idle"
    BY <1>4 DEF TopicCheck, ParentCheck, SubCheck, Publishing
  <2>2. running[c] = None
    BY <2>1, IdlePlace DEF SchedulerInv, Runs
  <2>3. \A d \in Client \ {c} : at'[d] = at[d]
    BY <1>1, <1>2, <1>4 DEF TopicCheck, ParentCheck, SubCheck, Goto, Refuse
  <2> QED BY <2>2, <2>3
<1>5. CASE TopicMake(c) \/ SubMake(c) \/ PublishStore(c)
  <2>1. at' = [at EXCEPT ![c] = Idle]
    BY <1>5 DEF TopicMake, SubMake, PublishStore
  <2> QED BY <1>1, <2>1
<1>6. CASE PublishCheck(c)
  <2>1. at' = [at EXCEPT ![c].step = "publish"] \/ at' = [at EXCEPT ![c] = Idle]
    BY <1>6 DEF PublishCheck, Goto, Refuse
  <2> QED BY <1>1, <2>1 DEF Publishing, Place
<1> QED BY <1>3, <1>4, <1>5, <1>6 DEF Request

(* A run begins as a publish of Pub/Sub does, on the topic of the job.      *)
LEMMA RunBegins ==
  ASSUME SchedulerInv, NEW c \in Client, NEW j \in Job, runJob(c, j)
  PROVE  RestNext /\ SchedulerInv'
<1>1. PICK s \in Sub : Begin(c, "publish to?", jobs[j].target, s)
  BY DEF runJob
<1>2. j \in DOMAIN jobs /\ jobs[j].target \in Topic
  BY DEF runJob, SchedulerInv, Jobs
<1>3. Request(c)
  BY <1>1, <1>2 DEF Request
<1>4. RestNext
  BY <1>3 DEF RestNext
<1>5. RestInv'
  BY <1>4, RestStep DEF SchedulerInv
<1>6. \A d \in Client : running[d] = None
  BY FreeLock DEF runJob
<1>7. at \in [Client -> Place]
  BY Places DEF SchedulerInv, RestInv, RestTypeOK
<1>8. at'[c].step = "publish to?" /\ at'[c].topic = jobs[j].target
  BY <1>1, <1>7 DEF Begin, Handling
<1>9. \A d \in Client : Runs(d)'
  BY <1>2, <1>6, <1>8 DEF Runs, runJob, SchedulerInv, Publishing
<1> QED BY <1>4, <1>5, <1>9 DEF SchedulerInv, runJob

\* ... and after every step of the scheduler or of Pub/Sub.
LEMMA SchedulerInvStep == SchedulerInv /\ [SchedulerNext]_schedulerVars
                            => SchedulerInv' /\ [RestNext]_restvars
<1> SUFFICES ASSUME SchedulerInv, [SchedulerNext]_schedulerVars
             PROVE  SchedulerInv' /\ (RestNext \/ UNCHANGED restvars)
  OBVIOUS
<1>1. ASSUME UNCHANGED restvars
      PROVE  RestInv' /\ at' = at
  <2>1. RestInv'
    BY <1>1, RestStep DEF SchedulerInv
  <2> QED BY <1>1, <2>1 DEF restvars, requests
<1>2. ASSUME NEW j \in Job, NEW target \in Topic \cup {None}, createJob(j, target)
      PROVE  SchedulerInv' /\ UNCHANGED restvars
  <2>1. jobs' \in [DOMAIN jobs' -> Jobs] /\ DOMAIN jobs' \subseteq Job
    BY <1>2 DEF createJob, Put, Jobs, SchedulerInv
  <2>2. \A c \in Client : running'[c] = None
    BY <1>2, FreeLock DEF createJob
  <2> QED BY <1>1, <1>2, <2>1, <2>2 DEF SchedulerInv, Runs, createJob
<1>3. ASSUME NEW j \in Job, pauseJob(j) \/ resumeJob(j)
      PROVE  SchedulerInv' /\ UNCHANGED restvars
  <2>1. jobs' \in [DOMAIN jobs' -> Jobs] /\ DOMAIN jobs' \subseteq Job
    BY <1>3 DEF pauseJob, resumeJob, setState, Jobs, SchedulerInv
  <2>2. \A c \in Client : running'[c] = None
    BY <1>3, FreeLock DEF pauseJob, resumeJob, setState
  <2> QED BY <1>1, <1>3, <2>1, <2>2 DEF SchedulerInv, Runs, pauseJob, resumeJob, setState
<1>4. ASSUME NEW j \in Job, deleteJob(j)
      PROVE  SchedulerInv' /\ UNCHANGED restvars
  <2>1. jobs' \in [DOMAIN jobs' -> Jobs] /\ DOMAIN jobs' \subseteq Job
    BY <1>4 DEF deleteJob, Delete, SchedulerInv
  <2>2. \A c \in Client : running'[c] = None
    BY <1>4, FreeLock DEF deleteJob
  <2> QED BY <1>1, <1>4, <2>1, <2>2 DEF SchedulerInv, Runs, deleteJob
<1>5. ASSUME NEW c \in Client, runEnds(c)
      PROVE  SchedulerInv' /\ UNCHANGED restvars
  <2>1. \A d \in Client : d # c => running[d] = None
    BY <1>5 DEF runEnds, SchedulerInv, Runs
  <2>2. \A d \in Client : running'[d] = None
    BY <1>5, <2>1 DEF runEnds, SchedulerInv
  <2>3. running' \in [Client -> Job \cup {None}]
    BY <1>5 DEF runEnds, SchedulerInv
  <2> QED BY <1>1, <1>5, <2>2, <2>3 DEF SchedulerInv, Runs, runEnds
<1>6. CASE PubSubStep
  <2>1. RestNext
    BY <1>6 DEF PubSubStep, RestNext
  <2>2. RestInv'
    BY <2>1, RestStep DEF SchedulerInv
  <2>3. UNCHANGED scheduler
    BY <1>6 DEF PubSubStep
  <2>4. ASSUME at' = at
        PROVE  \A d \in Client : Runs(d)'
    BY <2>3, <2>4 DEF SchedulerInv, Runs, scheduler
  <2>5. ASSUME NEW c \in Client, Request(c), running[c] # None => at[c] # Idle
        PROVE  \A d \in Client : Runs(d)'
    BY <2>3, <2>5, OneMoves DEF SchedulerInv, Runs, scheduler
  <2>6. ASSUME Single \/ GRPC
        PROVE  at' = at
    BY <2>6 DEF Single, GRPC, Gone, requests
  <2>7. \A d \in Client : Runs(d)'
    BY <1>6, <2>4, <2>5, <2>6 DEF PubSubStep
  <2> QED BY <2>1, <2>2, <2>3, <2>7 DEF SchedulerInv, scheduler
<1>7. CASE UNCHANGED schedulerVars
  BY <1>1, <1>7 DEF schedulerVars, scheduler, SchedulerInv, Runs
<1> QED BY <1>2, <1>3, <1>4, <1>5, <1>6, <1>7, RunBegins DEF SchedulerNext, SchedulerStep

----------------------------------------------------------------------------
(* jobAction's run (cloudscheduler.go:187) under any interleaving with the  *)
(* other handlers of both services: while its message is published the job  *)
(* stands, with the target the message goes to.                             *)
THEOREM SchedulerRuns == SchedulerSpec => []RunsStandingJobs
<1>1. SchedulerInv => RunsStandingJobs
  BY DEF SchedulerInv, Runs, RunsStandingJobs
<1> QED BY <1>1, SchedulerInitInv, SchedulerInvStep, PTL DEF SchedulerSpec

(* To Pub/Sub the scheduler is one more client of Service.Publish: whatever *)
(* is proved of the handlers, and of the backend under them, holds in the   *)
(* composition.                                                             *)
THEOREM SchedulerUsesPubSub == SchedulerSpec => RestSpec
<1>1. SchedulerInit => RestInit
  BY DEF SchedulerInit
<1> QED BY <1>1, SchedulerInitInv, SchedulerInvStep, PTL DEF SchedulerSpec, RestSpec

(* From the abstract promise up through the backend and its handlers to a   *)
(* service that publishes: a job that runs has no effect on Pub/Sub but the *)
(* message it publishes.                                                    *)
THEOREM SchedulerKeepsPromise == SchedulerSpec => KeepsPromise
BY SchedulerUsesPubSub, RestKeepsPromise, PTL
=============================================================================
