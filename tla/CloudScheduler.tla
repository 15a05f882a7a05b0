---------------------------- MODULE CloudScheduler ----------------------------
(***************************************************************************)
(* Cloud Scheduler composed with the Pub/Sub it publishes to.  Its own     *)
(* RWMutex is held for the whole of every handler that writes, in the case *)
(* of :run through Service.Publish, which takes the mutex of the backend   *)
(* twice.  Reading handlers change nothing and are left out; the answer    *)
(* jobAction encodes after the unlock is cloudscheduler_jobs of            *)
(* TypedCatalog.                                                           *)
(***************************************************************************)
EXTENDS PubSubREST

CONSTANT Job   \* fully qualified job names

ASSUME SchedulerAssumption == None \notin Client \cup Job

VARIABLES
  jobs,       \* st.Jobs: a partial function, name -> state and target
  schedLock,  \* the request that holds the scheduler's lock between steps, or None
  running     \* request -> the job whose message it publishes, or None

scheduler     == <<jobs, schedLock, running>>
schedulerVars == <<restvars, scheduler>>

SchedulerInit ==
  /\ RestInit
  /\ jobs = [j \in {} |-> j]
  /\ schedLock = None
  /\ running = [c \in Client |-> None]

\* A job without a Pub/Sub target can be created, and runs to no effect.
createJob(j, target) ==
  /\ schedLock = None /\ j \notin DOMAIN jobs
  /\ jobs' = Put(jobs, j, [state |-> "ENABLED", target |-> target])
  /\ UNCHANGED <<restvars, schedLock, running>>

setState(j, state) ==
  /\ schedLock = None /\ j \in DOMAIN jobs
  /\ jobs' = [jobs EXCEPT ![j].state = state]
  /\ UNCHANGED <<restvars, schedLock, running>>

pauseJob(j)  == setState(j, "PAUSED")
resumeJob(j) == setState(j, "ENABLED")

\* Mutant: the target is copied and the lock given back before the publish.
RunUnlocked(c, j) ==
  /\ schedLock = None /\ j \in DOMAIN jobs /\ jobs[j].target # None
  /\ \E s \in Sub : Begin(c, "publish to?", jobs[j].target, s)
  /\ running' = [running EXCEPT ![c] = j]
  /\ UNCHANGED <<jobs, schedLock>>

\* :run, of a paused job too: PublishFunc is called with the lock held.
runJob(c, j) ==
  /\ schedLock = None /\ j \in DOMAIN jobs /\ jobs[j].target # None
  /\ \E s \in Sub : Begin(c, "publish to?", jobs[j].target, s)
  /\ schedLock' = c
  /\ running' = [running EXCEPT ![c] = j]
  /\ UNCHANGED jobs

\* PublishFunc returned, with or without having stored the message.
runEnds(c) ==
  /\ running[c] # None /\ at[c] = Idle
  /\ schedLock' = IF schedLock = c THEN None ELSE schedLock
  /\ running' = [running EXCEPT ![c] = None]
  /\ UNCHANGED <<restvars, jobs>>

deleteJob(j) ==
  /\ schedLock = None /\ j \in DOMAIN jobs
  /\ jobs' = Delete(jobs, j)
  /\ UNCHANGED <<restvars, schedLock, running>>

SchedulerStep ==
  \/ \E j \in Job : \/ \E target \in Topic \cup {None} : createJob(j, target)
                    \/ pauseJob(j) \/ resumeJob(j) \/ deleteJob(j)
                    \/ \E c \in Client : runJob(c, j)
  \/ \E c \in Client : runEnds(c)

\* A request that runs a job goes on with the publish, and with nothing else.
PubSubStep ==
  /\ Single \/ GRPC \/ \E c \in Client : Request(c) /\ (running[c] # None => at[c] # Idle)
  /\ UNCHANGED scheduler

SchedulerNext == SchedulerStep \/ PubSubStep

SchedulerSpec == SchedulerInit /\ [][SchedulerNext]_schedulerVars

----------------------------------------------------------------------------
(* :run holds the lock until its message is stored (cloudscheduler.go:187): *)
(* a job whose deletion was answered publishes nothing any more, whatever   *)
(* run was under way, and a message goes to the target its job has.         *)
RunsStandingJobs ==
  \A c \in Client : running[c] # None /\ at[c] # Idle =>
    /\ running[c] \in DOMAIN jobs
    /\ jobs[running[c]].target = at[c].topic
=============================================================================
