---------------------------- MODULE TypedServices ----------------------------
(***************************************************************************)
(* One collection of TypedCatalog, and the one that hangs on it, under the *)
(* requests of concurrent clients.  A handler takes the service's RWMutex, *)
(* does its work and encodes its answer: under the lock, or from a pointer *)
(* to the stored object after it gave the lock back.  In that case another *)
(* handler may write the object while it is read: the answer can be torn,  *)
(* and a map written while the encoder iterates over it ends the process.  *)
(***************************************************************************)
EXTENDS TypedCatalog, Naturals, FiniteSets

CONSTANTS
  TopName,   \* names of the upper collection, from 1 on
  KidName,   \* names of the lower one, from 1 on (versions are numbered)
  Client,
  MaxWrites  \* bound: requests that may write

None == 0

ASSUME TypedAssumption ==
  /\ IsFiniteSet(TopName) /\ TopName = 1 .. Cardinality(TopName)
  /\ KidName \subseteq Nat \ {0} /\ None \notin Client
  /\ MaxWrites \in Nat

VARIABLES
  shape,     \* the two collections
  tops,      \* name -> the object it stands for, or None
  kids,      \* the lower collection: [under, kid, born] with born a history of the parent object
  listing,   \* <<object, name>>: the names in the slice of an object, for a "listed" collection
  counter,   \* name -> the last number given, for a "numbered" one
  made,      \* objects made so far, which are 1 .. made
  reading,   \* the clients whose handlers hold the lock for reading
  writing,   \* the one that holds it for writing, or None
  calls,     \* client -> its request
  torn,      \* the clients whose answer mixes two states of an object
  dead,      \* the Go runtime ended the process
  writes

storeVars == <<tops, kids, listing, counter, made>>
typedVars == <<shape, storeVars, reading, writing, calls, torn, dead, writes>>

Idle == [level |-> "top", op |-> "get", name |-> None, kid |-> None,
         at |-> "idle", object |-> None]

Arrived(level, op, n, k) ==
  [level |-> level, op |-> op, name |-> n, kid |-> k, at |-> "waits", object |-> None]

\* What a service holds when it starts: a snapshot, here with objects in the
\* upper collection, or what its New puts there.
TypedInit ==
  /\ shape \in Shapes
  /\ tops \in {f \in [TopName -> {None} \cup TopName] : \A n \in TopName : f[n] \in {None, n}}
  /\ shape.top.create = "none" /\ shape.kid.parent # "made" => \A n \in TopName : tops[n] = n
  /\ kids = {} /\ listing = {}
  /\ counter = [n \in TopName |-> 0]
  /\ made = Cardinality(TopName)
  /\ reading = {} /\ writing = None
  /\ calls = [c \in Client |-> Idle] /\ torn = {}
  /\ dead = FALSE /\ writes = 0

----------------------------------------------------------------------------
(* What a request finds. *)

ReadOnly(call) == call.op \in {"get", "list"}
Kind(call)     == shape[call.level]

Under(n) == IF shape.kid.in = "inside" THEN tops[n] ELSE n

\* A spoke's name says nothing of its hub.
Found(n, k) ==
  {x \in kids : x.kid = k /\ (shape.kid.in = "listed" \/ x.under = Under(n))}

Offered(call) ==
  \/ call.op = "list"
  \/ call.op # "list" /\ Kind(call)[call.op] # "none"

----------------------------------------------------------------------------
(* The writes, as what they make of the store.  A write that is refused     *)
(* (not found, already exists) leaves it.                                   *)

Store(ts, ks, ls, cs, m) ==
  [tops |-> ts, kids |-> ks, listing |-> ls, counter |-> cs, made |-> m]

Same == Store(tops, kids, listing, counter, made)

NewTop(n) == Store([tops EXCEPT ![n] = made + 1], kids, listing, counter, made + 1)

CreateTop(n) ==
  IF tops[n] = None \/ shape.top.create = "replace" THEN NewTop(n) ELSE Same

\* Mutant: the versions go and the counter stays.
CascadeKeepsCounter(n) ==
  Store([tops EXCEPT ![n] = None], {x \in kids : x.under # n}, listing, counter, made)

Cascade(n) == Store([tops EXCEPT ![n] = None], {x \in kids : x.under # n}, listing,
                    [counter EXCEPT ![n] = 0], made)

DeleteTop(n) ==
  CASE shape.top.delete = "removes" ->
         Store([tops EXCEPT ![n] = None], kids, listing, counter, made)
    [] shape.top.delete = "cascades" -> Cascade(n)
    [] OTHER -> Same

ChangeTop(n) ==
  IF tops[n] = None /\ shape.top.change = "upsert" THEN NewTop(n) ELSE Same

\* Mutant: a spoke that is there already is not listed again.
ListedOnce(s, n, k) ==
  IF Found(n, k) # {} THEN s.listing ELSE s.listing \cup {<<s.tops[n], k>>}

\* The hub a spoke names gets it in its slice, also if it is in that of another.
ListedAgain(s, n, k) == s.listing \cup {<<s.tops[n], k>>}

Kid(s, n, k) ==
  [under |-> IF shape.kid.in = "inside" THEN s.tops[n] ELSE n, kid |-> k, born |-> s.tops[n]]

PutKid(s, n, k) ==
  Store(s.tops, (s.kids \ Found(n, k)) \cup {Kid(s, n, k)},
        IF shape.kid.in = "listed" THEN ListedAgain(s, n, k) ELSE s.listing,
        s.counter, s.made)

\* The next number of a parent, as its newest version.
NextKid(n) ==
  PutKid(Store(tops, kids, listing, [counter EXCEPT ![n] = @ + 1], made), n, counter[n] + 1)

CreateKid(n, k) ==
  IF tops[n] = None /\ shape.kid.parent = "checked" THEN Same
  ELSE IF shape.kid.create = "numbered" THEN NextKid(n)
  ELSE IF shape.kid.create = "replace" \/ Found(n, k) = {}
    THEN PutKid(IF tops[n] = None /\ shape.kid.parent = "made" THEN NewTop(n) ELSE Same, n, k)
  ELSE Same

\* A spoke leaves the slice of the hub it names, if there is one of that name,
\* as often as it is in it.
Unlisted(x) ==
  IF shape.kid.in = "listed" /\ tops[x.under] # None
    THEN listing \ {<<tops[x.under], x.kid>>}
    ELSE listing

DeleteKid(n, k) ==
  IF Found(n, k) = {} THEN Same
  ELSE LET x == CHOOSE x \in Found(n, k) : TRUE
       IN  Store(tops, kids \ {x}, Unlisted(x), counter, made)

Written(call) ==
  CASE call.level = "top" /\ call.op = "create" -> CreateTop(call.name)
    [] call.level = "top" /\ call.op = "change" -> ChangeTop(call.name)
    [] call.level = "top" /\ call.op = "delete" -> DeleteTop(call.name)
    [] call.level = "kid" /\ call.op = "create" -> CreateKid(call.name, call.kid)
    [] call.level = "kid" /\ call.op = "delete" -> DeleteKid(call.name, call.kid)
    [] OTHER -> Same

\* The upper object whose maps, slices or strings the write changes in place.
Touched(call) ==
  LET n     == call.name
      found == Found(n, call.kid)
      puts  == call.op = "create" /\ (shape.kid.create # "refuse" \/ found = {})
      takes == call.op = "delete" /\ found # {}
  IN  CASE call.level = "top" /\ call.op = "change" /\ shape.top.change # "word" -> tops[n]
        [] call.level = "top" /\ call.op = "delete" /\ shape.top.delete = "marks" -> tops[n]
        [] call.level = "kid" /\ shape.kid.in = "inside" /\ (puts \/ takes) -> tops[n]
        [] call.level = "kid" /\ shape.kid.in = "listed" /\ puts -> tops[n]
        [] call.level = "kid" /\ shape.kid.in = "listed" /\ takes ->
             tops[(CHOOSE x \in found : TRUE).under]
        [] OTHER -> None

----------------------------------------------------------------------------
(* The steps of a handler. *)

Begin(c) ==
  /\ ~dead /\ calls[c].at = "idle"
  /\ \E level \in {"top", "kid"}, op \in {"get", "list", "create", "change", "delete"},
        n \in TopName, k \in KidName :
       LET call == Arrived(level, op, n, k)
       IN  /\ Offered(call)
           /\ level = "top" => k = 1
           /\ op = "list" => level = "top" /\ n = 1
           /\ ~ReadOnly(call) => writes < MaxWrites
           /\ writes' = IF ReadOnly(call) THEN writes ELSE writes + 1
           /\ calls' = [calls EXCEPT ![c] = call]
  /\ UNCHANGED <<shape, storeVars, reading, writing, torn, dead>>

\* The upper object a get looks up; nothing writes into one of the lower ones.
Looked(call) == IF call.level = "top" THEN tops[call.name] ELSE None

\* RWMutex.RLock waits for a writer, and for one that waits.
RLock(c) ==
  /\ ~dead /\ calls[c].at = "waits" /\ ReadOnly(calls[c])
  /\ writing = None
  /\ \A d \in Client : calls[d].at = "waits" => ReadOnly(calls[d])
  /\ IF calls[c].op = "get" /\ Kind(calls[c]).get = "unlocked"
       THEN /\ calls' = [calls EXCEPT ![c].at = "encodes", ![c].object = Looked(calls[c])]
            /\ UNCHANGED reading
       ELSE /\ calls' = [calls EXCEPT ![c].at = "answers"]
            /\ reading' = reading \cup {c}
  /\ UNCHANGED <<shape, storeVars, writing, torn, dead, writes>>

Lock(c) ==
  /\ ~dead /\ calls[c].at = "waits" /\ ~ReadOnly(calls[c])
  /\ writing = None /\ reading = {}
  /\ writing' = c
  /\ calls' = [calls EXCEPT ![c].at = "holds"]
  /\ UNCHANGED <<shape, storeVars, reading, torn, dead, writes>>

\* Those who encode the object without the lock.
Encoding(o) == {d \in Client : calls[d].at = "encodes" /\ calls[d].object = o /\ o # None}

\* The handler's work: the store changes, and who reads the object it writes
\* reads anything.
Act(c) ==
  /\ ~dead /\ calls[c].at = "holds"
  /\ LET call    == calls[c]
         s       == Written(call)
         readers == Encoding(Touched(call))
         after   == call.op \in Kind(call).after
     IN  /\ tops' = s.tops /\ kids' = s.kids /\ listing' = s.listing
         /\ counter' = s.counter /\ made' = s.made
         /\ dead' \in IF readers = {} THEN {FALSE} ELSE BOOLEAN
         /\ \E mixed \in SUBSET readers : torn' = torn \cup mixed
         /\ calls' = [calls EXCEPT ![c].at = IF after THEN "encodes" ELSE "answers",
                                  ![c].object = IF after THEN s.tops[call.name] ELSE None]
         /\ writing' = IF after THEN None ELSE c
  /\ UNCHANGED <<shape, reading, writes>>

\* The handler is done: all its returns, early ones included, in one step.
Answer(c) ==
  /\ ~dead /\ calls[c].at \in {"answers", "encodes"}
  /\ calls' = [calls EXCEPT ![c] = Idle]
  /\ reading' = reading \ {c} /\ torn' = torn \ {c}
  /\ writing' = IF writing = c THEN None ELSE writing
  /\ UNCHANGED <<shape, storeVars, dead, writes>>

Handles(c) == RLock(c) \/ Lock(c) \/ Act(c) \/ Answer(c)

TypedNext == \E c \in Client : Begin(c) \/ Handles(c)

TypedSpec == TypedInit /\ [][TypedNext]_typedVars

----------------------------------------------------------------------------
\* The upper collections with an answer encoded without the lock and something
\* in the object that is written in place: strings of its own, the map of the
\* lower collection, the slice that lists it.
Exposed ==
  {"alloydb_clusters", "apigateway_apis", "appengine_services", "bigtable_instances",
   "billing_budgets", "clouddeploy_pipelines", "clouddns_zones", "cloudrun_services",
   "cloudrunjobs_jobs", "cloudscheduler_jobs", "cloudservicemesh_meshes",
   "cloudsql_instances", "cloudtasks_queues", "compute_instances", "dataflow_jobs",
   "gke_clusters", "iam_serviceAccounts", "identityplatform_tenants",
   "managedkafka_clusters", "networkconnectivity_hubs", "organizationpolicy_policies",
   "privateconnect_attachments", "resourcemanager_projects",
   "securitycommandcenter_sources", "servicedirectory_namespaces",
   "servicedirectory_services", "spannersql_instances", "vertexai_customJobs",
   "vertexai_endpoints", "workflows_workflows"}

(* The answers that are encoded after the unlock race only in the Exposed   *)
(* collections: there a request may be answered with a torn object, and a   *)
(* get of the parent while a child is created may end the process.          *)
(* Everywhere else an answer is one the stored object had.                  *)
RacesOnlyWhereExposed ==
  dead \/ torn # {} => shape.top.name \in Exposed

(* access "latest" (secretmanager.go:239) answers the version the counter   *)
(* names: the versions of a secret are 1 .. the counter, also for a secret  *)
(* deleted and created again, and a secret that is gone has none.           *)
LatestIsTheLast ==
  shape.kid.create = "numbered" =>
    \A n \in TopName : /\ {x.kid : x \in Found(n, counter[n])} = {counter[n]} \ {0}
                      /\ {x.kid : x \in {y \in kids : y.under = n}} = 1 .. counter[n]
                      /\ \A x \in kids : x.under = n => x.born = tops[n]

(* While the hub a spoke was created under stands, the hub lists the spoke  *)
(* (networkconnectivity.go:200-299, privateconnect.go:203-303): created     *)
(* twice, moved from hub to hub, or with its hub deleted and created again. *)
StandingKidIsListed ==
  shape.kid.in = "listed" =>
    \A x \in kids : tops[x.under] = x.born => <<x.born, x.kid>> \in listing
=============================================================================
