# kiri-gcp in TLA+

Specifications of the kiri-gcp emulator, the TLC runs that check them on small
instances and the TLAPS proofs that hold for every value of their constants.
Line numbers refer to the Go sources under `src/`; `PROJECT.json` maps every
definition to the lines it stands for.

## 1. The system

One process serves 108 Google Cloud services over REST (`net/http`, one
goroutine per request) and Pub/Sub and part of Firestore over gRPC as well.
State lives in memory; with `KIRI_DATA_DIR` set each service writes one JSON
snapshot when the process is shut down and reads it back when it starts.

| Component | State | Operations | What is hard | What makes it correct |
|---|---|---|---|---|
| Pub/Sub backend (`grpcsvc/pubsub`, `MergeBackend`) | topics, subscriptions, a slice of messages per topic, delivered marks per subscription | publish, pull, ack, create, delete; one mutex | long sequences of legal calls; names deleted and created again | nothing lost or handed out twice; order; no panic |
| Pub/Sub REST (`service/pubsub`) and unary gRPC | none: both use the backend | look, then act | two critical sections in one handler | an answered create stands; a duplicate is refused |
| StreamingPull | per stream: the named subscription; a receiver goroutine; an unbuffered channel | receive, ack, poll every 200 ms, send | a select of several ready cases; cancellation; failed sends | one holder per message; the handler returns; acks take effect |
| Cloud Storage | buckets, objects, resumable sessions (memory only) | create, delete, upload, start and resume a session | a body read between two critical sections; retries and late requests | the session is a prefix; stored once and whole |
| Server start (`server.go`, `grpcserver.go`) | ready and error channels | two listeners, a combiner, two selects | ready and failed at once; nobody receives any more | nobody blocks; a returned error ends the process |
| Shutdown and `storage` | snapshot files | drain HTTP, drain gRPC, save each service, exit; load | timeouts, open streams, failing saves, kills | everything answered is saved; no torn snapshot |
| Router and registry | the mux and the keys seen | register, dispatch | first wins, panics are swallowed | each service serves its routes |
| 53 template services | one map of resources | list, create, get, delete | filters leave a service unregistered, and unsaved | what stands is read, in any later process |
| 55 typed services | 100 collections of typed resources, some inside, beside or listed by another | create, read, change, delete; one RWMutex per service | an answer encoded after the unlock, from an object others write in place; copies of one fact that can part | answers are states the object had; a parent and its children agree |
| Firestore, REST and gRPC | two stores of documents, apart from each other | documents; transactions that commit nothing | patch makes what is missing; the gRPC store is never saved | as the typed services |
| Cloud Scheduler | jobs | create, pause, resume, delete, run (publishes under its lock) | two nested mutexes; encoding after unlock | a run publishes for a job that stands |
| Billing | the catalog and rows of cost, beside accounts, projects and budgets | calculator, cost query, seed | list and total kept apart; prices in two places; open and closed bounds | the total is the lines; the prices are the catalog's; a cut window loses nothing and doubles only what goes over the cut |
| `protow`, `grpcutil` | none | encode and decode protobuf by hand, for clients with generated code | fields without tags, unknown fields, messages in messages, types the protos declare otherwise | what is sent is understood |

They interact in four ways: REST and gRPC handlers share the Pub/Sub backend;
Cloud Scheduler calls `Service.Publish` (`CloudScheduler`) through a function
variable set in `Server.New` (the one for Cloud Storage is set and called by
nobody); the router sends every request to the one service that owns the
narrowest pattern; and Shutdown closes every registered service after both
servers are drained. The hazards of this code, each at its line, are in
`PROJECT.json`.

## 2. Modules

| Module | Models |
|---|---|
| `MessageQueues` | the slices of messages as sets with an order: append, filter, the slice of new messages |
| `PubSubBackend` | `MergeBackend`, one action per method, with a history of deliveries |
| `PubSubPromise` | what a user of Pub/Sub may rely on: an abstract broker without slices, marks or maps |
| `PubSubRefinement` | the backend implements the promise (`INSTANCE PubSubPromise WITH ...`) |
| `PubSubREST` | REST handlers in their separate critical sections, on the backend, beside gRPC calls |
| `StreamingPull` | the stream handlers, their receivers and clients, on the backend |
| `GCS` | buckets, objects and resumable sessions, one action per critical section |
| `GCSResumable` | a client of one session over a network that loses and delays, on `GCS`; it implements `UploadPromise` |
| `UploadPromise` | what a resumable upload promises its client: an atomic write that remembers what it was given |
| `ServerStart` | the goroutines of `Start` and `Run` and their channels |
| `Shutdown` | `Run` from the signal on, `Shutdown`, `storage.Save` and `Load`, kills and restarts |
| `TemplateCatalog`, `TemplateService` | the template services and the filters of `Server.New` |
| `ServiceRoutes`, `Router` | the 610 routes of the services; the router, for whichever of them a filter admits |
| `CloudScheduler` | jobs and their runs, composed with `PubSubREST` |
| `TypedCatalog` | the 100 collections of the typed services (and Firestore's over gRPC): what tells their handlers apart, and which hangs on which |
| `TypedServices` | the handlers of a collection and of the one below it, under concurrent clients |
| `Billing` | the price calculator, the catalog, the cost query |
| `WireCodec` | the messages of `protow`, between the server and a client with the code of the repository's protos |
| `*MC` | TLC instances; `ServerMC` follows a start into `Shutdown`, `ServicesMC` has one of five modules as the subject of a behaviour, `CloudSchedulerMC` runs Pub/Sub over REST and the scheduler |
| `*_proofs` | theorems about the module of that name; `PubSubBackend_proofs` also has the refinement, `PubSubREST_proofs` the scheduler, `Server_proofs` is about `ServerStart` and `Shutdown`, `Services_proofs` about `Router`, `TemplateService` and `TypedServices` |

How state corresponds:

- **Slices** (`messages`). A slice is `[ids, before]`: the ids it holds and the
  pairs that stand in that order. Concatenation, filtering and duplicates are
  exact in this form (a message held twice is the pair `<<a, a>>`), and the
  provers need no arithmetic on lengths. Ids are numbers in order of publication.
- **Maps.** Go maps are partial functions; a missing key of `messages` and a nil
  slice read the same and are one value.
- **History variables** (`delivered`, `released`, `topicOf`, `standing`,
  `stored`, `reopened`, ...) are read by no action's guard; properties use them.
- **Locks.** A method that holds its mutex throughout is one action. A handler
  with two critical sections is two, with its locals in a variable between them
  (`at` in `PubSubREST`, `checked` in `GCS`).
- **Select.** Each ready case is an action of its own.
- **Contents.** In `Shutdown` a store is the number of writes it contains; in
  `GCSResumable` byte i of the object is i, so a prefix is recognised by its
  length. Only `Content-Range` headers a conforming client sends are enumerated
  (the comment at gcs.go:391-395 lists them), fresh, repeated or late.
- **PUT and POST.** A chunk by PUT is handled by `resumeUpload` at once; one by POST
  (the Go client's way) goes through `uploadObj` first, which looks for the bucket
  in a critical section of its own (`CheckPasses`, `CheckRefuses`). So a client can
  be answered 404 with its session open, and the session be completed later by a
  request it gave up on, once the bucket was made again: `UploadPromise` says so.
- **A session, to its client.** `Phase`, `Held`, `Verdict` and `Standing` map
  `GCSResumable` to `UploadPromise`: a session is open while its id is in the map,
  stored or lost afterwards; what it holds is the length of its bytes; what the
  client knows is the range it was last told and how it was turned away.
- **Routes.** A path is its segments. Services register in any order, a service's
  own routes in one order (the proof uses nothing of which). A service is asked for
  each of its routes (one with an open end by one path that goes on past it), and
  for each of its resources by the POST with which `iampolicy` wants to be asked
  for the policy (`PolicyPost`). `RoutesServed` says who answers the first kind,
  `PoliciesResolve` the second.
- **Templates.** The 53 files differ in the service's name and its `Meta`. Each
  definition in `TemplateCatalog` stands for one file; what the file does is
  `TemplateService`, written from `agones.go`, with the routes `TemplateRoutes`.
- **Typed services.** A record of `TypedCatalog` stands for the handlers of one
  collection, at the lines the map names: whether a create refuses or replaces,
  which answers are encoded after the unlock, whether a change writes words in
  place, whether a delete removes, marks or cascades, and where the collection
  lives. `TypedServices` gives the record its meaning. All returns of a handler,
  the early ones too, are the one step `Answer`, with which the lock is free: that
  each return does give it back is read off the code and not checked. Resources above are
  objects, numbered as they are made, because a handler goes on with a pointer
  to one after its name was deleted or taken again. `Act` is all a handler does
  under the lock; who is in the encoder with that object at that moment may
  answer a mixture (`torn`), or end the process (`dead`) where a map is written
  while it is ranged over. The model lets both happen wherever something of
  more than a word is written, which is more than the runtime detects. Where
  three levels nest, any two neighbours are taken together.
- **Money.** Prices are decimal and quantities quarters, so every cost but one
  is whole in quarters of 10^-7 USD; rounding to cents is `round2`. The price
  of tokens is divided by 1000 as the code does. Floating point error is left
  out. Quantities and costs are taken not to be negative, which the code does not
  check. Four lines of the calculator have names the catalog has not (Storage PD
  Capacity (Persistent), Cloud Run Jobs CPU Allocation and Memory Allocation,
  Vertex AI Custom Training Node Hour); the model takes them for the entries they
  must mean, and compares their prices. Machines of type e2 are priced as N1, as in
  the code, although the catalog has SKUs for E2 (billing.go:150-151). A day is a
  number, a cost a number of mills; a row is its first and last day and its cost. A
  query is the rounded total of the rows it counts; a group or a filter of the code
  is the same sum over fewer rows. A bound of a query may be open (`NoDay`).
- **What hangs in a list** (the spokes of a hub) is the set of pairs of the object
  and the name: a create may add a name twice, a delete takes every occurrence.
- **Wire.** A varint, a fixed-width value and the content of a string are one
  element each; tags, lengths and nesting are exact, `Next` stops where the
  code does. The bytes of a varint are the library's. The server's half is
  `protow`; the client's is what code generated from `proto/` does: it leaves zero
  values out, reads each field with the type its proto declares (a time is a
  message, of which the model reads the seconds) and refuses a message that is cut.
  Fields the server's types do not have are not set.
- **Mutants.** A definition whose comment starts with "Mutant" is a plausible
  bug in the definition after it; no specification uses it. For each property
  one mutant in `PROJECT.json` breaks it, which shows that the property depends
  on the code.

## 3. Runs

| Run | Question | Bounds |
|---|---|---|
| `pubsub_backend` | is every pending message kept, handed out once per subscription and in order, for every sequence of calls, and is the store the promised broker? | 2 topics, 2 subscriptions, 3 messages, batches of 2: enough for a rebuilt slice with a message on both sides and names created again |
| `pubsub_rest` | do answered creates stand and duplicates get refused while handlers interleave, and does a scheduler's run publish only for a job that stands? | 2 requests in flight, 1 topic, 1 subscription, 1 job, 2 messages; gRPC calls at any moment |
| `pubsub_publish_race` (violation) | is the topic of a publish known when it stores? | the same |
| `streaming_safety` | who holds a delivered message? | 2 streams, a unary puller, other calls, 2 messages |
| `streaming_liveness` | does a handler return, hand out and acknowledge? when does a receiver end? | 1 stream, 1 topic, 1 message, 2 subscriptions, from one of which the stream may go over to the other: a poll takes all that is pending, so that messages do not compete, and an acknowledgement is for the subscription named last before it |
| `gcs_resumable` | what do retries and late requests do to a session and to the object, is the session the promised atomic write, and does a stubborn client end its upload? | 2 bytes (so a first and a last chunk), each request by PUT or POST, 2 late requests, 1 other upload to the same name with other bytes, the bucket deleted and created |
| `server` | can a goroutine of the start block, or an error be dropped? what is on disk after an exit, a failed save, a kill, and does a signalled process end? | the start: the code's own 2 listeners and 2 slots, gRPC on and off; a start that got through with both: 3 stores (REST, Pub/Sub, Firestore over gRPC), 2 slots of work, 2 writes each, 2 starts of the process |
| `server_start_bind` (violation) | does nil mean that both listeners bound, as the comment on `Start` says? | the start alone |
| `shutdown_hangs` (violation) | does it end, and save, whatever its clients do, as the comment on `Shutdown` says? | 1 write, 1 start |
| `services` | is every route served, and which policies come to `iampolicy`; does a template service's client read what stands; which answers of which collections can race; do children, versions and lists agree with their parents; do the computations of billing agree with one another, and the parts of a cut window with the whole; is what is encoded understood? | the table below |
| `billing_tokens` (violation) | does a line of the calculator cost its usage at its unit price? | the same |
| `wire_documents` (violation) | does a client understand an answer with documents? | the same |

The subjects of `services`, none of which calls another:

| Subject | Bounds |
|---|---|
| router | every pair of 108 services, both orders, every route and the policy of every resource; `CatalogAssumption` over all 611 routes (610 and New's own), pair by pair. By the theorem on the router pairs are enough |
| template | 53 services, 3 filters, 2 collections, 2 bodies, 3 starts |
| typed | every collection with each that hangs on it; 2 names above (moves, deletes, creates again), 1 below, 2 clients (a reader in the encoder, a writer), 3 writes (create, delete, create) |
| billing | 18 items that take every branch and default, and pairs of them; beside the 5 seeded rows 2 more, each over three days, of one day (two kinds), ended before it starts, or without days; every window, open ones too, with every cut |
| codec | every message type, its fields set and unset, repeated fields with 0 to 2 values, an unknown field of each wire type before and after |

`CHECK_DEADLOCK FALSE` stands where the system may stop: after a start has gone
its way, after the last start of the process, once a route was asked for, and when a
bound on writes or rows is used up.
Symmetry is used only in runs without liveness.

What the violation runs show (each quoted under `findings`):

1. `Publish` (and `:publish` over REST) looks up the topic and stores in two
   critical sections; a topic deleted in between gets messages and the caller
   gets ids, although the comment promises nil for an unknown topic. The
   messages wait for a topic created later under that name.
2. `Start` can return nil although a listener failed to bind: the ready channel
   is closed before the error is sent, and select may take either. `Run` then
   goes on with one listener until it is told to stop: nobody reads the error.
3. An open StreamingPull keeps `GracefulStop` waiting with no deadline, so that
   Shutdown never saves; the 30 s of its context bind the HTTP drain only.
4. The calculator divides tokens by 1000 although they come in thousands, so
   that 1M input tokens cost 0.00015 USD and are answered as 0, beside their
   usage (1000) and unit price (0.00015 per 1k tokens), whose product is 0.15.
5. The server encodes the times of a document as strings, where `firestore.proto`
   declares `Timestamp` messages, although `wire.go` promises messages that real
   client libraries can unmarshal. The text of a time is cut in a field when it is
   read as a message, so a client refuses every document and every list with one.

`RacesOnlyWhereExposed` says where a race of the encoder is possible: the 30
collections of `Exposed`, which answer from a stored object after the unlock and
write strings, a slice or a map of it in place. In them a get beside a change can
answer a torn object, and a get of a parent beside a create of its child can end
the process (`concurrent map iteration and map write`). Everywhere else, so the
theorem, neither can happen. `Exposed` is a statement about the code, not a
finding: no text of it promises otherwise.

Reading the typed services for the catalog also showed, and the model contains:
a spoke or endpoint created again under another hub stays in the slice of the old
one as well; deleting a BigQuery dataset leaves its tables, which a dataset of
the same name shows again; App Engine services are made by the first version
posted to them; Firestore over gRPC ignores the collection id.

Two more texts say something else than the code, and a property says what holds:

- `iampolicy.go:15-24` says that no generic service takes a POST at a resource's
  own path, that only topics, subscriptions, secrets and service directory
  endpoints are intercepted, and that every other resource comes to `iampolicy`.
  In the code Cloud Build triggers, Cloud Functions functions, Cloud Scheduler jobs,
  Dataproc jobs, KMS keys, Service Usage services, Vertex AI custom jobs and
  endpoints, and Firestore documents are intercepted too; of the service directory
  it is the services, not the endpoints. Outside `/v1` Cloud Run jobs, Cloud Tasks
  tasks and Compute instances take the POST for themselves, and nothing outside
  `/v1` comes to `iampolicy`. `Intercepted` is the list; `PoliciesResolve` and the
  theorem `EveryPolicyResolved` say that it is complete.
- `billing.go:496-497` calls the start of a query inclusive and its end exclusive,
  and docs/specs/2026-07-22-billing-time-travel-plan.md:24-25 a `[start,end)`
  window. A row that goes over the cut of two such windows is counted in both, with
  all its cost: every row the server seeds, when the cut is the day it ends.
  `CutsCountRowsOverThemTwice` and `WindowsMeet` say that this is all.

`WireCodec` compares `protow` with the protos of the repository, with which it agrees
but for the times of documents. Google's published definitions are outside the model.

The models also contain, as the code does, four things no property speaks
against: an acknowledgement removes the message for every subscription of its topic
(so `PubSubPromise` lets any message be discarded); when the drain of HTTP times out
Shutdown returns before it saves anything (`HTTPTimesOut`); the Firestore store
behind gRPC belongs to no service and is never saved (a store outside `Saved`); and
an error of Serve after `Start` has returned is read by nobody (`ServeFails`).

### Fairness

- `StreamingPull`: a goroutine that can run does (weak fairness of the receiver
  and of the handler outside its select). Go's select picks uniformly among the
  ready cases, so a case that is ready again and again is taken: strong fairness
  of the select's cases. Fairness of `SendOk` says that a Send that is neither
  cancelled nor cut completes, which takes a client that goes on reading.
  Clients are not fair: they need not send, close or cancel.
- `ServerStart`: goroutines that can run do; a signal or an error of Serve need
  not come.
- `Shutdown`: the drains and saves take their steps and a unary handler
  returns (`ServerRuns`); that a client ends its stream (`ClientsLeave`) is an
  assumption about clients, made in `server` and dropped in
  `shutdown_hangs`.
- `GCSResumable`: the client keeps sending and gives up after a time; the network
  does not lose every request or reply for ever, data or status check, before the
  bucket check of a POST or after it. Nothing else is fair.

## 4. Proofs

TLAPS checks, for all values of the constants:

- **`PubSubBackend_proofs`**, from `BackendAssumption` (the bounds are naturals).
  The properties are not inductive alone. `IInv` adds that every slice's order
  is a strict total order in which the messages marked for any subscription and
  those not yet marked keep their order of publication (`SlicesSorted`,
  `MarkedFromTheFront`): that is what rebuilding a slice preserves. One lemma
  per action, and lemmas on `Keep`, `Concat` and `Ascending`. Theorems:
  `TypeCorrect`, `NoPanic`, `Retention`, `Delivery`, `DeliveryOrder`, `Attachment`,
  `StableOrder`.
  `Implements`: every step of the backend is a step or a stutter of
  `PubSubPromise`, from `IInv`.
- **`PubSubREST_proofs`**: `RestUsesBackend` (the handlers' steps are steps of the
  backend, so all of the above holds behind REST), `RestAnswers` and `RestRefuses`.
  From `SchedulerAssumption` (`None` is no request and no job), `SchedulerInv` adds
  to the handlers' invariant that whoever runs a job holds the scheduler's lock, on
  a job that stands, and is in one of the two steps of the publish, on that job's
  topic. `SchedulerUsesPubSub`: the composition implements `RestSpec`;
  `SchedulerRuns`. So the promise holds end to end: `RestKeepsPromise` and
  `SchedulerKeepsPromise`.
- **`StreamingPull_proofs`**, from `StreamAssumption` (a stream that named no
  subscription yet is told apart from all names). `SInv` adds to `IInv` and
  `ExactlyOneHolder` what every variable of a handler may name (no message that was
  never published) and where a handler may hold what (`LoopInv`): a batch only
  while it sends, a loss only once it returned, and a receiver that ends exactly
  with a handler that took its error. Theorems `OneHolder`, `CleanClose`,
  `ReceiverOutlives`; `StreamsUseBackend`, and by it `StreamsKeepPromise`.
- **`GCSResumable_proofs`**, from `ResumableAssumption` (the object is not empty;
  the names are names). `RInv`: every request on the way is one the client could
  have sent, the session's id is drawn once, and what the session holds is a
  prefix no shorter than the client's position; so a chunk that is applied
  continues it (`SpanConcat`, `Extended`). Theorems `SessionIsPrefix`,
  `StoredWhole`. `OInv` adds to `OrphansWereOvertaken` that an upload past its
  check has its bucket or was overtaken; theorem `OnlyOvertakenOrphans`.
  `UInv` adds that requests are on the way only once the session was opened, that
  it keeps its bucket and name, and that plain uploads carry others' bytes; with
  `RInv` every step is one of `UploadPromise` or a stutter (`ServedAs` for a
  request, in any state of the session; `OthersStanding` for other clients). So
  `UploadImplements`: a session is an atomic write, for objects of any size.
  `NeverBack`: no 308 takes back what an earlier one said is held.
  `LateChunksHarmless` goes through the steps and needs no invariant. `TInv` adds
  to the type invariant that an upload past its check names a bucket and an
  object; with `RInv` it gives `ResTypeCorrect`.
- **`Server_proofs`**. Of `ServerStart`: `StartInv` says that a goroutine sends at
  most once and ends with it, that a ready channel is closed after its bind and
  once, and that the combiner is past a channel only when that is closed. An error
  in the buffer is then of a goroutine that sends no more, so two slots are enough
  for two listeners: `SendersGetThrough`, and `ReadyAfterBoth`. `BindErrorsAccounted` says where the
  error of a failed bind is in every state: not sent, in the buffer, or returned by
  Start and then in Run's channel until Run takes it; only a Start that returned
  nil leaves one unread. Of `Shutdown`, from
  `ShutdownAssumption` (the saved stores and those the two protocols write are
  stores), `LifeInv`: no snapshot in place is ahead of memory; nothing is in flight
  once services are closed; a service that is closed is still to be saved, being
  saved, failed or on disk. Theorems `ExitPersists`, `PeacefulSave`, `SnapshotsGrow`.
- **`Services_proofs`**. Of `Router`, from `RouterAssumption` (a filter admits
  services of the catalog) and `CatalogAssumption`: names are unique and patterns
  well formed, no two routes are in conflict, nobody has a
  narrower route under another's open one that a request of unspelled values could
  fall to, and the POST of a policy matches a route of the resource's service, which
  is in `Intercepted` then, or nothing but `iampolicy`'s (`PostsForResources`). TLC
  evaluates it on the whole catalog, route by route; it says nothing of orders, of
  subsets or of the mux. `RouterInv`: the mux holds exactly the routes
  taken so far, each with the service it was taken from. A request for a route then
  matches its pattern, and any other it matches is at least as wide
  (`RequestFalls`), so the narrowest is the owner's (`ServedByOwner`).
  `EveryRouteServed` holds for any set of services admitted, in any order, and so
  does `EveryPolicyResolved`: an intercepted POST is a route of its service, any
  other matches iampolicy's alone or nothing (`PolicyServed`).
  Of `TemplateService`: `Agrees` (memory is what stands, the file what is
  secured, and a service that is not admitted stands as secured) is inductive;
  theorems `Durable` and `Stand`.
  Of `TypedServices`, from `TypedAssumption` (the names above are 1 to their
  number, those below positive; `None` is no client). Four invariants. `LockInv`
  ties `reading` and `writing` to where the handlers are.
  `TypedInv` says that only a collection whose answers are encoded after the
  unlock has a handler in the encoder with an object, and that only those with
  something to write in place are touched; lemmas on the catalog go through its
  100 entries (`TypedRaces`). `NumberingInv` says that the numbers below a name
  are 1 to its counter and belong to the object that has the name, so that none
  is left when a name is free (`TypedVersions`). `ListingInv` adds to
  `StandingKidIsListed` that a spoke has one record, on an object that was made:
  a hub created again is a later object, so nothing is listed in its name before
  (`TypedListings`).
- **`Billing_proofs`**, from `BillingAssumption` (designs are not empty and their
  quantities, like the days of a row, are naturals). `Sound(lines, cost)`: the
  lines are at catalog prices and their unrounded costs add up to `cost`. One
  lemma per service shows that each item is sound, with every default and every
  line that is left out; concatenation keeps it, so any design is
  (`DesignSound`). `BillingInv`, that an estimate is sound for a cost its total is
  rounded from, gives `CatalogPrices`, and with half a cent for each rounding
  (`RoundedLines`) `LinesTotal`. `WindowsMeet` holds of any rows and costs, also of
  a row that ends before it starts: at every place the parts of the window and the
  rows that run backward cost what the whole and the rows over the cut cost, sums
  that balance at every place balance in total (`Balanced`), and each of three
  totals is rounded (`HalfAMill`). Sums, concatenations and roundings of sequences of any
  length need an induction, and the library's takes an operator the provers
  cannot instantiate. The lemma `Upwards` is one for sets instead: a set without
  some number has, by `WFMin`, a least one it is without.
- **`WireCodec_proofs`**, from `CodecAssumption` (each pair of `Traffic` is a type
  and a message of it, of any length; strings and the fields of numbers are
  naturals, the keys of a map finitely many). `Next` leaves less than it was given
  (`NextTypes`), so its repetition is well defined (`ReadsExist`, `ReadsAgree`,
  `FieldsStep`). What an encoding contributes is `Carries(e, n, t, vs)`: in front of
  any buffer `e` adds just the values `vs` of field `n` with type `t`. Every encoder
  has one lemma of this form, concatenation keeps it (`CarriesConcat`), lists by
  `Upwards`; `Bears` adds that a part carries nothing of the other fields, as do the
  unknown ones (`CarriesUnknown`). A map comes back in whatever order its entries
  were written (`EntriesBack`). What was read to its end leaves nothing over, so the
  client finds every message it needs whole (`FramedWhole`). One lemma for each type
  (`PublishRequestBack` to `ListSubscriptionsResponseBack`) then says that the other
  side reads what was encoded, and two that a client refuses a document and a list
  with one (`DocumentRefused`, `DocumentListRefused`). `CodecInv` (on the wire is
  what was sent, framed, and it is understood as that or refused for its documents)
  gives `Understood` and `DocumentsRefused`.

Proved only, and in no run: `StoredOnceAndWhole` (there `KeepsUploadPromise`
covers it), `NeverBack`, `ReadyAfterBoth`, `BindErrorsAccounted`, and
`DocumentsRefused` (the run `wire_documents` finds one).

Model-checked only: liveness (`HandlerReturns`, `PendingIsHandedOut`,
`AcksTakeEffect`, `ReceiverLeaksUnlessClean`, `UploadEnds`, `ShutdownEnds`,
`StartErrorEndsRun`, `StartReturnsCombinerEnds`), which the prover does not reach.
Every other property of a passing run is stated by a theorem.

## 5. What is not modelled

- Reads that have no effect (get, list, download) where no property is about
  their answer; metadata, checksums, pagination, error texts.
- Malformed requests: they are answered before any state is touched.
- The HTTP and gRPC libraries, beyond what the code relies on: which pattern
  wins, when Shutdown and GracefulStop return, that a stream delivers in order.
- Failures of the operating system (a rename that is not durable; a read that
  fails, persistence.go:38-40, after which a service starts empty): a kill ends the
  process only.
- The contents of typed resources, and what is computed from a request alone
  (annotations, sentiment, resolved policies).
- Snapshots of the typed services: they go through the same `Save` and `Load` as
  the stores of `Shutdown`, and start in `TypedInit` with or without objects.
- What a client may do to a lock: most handlers read or write their answer with
  it held, and only headers have a timeout (server.go:269), so a slow client
  keeps a service from everyone else for as long as it likes.
- `gcp.go`, the in-process API: it starts the same handler in a test server, and its
  `Close` stops both servers and saves nothing, so there is no state to relate.
- `httpx`, the request log, the catalog generator and the examples: no state of the
  emulator. (The example request in `examples/architectures/README.md` sends
  `resources`, where the calculator reads `items`.)
- The firing of jobs on their schedule and the dispatch of tasks: the code has
  neither, only `:run`.
- Random ids: taken to be distinct where they matter (messages, sessions), and
  treated like chosen ones in the template and typed services.

## 6. Plan

Done, in this order: the Pub/Sub modules, Cloud Storage, start, shutdown, the
router and the template services, Cloud Scheduler, the typed services, billing
and the wire codec. Every component that keeps state is modelled.

`Shutdown` is not composed with `TypedServices`: by `PeacefulSave` no handler runs
while a service is closed, so that a composition would add no interleaving to
those of the two.

What would add most from here: the hierarchies of three levels taken whole, where
`TypedServices` takes any two neighbours.
