--------------------------- MODULE TemplateService ---------------------------
(***************************************************************************)
(* One of the services written to the common template, over the starts and *)
(* stops of the process.  New loads the snapshot whether or not the        *)
(* --fidelity and --state filters admit the service; only an admitted      *)
(* service is routed, and only an admitted one is saved at shutdown.       *)
(* Every handler runs under the service's lock and is one step.            *)
(***************************************************************************)
EXTENDS TemplateCatalog, Naturals, Functions

CONSTANTS
  Parent,    \* pairs of a project and a location
  Id,        \* the ids of resources, chosen by the client or by httpx.ID
  Body,      \* bodies
  Filters,   \* the filters the process is started with
  MaxBoots   \* bound: starts of the process

VARIABLES
  svc,        \* the template's service
  up,         \* the process runs
  filter,     \* its filters: the labels admitted
  resources,  \* st.Resources: <<parent, id>> -> body
  disk,       \* <service>/state.json
  standing,   \* history: the resources clients were answered for, and
  secured,    \* those of them an orderly shutdown saved
  boots

templateVars == <<svc, up, filter, resources, disk, standing, secured, boots>>

Name == Parent \X Id
Empty == <<>>

Put(m, name, body) == [n \in DOMAIN m \cup {name} |-> IF n = name THEN body ELSE m[n]]
Drop(m, name)      == Restrict(m, DOMAIN m \ {name})

----------------------------------------------------------------------------
(* Server.New: which services are registered.  No filter is all labels. *)

matchFidelity(s, f) == s.fidelity \in f.fidelity
matchState(s, f)    == s.state \in f.state

Registered == matchFidelity(svc, filter) /\ matchState(svc, filter)

TemplateInit ==
  /\ svc \in Templates
  /\ up = TRUE /\ filter \in Filters
  /\ resources = Empty /\ disk = Empty
  /\ standing = Empty /\ secured = Empty
  /\ boots = 1

----------------------------------------------------------------------------
(* The handlers that change something; the others only read. *)

\* Mutant: an existing resource is replaced.
CreateOverwrites(name, body) ==
  /\ up /\ Registered
  /\ resources' = Put(resources, name, body)
  /\ standing' = Put(standing, name, body)
  /\ UNCHANGED <<svc, up, filter, disk, secured, boots>>

createItem(name, body) ==
  /\ up /\ Registered
  /\ name \notin DOMAIN resources
  /\ resources' = Put(resources, name, body)
  /\ standing' = Put(standing, name, body)
  /\ UNCHANGED <<svc, up, filter, disk, secured, boots>>

deleteItem(name) ==
  /\ up /\ Registered
  /\ name \in DOMAIN resources
  /\ resources' = Drop(resources, name)
  /\ standing' = Drop(standing, name)
  /\ UNCHANGED <<svc, up, filter, disk, secured, boots>>

\* listItems answers with the items of the collection.
listItems(parent) == {n \in DOMAIN resources : n[1] = parent}

----------------------------------------------------------------------------
(* The process. *)

\* init, then Server.New: Load runs before the filters are known.
Start ==
  /\ ~up /\ boots < MaxBoots
  /\ up' = TRUE /\ boots' = boots + 1
  /\ filter' \in Filters
  /\ resources' = disk
  /\ UNCHANGED <<svc, disk, standing, secured>>

\* Mutant: a process with filters saves nothing.
StopFiltered ==
  /\ up /\ up' = FALSE
  /\ disk' = IF \A s \in Templates : matchFidelity(s, filter) /\ matchState(s, filter)
                THEN resources ELSE disk
  /\ secured' = IF Registered THEN standing ELSE secured
  /\ standing' = secured'
  /\ UNCHANGED <<svc, filter, resources, boots>>

\* Shutdown: Close of the registered services saves the collection.
Stop ==
  /\ up /\ up' = FALSE
  /\ disk' = IF Registered THEN resources ELSE disk
  /\ secured' = IF Registered THEN standing ELSE secured
  /\ standing' = secured'
  /\ UNCHANGED <<svc, filter, resources, boots>>

\* A crash, or a save that fails: clients know only what was secured before.
Kill ==
  /\ up /\ up' = FALSE
  /\ standing' = secured
  /\ UNCHANGED <<svc, filter, resources, disk, secured, boots>>

TemplateNext ==
  \/ \E name \in Name : deleteItem(name) \/ \E body \in Body : createItem(name, body)
  \/ Start \/ Stop \/ Kill

TemplateSpec == TemplateInit /\ [][TemplateNext]_templateVars

----------------------------------------------------------------------------
(* A client of any of these services reads what it was answered for, in any *)
(* process it is admitted to: a start with filters that leave the service   *)
(* out, and any number of them, loses nothing and brings nothing back, and  *)
(* a crash takes it back to the last orderly shutdown and no further.       *)
ReadsWhatStands ==
  up /\ Registered =>
    \A p \in Parent : [n \in listItems(p) |-> resources[n]]
                      = Restrict(standing, {n \in DOMAIN standing : n[1] = p})

(* The body behind a name never changes while the name stands in a process: *)
(* getItem encodes the body after it gave the lock back, and may.           *)
BodiesStand ==
  [][up /\ up' => \A n \in DOMAIN resources \cap DOMAIN resources' :
                    resources'[n] = resources[n]]_templateVars
=============================================================================
