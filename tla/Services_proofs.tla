--------------------------- MODULE Services_proofs ---------------------------
(***************************************************************************)
(* The services and the router before them.  A template's service keeps    *)
(* what it answered for, for every set of templates, filters, names,       *)
(* bodies and number of starts.  In the typed services, for any number of  *)
(* clients, names and requests on any collection of the catalog: answers   *)
(* are torn where the catalog exposes them and nowhere else, the versions  *)
(* of a secret are numbered without a gap, and hubs list their spokes.     *)
(* The lemmas on the catalog go through it collection by collection, those *)
(* on the steps through the actions.  For any services admitted the router *)
(* serves every route by its owner, and a policy call by who intercepts it.*)
(***************************************************************************)
EXTENDS Router, TypedServices, TemplateService, FiniteSetTheorems, SequenceTheorems, TLAPS

----------------------------------------------------------------------------
(* The template. *)

\* Memory, disk and history agree: the file holds what is secured, and memory
\* what stands, admitted or not; a process that is down left only the file.
Agrees ==
  /\ up \in BOOLEAN
  /\ disk = secured
  /\ up => resources = standing
  /\ ~up => standing = secured
  /\ up /\ ~Registered => standing = secured

(* Memory agrees with what clients were answered for: Init and every step.  *)
LEMMA AgreesInductive == TemplateSpec => []Agrees
<1>1. TemplateInit => Agrees
  BY DEF TemplateInit, Agrees
<1>2. Agrees /\ [TemplateNext]_templateVars => Agrees'
  <2> SUFFICES ASSUME Agrees, [TemplateNext]_templateVars PROVE Agrees'
    OBVIOUS
  <2>1. ASSUME NEW name \in Name, NEW body \in Body, createItem(name, body) PROVE Agrees'
    <3>1. Registered' <=> Registered
      BY <2>1 DEF createItem, Registered
    <3> QED BY <2>1, <3>1 DEF createItem, Agrees
  <2>2. ASSUME NEW name \in Name, deleteItem(name) PROVE Agrees'
    <3>1. Registered' <=> Registered
      BY <2>2 DEF deleteItem, Registered
    <3> QED BY <2>2, <3>1 DEF deleteItem, Agrees
  <2>3. CASE Start
    BY <2>3 DEF Start, Agrees
  <2>4. CASE Stop
    BY <2>4 DEF Stop, Agrees
  <2>5. CASE Kill
    BY <2>5 DEF Kill, Agrees
  <2>6. CASE UNCHANGED templateVars
    BY <2>6 DEF templateVars, Agrees, Registered
  <2> QED BY <2>1, <2>2, <2>3, <2>4, <2>5, <2>6 DEF TemplateNext
<1> QED BY <1>1, <1>2, PTL DEF TemplateSpec

(* A client reads what stands, in every process its service is admitted to: *)
(* New loads, and Shutdown saves, whatever filters came in between.         *)
THEOREM Durable == TemplateSpec => []ReadsWhatStands
<1>1. Agrees => ReadsWhatStands
  <2> SUFFICES ASSUME Agrees, up, NEW p \in Parent
        PROVE [n \in listItems(p) |-> resources[n]]
              = Restrict(standing, {n \in DOMAIN standing : n[1] = p})
    BY DEF ReadsWhatStands
  <2>1. resources = standing
    BY DEF Agrees
  <2> QED BY <2>1 DEF listItems, Restrict
<1> QED BY <1>1, AgreesInductive, PTL

(* The body behind a name stands as long as the name: no handler of the     *)
(* template writes one but createItem, which refuses a name that exists.    *)
THEOREM Stand == TemplateSpec => BodiesStand
<1>1. [TemplateNext]_templateVars =>
        [up /\ up' => \A n \in DOMAIN resources \cap DOMAIN resources' :
                        resources'[n] = resources[n]]_templateVars
  <2> SUFFICES ASSUME TemplateNext, up, up',
                      NEW n \in DOMAIN resources, n \in DOMAIN resources'
        PROVE resources'[n] = resources[n]
    OBVIOUS
  <2>1. ASSUME NEW name \in Name, NEW body \in Body, createItem(name, body)
        PROVE resources'[n] = resources[n]
    BY <2>1 DEF createItem, Put
  <2>2. ASSUME NEW name \in Name, deleteItem(name) PROVE resources'[n] = resources[n]
    <3>1. resources' = [x \in DOMAIN resources \ {name} |-> resources[x]]
      BY <2>2 DEF deleteItem, Drop, Restrict
    <3>2. n \in DOMAIN resources \ {name}
      BY <3>1
    <3> QED BY <3>1, <3>2
  <2> QED BY <2>1, <2>2 DEF TemplateNext, Start, Stop, Kill
<1> QED BY <1>1, PTL DEF TemplateSpec, BodiesStand

----------------------------------------------------------------------------
(* The typed services. *)

(* The upper collections of Exposed carry their own names.                  *)
LEMMA ExposedNames ==
  /\ alloydb_clusters.name = "alloydb_clusters"
  /\ apigateway_apis.name = "apigateway_apis"
  /\ appengine_services.name = "appengine_services"
  /\ bigtable_instances.name = "bigtable_instances"
  /\ billing_budgets.name = "billing_budgets"
  /\ clouddeploy_pipelines.name = "clouddeploy_pipelines"
  /\ clouddns_zones.name = "clouddns_zones"
  /\ cloudrun_services.name = "cloudrun_services"
  /\ cloudrunjobs_jobs.name = "cloudrunjobs_jobs"
  /\ cloudscheduler_jobs.name = "cloudscheduler_jobs"
  /\ cloudservicemesh_meshes.name = "cloudservicemesh_meshes"
  /\ cloudsql_instances.name = "cloudsql_instances"
  /\ cloudtasks_queues.name = "cloudtasks_queues"
  /\ compute_instances.name = "compute_instances"
  /\ dataflow_jobs.name = "dataflow_jobs"
  /\ gke_clusters.name = "gke_clusters"
  /\ iam_serviceAccounts.name = "iam_serviceAccounts"
  /\ identityplatform_tenants.name = "identityplatform_tenants"
  /\ managedkafka_clusters.name = "managedkafka_clusters"
  /\ networkconnectivity_hubs.name = "networkconnectivity_hubs"
  /\ organizationpolicy_policies.name = "organizationpolicy_policies"
  /\ privateconnect_attachments.name = "privateconnect_attachments"
  /\ resourcemanager_projects.name = "resourcemanager_projects"
  /\ securitycommandcenter_sources.name = "securitycommandcenter_sources"
  /\ servicedirectory_namespaces.name = "servicedirectory_namespaces"
  /\ servicedirectory_services.name = "servicedirectory_services"
  /\ spannersql_instances.name = "spannersql_instances"
  /\ vertexai_customJobs.name = "vertexai_customJobs"
  /\ vertexai_endpoints.name = "vertexai_endpoints"
  /\ workflows_workflows.name = "workflows_workflows"
BY DEF Plain, Inside,
       alloydb_clusters, apigateway_apis, appengine_services,
       bigtable_instances, billing_budgets, clouddeploy_pipelines,
       clouddns_zones, cloudrun_services, cloudrunjobs_jobs,
       cloudscheduler_jobs, cloudservicemesh_meshes, cloudsql_instances,
       cloudtasks_queues, compute_instances, dataflow_jobs, gke_clusters,
       iam_serviceAccounts, identityplatform_tenants, managedkafka_clusters,
       networkconnectivity_hubs, organizationpolicy_policies,
       privateconnect_attachments, resourcemanager_projects,
       securitycommandcenter_sources, servicedirectory_namespaces,
       servicedirectory_services, spannersql_instances, vertexai_customJobs,
       vertexai_endpoints, workflows_workflows

(* These encode every answer under the lock.                                *)
LEMMA LockedCollections ==
  /\ billing_costs.get # "unlocked" /\ billing_costs.after = {}
  /\ clouddeploy_releases.get # "unlocked" /\ clouddeploy_releases.after = {}
  /\ errorreporting_groups.get # "unlocked" /\ errorreporting_groups.after = {}
  /\ fcm_messages.get # "unlocked" /\ fcm_messages.after = {}
  /\ firestore_documents.get # "unlocked" /\ firestore_documents.after = {}
  /\ logging_entries.get # "unlocked" /\ logging_entries.after = {}
  /\ monitoring_timeSeries.get # "unlocked" /\ monitoring_timeSeries.after = {}
  /\ naturallanguage_requests.get # "unlocked" /\ naturallanguage_requests.after = {}
  /\ serviceusage_services.get # "unlocked" /\ serviceusage_services.after = {}
  /\ visionai_requests.get # "unlocked" /\ visionai_requests.after = {}
BY DEF Plain, Log, Inside,
       billing_costs, clouddeploy_releases, errorreporting_groups,
       fcm_messages, firestore_documents, logging_entries,
       monitoring_timeSeries, naturallanguage_requests, serviceusage_services,
       visionai_requests

(* Nothing writes into the stored objects of these, but for a single word.  *)
LEMMA QuietCollections ==
  /\ apigateway_gateways.change \in {"none", "word"} /\ apigateway_gateways.delete # "marks"
  /\ artifactregistry_repositories.change \in {"none", "word"} /\ artifactregistry_repositories.delete # "marks"
  /\ batch_jobs.change \in {"none", "word"} /\ batch_jobs.delete # "marks"
  /\ bigquery_datasets.change \in {"none", "word"} /\ bigquery_datasets.delete # "marks"
  /\ billing_accounts.change \in {"none", "word"} /\ billing_accounts.delete # "marks"
  /\ billing_projects.change \in {"none", "word"} /\ billing_projects.delete # "marks"
  /\ binaryauthorization_attestors.change \in {"none", "word"} /\ binaryauthorization_attestors.delete # "marks"
  /\ binaryauthorization_policies.change \in {"none", "word"} /\ binaryauthorization_policies.delete # "marks"
  /\ certificatemanager_certificates.change \in {"none", "word"} /\ certificatemanager_certificates.delete # "marks"
  /\ cloudbuild_builds.change \in {"none", "word"} /\ cloudbuild_builds.delete # "marks"
  /\ cloudbuild_triggers.change \in {"none", "word"} /\ cloudbuild_triggers.delete # "marks"
  /\ cloudcomposer_environments.change \in {"none", "word"} /\ cloudcomposer_environments.delete # "marks"
  /\ cloudfunctions_functions.change \in {"none", "word"} /\ cloudfunctions_functions.delete # "marks"
  /\ compute_disks.change \in {"none", "word"} /\ compute_disks.delete # "marks"
  /\ compute_firewalls.change \in {"none", "word"} /\ compute_firewalls.delete # "marks"
  /\ dataproc_clusters.change \in {"none", "word"} /\ dataproc_clusters.delete # "marks"
  /\ dataproc_jobs.change \in {"none", "word"} /\ dataproc_jobs.delete # "marks"
  /\ eventarc_channels.change \in {"none", "word"} /\ eventarc_channels.delete # "marks"
  /\ eventarc_triggers.change \in {"none", "word"} /\ eventarc_triggers.delete # "marks"
  /\ firestore_grpc.change \in {"none", "word"} /\ firestore_grpc.delete # "marks"
  /\ gkeautopilot_clusters.change \in {"none", "word"} /\ gkeautopilot_clusters.delete # "marks"
  /\ globalloadbalancing_forwardingRules.change \in {"none", "word"} /\ globalloadbalancing_forwardingRules.delete # "marks"
  /\ globalloadbalancing_proxies.change \in {"none", "word"} /\ globalloadbalancing_proxies.delete # "marks"
  /\ globalloadbalancing_urlMaps.change \in {"none", "word"} /\ globalloadbalancing_urlMaps.delete # "marks"
  /\ iampolicy_policies.change \in {"none", "word"} /\ iampolicy_policies.delete # "marks"
  /\ kms_keyRings.change \in {"none", "word"} /\ kms_keyRings.delete # "marks"
  /\ loadbalancing_backendServices.change \in {"none", "word"} /\ loadbalancing_backendServices.delete # "marks"
  /\ loadbalancing_healthChecks.change \in {"none", "word"} /\ loadbalancing_healthChecks.delete # "marks"
  /\ logging_metrics.change \in {"none", "word"} /\ logging_metrics.delete # "marks"
  /\ logging_sinks.change \in {"none", "word"} /\ logging_sinks.delete # "marks"
  /\ memorystore_instances.change \in {"none", "word"} /\ memorystore_instances.delete # "marks"
  /\ monitoring_alerts.change \in {"none", "word"} /\ monitoring_alerts.delete # "marks"
  /\ monitoring_descriptors.change \in {"none", "word"} /\ monitoring_descriptors.delete # "marks"
  /\ secretmanager_secrets.change \in {"none", "word"} /\ secretmanager_secrets.delete # "marks"
  /\ vertexai_models.change \in {"none", "word"} /\ vertexai_models.delete # "marks"
BY DEF Plain,
       apigateway_gateways, artifactregistry_repositories, batch_jobs,
       bigquery_datasets, billing_accounts, billing_projects,
       binaryauthorization_attestors, binaryauthorization_policies,
       certificatemanager_certificates, cloudbuild_builds,
       cloudbuild_triggers, cloudcomposer_environments,
       cloudfunctions_functions, compute_disks, compute_firewalls,
       dataproc_clusters, dataproc_jobs, eventarc_channels, eventarc_triggers,
       firestore_grpc, gkeautopilot_clusters,
       globalloadbalancing_forwardingRules, globalloadbalancing_proxies,
       globalloadbalancing_urlMaps, iampolicy_policies, kms_keyRings,
       loadbalancing_backendServices, loadbalancing_healthChecks,
       logging_metrics, logging_sinks, memorystore_instances,
       monitoring_alerts, monitoring_descriptors, secretmanager_secrets,
       vertexai_models

(* Answers about a lower object after a write are encoded under the lock.   *)
LEMMA LowerCollections ==
  /\ NoKids.after = {}
  /\ alloydb_instances.after = {}
  /\ apigateway_configs.after = {}
  /\ appengine_versions.after = {}
  /\ bigquery_tables.after = {}
  /\ bigtable_tables.after = {}
  /\ clouddeploy_releases.after = {}
  /\ clouddeploy_rollouts.after = {}
  /\ clouddns_records.after = {}
  /\ cloudrunjobs_executions.after = {}
  /\ cloudservicemesh_routes.after = {}
  /\ cloudsql_databases.after = {}
  /\ cloudsql_users.after = {}
  /\ cloudtasks_tasks.after = {}
  /\ gke_nodePools.after = {}
  /\ iam_keys.after = {}
  /\ identityplatform_users.after = {}
  /\ kms_cryptoKeys.after = {}
  /\ managedkafka_topics.after = {}
  /\ networkconnectivity_spokes.after = {}
  /\ privateconnect_endpoints.after = {}
  /\ secretmanager_versions.after = {}
  /\ securitycommandcenter_findings.after = {}
  /\ servicedirectory_endpoints.after = {}
  /\ servicedirectory_services.after = {}
  /\ spannersql_databases.after = {}
  /\ vertexai_deployedModels.after = {}
  /\ workflows_executions.after = {}
BY DEF NoKids, Plain, Inside, Beside, Listed,
       alloydb_instances, apigateway_configs, appengine_versions,
       bigquery_tables, bigtable_tables, clouddeploy_releases,
       clouddeploy_rollouts, clouddns_records, cloudrunjobs_executions,
       cloudservicemesh_routes, cloudsql_databases, cloudsql_users,
       cloudtasks_tasks, gke_nodePools, iam_keys, identityplatform_users,
       kms_cryptoKeys, managedkafka_topics, networkconnectivity_spokes,
       privateconnect_endpoints, secretmanager_versions,
       securitycommandcenter_findings, servicedirectory_endpoints,
       servicedirectory_services, spannersql_databases,
       vertexai_deployedModels, workflows_executions

(* The lower collections that are no part of an object of the upper one.    *)
LEMMA CollectionsBeside ==
  /\ NoKids.in = "top" /\ bigquery_tables.in = "beside" /\ kms_cryptoKeys.in = "beside"
  /\ secretmanager_versions.in = "beside"
BY DEF NoKids, Plain, Beside, bigquery_tables, kms_cryptoKeys, secretmanager_versions

(* No lower collection but the versions of secrets draws numbers.           *)
LEMMA OnlyVersionsAreNumbered ==
  /\ NoKids.create # "numbered"
  /\ alloydb_instances.create # "numbered"
  /\ apigateway_configs.create # "numbered"
  /\ appengine_versions.create # "numbered"
  /\ bigquery_tables.create # "numbered"
  /\ bigtable_tables.create # "numbered"
  /\ clouddeploy_releases.create # "numbered"
  /\ clouddeploy_rollouts.create # "numbered"
  /\ clouddns_records.create # "numbered"
  /\ cloudrunjobs_executions.create # "numbered"
  /\ cloudservicemesh_routes.create # "numbered"
  /\ cloudsql_databases.create # "numbered"
  /\ cloudsql_users.create # "numbered"
  /\ cloudtasks_tasks.create # "numbered"
  /\ gke_nodePools.create # "numbered"
  /\ iam_keys.create # "numbered"
  /\ identityplatform_users.create # "numbered"
  /\ kms_cryptoKeys.create # "numbered"
  /\ managedkafka_topics.create # "numbered"
  /\ networkconnectivity_spokes.create # "numbered"
  /\ privateconnect_endpoints.create # "numbered"
  /\ securitycommandcenter_findings.create # "numbered"
  /\ servicedirectory_endpoints.create # "numbered"
  /\ servicedirectory_services.create # "numbered"
  /\ spannersql_databases.create # "numbered"
  /\ vertexai_deployedModels.create # "numbered"
  /\ workflows_executions.create # "numbered"
BY DEF NoKids, Plain, Inside, Beside, Listed,
       alloydb_instances, apigateway_configs, appengine_versions,
       bigquery_tables, bigtable_tables, clouddeploy_releases,
       clouddeploy_rollouts, clouddns_records, cloudrunjobs_executions,
       cloudservicemesh_routes, cloudsql_databases, cloudsql_users,
       cloudtasks_tasks, gke_nodePools, iam_keys, identityplatform_users,
       kms_cryptoKeys, managedkafka_topics, networkconnectivity_spokes,
       privateconnect_endpoints, securitycommandcenter_findings,
       servicedirectory_endpoints, servicedirectory_services,
       spannersql_databases, vertexai_deployedModels, workflows_executions

(* The lower collections that no slice of a parent lists.                   *)
LEMMA OnlySpokesAreListed ==
  /\ NoKids.in # "listed"
  /\ alloydb_instances.in # "listed"
  /\ apigateway_configs.in # "listed"
  /\ appengine_versions.in # "listed"
  /\ bigquery_tables.in # "listed"
  /\ bigtable_tables.in # "listed"
  /\ clouddeploy_releases.in # "listed"
  /\ clouddeploy_rollouts.in # "listed"
  /\ clouddns_records.in # "listed"
  /\ cloudrunjobs_executions.in # "listed"
  /\ cloudservicemesh_routes.in # "listed"
  /\ cloudsql_databases.in # "listed"
  /\ cloudsql_users.in # "listed"
  /\ cloudtasks_tasks.in # "listed"
  /\ gke_nodePools.in # "listed"
  /\ iam_keys.in # "listed"
  /\ identityplatform_users.in # "listed"
  /\ kms_cryptoKeys.in # "listed"
  /\ managedkafka_topics.in # "listed"
  /\ secretmanager_versions.in # "listed"
  /\ securitycommandcenter_findings.in # "listed"
  /\ servicedirectory_endpoints.in # "listed"
  /\ servicedirectory_services.in # "listed"
  /\ spannersql_databases.in # "listed"
  /\ vertexai_deployedModels.in # "listed"
  /\ workflows_executions.in # "listed"
BY DEF NoKids, Plain, Inside, Beside,
       alloydb_instances, apigateway_configs, appengine_versions,
       bigquery_tables, bigtable_tables, clouddeploy_releases,
       clouddeploy_rollouts, clouddns_records, cloudrunjobs_executions,
       cloudservicemesh_routes, cloudsql_databases, cloudsql_users,
       cloudtasks_tasks, gke_nodePools, iam_keys, identityplatform_users,
       kms_cryptoKeys, managedkafka_topics, secretmanager_versions,
       securitycommandcenter_findings, servicedirectory_endpoints,
       servicedirectory_services, spannersql_databases,
       vertexai_deployedModels, workflows_executions

(* How networkconnectivity.go treats hubs and spokes, and privateconnect.go  *)
(* attachments and endpoints.                                               *)
LEMMA HubsAndSpokes ==
  /\ networkconnectivity_hubs.create = "refuse" /\ networkconnectivity_hubs.change = "none"
  /\ networkconnectivity_hubs.delete = "removes"
  /\ networkconnectivity_spokes.in = "listed" /\ networkconnectivity_spokes.parent = "checked"
  /\ networkconnectivity_spokes.create = "replace"
  /\ privateconnect_attachments.create = "refuse" /\ privateconnect_attachments.change = "none"
  /\ privateconnect_attachments.delete = "removes"
  /\ privateconnect_endpoints.in = "listed" /\ privateconnect_endpoints.parent = "checked"
  /\ privateconnect_endpoints.create = "replace"
BY DEF Plain, Listed, networkconnectivity_hubs, networkconnectivity_spokes,
       privateconnect_attachments, privateconnect_endpoints

(* How secretmanager.go treats secrets and their versions.                  *)
LEMMA Secrets ==
  /\ secretmanager_secrets.create = "refuse" /\ secretmanager_secrets.change = "none"
  /\ secretmanager_secrets.delete = "cascades"
  /\ secretmanager_versions.in = "beside" /\ secretmanager_versions.parent = "checked"
  /\ secretmanager_versions.delete = "none" /\ secretmanager_versions.create = "numbered"
BY DEF Plain, Beside, secretmanager_secrets, secretmanager_versions

----------------------------------------------------------------------------
(* Answers are encoded outside the lock; stored objects are written in place. *)
Encodes(s) == s.top.get = "unlocked" \/ s.top.after # {} \/ s.kid.after # {}

InPlace(s) == \/ s.top.change \notin {"none", "word"}
              \/ s.top.delete = "marks"
              \/ s.kid.in \in {"inside", "listed"}

(* Where both happen the name is one of Exposed.                            *)
LEMMA ExposedShapes ==
  ASSUME NEW s \in Shapes, Encodes(s), InPlace(s)
  PROVE  s.top.name \in Exposed
<1>1. CASE \E c \in Alone : s = [top |-> c, kid |-> NoKids]
  BY <1>1, ExposedNames, LockedCollections, QuietCollections, LowerCollections, CollectionsBeside
     DEF Alone, Encodes, InPlace, Exposed
<1>2. CASE \E h \in Hierarchies : s = [top |-> h[1], kid |-> h[2]]
  BY <1>2, ExposedNames, LockedCollections, QuietCollections, LowerCollections, CollectionsBeside
     DEF Hierarchies, Encodes, InPlace, Exposed
<1> QED BY <1>1, <1>2 DEF Shapes

(* The one shape with numbered names.                                       *)
LEMMA NumberedShapes ==
  ASSUME NEW s \in Shapes, s.kid.create = "numbered"
  PROVE  s.top = secretmanager_secrets /\ s.kid = secretmanager_versions
<1>1. CASE \E c \in Alone : s = [top |-> c, kid |-> NoKids]
  BY <1>1, OnlyVersionsAreNumbered
<1>2. CASE \E h \in Hierarchies : s = [top |-> h[1], kid |-> h[2]]
  BY <1>2, OnlyVersionsAreNumbered DEF Hierarchies
<1> QED BY <1>1, <1>2 DEF Shapes

(* The two shapes whose lower names are listed are alike.                   *)
LEMMA ListedShapes ==
  ASSUME NEW s \in Shapes, s.kid.in = "listed"
  PROVE  /\ s.top.create = "refuse" /\ s.top.change = "none" /\ s.top.delete = "removes"
         /\ s.kid.parent = "checked" /\ s.kid.create = "replace"
<1>1. CASE \E c \in Alone : s = [top |-> c, kid |-> NoKids]
  BY <1>1, OnlySpokesAreListed
<1>2. CASE \E h \in Hierarchies : s = [top |-> h[1], kid |-> h[2]]
  BY <1>2, OnlySpokesAreListed, HubsAndSpokes DEF Hierarchies
<1> QED BY <1>1, <1>2 DEF Shapes

----------------------------------------------------------------------------
(* Types, and what a handler at each place of it knows. *)

Ops   == {"get", "list", "create", "change", "delete"}
Calls == [level : {"top", "kid"}, op : Ops, name : Nat, kid : Nat,
          at : {"idle", "waits", "holds", "answers", "encodes"}, object : Nat]

StoreTypeOK == shape \in Shapes /\ tops \in [TopName -> Nat] /\ made \in Nat

CallTypeOK ==
  /\ calls \in [Client -> Calls]
  /\ reading \subseteq Client /\ writing \in Client \cup {None}

Locks ==
  /\ \A c \in Client : /\ calls[c].at = "holds" => writing = c
                       /\ calls[c].at = "answers" => c \in reading \/ c = writing
                       /\ c \in reading => calls[c].at = "answers" /\ ReadOnly(calls[c])
  /\ writing # None => reading = {} /\ calls[writing].at \in {"holds", "answers"}

Asked == \A c \in Client : calls[c].at # "idle" => calls[c].name \in TopName /\ Offered(calls[c])

LockInv == StoreTypeOK /\ CallTypeOK /\ Locks /\ Asked

(* Names are numbers from 1 on, and there is an object for each at the start. *)
LEMMA NamesAreNumbers ==
  /\ Cardinality(TopName) \in Nat /\ KidName \subseteq Nat \ {0}
  /\ \A n \in TopName : n \in Nat \ {0} /\ n <= Cardinality(TopName)
<1>1. Cardinality(TopName) \in Nat
  BY TypedAssumption, FS_CardinalityType
<1>2. TopName = 1 .. Cardinality(TopName)
  BY TypedAssumption
<1>3. \A m \in Nat : \A n \in 1 .. m : n \in Nat \ {0} /\ n <= m
  OBVIOUS
<1>4. \A n \in TopName : n \in Nat \ {0} /\ n <= Cardinality(TopName)
  BY <1>1, <1>2, <1>3
<1> QED BY <1>1, <1>4, TypedAssumption

(* What a write makes of the store is a store.                              *)
LEMMA WrittenType ==
  ASSUME StoreTypeOK, NEW call \in Calls, call.name \in TopName
  PROVE  Written(call).tops \in [TopName -> Nat] /\ Written(call).made \in Nat
<1> DEFINE n == call.name
           k == call.kid
<1>1. NewTop(n).tops \in [TopName -> Nat] /\ NewTop(n).made \in Nat
  BY DEF NewTop, Store, StoreTypeOK
<1>2. Same.tops \in [TopName -> Nat] /\ Same.made \in Nat
  BY DEF Same, Store, StoreTypeOK
<1>3. CreateTop(n).tops \in [TopName -> Nat] /\ CreateTop(n).made \in Nat
  BY <1>1, <1>2 DEF CreateTop
<1>4. ChangeTop(n).tops \in [TopName -> Nat] /\ ChangeTop(n).made \in Nat
  BY <1>1, <1>2 DEF ChangeTop
<1>5. DeleteTop(n).tops \in [TopName -> Nat] /\ DeleteTop(n).made \in Nat
  <2>1. CASE shape.top.delete = "removes"
    BY <2>1 DEF DeleteTop, Store, StoreTypeOK, None
  <2>2. CASE shape.top.delete = "cascades"
    BY <2>2 DEF DeleteTop, Cascade, Store, StoreTypeOK, None
  <2> QED BY <1>2, <2>1, <2>2 DEF DeleteTop
<1>6. \A s, m : PutKid(s, n, m).tops = s.tops /\ PutKid(s, n, m).made = s.made
  BY DEF PutKid, Store
<1>7. NextKid(n).tops = tops /\ NextKid(n).made = made
  BY <1>6 DEF NextKid, Store
<1>8. CreateKid(n, k).tops \in [TopName -> Nat] /\ CreateKid(n, k).made \in Nat
  BY <1>1, <1>2, <1>6, <1>7 DEF CreateKid, StoreTypeOK
<1>9. DeleteKid(n, k).tops \in [TopName -> Nat] /\ DeleteKid(n, k).made \in Nat
  BY <1>2 DEF DeleteKid, Store, StoreTypeOK
<1> QED BY <1>2, <1>3, <1>4, <1>5, <1>8, <1>9 DEF Written, Calls

(* Nobody is at work at the start.                                          *)
LEMMA LockInitInv == TypedInit => LockInv
<1> SUFFICES ASSUME TypedInit
             PROVE  LockInv
  OBVIOUS
<1>1. StoreTypeOK
  BY NamesAreNumbers DEF TypedInit, StoreTypeOK, None
<1>2. Idle \in Calls /\ Idle.at = "idle"
  BY DEF Idle, Calls, Ops, None
<1> QED BY <1>1, <1>2 DEF TypedInit, LockInv, CallTypeOK, Locks, Asked

(* One call changes its place; the others stay where they are.              *)
LEMMA Moves ==
  ASSUME LockInv, NEW c \in Client, NEW r \in Calls, calls' = [calls EXCEPT ![c] = r],
         UNCHANGED shape,
         r.at # "idle" => r.name \in TopName /\ Offered(r)
  PROVE  /\ calls' \in [Client -> Calls] /\ calls'[c] = r
         /\ \A d \in Client \ {c} : calls'[d] = calls[d]
         /\ Asked'
<1>1. /\ calls' \in [Client -> Calls] /\ calls'[c] = r
      /\ \A d \in Client \ {c} : calls'[d] = calls[d]
  BY DEF LockInv, CallTypeOK
<1>2. Asked'
  BY <1>1 DEF LockInv, Asked, Offered, Kind
<1> QED BY <1>1, <1>2

(* Who encodes an object outside the lock does so where the catalog says so. *)
EncodeInv == \A c \in Client : calls[c].at = "encodes" /\ calls[c].object # None => Encodes(shape)

TypedInv == LockInv /\ EncodeInv /\ RacesOnlyWhereExposed

(* A request arrives.                                                       *)
LEMMA BeginStep ==
  ASSUME TypedInv, NEW c \in Client, Begin(c)
  PROVE  TypedInv'
<1>1. PICK level \in {"top", "kid"}, op \in Ops, n \in TopName, k \in KidName :
        /\ Offered(Arrived(level, op, n, k))
        /\ calls' = [calls EXCEPT ![c] = Arrived(level, op, n, k)]
  <2>1. PICK level \in {"top", "kid"}, op \in {"get", "list", "create", "change", "delete"},
             n \in TopName, k \in KidName :
          LET call == Arrived(level, op, n, k)
          IN  /\ Offered(call)
              /\ level = "top" => k = 1
              /\ op = "list" => level = "top" /\ n = 1
              /\ ~ReadOnly(call) => writes < MaxWrites
              /\ writes' = IF ReadOnly(call) THEN writes ELSE writes + 1
              /\ calls' = [calls EXCEPT ![c] = call]
    BY Zenon DEF Begin
  <2>2. Offered(Arrived(level, op, n, k)) /\ calls' = [calls EXCEPT ![c] = Arrived(level, op, n, k)]
    BY <2>1
  <2> QED BY <2>2 DEF Ops
<1> DEFINE r == Arrived(level, op, n, k)
<1>2. r \in Calls /\ r.at = "waits" /\ r.name \in TopName /\ Offered(r)
  BY <1>1, NamesAreNumbers DEF Arrived, Calls, None
<1>3. calls[c].at = "idle" /\ UNCHANGED <<shape, tops, made, reading, writing, torn, dead>>
  BY DEF Begin, storeVars
<1> HIDE DEF r
<1>4. /\ calls' \in [Client -> Calls] /\ calls'[c] = r
      /\ \A d \in Client \ {c} : calls'[d] = calls[d]
      /\ Asked'
  BY <1>1, <1>2, <1>3, Moves DEF TypedInv, r
<1>5. Locks'
  BY <1>2, <1>3, <1>4 DEF TypedInv, LockInv, CallTypeOK, Locks, ReadOnly
<1> QED BY <1>2, <1>3, <1>4, <1>5
        DEF TypedInv, LockInv, StoreTypeOK, CallTypeOK, EncodeInv, RacesOnlyWhereExposed

(* A reader takes the lock, and keeps it or has given it back.              *)
LEMMA RLockStep ==
  ASSUME TypedInv, NEW c \in Client, RLock(c)
  PROVE  TypedInv'
<1>1. /\ calls[c].at = "waits" /\ ReadOnly(calls[c]) /\ writing = None
      /\ UNCHANGED <<shape, tops, made, writing, torn, dead>>
  BY DEF RLock, storeVars
<1>2. calls[c] \in Calls /\ calls[c].name \in TopName /\ Offered(calls[c])
  BY <1>1 DEF TypedInv, LockInv, CallTypeOK, Asked
<1>3. Looked(calls[c]) \in Nat
  BY <1>2 DEF Looked, TypedInv, LockInv, StoreTypeOK, None
<1>4. CASE calls[c].op = "get" /\ Kind(calls[c]).get = "unlocked"
  <2> DEFINE r == [calls[c] EXCEPT !.at = "encodes", !.object = Looked(calls[c])]
  <2>1. calls' = [calls EXCEPT ![c] = r] /\ reading' = reading
    BY <1>4 DEF RLock
  <2>2. /\ r \in Calls /\ r.at = "encodes" /\ r.object = Looked(calls[c])
        /\ r.op = calls[c].op /\ r.name = calls[c].name /\ r.level = calls[c].level
    BY <1>2, <1>3 DEF Calls
  <2> HIDE DEF r
  <2>3. /\ calls' \in [Client -> Calls] /\ calls'[c] = r
        /\ \A d \in Client \ {c} : calls'[d] = calls[d]
        /\ Asked'
    BY <1>1, <1>2, <2>1, <2>2, Moves DEF TypedInv, Offered, Kind
  <2>4. Locks'
    BY <1>1, <2>1, <2>2, <2>3 DEF TypedInv, LockInv, Locks, ReadOnly
  <2>5. r.object # None => Encodes(shape)
    BY <1>2, <1>4, <2>2 DEF Looked, Kind, Encodes
  <2> QED BY <1>1, <2>1, <2>2, <2>3, <2>4, <2>5
          DEF TypedInv, LockInv, StoreTypeOK, CallTypeOK, EncodeInv, RacesOnlyWhereExposed
<1>5. CASE ~(calls[c].op = "get" /\ Kind(calls[c]).get = "unlocked")
  <2> DEFINE r == [calls[c] EXCEPT !.at = "answers"]
  <2>1. calls' = [calls EXCEPT ![c] = r] /\ reading' = reading \cup {c}
    BY <1>5 DEF RLock
  <2>2. /\ r \in Calls /\ r.at = "answers" /\ r.op = calls[c].op
        /\ r.name = calls[c].name /\ r.level = calls[c].level
    BY <1>2 DEF Calls
  <2> HIDE DEF r
  <2>3. /\ calls' \in [Client -> Calls] /\ calls'[c] = r
        /\ \A d \in Client \ {c} : calls'[d] = calls[d]
        /\ Asked'
    BY <1>1, <1>2, <2>1, <2>2, Moves DEF TypedInv, Offered, Kind
  <2>4. Locks'
    BY <1>1, <2>1, <2>2, <2>3 DEF TypedInv, LockInv, Locks, ReadOnly
  <2> QED BY <1>1, <2>1, <2>2, <2>3, <2>4
          DEF TypedInv, LockInv, StoreTypeOK, CallTypeOK, EncodeInv, RacesOnlyWhereExposed
<1> QED BY <1>4, <1>5

(* A writer takes the lock.                                                 *)
LEMMA LockStep ==
  ASSUME TypedInv, NEW c \in Client, Lock(c)
  PROVE  TypedInv'
<1>1. /\ calls[c].at = "waits" /\ ~ReadOnly(calls[c]) /\ writing = None /\ reading = {}
      /\ writing' = c /\ UNCHANGED <<shape, tops, made, reading, torn, dead>>
  BY DEF Lock, storeVars
<1> DEFINE r == [calls[c] EXCEPT !.at = "holds"]
<1>2. calls' = [calls EXCEPT ![c] = r]
  BY DEF Lock
<1>3. calls[c] \in Calls /\ calls[c].name \in TopName /\ Offered(calls[c])
  BY <1>1 DEF TypedInv, LockInv, CallTypeOK, Asked
<1>4. /\ r \in Calls /\ r.at = "holds" /\ r.op = calls[c].op
      /\ r.name = calls[c].name /\ r.level = calls[c].level
  BY <1>3 DEF Calls
<1> HIDE DEF r
<1>5. /\ calls' \in [Client -> Calls] /\ calls'[c] = r
      /\ \A d \in Client \ {c} : calls'[d] = calls[d]
      /\ Asked'
  BY <1>1, <1>2, <1>3, <1>4, Moves DEF TypedInv, Offered, Kind
<1>6. Locks'
  BY <1>1, <1>4, <1>5, TypedAssumption DEF TypedInv, LockInv, CallTypeOK, Locks, ReadOnly
<1> QED BY <1>1, <1>4, <1>5, <1>6
        DEF TypedInv, LockInv, StoreTypeOK, CallTypeOK, EncodeInv, RacesOnlyWhereExposed

(* What is written in place while somebody encodes it is written in one of  *)
(* the Exposed collections.                                                 *)
LEMMA TouchedInPlace ==
  ASSUME TypedInv, NEW c \in Client, calls[c].at = "holds",
         Encoding(Touched(calls[c])) # {}
  PROVE  shape.top.name \in Exposed
<1>1. Offered(calls[c])
  BY DEF TypedInv, LockInv, Asked
<1>2. PICK d \in Client : calls[d].at = "encodes" /\ calls[d].object # None
                         /\ Touched(calls[c]) # None
  BY DEF Encoding
<1>3. Encodes(shape)
  BY <1>2 DEF TypedInv, EncodeInv
<1>4. InPlace(shape)
  <2>1. CASE calls[c].level = "top" /\ calls[c].op = "change" /\ shape.top.change # "word"
    BY <1>1, <2>1 DEF Offered, Kind, InPlace
  <2>2. CASE calls[c].level = "top" /\ calls[c].op = "delete" /\ shape.top.delete = "marks"
    BY <2>2 DEF InPlace
  <2>3. CASE shape.kid.in \in {"inside", "listed"}
    BY <2>3 DEF InPlace
  <2> QED BY <1>2, <2>1, <2>2, <2>3 DEF Touched
<1> QED BY <1>3, <1>4, ExposedShapes DEF TypedInv, LockInv, StoreTypeOK

(* A writer does its work.                                                  *)
LEMMA ActStep ==
  ASSUME TypedInv, NEW c \in Client, Act(c)
  PROVE  TypedInv'
<1> DEFINE call    == calls[c]
           s       == Written(call)
           readers == Encoding(Touched(call))
           after   == call.op \in Kind(call).after
           r       == [call EXCEPT !.at = IF after THEN "encodes" ELSE "answers",
                                   !.object = IF after THEN s.tops[call.name] ELSE None]
<1>1. /\ call.at = "holds" /\ calls' = [calls EXCEPT ![c] = r]
      /\ tops' = s.tops /\ made' = s.made /\ writing' = (IF after THEN None ELSE c)
      /\ UNCHANGED <<shape, reading>>
  BY DEF Act
<1>2. (dead' => readers # {}) /\ \E mixed \in SUBSET readers : torn' = torn \cup mixed
  BY DEF Act
<1>3. /\ call \in Calls /\ call.name \in TopName /\ Offered(call)
      /\ writing = c /\ reading = {}
  BY <1>1, TypedAssumption DEF TypedInv, LockInv, CallTypeOK, Asked, Locks
<1>4. s.tops \in [TopName -> Nat] /\ s.made \in Nat
  BY <1>3, WrittenType DEF TypedInv, LockInv
<1> HIDE DEF s
<1>5. /\ r \in Calls /\ r.op = call.op /\ r.name = call.name /\ r.level = call.level
      /\ r.at = IF after THEN "encodes" ELSE "answers"
      /\ r.object = IF after THEN s.tops[call.name] ELSE None
  <2> HIDE DEF after
  <2>1. s.tops[call.name] \in Nat
    BY <1>3, <1>4
  <2> QED BY <1>3, <2>1 DEF Calls, None
<1> HIDE DEF r
<1>6. /\ calls' \in [Client -> Calls] /\ calls'[c] = r
      /\ \A d \in Client \ {c} : calls'[d] = calls[d]
      /\ Asked'
  BY <1>1, <1>3, <1>5, Moves DEF TypedInv, Offered, Kind
<1>7. Locks'
  <2> HIDE DEF after
  <2> QED BY <1>1, <1>3, <1>5, <1>6 DEF TypedInv, LockInv, Locks, ReadOnly
<1>8. after => Encodes(shape)
  BY <1>3 DEF Kind, Encodes, Calls
<1>9. EncodeInv'
  BY <1>1, <1>5, <1>6, <1>8 DEF TypedInv, EncodeInv
<1>10. RacesOnlyWhereExposed'
  BY <1>1, <1>2, TouchedInPlace DEF TypedInv, RacesOnlyWhereExposed
<1>11. StoreTypeOK' /\ CallTypeOK'
  BY <1>1, <1>3, <1>4, <1>6 DEF TypedInv, LockInv, StoreTypeOK, CallTypeOK
<1> QED BY <1>6, <1>7, <1>9, <1>10, <1>11 DEF TypedInv, LockInv

(* An answer is written.                                                    *)
LEMMA AnswerStep ==
  ASSUME TypedInv, NEW c \in Client, Answer(c)
  PROVE  TypedInv'
<1>1. /\ calls[c].at \in {"answers", "encodes"} /\ calls' = [calls EXCEPT ![c] = Idle]
      /\ reading' = reading \ {c} /\ torn' = torn \ {c}
      /\ writing' = IF writing = c THEN None ELSE writing
      /\ UNCHANGED <<shape, tops, made, dead>>
  BY DEF Answer, storeVars
<1>2. Idle \in Calls /\ Idle.at = "idle"
  BY DEF Idle, Calls, Ops, None
<1>3. /\ calls' \in [Client -> Calls] /\ calls'[c] = Idle
      /\ \A d \in Client \ {c} : calls'[d] = calls[d]
      /\ Asked'
  BY <1>1, <1>2, Moves DEF TypedInv
<1>4. Locks'
  BY <1>1, <1>2, <1>3, TypedAssumption DEF TypedInv, LockInv, CallTypeOK, Locks
<1> QED BY <1>1, <1>2, <1>3, <1>4
        DEF TypedInv, LockInv, StoreTypeOK, CallTypeOK, EncodeInv, RacesOnlyWhereExposed

(* The invariant holds at the start,                                        *)
LEMMA TypedInitInv == TypedInit => TypedInv
BY LockInitInv DEF TypedInit, TypedInv, EncodeInv, RacesOnlyWhereExposed, Idle

(* and every step keeps it.                                                 *)
LEMMA TypedStep == TypedInv /\ [TypedNext]_typedVars => TypedInv'
<1> SUFFICES ASSUME TypedInv, [TypedNext]_typedVars
             PROVE  TypedInv'
  OBVIOUS
<1>1. CASE UNCHANGED typedVars
  BY <1>1 DEF typedVars, storeVars, TypedInv, LockInv, StoreTypeOK, CallTypeOK, Locks, Asked,
              EncodeInv, RacesOnlyWhereExposed, ReadOnly, Offered, Kind
<1> QED BY <1>1, BeginStep, RLockStep, LockStep, ActStep, AnswerStep DEF TypedNext, Handles

----------------------------------------------------------------------------
(* The versions of the secrets: the lower collection of the one shape whose  *)
(* names are numbered.                                                      *)

Numbering ==
  /\ counter \in [TopName -> Nat]
  /\ \A n \in TopName :
       /\ tops[n] = None => counter[n] = 0
       /\ \A x \in kids : x.under = n => x.kid \in 1 .. counter[n] /\ x.born = tops[n]
       /\ \A i \in 1 .. counter[n] : \E x \in kids : x.under = n /\ x.kid = i

NumberingInv == shape.kid.create = "numbered" => Numbering

(* No version is there at the start,                                        *)
LEMMA NumberingInit == TypedInit => NumberingInv
BY DEF TypedInit, NumberingInv, Numbering

(* a secret gets the next one, or goes with all of its own,                 *)
LEMMA NumberingStep == TypedInv /\ NumberingInv /\ [TypedNext]_typedVars => NumberingInv'
<1> SUFFICES ASSUME TypedInv, NumberingInv, [TypedNext]_typedVars,
                    shape'.kid.create = "numbered"
             PROVE  Numbering'
  BY DEF NumberingInv
<1>1. CASE UNCHANGED <<shape, storeVars>>
  BY <1>1 DEF storeVars, NumberingInv, Numbering
<1>2. ASSUME NEW c \in Client, Act(c)
      PROVE  Numbering'
  <2> DEFINE n == calls[c].name
             s == Written(calls[c])
  <2>1. /\ tops' = s.tops /\ kids' = s.kids /\ counter' = s.counter /\ shape' = shape
        /\ calls[c].at = "holds"
    BY <1>2 DEF Act
  <2>2. n \in TopName /\ Offered(calls[c]) /\ tops \in [TopName -> Nat] /\ made \in Nat
        /\ calls[c].level \in {"top", "kid"} /\ calls[c].op \in Ops
    BY <2>1 DEF TypedInv, LockInv, StoreTypeOK, CallTypeOK, Asked, Calls
  <2>3. /\ shape.top.create = "refuse" /\ shape.top.change = "none"
        /\ shape.top.delete = "cascades" /\ shape.kid.in = "beside"
        /\ shape.kid.parent = "checked" /\ shape.kid.delete = "none"
        /\ shape.kid.create = "numbered"
    BY <2>1, NumberedShapes, Secrets DEF TypedInv, LockInv, StoreTypeOK
  <2>4. Numbering
    BY <2>3 DEF NumberingInv
  <2>5. ASSUME s = Same
        PROVE  Numbering'
    BY <2>1, <2>4, <2>5 DEF Same, Store, Numbering
  <2>6. CASE calls[c].level = "top" /\ calls[c].op = "create"
    <3>1. s = CreateTop(n)
      BY <2>6 DEF Written
    <3>2. CASE tops[n] = None
      <4>1. /\ tops' = [tops EXCEPT ![n] = made + 1] /\ kids' = kids /\ counter' = counter
        BY <2>1, <3>1, <3>2 DEF CreateTop, NewTop, Store
      <4> QED BY <2>2, <2>4, <3>2, <4>1 DEF Numbering, None
    <3> QED BY <2>3, <2>5, <3>1, <3>2 DEF CreateTop
  <2>7. CASE calls[c].level = "top" /\ calls[c].op = "delete"
    <3>1. s = Cascade(n)
      BY <2>3, <2>7 DEF Written, DeleteTop
    <3>2. /\ tops' = [tops EXCEPT ![n] = None] /\ kids' = {x \in kids : x.under # n}
          /\ counter' = [counter EXCEPT ![n] = 0]
      BY <2>1, <3>1 DEF Cascade, Store
    <3> QED BY <2>2, <2>4, <3>2 DEF Numbering, None
  <2>8. CASE calls[c].level = "kid" /\ calls[c].op = "create"
    <3>1. s = CreateKid(n, calls[c].kid)
      BY <2>8 DEF Written
    <3>2. CASE tops[n] # None
      <4> DEFINE new == [under |-> n, kid |-> counter[n] + 1, born |-> tops[n]]
      <4>1. s = NextKid(n)
        BY <2>3, <3>1, <3>2 DEF CreateKid
      <4>2. /\ tops' = tops /\ counter' = [counter EXCEPT ![n] = counter[n] + 1]
            /\ kids' = (kids \ Found(n, counter[n] + 1)) \cup {new}
        BY <2>1, <2>3, <4>1 DEF NextKid, PutKid, Kid, Store
      <4>3. Found(n, counter[n] + 1) = {}
        BY <2>2, <2>3, <2>4 DEF Found, Under, Numbering
      <4>4. kids' = kids \cup {new} /\ new.under = n /\ new.kid = counter[n] + 1
            /\ new.born = tops[n]
        BY <4>2, <4>3
      <4> HIDE DEF new
      <4>5. counter' \in [TopName -> Nat] /\ counter'[n] = counter[n] + 1 /\ counter[n] \in Nat
            /\ \A m \in TopName \ {n} : counter'[m] = counter[m]
        BY <2>2, <2>4, <4>2 DEF Numbering
      <4>6. \A m \in TopName : tops'[m] = None => counter'[m] = 0
        BY <2>4, <3>2, <4>2, <4>5 DEF Numbering
      <4>7. \A m \in TopName : \A x \in kids' :
              x.under = m => x.kid \in 1 .. counter'[m] /\ x.born = tops'[m]
        BY <2>4, <4>2, <4>4, <4>5 DEF Numbering
      <4>8. \A m \in TopName : \A i \in 1 .. counter'[m] : \E x \in kids' : x.under = m /\ x.kid = i
        <5> SUFFICES ASSUME NEW m \in TopName, NEW i \in 1 .. counter'[m]
                     PROVE  \E x \in kids' : x.under = m /\ x.kid = i
          OBVIOUS
        <5>1. CASE m = n /\ i = counter[n] + 1
          BY <4>4, <5>1
        <5>2. CASE ~(m = n /\ i = counter[n] + 1)
          <6>1. i \in 1 .. counter[m]
            BY <4>5, <5>2
          <6> QED BY <2>4, <4>4, <6>1 DEF Numbering
        <5> QED BY <5>1, <5>2
      <4> QED BY <4>5, <4>6, <4>7, <4>8 DEF Numbering
    <3> QED BY <2>3, <2>5, <3>1, <3>2 DEF CreateKid
  <2>9. CASE calls[c].op \notin {"create", "delete"}
    <3>1. calls[c].level = "top" => calls[c].op # "change"
      BY <2>2, <2>3 DEF Offered, Kind
    <3>2. s = Same
      BY <2>9, <3>1 DEF Written
    <3> QED BY <2>5, <3>2
  <2>10. CASE calls[c].level = "kid" /\ calls[c].op = "delete"
    BY <2>2, <2>3, <2>10 DEF Offered, Kind
  <2> QED BY <2>2, <2>6, <2>7, <2>8, <2>9, <2>10
<1>3. ASSUME NEW c \in Client, Begin(c) \/ RLock(c) \/ Lock(c) \/ Answer(c)
      PROVE  UNCHANGED <<shape, storeVars>>
  BY <1>3 DEF Begin, RLock, Lock, Answer
<1> QED BY <1>1, <1>2, <1>3 DEF TypedNext, Handles, typedVars

(* and so the counter names the last.                                       *)
LEMMA NumberingMeans == TypedInv /\ NumberingInv => LatestIsTheLast
<1> SUFFICES ASSUME TypedInv, NumberingInv, shape.kid.create = "numbered", NEW n \in TopName
             PROVE  /\ {x.kid : x \in Found(n, counter[n])} = {counter[n]} \ {0}
                    /\ {x.kid : x \in {y \in kids : y.under = n}} = 1 .. counter[n]
                    /\ \A x \in kids : x.under = n => x.born = tops[n]
  BY DEF LatestIsTheLast
<1>1. Found(n, counter[n]) = {x \in kids : x.kid = counter[n] /\ x.under = n}
  BY NumberedShapes, Secrets DEF TypedInv, LockInv, StoreTypeOK, Found, Under
<1>2. Numbering /\ counter[n] \in Nat
  BY DEF NumberingInv, Numbering
<1>3. {x.kid : x \in {y \in kids : y.under = n}} = 1 .. counter[n]
  BY <1>2 DEF Numbering
<1>4. {x.kid : x \in Found(n, counter[n])} \subseteq {counter[n]} \ {0}
  BY <1>1, <1>2 DEF Numbering
<1>5. counter[n] # 0 => \E x \in Found(n, counter[n]) : x.kid = counter[n]
  BY <1>1, <1>2 DEF Numbering
<1> QED BY <1>2, <1>3, <1>4, <1>5 DEF Numbering

----------------------------------------------------------------------------
(* The slices of hubs and attachments.  A name is that of one spoke; an     *)
(* object made later is none that a spoke was created under.                *)

Listing ==
  /\ \A n \in TopName : tops[n] <= made
  /\ \A x, y \in kids : x.kid = y.kid => x = y
  /\ \A x \in kids : x.under \in TopName /\ x.born \in 1 .. made
  /\ \A x \in kids : tops[x.under] = x.born => <<x.born, x.kid>> \in listing

ListingInv == shape.kid.in = "listed" => Listing

(* No spoke is there at the start,                                          *)
LEMMA ListingInit == TypedInit => ListingInv
<1> SUFFICES ASSUME TypedInit, NEW n \in TopName
             PROVE  tops[n] <= made
  BY DEF TypedInit, ListingInv, Listing
<1>1. tops[n] \in {None, n}
  BY DEF TypedInit
<1> QED BY <1>1, NamesAreNumbers DEF TypedInit, None

(* the hub a spoke is created under lists it, and those who leave take no   *)
(* other name with them.                                                    *)
LEMMA ListingStep == TypedInv /\ ListingInv /\ [TypedNext]_typedVars => ListingInv'
<1> SUFFICES ASSUME TypedInv, ListingInv, [TypedNext]_typedVars,
                    shape'.kid.in = "listed"
             PROVE  Listing'
  BY DEF ListingInv
<1>1. CASE UNCHANGED <<shape, storeVars>>
  BY <1>1 DEF storeVars, ListingInv, Listing
<1>2. ASSUME NEW c \in Client, Act(c)
      PROVE  Listing'
  <2> DEFINE n == calls[c].name
             k == calls[c].kid
             s == Written(calls[c])
  <2>1. /\ tops' = s.tops /\ kids' = s.kids /\ listing' = s.listing /\ made' = s.made
        /\ shape' = shape /\ calls[c].at = "holds"
    BY <1>2 DEF Act
  <2>2. n \in TopName /\ Offered(calls[c]) /\ tops \in [TopName -> Nat] /\ made \in Nat
        /\ calls[c].level \in {"top", "kid"} /\ calls[c].op \in Ops
    BY <2>1 DEF TypedInv, LockInv, StoreTypeOK, CallTypeOK, Asked, Calls
  <2>3. /\ shape.top.create = "refuse" /\ shape.top.change = "none"
        /\ shape.top.delete = "removes" /\ shape.kid.in = "listed"
        /\ shape.kid.parent = "checked" /\ shape.kid.create = "replace"
    BY <2>1, ListedShapes DEF TypedInv, LockInv, StoreTypeOK
  <2>4. Listing
    BY <2>3 DEF ListingInv
  <2> HIDE DEF s
  <2>5. ASSUME s = Same
        PROVE  Listing'
    BY <2>1, <2>4, <2>5 DEF Same, Store, Listing
  <2>6. CASE calls[c].level = "top" /\ calls[c].op = "create"
    <3>1. s = CreateTop(n)
      BY <2>6 DEF Written, s
    <3>2. CASE tops[n] = None
      <4>1. /\ tops' = [tops EXCEPT ![n] = made + 1] /\ made' = made + 1
            /\ UNCHANGED <<kids, listing>>
        BY <2>1, <3>1, <3>2 DEF CreateTop, NewTop, Store
      <4> QED BY <2>2, <2>4, <4>1 DEF Listing
    <3> QED BY <2>3, <2>5, <3>1, <3>2 DEF CreateTop
  <2>7. CASE calls[c].level = "top" /\ calls[c].op = "delete"
    <3>1. s = DeleteTop(n)
      BY <2>7 DEF Written, s
    <3>2. tops' = [tops EXCEPT ![n] = None] /\ UNCHANGED <<kids, listing, made>>
      BY <2>1, <2>3, <3>1 DEF DeleteTop, Store
    <3> QED BY <2>2, <2>4, <3>2 DEF Listing, None
  <2>8. CASE calls[c].level = "kid" /\ calls[c].op = "create"
    <3>1. s = CreateKid(n, k)
      BY <2>8 DEF Written, s
    <3>2. CASE tops[n] # None
      <4> DEFINE new == [under |-> n, kid |-> k, born |-> tops[n]]
      <4>1. s = PutKid(Same, n, k)
        BY <2>3, <3>1, <3>2 DEF CreateKid
      <4>2. /\ UNCHANGED <<tops, made>> /\ kids' = (kids \ Found(n, k)) \cup {new}
            /\ listing' = listing \cup {<<tops[n], k>>}
        BY <2>1, <2>3, <4>1 DEF PutKid, Kid, ListedAgain, Same, Store
      <4>3. Found(n, k) = {x \in kids : x.kid = k}
        BY <2>3 DEF Found
      <4>4. /\ kids' = {x \in kids : x.kid # k} \cup {new}
            /\ new.under = n /\ new.kid = k /\ new.born = tops[n]
        BY <4>2, <4>3
      <4> HIDE DEF new
      <4>5. tops[n] \in 1 .. made
        BY <2>2, <2>4, <3>2 DEF Listing, None
      <4>6. \A x, y \in kids' : x.kid = y.kid => x = y
        BY <2>4, <4>4 DEF Listing
      <4>7. \A x \in kids' : x.under \in TopName /\ x.born \in 1 .. made'
        BY <2>2, <2>4, <4>2, <4>4, <4>5 DEF Listing
      <4>8. \A x \in kids' : tops'[x.under] = x.born => <<x.born, x.kid>> \in listing'
        BY <2>4, <4>2, <4>4 DEF Listing
      <4> QED BY <2>4, <4>2, <4>6, <4>7, <4>8 DEF Listing
    <3> QED BY <2>3, <2>5, <3>1, <3>2 DEF CreateKid
  <2>9. CASE calls[c].level = "kid" /\ calls[c].op = "delete"
    <3>1. s = DeleteKid(n, k)
      BY <2>9 DEF Written, s
    <3>2. CASE Found(n, k) # {}
      <4>1. PICK x \in Found(n, k) : s = Store(tops, kids \ {x}, Unlisted(x), counter, made)
        BY <3>1, <3>2 DEF DeleteKid
      <4>2. /\ x \in kids /\ UNCHANGED <<tops, made>> /\ kids' = kids \ {x}
            /\ listing' = listing \/ listing' = listing \ {<<tops[x.under], x.kid>>}
        BY <2>1, <4>1 DEF Store, Unlisted, Found
      <4>3. \A y \in kids' : y \in kids /\ y.kid # x.kid
        BY <2>4, <4>2 DEF Listing
      <4>4. \A y \in kids' : tops'[y.under] = y.born => <<y.born, y.kid>> \in listing'
        BY <2>4, <4>2, <4>3 DEF Listing
      <4> QED BY <2>4, <4>2, <4>3, <4>4 DEF Listing
    <3> QED BY <2>5, <3>1, <3>2 DEF DeleteKid
  <2>10. CASE calls[c].op \notin {"create", "delete"}
    <3>1. calls[c].level = "top" => calls[c].op # "change"
      BY <2>2, <2>3 DEF Offered, Kind
    <3>2. s = Same
      BY <2>10, <3>1 DEF Written, s
    <3> QED BY <2>5, <3>2
  <2> QED BY <2>2, <2>6, <2>7, <2>8, <2>9, <2>10
<1>3. ASSUME NEW c \in Client, Begin(c) \/ RLock(c) \/ Lock(c) \/ Answer(c)
      PROVE  UNCHANGED <<shape, storeVars>>
  BY <1>3 DEF Begin, RLock, Lock, Answer
<1> QED BY <1>1, <1>2, <1>3 DEF TypedNext, Handles, typedVars

----------------------------------------------------------------------------
(* The answers encoded after the unlock (alloydb.go:170 and 60 others) race  *)
(* in the collections the catalog exposes, and in no other, for any number  *)
(* of clients, names and requests.                                          *)
THEOREM TypedRaces == TypedSpec => []RacesOnlyWhereExposed
<1>1. TypedInv => RacesOnlyWhereExposed
  BY DEF TypedInv
<1> QED BY <1>1, TypedInitInv, TypedStep, PTL DEF TypedSpec

(* The versions of a secret are 1 .. its counter (secretmanager.go:239).     *)
THEOREM TypedVersions == TypedSpec => []LatestIsTheLast
<1>1. TypedInv /\ NumberingInv => LatestIsTheLast
  BY NumberingMeans
<1> QED BY <1>1, TypedInitInv, TypedStep, NumberingInit, NumberingStep, PTL DEF TypedSpec

(* Spokes created twice, moved from hub to hub or left behind by their hub,  *)
(* in any number and order: the hub one was created under, while it stands, *)
(* lists it (networkconnectivity.go:200, privateconnect.go:203).            *)
THEOREM TypedListings == TypedSpec => []StandingKidIsListed
<1>1. ListingInv => StandingKidIsListed
  BY DEF ListingInv, Listing, StandingKidIsListed
<1> QED BY <1>1, TypedInitInv, TypedStep, ListingInit, ListingStep, PTL DEF TypedSpec

----------------------------------------------------------------------------
(* The router.  A request falls to no pattern that is not at least as wide  *)
(* as the route it was made for; two patterns each as wide as the other are *)
(* in conflict, and the catalog has none.  So the route itself serves it.   *)

(* What the ends of a pattern are.                                          *)
LEMMA FixedPart ==
  ASSUME NEW p \in Seq(Segment), p # <<>>
  PROVE  /\ Len(p) \in Nat \ {0} /\ Open(p) <=> p[Len(p)] = "**"
         /\ Open(p) => Len(Fixed(p)) = Len(p) - 1
         /\ ~Open(p) => Fixed(p) = p
         /\ Len(Fixed(p)) \in Nat /\ Len(Fixed(p)) <= Len(p)
         /\ \A i \in 1 .. Len(Fixed(p)) : Fixed(p)[i] = p[i]
<1>1. Len(p) \in Nat \ {0} /\ \A i \in 1 .. Len(p) - 1 : p[i] \in Segment
  OBVIOUS
<1>2. Open(p) <=> p[Len(p)] = "**"
  BY DEF Open, Last
<1>3. CASE Open(p)
  <2>1. Fixed(p) = SubSeq(p, 1, Len(p) - 1)
    BY <1>3 DEF Fixed, Front
  <2>2. /\ Len(SubSeq(p, 1, Len(p) - 1)) = Len(p) - 1
        /\ \A i \in 1 .. Len(p) - 1 : SubSeq(p, 1, Len(p) - 1)[i] = p[i]
    <3>0. Len(p) - 1 \in Nat
      BY <1>1
    <3>1. PICK n \in Nat : n = Len(p) - 1
      BY <3>0
    <3>2. \A i \in 1 .. n : p[i] \in Segment
      BY <1>1, <3>1
    <3>3. /\ Len(SubSeq(p, 1, n)) = n
          /\ \A i \in 1 .. n : SubSeq(p, 1, n)[i] = p[i]
      BY <3>2, SubSeqProperties
    <3> QED BY <3>1, <3>3
  <2> QED BY <1>1, <1>2, <1>3, <2>1, <2>2
<1>4. CASE ~Open(p)
  <2>1. Fixed(p) = p
    BY <1>4 DEF Fixed
  <2> QED BY <1>1, <1>2, <1>4, <2>1
<1> QED BY <1>3, <1>4

(* A pattern is as wide as itself, and two that are as wide as each other   *)
(* overlap: a duplicate, or an equivalent pattern, is a conflict.           *)
LEMMA EquivalentOverlap ==
  ASSUME NEW p, NEW q, WellFormed(p), WellFormed(q)
  PROVE  /\ Narrower(p, p)
         /\ Narrower(p, q) /\ Narrower(q, p) => Overlap(p, q)
<1> USE FixedPart DEF WellFormed
<1>1. Narrower(p, p)
  BY DEF Narrower
<1>2. ASSUME Narrower(p, q), Narrower(q, p) PROVE Overlap(p, q)
  <2>1. Len(Fixed(p)) = Len(Fixed(q))
    BY <1>2 DEF Narrower
  <2>2. Agree(Fixed(p), Fixed(q))
    BY <1>2, <2>1 DEF Narrower, Agree, Wild
  <2> QED BY <2>1, <2>2 DEF Overlap
<1> QED BY <1>1, <1>2

(* The path of a request is the route's with "x" for what it leaves open.   *)
LEMMA RequestSpelled ==
  ASSUME NEW p, WellFormed(p)
  PROVE  /\ ~Open(RequestPath(p)) /\ Fixed(RequestPath(p)) = RequestPath(p)
         /\ Len(RequestPath(p)) = IF Open(p) THEN Len(p) + 1 ELSE Len(p)
         /\ \A i \in 1 .. Len(Fixed(p)) :
              RequestPath(p)[i] = IF p[i] = "*" THEN "x" ELSE p[i]
<1> DEFINE m == [i \in 1 .. Len(p) |-> IF p[i] = "*" THEN "x" ELSE p[i]]
<1>1. p \in Seq(Segment) /\ p # <<>> /\ Len(p) \in Nat \ {0}
  BY DEF WellFormed
<1>2. m \in Seq(Segment) /\ Len(m) = Len(p) /\ m # <<>>
  <2>1. \A i \in 1 .. Len(p) : p[i] \in Segment
    BY <1>1
  <2>2. m \in [1 .. Len(p) -> Segment]
    BY <2>1 DEF Segment
  <2>3. m \in Seq(Segment)
    BY <1>1, <2>2, IsASeq
  <2> QED BY <1>1, <2>2, <2>3
<1>3. \A i \in 1 .. Len(p) : m[i] = IF p[i] = "*" THEN "x" ELSE p[i]
  OBVIOUS
<1>4. Open(m) <=> Open(p)
  BY <1>1, <1>2, <1>3, FixedPart
<1>5. RequestPath(p) = Fixed(m) \o (IF Open(p) THEN <<"x", "x">> ELSE <<>>)
  BY DEF RequestPath
<1> HIDE DEF m
<1>6. CASE Open(p)
  <2>1. Fixed(m) = SubSeq(m, 1, Len(m) - 1)
    BY <1>4, <1>6 DEF Fixed, Front
  <2>2. Fixed(m) \in Seq(Segment) /\ Len(Fixed(m)) = Len(p) - 1
    BY <1>1, <1>2, <2>1, SubSeqProperties
  <2>3. \A i \in 1 .. Len(p) - 1 : Fixed(m)[i] = m[i]
    BY <1>2, <1>4, <1>6, FixedPart
  <2>4. <<"x", "x">> \in Seq(Segment) /\ Len(<<"x", "x">>) = 2
    <3>1. "x" \in Segment
      BY DEF Segment
    <3> QED BY <3>1
  <2>5. RequestPath(p) = Fixed(m) \o <<"x", "x">>
    BY <1>5, <1>6
  <2>6. /\ RequestPath(p) \in Seq(Segment) /\ Len(RequestPath(p)) = Len(p) + 1
        /\ \A i \in 1 .. Len(p) + 1 : RequestPath(p)[i] =
             IF i <= Len(p) - 1 THEN Fixed(m)[i] ELSE <<"x", "x">>[i - (Len(p) - 1)]
    BY <1>1, <2>2, <2>4, <2>5, ConcatProperties
  <2>7. RequestPath(p)[Len(p) + 1] = "x" /\ RequestPath(p) # <<>>
    BY <1>1, <2>6
  <2>8. ~Open(RequestPath(p)) /\ Fixed(RequestPath(p)) = RequestPath(p)
    BY <2>6, <2>7, FixedPart
  <2>9. Len(Fixed(p)) = Len(p) - 1
    BY <1>1, <1>6, FixedPart
  <2>10. \A i \in 1 .. Len(p) - 1 : RequestPath(p)[i] = m[i]
    BY <1>1, <2>3, <2>6
  <2> QED BY <1>1, <1>3, <1>6, <2>6, <2>8, <2>9, <2>10
<1>7. CASE ~Open(p)
  <2>1. Fixed(m) = m /\ Fixed(p) = p
    BY <1>4, <1>7 DEF Fixed
  <2>2. RequestPath(p) = m
    BY <1>2, <1>5, <1>7, <2>1, ConcatEmptySeq
  <2> QED BY <1>3, <1>2, <1>4, <1>7, <2>1, <2>2
<1> QED BY <1>6, <1>7

(* A request matches the pattern of its route, and unless that is open no   *)
(* pattern that is not as wide: "x" is spelled by none.                     *)
LEMMA RequestFalls ==
  ASSUME NEW p, NEW q, WellFormed(p), WellFormed(q)
  PROVE  /\ Narrower(RequestPath(p), p)
         /\ ~Open(p) /\ Narrower(RequestPath(p), q) => Narrower(p, q)
<1>1. /\ p \in Seq(Segment) /\ p # <<>> /\ q \in Seq(Segment) /\ q # <<>>
      /\ \A i \in 1 .. Len(q) : q[i] # "x"
  BY DEF WellFormed
<1>2. Narrower(RequestPath(p), p)
  BY <1>1, RequestSpelled, FixedPart DEF Narrower
<1>3. ASSUME ~Open(p), Narrower(RequestPath(p), q) PROVE Narrower(p, q)
  <2>1. /\ Len(RequestPath(p)) = Len(p) /\ Fixed(RequestPath(p)) = RequestPath(p)
        /\ Fixed(p) = p /\ ~Open(RequestPath(p)) /\ Len(p) \in Nat
    BY <1>1, <1>3, RequestSpelled, FixedPart
  <2>2. \A i \in 1 .. Len(p) : RequestPath(p)[i] = IF p[i] = "*" THEN "x" ELSE p[i]
    BY <1>3, <2>1, RequestSpelled
  <2>3. Len(Fixed(q)) <= Len(p) /\ (Open(q) \/ Len(p) = Len(q))
    BY <1>3, <2>1 DEF Narrower
  <2>4. Len(Fixed(q)) \in Nat /\ Len(Fixed(q)) <= Len(q) /\ Len(q) \in Nat
    BY <1>1, FixedPart
  <2>5. ASSUME NEW i \in 1 .. Len(Fixed(q)) PROVE q[i] = "*" \/ q[i] = p[i]
    <3>1. i \in 1 .. Len(q) /\ i \in 1 .. Len(p)
      BY <2>1, <2>3, <2>4
    <3>2. q[i] = "*" \/ q[i] = RequestPath(p)[i]
      BY <1>3 DEF Narrower
    <3> QED BY <1>1, <2>2, <3>1, <3>2
  <2> QED BY <1>3, <2>1, <2>3, <2>5 DEF Narrower
<1> QED BY <1>2, <1>3

\* Who registered so far, which of its routes it did, and how they stand in the mux.
Begun     == (admitted \ todo) \cup (IF now.name = Root.name THEN {Root} ELSE {})
Taken(s)  == IF s.name = now.name THEN s.routes \ now.routes ELSE s.routes
Of(r, s)  == [method |-> r.method, path |-> r.path, owner |-> s.name]
Keys        == UNION {Taken(s) : s \in Begun}
Mounted     == UNION {{Of(r, s) : r \in Taken(s)} : s \in Begun}

(* The router has exactly the routes registered so far, each with the       *)
(* service that registered it: none was a duplicate, none in conflict.      *)
RouterInv ==
  /\ admitted \subseteq Services /\ todo \subseteq admitted
  /\ now = NobodyYet \/
     \E s \in Begun : now = [name |-> s.name, routes |-> now.routes] /\ now.routes \subseteq s.routes
  /\ now.name = Root.name => todo = {}
  /\ table = [registered |-> Keys, mux |-> Mounted]
  /\ RoutesServed /\ PoliciesResolve

(* With every route of the admitted services in the mux a request made for  *)
(* a route is answered by its service.                                      *)
LEMMA ServedByOwner ==
  ASSUME RouterInv, NEW s \in admitted, NEW r \in s.routes,
         todo = {}, now = [Root EXCEPT !.routes = {}]
  PROVE  Serve(table.mux, r.method, RequestPath(r.path)) = s.name
<1> DEFINE hits == {e \in table.mux : e.method = r.method /\ Narrower(RequestPath(r.path), e.path)}
           best == {e \in hits : \A d \in hits : Narrower(e.path, d.path)}
<1>1. s \in Services /\ Begun \subseteq Services \cup {Root} /\ s \in Begun
  BY DEF RouterInv, Begun
<1>2. Taken(s) = s.routes
  BY DEF Taken, Root
<1>3. \A e \in table.mux : \E t \in Begun : \E q \in t.routes : e = Of(q, t)
  BY DEF RouterInv, Mounted, Taken
<1>4. Of(r, s) \in table.mux
  BY <1>1, <1>2 DEF RouterInv, Mounted
<1>5. WellFormed(r.path) /\ \A t \in Begun : \A q \in t.routes : WellFormed(q.path)
  BY <1>1, CatalogAssumption
<1>6. Of(r, s) \in hits
  BY <1>4, <1>5, RequestFalls DEF Of
<1>7. ASSUME NEW e \in hits PROVE Narrower(r.path, e.path)
  <2>1. PICK t \in Begun : \E q \in t.routes : e = Of(q, t)
    BY <1>3
  <2>2. PICK q \in t.routes : e = Of(q, t)
    BY <2>1
  <2>3. e.path = q.path /\ e.method = q.method /\ WellFormed(q.path)
    BY <1>5, <2>2 DEF Of
  <2>4. CASE Open(r.path)
    BY <1>1, <2>3, <2>4, CatalogAssumption DEF NothingBelowOpen
  <2>5. CASE ~Open(r.path)
    BY <1>5, <2>3, <2>5, RequestFalls
  <2> QED BY <2>4, <2>5
<1>8. Of(r, s) \in best
  BY <1>6, <1>7 DEF Of
<1>9. ASSUME NEW e \in best PROVE e.owner = s.name
  <2>1. PICK t \in Begun : \E q \in t.routes : e = Of(q, t)
    BY <1>3
  <2>2. PICK q \in t.routes : e = Of(q, t)
    BY <2>1
  <2>3. e.path = q.path /\ e.method = q.method /\ e.owner = t.name /\ WellFormed(q.path)
    BY <1>5, <2>2 DEF Of
  <2>4. Narrower(r.path, q.path) /\ Narrower(q.path, r.path)
    BY <1>6, <1>7, <2>3 DEF Of
  <2>5. Overlap(r.path, q.path)
    BY <1>5, <2>3, <2>4, EquivalentOverlap
  <2>6. Conflict(r, q)
    BY <2>3, <2>4, <2>5 DEF Conflict
  <2>7. s = t
    BY <1>1, <2>6, CatalogAssumption DEF NoCollisions
  <2> QED BY <2>3, <2>7
<1>10. Serve(table.mux, r.method, RequestPath(r.path)) =
         IF best = {} THEN Nobody ELSE (CHOOSE e \in best : TRUE).owner
  BY DEF Serve
<1> HIDE DEF best
<1>11. (CHOOSE e \in best : TRUE) \in best
  BY <1>8
<1> QED BY <1>8, <1>9, <1>10, <1>11

(* The POST of a policy that no service intercepts is iampolicy's, or, when *)
(* that is not admitted or listens elsewhere, nobody's.                     *)
LEMMA PolicyServed ==
  ASSUME RouterInv, NEW s \in admitted, NEW p \in Resources(s), p \notin Intercepted,
         todo = {}, now = [Root EXCEPT !.routes = {}]
  PROVE  Serve(table.mux, "POST", RequestPath(p)) =
           IF PolicyOn /\ p[1] = "v1" THEN "iampolicy" ELSE Nobody
<1> DEFINE below == <<"v1", "**">>
           hits == {e \in table.mux : e.method = "POST" /\ Narrower(RequestPath(p), e.path)}
           best == {e \in hits : \A d \in hits : Narrower(e.path, d.path)}
<1>1. /\ s \in Services /\ Begun \subseteq Services \cup {Root} /\ admitted \subseteq Begun
      /\ \A t \in Begun : t = Root \/ t \in admitted
  BY DEF RouterInv, Begun
<1>2. \A e \in table.mux : \E t \in Begun : \E q \in t.routes : e = Of(q, t)
  BY DEF RouterInv, Mounted, Taken
<1>3. WellFormed(p) /\ \A t \in Begun : \A q \in t.routes : WellFormed(q.path)
  BY <1>1, CatalogAssumption DEF Resources
<1>4. ~Open(p) /\ p \in Seq(Segment) /\ p # <<>> /\ Len(p) \in Nat \ {0}
  <2>1. Last(p) = "*"
    BY DEF Resources
  <2> QED BY <1>3, <2>1 DEF Open, WellFormed
<1>5. \A t \in Begun : t.name = "iampolicy" => t \in admitted /\ t.routes = {PolicyPost(below)}
  <2>1. Root.name # "iampolicy"
    BY DEF Root
  <2> QED BY <1>1, <2>1, CatalogAssumption DEF PostsForResources, RouterInv
<1>6. ASSUME NEW e \in hits
      PROVE  /\ e.owner = "iampolicy" /\ e.path = below /\ PolicyOn
             /\ WellFormed(below) /\ Narrower(p, below)
  <2>1. PICK t \in Begun : \E q \in t.routes : e = Of(q, t)
    BY <1>2
  <2>2. PICK q \in t.routes : e = Of(q, t)
    BY <2>1
  <2>3. /\ e.path = q.path /\ q.method = "POST" /\ e.owner = t.name /\ WellFormed(q.path)
        /\ Narrower(RequestPath(p), q.path)
    BY <1>3, <2>2 DEF Of
  <2>4. Narrower(p, q.path)
    BY <1>3, <1>4, <2>3, RequestFalls
  <2>5. t.name = "iampolicy"
    BY <1>1, <2>3, <2>4, CatalogAssumption DEF PostsForResources
  <2>6. q = PolicyPost(below) /\ t \in admitted
    BY <1>5, <2>5
  <2> QED BY <2>3, <2>4, <2>5, <2>6 DEF PolicyOn, PolicyPost
<1>7. ASSUME WellFormed(below)
      PROVE  /\ Open(below) /\ Len(Fixed(below)) = 1 /\ below[1] = "v1"
  <2>1. /\ below \in Seq(Segment) /\ below # <<>> /\ Len(below) = 2
        /\ below[1] = "v1" /\ below[2] = "**"
    BY <1>7 DEF WellFormed
  <2> HIDE DEF below
  <2>2. Open(below)
    BY <2>1, FixedPart
  <2>3. Len(Fixed(below)) = Len(below) - 1
    BY <2>1, <2>2, FixedPart
  <2> QED BY <2>1, <2>2, <2>3
<1>8. CASE PolicyOn /\ p[1] = "v1"
  <2>1. PICK t \in admitted : t.name = "iampolicy"
    BY <1>8 DEF PolicyOn
  <2>2. t \in Begun /\ t.routes = {PolicyPost(below)}
    BY <1>1, <1>5, <2>1
  <2>3. Taken(t) = t.routes
    BY DEF Taken, Root
  <2>4. Of(PolicyPost(below), t) \in table.mux
    BY <2>2, <2>3 DEF RouterInv, Mounted
  <2>5. WellFormed(below)
    <3>1. PolicyPost(below) \in t.routes /\ PolicyPost(below).path = below
      BY <2>2 DEF PolicyPost
    <3> HIDE DEF below
    <3> QED BY <1>3, <2>2, <3>1
  <2>6. Open(below) /\ Len(Fixed(below)) = 1 /\ below[1] = "v1"
    BY <1>7, <2>5
  <2>7. /\ Fixed(RequestPath(p)) = RequestPath(p) /\ Len(RequestPath(p)) = Len(p)
        /\ RequestPath(p)[1] = "v1"
    <3>1. Fixed(p) = p
      BY <1>4 DEF Fixed
    <3>2. 1 \in 1 .. Len(Fixed(p))
      BY <1>4, <3>1
    <3> QED BY <1>3, <1>4, <1>8, <3>2, RequestSpelled
  <2> HIDE DEF below
  <2>8. Narrower(RequestPath(p), below)
    BY <1>4, <2>6, <2>7 DEF Narrower
  <2>9. Of(PolicyPost(below), t) \in hits
    BY <2>4, <2>8 DEF Of, PolicyPost
  <2>10. Narrower(below, below)
    BY <2>5, EquivalentOverlap
  <2>11. Of(PolicyPost(below), t) \in best
    BY <1>6, <2>9, <2>10
  <2>12. \A e \in best : e.owner = "iampolicy"
    BY <1>6
  <2>13. Serve(table.mux, "POST", RequestPath(p)) =
           IF best = {} THEN Nobody ELSE (CHOOSE e \in best : TRUE).owner
    BY DEF Serve
  <2> HIDE DEF best
  <2>14. (CHOOSE e \in best : TRUE) \in best
    BY <2>11
  <2> QED BY <1>8, <2>11, <2>12, <2>13, <2>14
<1>9. CASE ~(PolicyOn /\ p[1] = "v1")
  <2>1. ASSUME NEW e \in hits PROVE FALSE
    <3>1. PolicyOn /\ WellFormed(below) /\ Narrower(p, below)
      BY <1>6, <2>1
    <3>2. Open(below) /\ Len(Fixed(below)) = 1 /\ below[1] = "v1"
      BY <1>7, <3>1
    <3> HIDE DEF below
    <3>3. below[1] = "*" \/ below[1] = p[1]
      BY <3>1, <3>2 DEF Narrower
    <3> QED BY <1>9, <3>1, <3>2, <3>3
  <2>2. best = {}
    BY <2>1
  <2> QED BY <1>9, <2>2 DEF Serve
<1> QED BY <1>8, <1>9

(* Init and every step keep it.                                             *)
LEMMA RouterInductive == RouterSpec => []RouterInv
<1>1. RouterInit => RouterInv
  <2> SUFFICES ASSUME RouterInit PROVE RouterInv
    OBVIOUS
  <2>1. now = NobodyYet /\ now.name # Root.name
    BY CatalogAssumption DEF RouterInit, NobodyYet, Named
  <2>2. Begun = {}
    BY <2>1 DEF RouterInit, Begun
  <2>3. admitted \subseteq Services
    BY RouterAssumption DEF RouterInit
  <2>4. Keys = {} /\ Mounted = {}
    BY <2>2 DEF Keys, Mounted
  <2> QED BY <2>1, <2>3, <2>4 DEF RouterInit, RouterInv, RoutesServed, PoliciesResolve
<1>2. RouterInv /\ [RouterNext]_routerVars => RouterInv'
  <2> SUFFICES ASSUME RouterInv, [RouterNext]_routerVars PROVE RouterInv'
    OBVIOUS
  <2>0. /\ admitted \subseteq Services /\ Begun \subseteq Services \cup {Root}
        /\ Root \notin admitted /\ todo \subseteq admitted
    BY CatalogAssumption DEF RouterInv, Begun, Named
  <2>n. \A s, t \in Services \cup {Root} : s.name # Nobody /\ (s.name = t.name => s = t)
    BY CatalogAssumption DEF Named
  <2>1. ASSUME NEW s \in admitted \cup {Root}, RegisterRoutes(s) PROVE RouterInv'
    <3>1. s \notin Begun /\ now.routes = {}
      BY <2>0, <2>1 DEF RegisterRoutes, Begun, RouterInv
    <3>2. Begun' = Begun \cup {s}
      BY <2>0, <2>n, <2>1 DEF RegisterRoutes, Begun, RouterInv
    <3>3. Taken(s)' = {}
      BY <2>1 DEF RegisterRoutes, Taken
    <3>4. \A t \in Begun : Taken(t)' = Taken(t)
      BY <2>0, <2>n, <2>1, <3>1 DEF RegisterRoutes, Taken
    <3>5. table' = table /\ admitted' = admitted /\ asked' = asked /\ answered' = answered
      BY <2>1 DEF RegisterRoutes
    <3>6. Keys' = Keys /\ Mounted' = Mounted
      BY <3>2, <3>3, <3>4 DEF Keys, Mounted
    <3>7. s \in Begun' /\ now' = [name |-> s.name, routes |-> now'.routes] /\ now'.routes \subseteq s.routes
      <4>1. now' = s
        BY <2>1 DEF RegisterRoutes
      <4>2. s = [name |-> s.name, routes |-> s.routes]
        BY <2>0, CatalogAssumption DEF Named, Root
      <4> QED BY <3>2, <4>1, <4>2
    <3>8. now'.name = Root.name => todo' = {}
      BY <2>0, <2>n, <2>1 DEF RegisterRoutes
    <3>9. admitted' \subseteq Services /\ todo' \subseteq admitted'
      BY <2>0, <2>1 DEF RegisterRoutes
    <3>10. RoutesServed' /\ PoliciesResolve'
      BY <3>5 DEF RouterInv, RoutesServed, PoliciesResolve, PolicyOn
    <3>11. table' = [registered |-> Keys', mux |-> Mounted']
      BY <3>5, <3>6 DEF RouterInv
    <3> QED BY <3>7, <3>8, <3>9, <3>10, <3>11 DEF RouterInv
  <2>2. ASSUME HandleNext PROVE RouterInv'
    <3>1. PICK r : /\ r \in now.routes /\ now' = [now EXCEPT !.routes = @ \ {r}]
                   /\ table' = Handle(table, r, now.name)
      <4>1. (CHOOSE r \in now.routes : TRUE) \in now.routes
        BY <2>2 DEF HandleNext
      <4> QED BY <2>2, <4>1 DEF HandleNext
    <3>2. UNCHANGED <<admitted, todo, asked, answered>>
      BY <2>2 DEF HandleNext
    <3>3. PICK s \in Begun : /\ now = [name |-> s.name, routes |-> now.routes]
                             /\ now.routes \subseteq s.routes
      BY <3>1 DEF RouterInv, NobodyYet
    <3>4. now' = [name |-> s.name, routes |-> now.routes \ {r}] /\ now.name = s.name
      BY <3>1, <3>3
    <3>5. Begun' = Begun
      BY <3>2, <3>4 DEF Begun
    <3>6. Taken(s)' = Taken(s) \cup {r} /\ r \notin Taken(s)
      BY <3>1, <3>3, <3>4 DEF Taken
    <3>7. \A t \in Begun : t # s => Taken(t)' = Taken(t)
      BY <2>0, <2>n, <3>4 DEF Taken
    <3>8. \A t \in Begun : \A q \in Taken(t) : q \in t.routes /\ ~Conflict(r, q)
      BY <2>0, <3>1, <3>3, <3>6, CatalogAssumption DEF NoCollisions, Taken
    <3>9. Conflict(r, r)
      BY <2>0, <3>1, <3>3, CatalogAssumption, EquivalentOverlap DEF Conflict
    <3>10. r \notin table.registered
      BY <3>8, <3>9 DEF RouterInv, Keys
    <3>11. \A e \in table.mux : ~Conflict(r, e)
      BY <3>8 DEF RouterInv, Mounted, Conflict, Of
    <3>12. table' = [registered |-> table.registered \cup {r}, mux |-> table.mux \cup {Of(r, s)}]
      BY <3>1, <3>4, <3>10, <3>11 DEF Handle, Of
    <3>13. Keys' = Keys \cup {r}
      BY <3>3, <3>5, <3>6, <3>7 DEF Keys
    <3>14. Mounted' = Mounted \cup {Of(r, s)}
      <4>1. ASSUME NEW e PROVE e \in Mounted' <=> e \in Mounted \/ e = Of(r, s)
        <5>1. e \in Mounted' <=> \E t \in Begun : \E q \in Taken(t)' : e = Of(q, t)
          BY <3>5 DEF Mounted
        <5>2. e \in Mounted <=> \E t \in Begun : \E q \in Taken(t) : e = Of(q, t)
          BY DEF Mounted
        <5> QED BY <3>3, <3>6, <3>7, <5>1, <5>2
      <4> QED BY <4>1
    <3>15. table' = [registered |-> Keys', mux |-> Mounted']
      BY <3>12, <3>13, <3>14 DEF RouterInv
    <3>16. RoutesServed' /\ PoliciesResolve'
      BY <3>2 DEF RouterInv, RoutesServed, PoliciesResolve, PolicyOn
    <3>17. now'.name = Root.name => todo' = {}
      BY <3>2, <3>4 DEF RouterInv
    <3>18. now' = [name |-> s.name, routes |-> now'.routes] /\ now'.routes \subseteq s.routes /\ s \in Begun'
      BY <3>3, <3>4, <3>5
    <3> QED BY <2>0, <3>2, <3>15, <3>16, <3>17, <3>18 DEF RouterInv
  <2>3. ASSUME NEW s \in admitted, NEW r \in Requests(s), ServeHTTP(s, r) PROVE RouterInv'
    <3>0. /\ todo = {} /\ now = [Root EXCEPT !.routes = {}] /\ asked' = <<s, r>>
          /\ answered' = Serve(table.mux, r.method, RequestPath(r.path))
      BY <2>3 DEF ServeHTTP
    <3>1. r \in s.routes => answered' = s.name
      BY <3>0, ServedByOwner
    <3>2. RoutesServed'
      BY <3>0, <3>1 DEF RoutesServed
    <3>3. UNCHANGED <<admitted, todo, now, table>>
      BY <2>3 DEF ServeHTTP
    <3>5. ASSUME NEW p \in Resources(s), r = PolicyPost(p)
          PROVE  answered' = CASE p \in Intercepted -> s.name
                               [] p \notin Intercepted /\ PolicyOn /\ p[1] = "v1" -> "iampolicy"
                               [] p \notin Intercepted /\ ~(PolicyOn /\ p[1] = "v1") -> Nobody
      <4>1. r.method = "POST" /\ r.path = p
        BY <3>5 DEF PolicyPost
      <4>2. CASE p \in Intercepted
        <5>1. r \in s.routes
          BY <2>0, <3>5, <4>2, CatalogAssumption DEF PostsForResources
        <5> QED BY <3>1, <4>2, <5>1
      <4>3. CASE p \notin Intercepted
        BY <3>0, <4>1, <4>3, PolicyServed
      <4> QED BY <4>2, <4>3
    <3>6. PolicyOn' = PolicyOn
      BY <3>3 DEF PolicyOn
    <3>7. PoliciesResolve'
      BY <3>0, <3>5, <3>6 DEF PoliciesResolve
    <3>4. Begun' = Begun /\ Keys' = Keys /\ Mounted' = Mounted
      BY <3>3 DEF Begun, Keys, Mounted, Taken
    <3> QED BY <3>2, <3>3, <3>4, <3>7 DEF RouterInv
  <2>4. CASE UNCHANGED routerVars
    BY <2>4 DEF routerVars, RouterInv, Begun, Keys, Mounted, Taken, RoutesServed,
                PoliciesResolve, PolicyOn
  <2> QED BY <2>1, <2>2, <2>3, <2>4 DEF RouterNext
<1> QED BY <1>1, <1>2, PTL DEF RouterSpec

(* Whatever services a filter admits and in whatever order they register,   *)
(* a request for a route of one of them is served by that service: the      *)
(* first-wins of Router.Handle and its recover are never put to use.        *)
THEOREM EveryRouteServed == RouterSpec => []RoutesServed
<1>1. RouterInv => RoutesServed
  BY DEF RouterInv
<1> QED BY <1>1, RouterInductive, PTL

(* And the POST of a policy for a resource of any of them is served by that *)
(* service where it listens there (the Intercepted), else by iampolicy, and *)
(* never by a third service (iampolicy.go:9, 19-24).                        *)
THEOREM EveryPolicyResolved == RouterSpec => []PoliciesResolve
<1>1. RouterInv => PoliciesResolve
  BY DEF RouterInv
<1> QED BY <1>1, RouterInductive, PTL
=============================================================================
