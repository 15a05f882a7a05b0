---------------------------- MODULE TypedCatalog ----------------------------
(***************************************************************************)
(* The collections of the services with handlers of their own, as read     *)
(* from internal/service/<name>/<name>.go (and, for firestore_grpc, from   *)
(* internal/grpcsvc/firestore): what tells their handlers apart is how a   *)
(* create treats a taken name, what a change or a delete does to the       *)
(* stored object, which answers are encoded after the lock was given back, *)
(* and where the collection lives.  What the handlers do is in             *)
(* TypedServices; their routes are in ServiceRoutes.                       *)
(***************************************************************************)

\* The collection most services have.
\*   create  "refuse" a taken name; "replace" what has it; "fresh": httpx.ID
\*           draws the name; "numbered": the next number; "none": no create
\*   get     "unlocked": the object is looked up under the lock and encoded
\*           after it was given back; "locked": under it throughout; "none"
\*   change  of the stored object in place: "words" (strings, maps), a single
\*           "word" (a bool, a pointer), "upsert" (words, made when missing)
\*   delete  "removes"; "marks" the object; "cascades" to what is beside; "none"
\*   after   the other requests whose answer is encoded after the unlock
\*   in      "top" level; "inside" a map of the parent object; "beside" it in a
\*           map of its own; "listed": beside it and in a slice of the parent
\*   parent  "checked" by a create; "made" when missing; "unchecked"
Plain(name) ==
  [name |-> name, create |-> "refuse", get |-> "unlocked", change |-> "none",
   delete |-> "removes", after |-> {}, in |-> "top", parent |-> "unchecked"]

Inside(name) ==
  [Plain(name) EXCEPT !.get = "locked", !.in = "inside", !.parent = "checked"]

Listed(name) ==
  [Plain(name) EXCEPT !.create = "replace", !.in = "listed", !.parent = "checked"]

Beside(name) == [Plain(name) EXCEPT !.in = "beside"]

\* One map or slice that is there from the start and only grows or is counted in.
Log(name) ==
  [Plain(name) EXCEPT !.create = "none", !.get = "locked", !.change = "words", !.delete = "none"]

NoKids ==
  [Plain("none") EXCEPT !.create = "none", !.get = "none", !.delete = "none"]

----------------------------------------------------------------------------
alloydb_clusters == Plain("alloydb_clusters")
alloydb_instances == Inside("alloydb_instances")
apigateway_apis == Plain("apigateway_apis")
apigateway_configs == [Inside("apigateway_configs") EXCEPT !.delete = "none"]
apigateway_gateways == Plain("apigateway_gateways")
appengine_services == [Plain("appengine_services") EXCEPT !.create = "none", !.delete = "none"]
appengine_versions == [Inside("appengine_versions") EXCEPT !.parent = "made"]
artifactregistry_repositories == Plain("artifactregistry_repositories")
batch_jobs == Plain("batch_jobs")
bigquery_datasets == Plain("bigquery_datasets")
bigquery_tables == Beside("bigquery_tables")
bigtable_instances == Plain("bigtable_instances")
bigtable_tables == Inside("bigtable_tables")
billing_accounts == [Plain("billing_accounts") EXCEPT
    !.create = "fresh", !.delete = "none", !.after = {"create"}]
billing_budgets == [Plain("billing_budgets") EXCEPT
    !.create = "fresh", !.change = "words", !.after = {"create"}]
billing_costs == Log("billing_costs")
billing_projects == [Plain("billing_projects") EXCEPT
    !.create = "replace", !.delete = "none", !.after = {"create"}]
binaryauthorization_attestors == Plain("binaryauthorization_attestors")
binaryauthorization_policies == [Plain("binaryauthorization_policies") EXCEPT
    !.create = "replace", !.delete = "none", !.after = {"create"}]
certificatemanager_certificates == Plain("certificatemanager_certificates")
cloudbuild_builds == [Plain("cloudbuild_builds") EXCEPT
    !.create = "fresh", !.delete = "none", !.after = {"create"}]
cloudbuild_triggers == [Plain("cloudbuild_triggers") EXCEPT
    !.create = "fresh", !.after = {"create"}]
cloudcomposer_environments == Plain("cloudcomposer_environments")
clouddeploy_pipelines == Plain("clouddeploy_pipelines")
clouddeploy_releases == [Inside("clouddeploy_releases") EXCEPT !.delete = "none"]
clouddeploy_rollouts == [Inside("clouddeploy_rollouts") EXCEPT
    !.get = "none", !.delete = "none"]
clouddns_records == [Inside("clouddns_records") EXCEPT !.get = "none"]
clouddns_zones == Plain("clouddns_zones")
cloudfunctions_functions == Plain("cloudfunctions_functions")
cloudrun_services == [Plain("cloudrun_services") EXCEPT !.change = "words"]
cloudrunjobs_executions == [Inside("cloudrunjobs_executions") EXCEPT
    !.create = "fresh", !.delete = "none"]
cloudrunjobs_jobs == Plain("cloudrunjobs_jobs")
cloudscheduler_jobs == [Plain("cloudscheduler_jobs") EXCEPT
    !.change = "words", !.after = {"change"}]
cloudservicemesh_meshes == Plain("cloudservicemesh_meshes")
cloudservicemesh_routes == [Inside("cloudservicemesh_routes") EXCEPT !.get = "none"]
cloudsql_databases == Inside("cloudsql_databases")
cloudsql_instances == [Plain("cloudsql_instances") EXCEPT !.change = "words"]
cloudsql_users == [Inside("cloudsql_users") EXCEPT !.get = "none"]
cloudtasks_queues == Plain("cloudtasks_queues")
cloudtasks_tasks == [Inside("cloudtasks_tasks") EXCEPT !.create = "replace", !.change = "word"]
compute_disks == Plain("compute_disks")
compute_firewalls == Plain("compute_firewalls")
compute_instances == [Plain("compute_instances") EXCEPT !.change = "words"]
dataflow_jobs == [Plain("dataflow_jobs") EXCEPT
    !.create = "fresh", !.delete = "none", !.change = "words", !.after = {"create"}]
dataproc_clusters == Plain("dataproc_clusters")
dataproc_jobs == [Plain("dataproc_jobs") EXCEPT
    !.create = "fresh", !.delete = "none", !.change = "word", !.after = {"create"}]
errorreporting_groups == [Log("errorreporting_groups") EXCEPT !.get = "none"]
eventarc_channels == Plain("eventarc_channels")
eventarc_triggers == Plain("eventarc_triggers")
fcm_messages == [Log("fcm_messages") EXCEPT !.get = "none"]
\* Mutant: getDoc gives the lock back before it encodes.
firestore_documents_unlocked == [Plain("firestore_documents") EXCEPT
    !.create = "replace", !.change = "upsert"]
firestore_documents == [Plain("firestore_documents") EXCEPT
    !.create = "replace", !.get = "locked", !.change = "upsert"]
firestore_grpc == [Plain("firestore_grpc") EXCEPT !.create = "replace", !.after = {"create"}]
gke_clusters == Plain("gke_clusters")
gke_nodePools == Inside("gke_nodePools")
gkeautopilot_clusters == Plain("gkeautopilot_clusters")
globalloadbalancing_forwardingRules == Plain("globalloadbalancing_forwardingRules")
globalloadbalancing_proxies == Plain("globalloadbalancing_proxies")
globalloadbalancing_urlMaps == Plain("globalloadbalancing_urlMaps")
iam_keys == [Inside("iam_keys") EXCEPT !.create = "fresh", !.get = "none"]
iam_serviceAccounts == Plain("iam_serviceAccounts")
iampolicy_policies == [Plain("iampolicy_policies") EXCEPT
    !.create = "replace", !.delete = "none", !.after = {"create"}]
identityplatform_tenants == [Plain("identityplatform_tenants") EXCEPT
    !.create = "fresh", !.after = {"create"}]
identityplatform_users == [Inside("identityplatform_users") EXCEPT
    !.create = "fresh", !.get = "none"]
kms_cryptoKeys == [Beside("kms_cryptoKeys") EXCEPT !.delete = "none"]
kms_keyRings == [Plain("kms_keyRings") EXCEPT !.delete = "none"]
loadbalancing_backendServices == Plain("loadbalancing_backendServices")
loadbalancing_healthChecks == Plain("loadbalancing_healthChecks")
logging_entries == Log("logging_entries")
logging_metrics == Plain("logging_metrics")
logging_sinks == Plain("logging_sinks")
managedkafka_clusters == Plain("managedkafka_clusters")
managedkafka_topics == Inside("managedkafka_topics")
memorystore_instances == Plain("memorystore_instances")
monitoring_alerts == [Plain("monitoring_alerts") EXCEPT
    !.create = "fresh", !.after = {"create"}]
monitoring_descriptors == Plain("monitoring_descriptors")
monitoring_timeSeries == Log("monitoring_timeSeries")
naturallanguage_requests == [Log("naturallanguage_requests") EXCEPT !.get = "none"]
networkconnectivity_hubs == Plain("networkconnectivity_hubs")
networkconnectivity_spokes == Listed("networkconnectivity_spokes")
organizationpolicy_policies == [Plain("organizationpolicy_policies") EXCEPT !.change = "words"]
privateconnect_attachments == Plain("privateconnect_attachments")
privateconnect_endpoints == Listed("privateconnect_endpoints")
resourcemanager_projects == [Plain("resourcemanager_projects") EXCEPT
    !.delete = "marks", !.change = "words"]
secretmanager_secrets == [Plain("secretmanager_secrets") EXCEPT !.delete = "cascades"]
secretmanager_versions == [Beside("secretmanager_versions") EXCEPT
    !.create = "numbered", !.get = "locked", !.delete = "none", !.parent = "checked"]
securitycommandcenter_findings == [Inside("securitycommandcenter_findings") EXCEPT
    !.delete = "none"]
securitycommandcenter_sources == [Plain("securitycommandcenter_sources") EXCEPT
    !.create = "fresh", !.delete = "none", !.after = {"create"}]
servicedirectory_endpoints == Inside("servicedirectory_endpoints")
servicedirectory_namespaces == Plain("servicedirectory_namespaces")
servicedirectory_services == [Inside("servicedirectory_services") EXCEPT !.get = "unlocked"]
serviceusage_services == Log("serviceusage_services")
spannersql_databases == Inside("spannersql_databases")
spannersql_instances == Plain("spannersql_instances")
vertexai_customJobs == [Plain("vertexai_customJobs") EXCEPT
    !.create = "fresh", !.delete = "none", !.change = "words", !.after = {"create"}]
vertexai_deployedModels == [Inside("vertexai_deployedModels") EXCEPT
    !.create = "fresh", !.get = "none", !.delete = "none"]
vertexai_endpoints == [Plain("vertexai_endpoints") EXCEPT
    !.create = "fresh", !.after = {"create"}]
vertexai_models == [Plain("vertexai_models") EXCEPT !.create = "fresh", !.after = {"create"}]
visionai_requests == [Log("visionai_requests") EXCEPT !.get = "none"]
workflows_executions == [Inside("workflows_executions") EXCEPT
    !.create = "fresh", !.delete = "none"]
workflows_workflows == Plain("workflows_workflows")

----------------------------------------------------------------------------
(* A collection and the one that hangs on it. *)

Hierarchies == {
  <<alloydb_clusters, alloydb_instances>>, <<apigateway_apis, apigateway_configs>>,
  <<appengine_services, appengine_versions>>, <<bigquery_datasets, bigquery_tables>>,
  <<bigtable_instances, bigtable_tables>>,
  <<clouddeploy_pipelines, clouddeploy_releases>>,
  <<clouddeploy_releases, clouddeploy_rollouts>>, <<clouddns_zones, clouddns_records>>,
  <<cloudrunjobs_jobs, cloudrunjobs_executions>>,
  <<cloudservicemesh_meshes, cloudservicemesh_routes>>,
  <<cloudsql_instances, cloudsql_databases>>, <<cloudsql_instances, cloudsql_users>>,
  <<cloudtasks_queues, cloudtasks_tasks>>, <<gke_clusters, gke_nodePools>>,
  <<iam_serviceAccounts, iam_keys>>,
  <<identityplatform_tenants, identityplatform_users>>,
  <<kms_keyRings, kms_cryptoKeys>>, <<managedkafka_clusters, managedkafka_topics>>,
  <<networkconnectivity_hubs, networkconnectivity_spokes>>,
  <<privateconnect_attachments, privateconnect_endpoints>>,
  <<secretmanager_secrets, secretmanager_versions>>,
  <<securitycommandcenter_sources, securitycommandcenter_findings>>,
  <<servicedirectory_namespaces, servicedirectory_services>>,
  <<servicedirectory_services, servicedirectory_endpoints>>,
  <<spannersql_instances, spannersql_databases>>,
  <<vertexai_endpoints, vertexai_deployedModels>>,
  <<workflows_workflows, workflows_executions>>}

Alone == {
  apigateway_gateways, artifactregistry_repositories, batch_jobs, billing_accounts,
  billing_budgets, billing_costs, billing_projects, binaryauthorization_attestors,
  binaryauthorization_policies, certificatemanager_certificates, cloudbuild_builds,
  cloudbuild_triggers, cloudcomposer_environments, cloudfunctions_functions,
  cloudrun_services, cloudscheduler_jobs, compute_disks, compute_firewalls,
  compute_instances, dataflow_jobs, dataproc_clusters, dataproc_jobs,
  errorreporting_groups, eventarc_channels, eventarc_triggers, fcm_messages,
  firestore_documents, firestore_grpc, gkeautopilot_clusters,
  globalloadbalancing_forwardingRules, globalloadbalancing_proxies,
  globalloadbalancing_urlMaps, iampolicy_policies, loadbalancing_backendServices,
  loadbalancing_healthChecks, logging_entries, logging_metrics, logging_sinks,
  memorystore_instances, monitoring_alerts, monitoring_descriptors,
  monitoring_timeSeries, naturallanguage_requests, organizationpolicy_policies,
  resourcemanager_projects, serviceusage_services, vertexai_customJobs, vertexai_models,
  visionai_requests}

Shapes == {[top |-> h[1], kid |-> h[2]] : h \in Hierarchies}
            \cup {[top |-> c, kid |-> NoKids] : c \in Alone}
=============================================================================
