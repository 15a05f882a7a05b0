---------------------------- MODULE ServiceRoutes ----------------------------
(***************************************************************************)
(* The routes each service registers (RegisterRoutes), as pairs of a       *)
(* method and a path; a path is its sequence of segments, "*" a wildcard   *)
(* {name} and "**" a wildcard {name...} of any number of segments.  The    *)
(* names of the wildcards play no part in routing and are left out.        *)
(***************************************************************************)
EXTENDS Sequences, TemplateCatalog

InProject == <<"v1", "projects", "*">>
Located   == InProject \o <<"locations", "*">>

On(path, methods) == {[method |-> m, path |-> path] : m \in methods}

\* A collection with create and list, and get and delete of its items; some
\* can be patched too.
Kept(path)    == On(path, {"GET", "POST"}) \cup On(Append(path, "*"), {"GET", "DELETE"})
Patched(path) == Kept(path) \cup On(Append(path, "*"), {"PATCH"})

TemplateRoutes(t) == Kept(Located \o <<t.name>>)

----------------------------------------------------------------------------
(* The services with handlers of their own. *)

alloydb == Kept(<<"v1beta", "projects", "*", "locations", "*", "clusters">>) \cup
  Kept(<<"v1beta", "projects", "*", "locations", "*", "clusters", "*", "instances">>)
apigateway == Kept(InProject \o <<"locations", "global", "apis">>) \cup
  On(InProject \o <<"locations", "global", "apis", "*", "configs">>, {"POST", "GET"}) \cup
  On(InProject \o <<"locations", "global", "apis", "*", "configs", "*">>, {"GET"}) \cup
  Kept(Located \o <<"gateways">>)
appengine == On(<<"v1", "apps", "*", "services">>, {"GET"}) \cup
  On(<<"v1", "apps", "*", "services", "*">>, {"GET"}) \cup
  Kept(<<"v1", "apps", "*", "services", "*", "versions">>)
artifactregistry == Kept(Located \o <<"repositories">>) \cup
  On(Located \o <<"repositories", "*", "packages">>, {"GET"}) \cup
  On(Located \o <<"repositories", "*", "packages", "*">>, {"GET"})
batch == Kept(<<"batch", "v1", "projects", "*", "locations", "*", "jobs">>)
bigquery == Kept(<<"bigquery", "v2", "projects", "*", "datasets">>) \cup
  Kept(<<"bigquery", "v2", "projects", "*", "datasets", "*", "tables">>) \cup
  On(<<"bigquery", "v2", "projects", "*", "queries">>, {"POST"}) \cup
  On(<<"bigquery", "v2", "projects", "*", "jobs">>, {"POST"})
bigtable == Kept(<<"v2", "projects", "*", "instances">>) \cup
  Kept(<<"v2", "projects", "*", "instances", "*", "tables">>)
billing == On(<<"v1", "billingAccounts">>, {"GET", "POST"}) \cup
  On(<<"v1", "billingAccounts", "*">>, {"GET"}) \cup
  On(InProject \o <<"billingInfo">>, {"GET", "PUT"}) \cup On(<<"v1", "services">>, {"GET"}) \cup
  On(<<"v1", "services", "*", "skus">>, {"GET"}) \cup
  Patched(<<"v1", "billingAccounts", "*", "budgets">>) \cup
  On(<<"kiri", "billing", "cost">>, {"POST"}) \cup On(<<"kiri", "billing", "seed">>, {"POST"}) \cup
  On(<<"kiri", "billing", "calculator">>, {"POST"})
binaryauthorization == On(InProject \o <<"policy">>, {"GET", "PUT"}) \cup
  Kept(InProject \o <<"attestors">>)
certificatemanager == Kept(Located \o <<"certificates">>)
cloudbuild == On(InProject \o <<"builds">>, {"POST", "GET"}) \cup
  On(InProject \o <<"builds", "*">>, {"GET"}) \cup
  On(InProject \o <<"triggers">>, {"POST", "GET"}) \cup
  On(InProject \o <<"triggers", "*">>, {"GET", "DELETE", "POST"})
cloudcomposer == Kept(Located \o <<"environments">>)
clouddeploy == Kept(Located \o <<"deliveryPipelines">>) \cup
  On(Located \o <<"deliveryPipelines", "*", "releases">>, {"POST", "GET"}) \cup
  On(Located \o <<"deliveryPipelines", "*", "releases", "*">>, {"GET"}) \cup
  On(Located \o <<"deliveryPipelines", "*", "releases", "*", "rollouts">>, {"POST", "GET"})
clouddns == Kept(<<"dns", "v1", "projects", "*", "managedZones">>) \cup
  On(<<"dns", "v1", "projects", "*", "managedZones", "*", "rrsets">>, {"POST", "GET"}) \cup
  On(<<"dns", "v1", "projects", "*", "managedZones", "*", "rrsets", "*", "*">>, {"DELETE"})
cloudfunctions == On(Located \o <<"functions">>, {"POST", "GET"}) \cup
  On(Located \o <<"functions", "*">>, {"GET", "POST", "DELETE"})
cloudrun == On(Located \o <<"services">>, {"POST", "GET"}) \cup
  On(Located \o <<"services", "*">>, {"GET", "PUT", "DELETE"})
cloudrunjobs == On(<<"v2", "projects", "*", "locations", "*", "jobs">>, {"POST", "GET"}) \cup
  On(<<"v2", "projects", "*", "locations", "*", "jobs", "*">>, {"GET", "POST", "DELETE"}) \cup
  On(<<"v2", "projects", "*", "locations", "*", "jobs", "*", "executions">>, {"GET"}) \cup
  On(<<"v2", "projects", "*", "locations", "*", "jobs", "*", "executions", "*">>, {"GET"})
cloudscheduler == On(Located \o <<"jobs">>, {"POST", "GET"}) \cup
  On(Located \o <<"jobs", "*">>, {"GET", "POST", "DELETE"})
cloudservicemesh == Kept(Located \o <<"meshes">>) \cup
  On(Located \o <<"meshes", "*", "httpRoutes">>, {"POST", "GET"}) \cup
  On(Located \o <<"meshes", "*", "httpRoutes", "*">>, {"DELETE"})
cloudsql == Kept(<<"sql", "v1beta4", "projects", "*", "instances">>) \cup
  On(<<"sql", "v1beta4", "projects", "*", "instances", "*", "start">>, {"POST"}) \cup
  On(<<"sql", "v1beta4", "projects", "*", "instances", "*", "stop">>, {"POST"}) \cup
  On(<<"sql", "v1beta4", "projects", "*", "instances", "*", "restart">>, {"POST"}) \cup
  Kept(<<"sql", "v1beta4", "projects", "*", "instances", "*", "databases">>) \cup
  On(<<"sql", "v1beta4", "projects", "*", "instances", "*", "users">>, {"POST", "GET"}) \cup
  On(<<"sql", "v1beta4", "projects", "*", "instances", "*", "users", "*">>, {"DELETE"})
cloudtasks == Kept(<<"v2", "projects", "*", "locations", "*", "queues">>) \cup
  On(<<"v2", "projects", "*", "locations", "*", "queues", "*", "tasks">>, {"POST", "GET"}) \cup
  On(<<"v2", "projects", "*", "locations", "*", "queues", "*", "tasks", "*">>, {"GET", "POST", "DELETE"})
compute == On(<<"compute", "v1", "projects", "*", "zones", "*", "instances">>, {"POST", "GET"}) \cup
  On(<<"compute", "v1", "projects", "*", "zones", "*", "instances", "*">>, {"GET", "POST", "DELETE"}) \cup
  Kept(<<"compute", "v1", "projects", "*", "zones", "*", "disks">>) \cup
  Kept(<<"compute", "v1", "projects", "*", "global", "firewalls">>)
dataflow == On(<<"v1b3", "projects", "*", "locations", "*", "jobs">>, {"POST", "GET"}) \cup
  On(<<"v1b3", "projects", "*", "locations", "*", "jobs", "*">>, {"GET", "PUT"})
dataproc == Kept(InProject \o <<"regions", "*", "clusters">>) \cup
  On(InProject \o <<"regions", "*", "jobs">>, {"POST", "GET"}) \cup
  On(InProject \o <<"regions", "*", "jobs", "*">>, {"GET", "POST"})
errorreporting == On(<<"v1beta1", "projects", "*", "events:report">>, {"POST"}) \cup
  On(<<"v1beta1", "projects", "*", "groupStats">>, {"GET"})
eventarc == Kept(Located \o <<"triggers">>) \cup Kept(Located \o <<"channels">>)
fcm == On(InProject \o <<"messages:send">>, {"POST"}) \cup
  On(<<"kiri", "fcm", "sent-messages">>, {"GET"})
firestore == On(InProject \o <<"databases", "*", "documents", "*", "*">>, {"GET", "PATCH", "DELETE"}) \cup
  Patched(InProject \o <<"databases", "*", "documents", "*">>) \cup
  On(InProject \o <<"databases", "*", "documents:commit">>, {"POST"}) \cup
  On(InProject \o <<"databases", "*", "documents:beginTransaction">>, {"POST"})
gcs == Kept(<<"storage", "v1", "b">>) \cup
  On(<<"upload", "storage", "v1", "b", "*", "o">>, {"POST", "PUT"}) \cup
  On(<<"storage", "v1", "b", "*", "o">>, {"GET"}) \cup
  On(<<"storage", "v1", "b", "*", "o", "**">>, {"GET", "DELETE"}) \cup
  On(<<"download", "storage", "v1", "b", "*", "o", "**">>, {"GET"}) \cup
  On(<<"*", "**">>, {"GET"})
gke == Kept(Located \o <<"clusters">>) \cup Kept(Located \o <<"clusters", "*", "nodePools">>)
gkeautopilot == Kept(<<"v1beta1", "projects", "*", "locations", "*", "clusters">>)
globalloadbalancing == Kept(<<"compute", "v1", "projects", "*", "global", "urlMaps">>) \cup
  Kept(<<"compute", "v1", "projects", "*", "global", "targetHttpProxies">>) \cup
  Kept(<<"compute", "v1", "projects", "*", "global", "forwardingRules">>)
iam == Kept(InProject \o <<"serviceAccounts">>) \cup
  On(InProject \o <<"serviceAccounts", "*", "keys">>, {"POST", "GET"}) \cup
  On(InProject \o <<"serviceAccounts", "*", "keys", "*">>, {"DELETE"}) \cup
  On(<<"v1", "roles">>, {"GET"}) \cup On(<<"v1", "roles", "*">>, {"GET"})
iampolicy == On(<<"v1", "**">>, {"POST"})
identityplatform == Kept(<<"v2", "projects", "*", "tenants">>) \cup
  On(<<"v2", "projects", "*", "tenants", "*", "users">>, {"POST", "GET"}) \cup
  On(<<"v2", "projects", "*", "tenants", "*", "users", "*">>, {"DELETE"})
kms == On(Located \o <<"keyRings">>, {"POST", "GET"}) \cup
  On(Located \o <<"keyRings", "*">>, {"GET"}) \cup
  On(Located \o <<"keyRings", "*", "cryptoKeys">>, {"POST", "GET"}) \cup
  On(Located \o <<"keyRings", "*", "cryptoKeys", "*", "cryptoKeyVersions">>, {"POST"}) \cup
  On(Located \o <<"keyRings", "*", "cryptoKeys", "*">>, {"GET", "POST"})
loadbalancing == Kept(<<"compute", "v1", "projects", "*", "regions", "*", "backendServices">>) \cup
  Kept(<<"compute", "v1", "projects", "*", "regions", "*", "healthChecks">>)
logging == On(<<"v2", "entries:write">>, {"POST"}) \cup On(<<"v2", "entries:list">>, {"POST"}) \cup
  Kept(<<"v2", "projects", "*", "metrics">>) \cup Kept(<<"v2", "projects", "*", "sinks">>)
managedkafka == Kept(<<"managedkafka", "v1", "projects", "*", "locations", "*", "clusters">>) \cup
  Kept(<<"managedkafka", "v1", "projects", "*", "locations", "*", "clusters", "*", "topics">>)
memorystore == Kept(Located \o <<"instances">>)
monitoring == Kept(<<"v3", "projects", "*", "metricDescriptors">>) \cup
  On(<<"v3", "projects", "*", "timeSeries">>, {"POST", "GET"}) \cup
  Kept(<<"v3", "projects", "*", "alertPolicies">>)
naturallanguage == On(<<"v1", "documents:analyzeSentiment">>, {"POST"}) \cup
  On(<<"v1", "documents:analyzeEntities">>, {"POST"})
networkconnectivity == Kept(InProject \o <<"locations", "global", "hubs">>) \cup
  Kept(Located \o <<"spokes">>)
organizationpolicy == On(InProject \o <<"policies">>, {"GET", "POST"}) \cup
  On(InProject \o <<"policies", "**">>, {"GET", "PATCH", "DELETE"})
privateconnect == Kept(<<"compute", "v1", "projects", "*", "regions", "*", "serviceAttachments">>) \cup
  Kept(<<"compute", "v1", "projects", "*", "regions", "*", "forwardingRules">>)
pubsub == On(InProject \o <<"topics">>, {"POST", "GET"}) \cup
  On(InProject \o <<"topics", "*">>, {"GET", "DELETE", "POST"}) \cup
  On(InProject \o <<"subscriptions">>, {"POST", "GET"}) \cup
  On(InProject \o <<"subscriptions", "*">>, {"GET", "DELETE", "POST"})
resourcemanager == Kept(<<"v1", "projects">>) \cup On(InProject \o <<"labels">>, {"PUT"})
secretmanager == On(InProject \o <<"secrets">>, {"POST", "GET"}) \cup
  On(InProject \o <<"secrets", "*">>, {"GET", "DELETE", "POST"}) \cup
  On(InProject \o <<"secrets", "*", "versions">>, {"POST"}) \cup
  On(InProject \o <<"secrets", "*", "versions", "*">>, {"GET"})
securitycommandcenter == On(<<"v1", "organizations", "*", "sources">>, {"POST", "GET"}) \cup
  On(<<"v1", "organizations", "*", "sources", "*">>, {"GET"}) \cup
  On(<<"v1", "organizations", "*", "sources", "*", "findings">>, {"POST", "GET"}) \cup
  On(<<"v1", "organizations", "*", "sources", "*", "findings", "*">>, {"GET"})
servicedirectory == Kept(Located \o <<"namespaces">>) \cup
  On(Located \o <<"namespaces", "*", "services">>, {"POST", "GET"}) \cup
  On(Located \o <<"namespaces", "*", "services", "*">>, {"GET", "POST", "DELETE"}) \cup
  Kept(Located \o <<"namespaces", "*", "services", "*", "endpoints">>)
serviceusage == On(InProject \o <<"services">>, {"GET"}) \cup
  On(InProject \o <<"services", "*">>, {"GET", "POST"})
spannersql == Kept(InProject \o <<"instances">>) \cup
  Kept(InProject \o <<"instances", "*", "databases">>)
vertexai == On(Located \o <<"customJobs">>, {"POST", "GET"}) \cup
  On(Located \o <<"customJobs", "*">>, {"GET", "POST"}) \cup Kept(Located \o <<"models">>) \cup
  On(Located \o <<"endpoints">>, {"POST", "GET"}) \cup
  On(Located \o <<"endpoints", "*">>, {"GET", "DELETE", "POST"})
visionai == On(<<"v1", "images:annotate">>, {"POST"})
workflows == Kept(Located \o <<"workflows">>) \cup
  On(Located \o <<"workflows", "*", "executions">>, {"POST", "GET"}) \cup
  On(Located \o <<"workflows", "*", "executions", "*">>, {"GET"})

\* Server.New's own route, "GET /": every path that nobody else serves.
handleRoot == On(<<"**">>, {"GET"})

----------------------------------------------------------------------------
\* By name, the services with handlers of their own; with the others, all.
OwnRoutes ==
  [alloydb |-> alloydb, apigateway |-> apigateway, appengine |-> appengine,
   artifactregistry |-> artifactregistry, batch |-> batch, bigquery |->
   bigquery, bigtable |-> bigtable, billing |-> billing, binaryauthorization
   |-> binaryauthorization, certificatemanager |-> certificatemanager,
   cloudbuild |-> cloudbuild, cloudcomposer |-> cloudcomposer, clouddeploy
   |-> clouddeploy, clouddns |-> clouddns, cloudfunctions |->
   cloudfunctions, cloudrun |-> cloudrun, cloudrunjobs |-> cloudrunjobs,
   cloudscheduler |-> cloudscheduler, cloudservicemesh |-> cloudservicemesh,
   cloudsql |-> cloudsql, cloudtasks |-> cloudtasks, compute |-> compute,
   dataflow |-> dataflow, dataproc |-> dataproc, errorreporting |->
   errorreporting, eventarc |-> eventarc, fcm |-> fcm, firestore |->
   firestore, gcs |-> gcs, gke |-> gke, gkeautopilot |-> gkeautopilot,
   globalloadbalancing |-> globalloadbalancing, iam |-> iam, iampolicy |->
   iampolicy, identityplatform |-> identityplatform, kms |-> kms,
   loadbalancing |-> loadbalancing, logging |-> logging, managedkafka |->
   managedkafka, memorystore |-> memorystore, monitoring |-> monitoring,
   naturallanguage |-> naturallanguage, networkconnectivity |->
   networkconnectivity, organizationpolicy |-> organizationpolicy,
   privateconnect |-> privateconnect, pubsub |-> pubsub, resourcemanager |->
   resourcemanager, secretmanager |-> secretmanager, securitycommandcenter
   |-> securitycommandcenter, servicedirectory |-> servicedirectory,
   serviceusage |-> serviceusage, spannersql |-> spannersql, vertexai |->
   vertexai, visionai |-> visionai, workflows |-> workflows]

Services ==
  {[name |-> n, routes |-> OwnRoutes[n]] : n \in DOMAIN OwnRoutes} \cup
  {[name |-> t.name, routes |-> TemplateRoutes(t)] : t \in Templates}
=============================================================================
