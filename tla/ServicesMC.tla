------------------------------ MODULE ServicesMC ------------------------------
(* TLC instance of the modules about the services, none of which calls       *)
(* another: one of them is the subject of a behaviour, the others rest.      *)
(*   router    every pair of the services of the repository                  *)
(*   template  every template, two collections of one name each and one of   *)
(*             two bodies, three starts with no filter, a fidelity filter or *)
(*             a state filter                                                *)
(*   typed     every collection, two names above and one below, two clients, *)
(*             three requests that may write                                 *)
(*   billing   a design or two of items of every kind, two rows              *)
(*   codec     messages of every type, with the fields set or not and        *)
(*             repeated fields of no, one or two values                      *)
EXTENDS Router, TemplateService, TypedServices, Billing, WireCodec, TLC

CONSTANTS c1, c2

VARIABLE subject

vars == <<subject, routerVars, templateVars, typedVars, billingVars, codecVars>>

RouterRests ==
  /\ admitted = {} /\ todo = {} /\ now = NobodyYet
  /\ table = [registered |-> {}, mux |-> {}] /\ asked = <<>> /\ answered = Nobody

TemplateRests == /\ TemplateInit /\ svc = agones
                 /\ filter = CHOOSE f \in Filters : TRUE

TypedRests == TypedInit /\ shape = (CHOOSE s \in Shapes : TRUE) /\ tops = [n \in TopName |-> n]

BillingRests == costs = <<>> /\ estimate = NoEstimate

ServicesInit ==
  \/ subject = "router"   /\ RouterInit /\ TemplateRests /\ TypedRests /\ BillingRests /\ CodecInit
  \/ subject = "template" /\ RouterRests /\ TemplateInit /\ TypedRests /\ BillingRests /\ CodecInit
  \/ subject = "typed"    /\ RouterRests /\ TemplateRests /\ TypedInit /\ BillingRests /\ CodecInit
  \/ subject = "billing"  /\ RouterRests /\ TemplateRests /\ TypedRests /\ BillingInit /\ CodecInit
  \/ subject = "codec"    /\ RouterRests /\ TemplateRests /\ TypedRests /\ BillingRests /\ CodecInit

ServicesNext ==
  /\ \/ /\ subject = "router" /\ RouterNext
        /\ UNCHANGED <<templateVars, typedVars, billingVars, codecVars>>
     \/ /\ subject = "template" /\ TemplateNext
        /\ UNCHANGED <<routerVars, typedVars, billingVars, codecVars>>
     \/ /\ subject = "typed" /\ TypedNext
        /\ UNCHANGED <<routerVars, templateVars, billingVars, codecVars>>
     \/ /\ subject = "billing" /\ BillingNext
        /\ UNCHANGED <<routerVars, templateVars, typedVars, codecVars>>
     \/ /\ subject = "codec" /\ CodecNext
        /\ UNCHANGED <<routerVars, templateVars, typedVars, billingVars>>
  /\ UNCHANGED subject

ServicesSpec == ServicesInit /\ [][ServicesNext]_vars

----------------------------------------------------------------------------
(* Router *)
AdmittedDef  == {{a, b} : a, b \in Services}

(* TemplateService *)
AllLabels    == {"A", "B", "C", "D"}
AllStates    == {"Contract", "Behavioral"}
FiltersDef   == {[fidelity |-> AllLabels,  state |-> AllStates],
                 [fidelity |-> {"A", "D"}, state |-> AllStates],
                 [fidelity |-> AllLabels,  state |-> {"Contract"}]}
ParentDef    == {"p1", "p2"}
IdDef        == {"i1"}
BodyDef      == {"b1", "b2"}

(* TypedServices *)
TopNameDef   == 1 .. 2
KidNameDef   == {1}
ClientDef    == {c1, c2}
ClientPerms  == Permutations(ClientDef)

(* Billing *)
Blank == [service |-> "", machineType |-> "", instances |-> 0, vcpus |-> 0, memoryGiB |-> 0,
          storageGiB |-> 0, storageClass |-> "", hoursPerMonth |-> 0, dailyOnHours |-> 0,
          queriesTiB |-> 0, ingestionGiB |-> 0, requests |-> 0, executionSeconds |-> 0,
          taskCount |-> 0, taskDurationSeconds |-> 0, nodeHours |-> 0, gpuCount |-> 0,
          inputTokens |-> 0, outputTokens |-> 0]
Items == {
  [Blank EXCEPT !.service = "compute"],
  [Blank EXCEPT !.service = "compute", !.machineType = "e2_micro", !.storageGiB = 41],
  [Blank EXCEPT !.service = "compute", !.machineType = "n1_standard_4", !.instances = 2,
                 !.hoursPerMonth = 7],
  [Blank EXCEPT !.service = "compute", !.machineType = "custom", !.vcpus = 3, !.memoryGiB = 5,
                 !.dailyOnHours = 1],
  [Blank EXCEPT !.service = "cloudrunjobs"],
  [Blank EXCEPT !.service = "cloudrunjobs", !.vcpus = 8, !.memoryGiB = 16,
                 !.taskCount = 100, !.taskDurationSeconds = 300],
  [Blank EXCEPT !.service = "cloudrunjobs", !.executionSeconds = 1001, !.instances = 3],
  [Blank EXCEPT !.service = "vertexai", !.nodeHours = 50, !.gpuCount = 1,
                 !.inputTokens = 1000, !.outputTokens = 500],
  [Blank EXCEPT !.service = "vertexai", !.vcpus = 4, !.dailyOnHours = 1],
  [Blank EXCEPT !.service = "vertexai", !.inputTokens = 100000],
  [Blank EXCEPT !.service = "gcs", !.storageGiB = 21],
  [Blank EXCEPT !.service = "gcs", !.storageGiB = 21, !.storageClass = "nearline"],
  [Blank EXCEPT !.service = "gcs", !.storageGiB = 21, !.storageClass = "coldline"],
  [Blank EXCEPT !.service = "gcs", !.storageGiB = 21, !.storageClass = "archive"],
  [Blank EXCEPT !.service = "bigquery", !.queriesTiB = 3, !.storageGiB = 5],
  [Blank EXCEPT !.service = "pubsub", !.ingestionGiB = 7],
  [Blank EXCEPT !.service = "cloudrun", !.requests = 9],
  [Blank EXCEPT !.service = "dataflow"]}
Pairable   == {i \in Items : i.nodeHours = 0 /\ (i.service # "compute" \/ i.machineType # "")}
DesignsDef == {<<a>> : a \in Items} \cup {<<a, b>> : a, b \in Pairable}
Row(first, last, mills) == [usageStart |-> first, usageEnd |-> last, cost |-> mills]
\* Over three days, two of one day each, one that ends before it starts, one without days.
RowsDef    == {Row(1, 3, 15), Row(1, 1, 4), Row(2, 2, 4), Row(2, 1, 70), Row(0, 0, 300)}

(* WireCodec *)
MessageDef == [data : {0, 5}, attributes : {<<>>, 3 :> 4, 3 :> 4 @@ 5 :> 0}, messageId : {0, 6}]
Seqs(S) == {<<>>} \cup {<<a>> : a \in S} \cup {<<a, b>> : a \in S, b \in S}
Some == [data |-> 5, attributes |-> 3 :> 4, messageId |-> 0]
Received == [ackId : {7}, message : MessageDef, delivery : {0, 1}]
Docs == [name : {3}, createTime : {4}, updateTime : {5}]
Both(type, S) == {type} \X S
TrafficDef ==
  Both("PublishRequest",
       [topic : {0, 2}, messages : Seqs({Some}) \cup {<<m>> : m \in MessageDef}])
  \cup Both("PullRequest", [subscription : {2}, maxMessages : {0, 1, 10}, returnImmediately : {0, 1}])
  \cup ({"AcknowledgeRequest", "StreamingPullRequest"}
          \X [subscription : {0, 2}, ackIds : Seqs({0, 7, 8})])
  \cup Both("GetDocumentRequest", [name : {0, 2}])
  \cup Both("ListDocumentsRequest", [parent : {0, 2}, collectionId : {0, 3}])
  \cup Both("CreateDocumentRequest", [parent : {0, 2}, collectionId : {0, 3}, documentId : {0, 4}])
  \cup Both("PublishResponse", [messageIds : Seqs({1, 2})])
  \cup Both("PullResponse", [messages : Seqs(Received)])
  \cup Both("ListTopicsResponse", [topics : Seqs([name : {1, 2}])])
  \cup Both("ListSubscriptionsResponse", [subscriptions : Seqs([name : {1, 2}, topic : {3}])])
  \cup Both("ListDocumentsResponse", [documents : Seqs(Docs)])
  \cup Both("TopicMsg", [name : {1}]) \cup Both("SubscriptionMsg", [name : {1}, topic : {3}])
  \cup Both("DocumentMsg", Docs) \cup {<<"Empty", <<>>>>}
=============================================================================
