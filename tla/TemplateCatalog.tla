--------------------------- MODULE TemplateCatalog ---------------------------
(***************************************************************************)
(* The services written to one template, internal/service/<name>/<name>.go *)
(* of 150 lines each: a collection "<name>" of untyped resources under     *)
(* projects/{project}/locations/{location}.  Two things tell them apart:   *)
(* the name and the fidelity class of Meta (the state is Behavioral in     *)
(* all).  What they do is in TemplateService, where it is routed in        *)
(* ServiceRoutes.                                                          *)
(***************************************************************************)

Template(name, fidelity) == [name |-> name, fidelity |-> fidelity, state |-> "Behavioral"]

agones                  == Template("agones", "D")
analyticshub            == Template("analyticshub", "C")
apigatewayv2            == Template("apigatewayv2", "C")
appengineflex           == Template("appengineflex", "B")
archivestorage          == Template("archivestorage", "C")
artifactanalysis        == Template("artifactanalysis", "C")
assetinventory          == Template("assetinventory", "C")
backupdr                == Template("backupdr", "C")
biglake                 == Template("biglake", "C")
biglakeiceberg          == Template("biglakeiceberg", "C")
bigquerystorageread     == Template("bigquerystorageread", "B")
bigquerystoragewrite    == Template("bigquerystoragewrite", "B")
bigtabledata            == Template("bigtabledata", "C")
cloudauditlogs          == Template("cloudauditlogs", "A")
cloudcdn                == Template("cloudcdn", "A")
cloudfunctionsv2        == Template("cloudfunctionsv2", "A")
cloudprofiler           == Template("cloudprofiler", "B")
cloudquotas             == Template("cloudquotas", "B")
cloudtrace              == Template("cloudtrace", "A")
dataflowjobsapi         == Template("dataflowjobsapi", "C")
dataplexcatalog         == Template("dataplexcatalog", "C")
datastoremode           == Template("datastoremode", "B")
datastream              == Template("datastream", "B")
developerconnect        == Template("developerconnect", "C")
dnsforwarding           == Template("dnsforwarding", "C")
emailadapter            == Template("emailadapter", "C")
emailadapterv2          == Template("emailadapterv2", "C")
entityresolution        == Template("entityresolution", "C")
eventarcadvanced        == Template("eventarcadvanced", "C")
finspace                == Template("finspace", "C")
firebasedataconnect     == Template("firebasedataconnect", "C")
firebasehosting         == Template("firebasehosting", "C")
firestoreevents         == Template("firestoreevents", "C")
firestoremongodb        == Template("firestoremongodb", "C")
firestorenative         == Template("firestorenative", "C")
geminicodeassist        == Template("geminicodeassist", "C")
infrastructuremanager   == Template("infrastructuremanager", "C")
managedad               == Template("managedad", "D")
mapsplatform            == Template("mapsplatform", "D")
memcache                == Template("memcache", "D")
memorystoreredis        == Template("memorystoreredis", "D")
persistentdisk          == Template("persistentdisk", "D")
recommender             == Template("recommender", "D")
resiliencehub           == Template("resiliencehub", "D")
sensitivedataprotection == Template("sensitivedataprotection", "D")
serverlessspark         == Template("serverlessspark", "D")
snapshotpolicies        == Template("snapshotpolicies", "D")
spannergraph            == Template("spannergraph", "B")
storagecontrol          == Template("storagecontrol", "D")
sts                     == Template("sts", "D")
transferappliance       == Template("transferappliance", "D")
vmmanager               == Template("vmmanager", "D")
vpccontrols             == Template("vpccontrols", "D")

\* All of them.
Templates ==
  {agones, analyticshub, apigatewayv2, appengineflex, archivestorage,
   artifactanalysis, assetinventory, backupdr, biglake, biglakeiceberg,
   bigquerystorageread, bigquerystoragewrite, bigtabledata, cloudauditlogs, cloudcdn,
   cloudfunctionsv2, cloudprofiler, cloudquotas, cloudtrace, dataflowjobsapi,
   dataplexcatalog, datastoremode, datastream, developerconnect, dnsforwarding,
   emailadapter, emailadapterv2, entityresolution, eventarcadvanced, finspace,
   firebasedataconnect, firebasehosting, firestoreevents, firestoremongodb,
   firestorenative, geminicodeassist, infrastructuremanager, managedad, mapsplatform,
   memcache, memorystoreredis, persistentdisk, recommender, resiliencehub,
   sensitivedataprotection, serverlessspark, snapshotpolicies, spannergraph,
   storagecontrol, sts, transferappliance, vmmanager, vpccontrols}
=============================================================================
