------------------------------ MODULE ShutdownMC ------------------------------
(* TLC instance of Shutdown: a REST service, Pub/Sub (one store behind both *)
(* protocols) and the Firestore store that only gRPC reaches and nobody     *)
(* saves; two slots for work in flight.                                     *)
EXTENDS Shutdown
CONSTANTS w1, w2
StoreDef   == {"rest", "pubsub", "firestoreGRPC"}
SavedDef   == {"rest", "pubsub"}
ViaHTTPDef == {"rest", "pubsub"}
ViaGRPCDef == {"pubsub", "firestoreGRPC"}
WorkDef    == {w1, w2}
=============================================================================
