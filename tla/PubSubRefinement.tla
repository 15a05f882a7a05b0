-------------------------- MODULE PubSubRefinement --------------------------
(***************************************************************************)
(* MergeBackend implements PubSubPromise: pending is what the slices hold, *)
(* attached the Subscriptions map, handed what Pull has returned so far.   *)
(***************************************************************************)
EXTENDS PubSubBackend

Promise == INSTANCE PubSubPromise
             WITH pending  <- [t \in Topic |-> messages[t].ids],
                  attached <- {<<s, subscriptions[s]>> : s \in DOMAIN subscriptions},
                  handed   <- [s \in Sub |-> delivered[s].ids]

(* Every run of the backend is a run of PubSubPromise: publishing, pulling, *)
(* acknowledging and deleting have no effect but the promised one.          *)
KeepsPromise == Promise!Spec
=============================================================================
