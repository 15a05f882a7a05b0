-------------------------- MODULE CloudSchedulerMC --------------------------
(* TLC instance of CloudScheduler, and of PubSubREST under it: two          *)
(* concurrent requests on one topic, one subscription name and one job.     *)
EXTENDS CloudScheduler, TLC
CONSTANTS t1, s1, c1, c2, j1
TopicDef    == {t1}
SubDef      == {s1}
ClientDef   == {c1, c2}
JobDef      == {j1}
ClientPerms == Permutations(ClientDef)
=============================================================================
