------------------------------ MODULE PubSubMC ------------------------------
(* TLC instance of PubSubBackend, and of its promise by way of              *)
(* PubSubRefinement: two topics, two subscription names.                    *)
EXTENDS PubSubRefinement, TLC
CONSTANTS t1, t2, s1, s2
TopicDef == {t1, t2}
SubDef   == {s1, s2}
Perms    == Permutations(TopicDef) \cup Permutations(SubDef)
=============================================================================
