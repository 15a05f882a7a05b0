-------------------------- MODULE StreamingPullMC --------------------------
(* TLC instances of StreamingPull: two streams on one subscription for the  *)
(* safety run; one that may change its subscription for the liveness run.   *)
EXTENDS StreamingPull, TLC
CONSTANTS t1, t2, s1, s2, x1, x2
TopicDef    == {t1}
SubDef      == {s1}
TwoTopics   == {t1, t2}
TwoSubs     == {s1, s2}
TwoStreams  == {x1, x2}
OneStream   == {x1}
StreamPerms == Permutations(TwoStreams)
=============================================================================
