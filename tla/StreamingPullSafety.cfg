CONSTANTS
  t1 = t1
  t2 = t2
  s1 = s1
  s2 = s2
  x1 = x1
  x2 = x2
  NoSub = NoSub
  Topic <- TopicDef
  Sub <- SubDef
  Stream <- TwoStreams
  MaxId = 2
  MaxBatch = 1
SYMMETRY StreamPerms
SPECIFICATION StreamSpec
INVARIANTS
  ExactlyOneHolder
  CleanCloseLosesNothing
