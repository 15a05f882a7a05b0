CONSTANTS
  t1 = t1
  t2 = t2
  s1 = s1
  s2 = s2
  Topic <- TopicDef
  Sub <- SubDef
  MaxId = 3
  MaxBatch = 2
SYMMETRY Perms
SPECIFICATION Spec
INVARIANTS
  TypeOK
  PullNeverPanics
  NothingLostNothingBack
  AtMostOnce
  DeliveredInOrder
PROPERTIES
  KeepsPromise
  SliceOrderStable
