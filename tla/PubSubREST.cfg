CONSTANTS
  t1 = t1
  s1 = s1
  None = None
  c1 = c1
  c2 = c2
  j1 = j1
  Topic <- TopicDef
  Sub <- SubDef
  Client <- ClientDef
  Job <- JobDef
  MaxId = 2
  MaxBatch = 1
SYMMETRY ClientPerms
SPECIFICATION SchedulerSpec
INVARIANTS
  AnsweredCreatesStand
  DuplicatesRefused
  RunsStandingJobs
