CONSTANTS
  GRPCOn <- BothConfigs
  w1 = w1
  w2 = w2
  Store <- StoreDef
  Saved <- SavedDef
  ViaHTTP <- ViaHTTPDef
  ViaGRPC <- ViaGRPCDef
  Work <- WorkDef
  MaxWrites = 2
  MaxBoots = 2
SPECIFICATION ServerSpec
INVARIANTS
  SendersNeverBlock
  OrderlyExitPersists
  SavedInPeace
PROPERTIES
  StartErrorEndsRun
  StartReturnsCombinerEnds
  ShutdownEnds
  SnapshotsOnlyGrow
CHECK_DEADLOCK FALSE
