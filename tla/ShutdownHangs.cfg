CONSTANTS
  w1 = w1
  w2 = w2
  Store <- StoreDef
  Saved <- SavedDef
  ViaHTTP <- ViaHTTPDef
  ViaGRPC <- ViaGRPCDef
  Work <- WorkDef
  MaxWrites = 1
  MaxBoots = 1
SPECIFICATION ServedSpec
PROPERTY ShutdownEnds
CHECK_DEADLOCK FALSE
