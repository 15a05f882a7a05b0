SPECIFICATION ServicesSpec
CONSTANTS
  Admitted <- AdmittedDef
  Parent <- ParentDef
  Id <- IdDef
  Body <- BodyDef
  Filters <- FiltersDef
  MaxBoots = 1
  c1 = c1
  c2 = c2
  TopName <- TopNameDef
  KidName <- KidNameDef
  Client <- ClientDef
  MaxWrites = 0
  Designs <- DesignsDef
  CostRows <- RowsDef
  MaxRows = 2
  Message <- MessageDef
  Traffic <- TrafficDef
INVARIANT DocumentsUnderstood
CHECK_DEADLOCK FALSE
