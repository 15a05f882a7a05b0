SPECIFICATION ServicesSpec
CONSTANTS
  Admitted <- AdmittedDef
  Parent <- ParentDef
  Id <- IdDef
  Body <- BodyDef
  Filters <- FiltersDef
  MaxBoots = 3
  c1 = c1
  c2 = c2
  TopName <- TopNameDef
  KidName <- KidNameDef
  Client <- ClientDef
  MaxWrites = 3
  Designs <- DesignsDef
  CostRows <- RowsDef
  MaxRows = 2
  Message <- MessageDef
  Traffic <- TrafficDef
SYMMETRY ClientPerms
INVARIANTS
  RoutesServed
  PoliciesResolve
  ReadsWhatStands
  RacesOnlyWhereExposed
  LatestIsTheLast
  StandingKidIsListed
  TotalIsTheLines
  PricesAreTheCatalogs
  CutsCountRowsOverThemTwice
  UnderstoodAsMeant
PROPERTY BodiesStand
CHECK_DEADLOCK FALSE
