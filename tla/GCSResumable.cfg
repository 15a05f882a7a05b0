CONSTANTS
  b1 = b1
  o1 = o1
  r1 = r1
  u1 = u1
  theBucket = b1
  theName = o1
  starter = r1
  id = u1
  Bucket <- BucketDef
  Name <- NameDef
  Upload <- UploadDef
  Session <- SessionDef
  Data <- DataDef
  Size = 2
  MaxLate = 2
SPECIFICATION FairResSpec
INVARIANTS
  OrphansWereOvertaken
  ResTypeOK
  PersistedIsPrefix
PROPERTIES
  UploadEnds
  ObjectsChangeOnPurpose
  KeepsUploadPromise
