SPECIFICATION Spec
CONSTANTS
  first = first
  someName = someName
  Uploads = {first}
  Requests = {r1, r2}
  Mutexes = {m1, m2, m3}
  Tags = {t1, t2}
  Indexes <- MinusOneToOne
  TotalChunks <- TwoChunks
  UniqueHash <- OneName
  Awaits = TRUE
  FailRouteAuth = TRUE
  MaxCrashes = 1
  NoFile = NoFile
  Torn = Torn
  NoMutex = NoMutex
  NoUpload = NoUpload
SYMMETRY Symmetry
INVARIANTS
  CompletedIsWhole
  SessionChunksOnDisk
PROPERTY
  CompletedStays
CHECK_DEADLOCK FALSE
