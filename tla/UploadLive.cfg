SPECIFICATION FairSpec
CONSTANTS
  first = first
  someName = someName
  Uploads = {first}
  Requests = {r1, r2}
  Mutexes = {m1, m2, m3}
  Tags = {t1}
  Indexes <- ZeroToOne
  TotalChunks <- TwoChunks
  UniqueHash <- OneName
  Awaits = FALSE
  FailRouteAuth = TRUE
  MaxCrashes = 0
  NoFile = NoFile
  Torn = Torn
  NoMutex = NoMutex
  NoUpload = NoUpload
PROPERTY
  RequestsReturn
CHECK_DEADLOCK FALSE
