SPECIFICATION Spec
CONSTANTS
  first = first
  second = second
  sameName = sameName
  Uploads = {first, second}
  Requests = {r1, r2}
  Mutexes = {m1, m2, m3}
  Tags = {t1}
  Indexes <- ZeroToOne
  TotalChunks <- TwoAndOne
  UniqueHash <- OneName
  Awaits = TRUE
  FailRouteAuth = TRUE
  MaxCrashes = 1
  NoFile = NoFile
  Torn = Torn
  NoMutex = NoMutex
  NoUpload = NoUpload
SYMMETRY Symmetry
PROPERTY
  PromiseKept
CHECK_DEADLOCK FALSE
