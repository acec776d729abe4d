SPECIFICATION ClientSpec
CONSTANTS
  first = first
  second = second
  Uploads = {first, second}
  Requests = {r1, r2}
  Mutexes = {m1, m2}
  Tags = {t1}
  Indexes <- ZeroToOne
  TotalChunks <- Announced
  UniqueHash <- OwnNames
  Awaits = FALSE
  FailRouteAuth = FALSE
  MaxCrashes = 0
  NoFile = NoFile
  Torn = Torn
  NoMutex = NoMutex
  NoUpload = NoUpload
  FileSize <- Sizes
  ChunkBytes = 2
  NoRequest = NoRequest
INVARIANT
  FailCallReleases
CHECK_DEADLOCK FALSE
