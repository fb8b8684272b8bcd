SPECIFICATION StoresSpec
CONSTANTS
  Parts = {"api"}
  w1 = w1
  w2 = w2
  v1 = v1
  v2 = v2
  Writers <- MCWriters
  Versions <- MCVersions
  Absent = Absent
  NoFile = NoFile
  a = a
  b = b
  t1 = t1
  t2 = t2
  MaxFiles = 2
  MaxBytes = 2
  MaxUpload = 2
  NoOne = NoOne
  Names <- MCNames
  Temps <- MCTemps
  Sizes <- MCSizes
  Sessions <- MCWriters
  Admins <- MCWriters
  Values <- MCValues
  Filters <- MCFilters
  Orders <- MCOrders
  Initial <- MCInitial
  PerPage = 2
  MaxKey = 3
  anna = anna
  bob = bob
  Members <- MCMembers
  Me <- OwnMailbox
  MaxInBox = 2
  MaxSends = 3
  MaxThreads = 2
  MaxPostsPerThread = 3
  MaxClock = 4
  MaxOnWall = 3
  MaxPosts = 7
  ip = ip
  h1 = h1
  h2 = h2
  IPs <- MCIPs
  IPOf <- Here
  Handles <- MCHandles
  NoUser = NoUser
  MaxFailures = 2
  Window = 2
  maxLoginAttempts = 2
  MaxCalls = 1
  Answer <- MCAnswer
  Wanted = {1}
  TTL = 1
  Timeout = 1
  MaxTime = 2
  Requests <- MCWriters
  MaxVersions = 2
  MaxSecond = 1
INVARIANT OpenedIsShown
