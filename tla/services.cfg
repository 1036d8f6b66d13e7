SPECIFICATION MCSpec
CONSTANTS ipv4 = ipv4  ipv6 = ipv6  None = None  mapA = mapA  mapB = mapB
CONSTANTS Addrs <- MCAddrs  Secrets <- MCSecrets  Plans <- MCPlans
CONSTANTS MaxWire = 1
CONSTANTS Maps = {mapA, mapB}  Chunks <- MCChunks  Exact = {mapA}  Window = 2  OnDisk <- MCOnDisk  MaxChanges = 3
INVARIANTS MapsAgree SuccessKept FileIsPrefix
PROPERTIES DeletionSent RegistrationFollows DownloadEnds
CHECK_DEADLOCK FALSE
