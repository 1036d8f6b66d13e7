SPECIFICATION MCSpec
CONSTANTS MaxIds = 3  Rest = 2  MaxTime = 6
CONSTANTS Size = 8
CONSTANTS MaxBans = 3  Length = 2  Buckets = 2  Clock = 2
CONSTANTS Addrs <- MCAddrs  Clients <- MCClients  Plans <- MCPlans
CONSTANTS s1 = s1  s2 = s2  n1 = n1  n2 = n2  Nobody = Nobody  UserCode = byHand
CONSTANTS Servers = {s1, s2}  Slots <- MCSlots  Names = {n1, n2}  First = s1  Backed = {s2}
CONSTANTS MaxSaves = 2  MaxJoins = 1  Starts <- MCStarts
INVARIANTS ListsExact EmptyTakesAll BannedAreOut OneCopy NotLost OwnTee
PROPERTIES PromiseSpec RefusedIsExhausted QueueSpec BanSpec
CHECK_DEADLOCK FALSE
