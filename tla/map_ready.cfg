SPECIFICATION FairSpec
CONSTANTS a = a  b = b  None = None
CONSTANTS Maps <- MCMaps  Chunks <- MCChunks  OnDisk <- MCOnDisk
CONSTANTS Exact = {}  Window = 2  MaxChanges = 1
PROPERTIES ReadyStarts
CHECK_DEADLOCK FALSE
