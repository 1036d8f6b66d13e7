SPECIFICATION FairSpec
CONSTANTS a1 = a1  a2 = a2  b1 = b1  machineA = machineA  machineB = machineB
CONSTANTS Addrs <- MCAddrs  Ip <- MCIp
CONSTANTS NumSlots = 2  MaxClientsPerIp = 1  Codes = {c1}  None = None
INVARIANTS SlotsAgree PerIpLimit
PROPERTIES SessionSpec ErrorEnds
