SPECIFICATION Spec
CONSTANTS
    Client = client
    Server = server
    MaxSeq = 6
    PacketCap = 1
    BufferCap = 1
    Start <- OneWayStart
    MaxSend <- ShortSend
    MaxUnacked = 2
    MaxAge = 3
    NetCap = 2
    Unreliable = {server}
    MayEnd = TRUE
    MayDuplicate = TRUE
INVARIANTS
    InOrderOnce
    AckWindowExact
PROPERTIES
    ReleasedIsDelivered
    StreamSpec
CHECK_DEADLOCK FALSE
