SPECIFICATION ResumeSpec
CONSTANTS
    Client = client
    Server = server
    MaxSeq = 6
    PacketCap = 2
    BufferCap = 2
    Start <- MCStart
    MaxSend <- MCSend
    MaxUnacked = 2
    MaxAge = 3
    NetCap = 1
    Unreliable = {}
    MayEnd = FALSE
    MayDuplicate = FALSE
    Command = 1
    Leftovers <- AnyAck
INVARIANT AckWindowExact
