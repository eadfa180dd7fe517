SPECIFICATION FairTransferSpec
CONSTANTS
    Client = client
    Server = server
    Modulus = 16
    Mss = 2
    MaxCwnd = 40
    MaxWindow = 6
    PoolBuffers = 3
    ReceiveCapacity = 2
    RetransmissionCapacity = 3
    MaxSackBlocks = 4
    InitialSequence <- BeforeWrap
    SendBound <- ClientSendsThree
    Connectors = {}
    Closers = {}
    Lengths = {2}
    DuplicateAckThreshold = 3
    NetCapacity = 2
PROPERTY AllDelivered
INVARIANT WindowIsHonoured
INVARIANT NeverWindowBlocked
