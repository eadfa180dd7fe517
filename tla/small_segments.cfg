SPECIFICATION TransferSpec
CONSTANTS
    Client = client
    Server = server
    Modulus = 16
    Mss = 2
    MaxCwnd = 40
    MaxWindow = 4
    PoolBuffers = 3
    ReceiveCapacity = 2
    RetransmissionCapacity = 3
    MaxSackBlocks = 4
    InitialSequence <- BeforeWrap
    SendBound <- ClientSendsThree
    Connectors = {}
    Closers = {}
    Lengths = {1}
    DuplicateAckThreshold = 3
    NetCapacity = 2
INVARIANT WindowIsHonoured
