SPECIFICATION TransferSpec
CONSTANTS
    Client = client
    Server = server
    Modulus = 20
    Mss = 2
    MaxCwnd = 40
    MaxWindow = 8
    PoolBuffers = 4
    ReceiveCapacity = 4
    RetransmissionCapacity = 4
    MaxSackBlocks = 1
    InitialSequence <- BeforeWrap
    SendBound <- ClientSendsFour
    Connectors = {}
    Closers = {}
    Lengths = {2}
    DuplicateAckThreshold = 3
    NetCapacity = 2
INVARIANT TypeOK
INVARIANT InOrderExactlyOnce
INVARIANT RangesMatchSlots
INVARIANT MissingIsRecoverable
INVARIANT HeadIsUnsacked
INVARIANT RecoveryEndsWithFlight
INVARIANT BuffersAccounted
PROPERTY OneDecreasePerEpoch
