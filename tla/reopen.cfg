SPECIFICATION Spec
CONSTANTS
    Client = client
    Server = server
    Modulus = 4
    Mss = 1
    MaxCwnd = 1
    MaxWindow = 1
    PoolBuffers = 1
    ReceiveCapacity = 1
    RetransmissionCapacity = 1
    MaxSackBlocks = 1
    InitialSequence <- BeforeWrap
    SendBound <- ClientSendsOne
    Connectors = {client}
    Closers = {client, server}
    Lengths = {1}
    DuplicateAckThreshold = 1
    NetCapacity = 2
INVARIANT DataSurvivesAttempts
INVARIANT AtMostOneReset
INVARIANT RetryMatchesState
