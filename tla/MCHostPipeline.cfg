SPECIFICATION FairHostSpec
CONSTANTS
    c1 = c1
    c2 = c2
    NoClient = NoClient
    Clients <- MCClients
    AudioClients <- MCAudioClients
    PacketPool = 2
    UdpPool = 3
    EncodeCap = 1
    SendCap = 3
    MaxBatch = 2
    FragmentCounts <- MCFragmentCounts
    MaxFrames <- MCMaxFrames
INVARIANT UdpAccounted
INVARIANT FramesAccounted
INVARIANT StreamInOrder
PROPERTY HostMoves
