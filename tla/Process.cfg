CONSTANTS
    Running = {"ids", "inproc", "conn", "net", "buffers", "options", "settings"}
    Pipes = {p1, p2}
    NoPipe = NoPipe
    IDSpace = 3
    Listeners = {l1, l2}
    Dials = {d1, d2}
    None = None
    QueueSize = 1
    BufferSize = 2
    MaxSlice = 2
    MaxWrites = 3
    Servers = {s1, s2}
    Peers = {c1, c2}
    Schemes = {"tcp", "ipc", "ws", "wsx"}
    NoServer = NoServer
    Foreign = Foreign
    PendingSize = 1
    Outs = {o1}
    Objs = {1, 2}
    Bufs = {11, 12}
    Big = {12}
    SendqSize = 1
    Kinds = {"copy", "bytes", "msgs"}
    Callers = {t1, t2}
    Nobody = Nobody
    Bits <- SmallBits
    Texts <- SmallTexts
    Setters = {u1, u2}
    Senders = {q1}
    MaxSends = 1
SPECIFICATION MCSpec
CONSTRAINT OneClose
INVARIANTS
    UniqueIDs
    MapsHoldTheirPipes
    IdsInUseAreHeld
    WaitsInOnePlace
    AddressIsKept
    CloseReleases
    PathLeadsHome
    NoBufferShared
    SettingsTakeEffect
PROPERTIES
    DialsEnd
    ImplementsStream
    ReadersEnd
    ServeEnds
    ParseEnds
    
\* every part may come to rest, and an exhausted id generator hangs for good
CHECK_DEADLOCK FALSE
