CONSTANTS
    Running = {"settings"}
    Pipes = {p1, p2, p3}
    NoPipe = NoPipe
    IDSpace = 3
    Listeners = {l1, l2}
    Dials = {d1, d2}
    None = None
    QueueSize = 1
    BufferSize = 2
    MaxSlice = 2
    MaxWrites = 3
    Servers = {s1, s2}
    Peers = {c1, c2}
    Schemes = {"tcp", "ipc", "ws", "wsx"}
    NoServer = NoServer
    Foreign = Foreign
    PendingSize = 1
    Outs = {o1}
    Objs = {1, 2}
    Bufs = {11, 12}
    Big = {12}
    SendqSize = 1
    Kinds = {"copy", "bytes", "msgs"}
    Callers = {t1, t2}
    Nobody = Nobody
    Bits <- SmallBits
    Texts <- SmallTexts
    Setters = {u1, u2}
    Senders = {q1}
    MaxSends = 1
SPECIFICATION MCSpec
PROPERTIES
    NoSendDrops
\* the setters set one option each, and the sends are bounded
CHECK_DEADLOCK FALSE
