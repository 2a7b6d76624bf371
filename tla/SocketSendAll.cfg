CONSTANTS
    p1 = p1
    p2 = p2
    p3 = p3
    a = a
    b = b
    x = x
    y = y
    u = u
    v = v
    w = w
    Pipes = {p1, p2}
    Raw = {}
    ToOne = {}
    ToDest = {}
    ToAll = {u, v, w}
    Dest <- AllToFirst
    None = None
    QueueSize = 1
    RecvQueueSize = 1
    Scenarios <- Broadcasting
SPECIFICATION Spec
INVARIANTS
    SendAllReachesPeers
\* a socket may come to rest: when it is closed, or when nobody uses it
CHECK_DEADLOCK FALSE
