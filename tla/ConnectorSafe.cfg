CONSTANTS
    Dialers = {d1, d2}
    Listeners = {l1}
    Pipes = {p1, p2}
    NoOwner = NoOwner
    Limits <- NoLimitOrOne
    InitLimit = 1
    Reconnecting = {d1}
    Async = {d2}
    HasNegotiator = TRUE
    MaxBackoff = 2
    MaxLimitChanges = 1
SPECIFICATION Spec
\* one of the two dialers is created: one that reconnects, or one that dials in the background
CONSTRAINT OneDialer
SYMMETRY PipeSymmetry
INVARIANTS
    StoppedAtLimit
    StartedBelowLimit
    CloseLeavesNothingOpen
    OnePipePerDialer
    RedialNeverForgotten
PROPERTIES
    LimitRespected
\* a connector may come to rest: when it is closed, or when nothing connects
CHECK_DEADLOCK FALSE
