CONSTANTS
    Dialers = {d1}
    Listeners = {}
    Pipes = {p1, p2}
    NoOwner = NoOwner
    Limits <- OneOrTwo
    InitLimit = 1
    Reconnecting = {d1}
    Async = {}
    HasNegotiator = FALSE
    MaxBackoff = 2
    MaxLimitChanges = 1
SPECIFICATION FairSpec
PROPERTIES
    RestartedWhenRoom
    EventuallyRedials
\* a connector may come to rest: when it is closed, or when nothing connects
CHECK_DEADLOCK FALSE
