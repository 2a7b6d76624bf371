CONSTANTS
    Nets <- Shortcut
    None = None
SPECIFICATION Spec
INVARIANTS
    ReplyReachesRequester
CHECK_DEADLOCK FALSE
