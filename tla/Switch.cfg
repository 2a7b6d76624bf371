CONSTANTS
    Nets <- Networks
    None = None
SPECIFICATION FairSpec
INVARIANTS
    TTLConserved
    CountsMatchPaths
    SourceLeadsHome
    ReplyReachesRequester
PROPERTIES
    AnswerComes
\* the applications send a bounded number of messages and then rest
CHECK_DEADLOCK FALSE
