CONSTANTS
    Nets <- Leaving
    None = None
SPECIFICATION FairSpec
PROPERTIES
    AnswerComes
CHECK_DEADLOCK FALSE
