SPECIFICATION FairSpec
CONSTANTS
    STREAM_MAX = 1
    BIGSCAN_COPY_CAP = 2
    Sizes <- MCSizes
    MaxAsks = 3
    MaxStarts = 1
INVARIANTS
    TypeOK
    AnswersBelong
    StopIsPrompt
    CopiesRemoved
PROPERTIES
    ScansEnd
CHECK_DEADLOCK FALSE
