SPECIFICATION FairSpec
CONSTANTS
    ShardCount = 2
    MaxHeight = 3
    MaxFaults = 3
    HistoryLimit = 4
    History = TRUE
    Anchor = TRUE
    InProcess = FALSE
\* A node whose stores cannot be opened stays down: the open is refused.
CHECK_DEADLOCK FALSE
INVARIANTS
    ServedIsDurable
    HistoryBeforeState
    AnchorBehindState
    CleanStopReopens
PROPERTIES
    IntentSettles
