SPECIFICATION Spec
CONSTANTS
    ShardCount = 2
    MaxHeight = 2
    MaxFaults = 2
    HistoryLimit = 4
    History = FALSE
    Anchor = FALSE
    InProcess = TRUE
\* A node whose stores cannot be opened stays down: the open is refused.
CHECK_DEADLOCK FALSE
INVARIANTS
    ServedIsDurable
