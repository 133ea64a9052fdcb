SPECIFICATION Spec
CONSTANTS
    ShardCount = 2
    MaxHeight = 2
    MaxFaults = 0
    HistoryLimit = 1
    History = TRUE
    Anchor = FALSE
    InProcess = FALSE
\* A node whose stores cannot be opened stays down: the open is refused.
CHECK_DEADLOCK FALSE
INVARIANTS
    CleanStopReopens
