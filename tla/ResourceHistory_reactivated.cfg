SPECIFICATION HistorySpec
CONSTANTS
    MaxRequests = 2
    None = None
    MaxAborts = 0
INVARIANT OpenTombstoneMeansDeleted
CHECK_DEADLOCK FALSE
