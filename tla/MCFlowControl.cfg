SPECIFICATION FlowSpec
CONSTANTS
    High = 4
    Low = 1
    ReadChunkSize = 4
    Width = 64
    Total = 16
    Recorded = {TRUE, FALSE}
CHECK_DEADLOCK FALSE
INVARIANT UnackedBounded
