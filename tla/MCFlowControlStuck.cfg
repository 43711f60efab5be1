SPECIFICATION FairFlowSpec
CONSTANTS
    High = 4
    Low = 1
    ReadChunkSize = 4
    Width = 64
    Total = 8
    Recorded = {FALSE}
CHECK_DEADLOCK FALSE
PROPERTY AllDelivered
