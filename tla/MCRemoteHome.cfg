CONSTANTS
    c1 = c1
    c2 = c2
    Nobody = Nobody
    Client <- MCClient
    Persistent <- MCPersistent
    Chunks = 2
    MaxAttempts = 1
    MaxFaults = 2
SPECIFICATION FairSpec
INVARIANT TypeOK
INVARIANT RunsWhole
INVARIANT TrustedAlone
PROPERTY Heals
CHECK_DEADLOCK FALSE
