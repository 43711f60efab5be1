SPECIFICATION FairSpec
CONSTANTS
    Transport = {t1, t2}
    None = None
    MaxSampleErrors = 2
CHECK_DEADLOCK FALSE
INVARIANT TypeOK
INVARIANT StoredIsWatched
INVARIANT StoredHasRelay
PROPERTY ReplacesDeadOnly
PROPERTY DeadIsRetried
