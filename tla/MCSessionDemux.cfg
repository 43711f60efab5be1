SPECIFICATION FairSpec
CONSTANTS
    Session = {s1, s2}
    Remote = {t1}
    Local = Local
    None = None
    LocalAgent = TRUE
    MaxInputs = 1
    MaxChunks = 1
CHECK_DEADLOCK FALSE
INVARIANT TypeOK
INVARIANT NothingSwallowed
PROPERTY SpawnAnswered
