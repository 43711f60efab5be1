SPECIFICATION Spec
CONSTANTS
    Session = {s1, s2}
    NoSession = NoSession
    Launch = {a1, a2}
    NoLaunch = NoLaunch
    MaxSessions = 1
    Sends = {"SpawnSession", "CloseSession"}
    MaxRequests = 3
    MaxInbox = 1
    MaxChunks = 2
    MaxOutput = 3
CHECK_DEADLOCK FALSE
SYMMETRY Symmetric
INVARIANT TypeOK
INVARIANT AckBeforeOutput
INVARIANT OutputInOrder
INVARIANT LeftRegistryEnded
INVARIANT ExitedMeansChildGone
PROPERTY EndedIsFinal
