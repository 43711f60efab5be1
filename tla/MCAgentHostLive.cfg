SPECIFICATION FairSpec
CONSTANTS
    Session = {s1}
    NoSession = NoSession
    Launch = {a1, a2}
    NoLaunch = NoLaunch
    MaxSessions = 1
    Sends = {"SpawnSession", "CloseSession", "TerminalInput", "TerminalResize",
             "Ack", "ProbeRequest", "Goodbye"}
    MaxRequests = 3
    MaxInbox = 1
    MaxChunks = 1
    MaxOutput = 2
CHECK_DEADLOCK FALSE
PROPERTY WriterStops
PROPERTY ExitIsNoticed
