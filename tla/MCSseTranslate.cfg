SPECIFICATION Spec
CONSTANTS
    Index = {0, 1}
    CallLists <- MCCallLists
    Parses <- MCParses
    Habits = {"noChoices", "finishFirst", "parallel", "repeats", "toolsAfterText", "textAfterTools"}
    Cap = 5
    MaxChunks = 5
CHECK_DEADLOCK FALSE
INVARIANT TypeOK
INVARIANT WellFormed
INVARIANT ReportedIsSent
INVARIANT StreamedAsWhole
INVARIANT HistoryReturns
