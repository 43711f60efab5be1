SPECIFICATION FairSpec
CONSTANTS
    plain = plain
    Session = {plain, wild, local}
    LocalSession = {local}
    Prompt = {p1, p2}
    NoId = NoId
    None = None
    Habits <- OneIsPlain
CHECK_DEADLOCK FALSE
INVARIANT TypeOK
INVARIANT AnswersTheAsker
PROPERTY ConsentSpec
PROPERTY DecisionsArrive
