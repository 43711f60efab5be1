SPECIFICATION Spec
CONSTANTS
    anthropic = anthropic
    private = private
    openai = openai
    copilot = copilot
    corp = corp
    claude = claude
    gpt = gpt
    k1 = k1
    k2 = k2
    Conn = {c1, c2}
    Exchange = {x1, x2}
    Host = {anthropic, private, openai, copilot, corp}
    Target = {anthropic}
    PrivateHost = {private}
    CopilotHost = copilot
    Token = {k1, k2}
    Model = {claude, gpt}
    None = None
    Envs <- MCEnvs
    Cap = 1
    MaxFrames = 2
SYMMETRY Symmetric
CHECK_DEADLOCK FALSE
INVARIANT TypeOK
INVARIANT ReportedOnce
INVARIANT RecordIsAnswer
INVARIANT RoutedToOwner
