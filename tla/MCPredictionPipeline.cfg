SPECIFICATION Spec
CONSTANTS
    m1 = m1
    m2 = m2
    p1 = p1
    p2 = p2
    s1 = s1
    Models = {m1, m2}
    Prompts = {p1, p2}
    Inputs = {i1}
    Schemas = {s1}
    NoSchema = NoSchema
    Configs <- MCConfigs
    Requests = {r1, r2}
    Estimate = 5
    MaxEdits = 1
    NoQuestion = NoQuestion
    NoReply = NoReply
    Failure = Failure
    NoText = NoText
    NoModel = NoModel
    NoResult = NoResult
    NoRun = NoRun
CHECK_DEADLOCK FALSE
INVARIANTS AccountsAgree RepliesMatchTraces
PROPERTY KeepsOracle
