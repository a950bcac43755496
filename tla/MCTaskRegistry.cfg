SPECIFICATION Spec
CONSTANTS
    Clients = {c1, c2}
    Prompts = {p1, p2}
    Rests = {s1}
    Limit = 3
    NoPrompt = NoPrompt
    NoTask = NoTask
    Absent = Absent
INVARIANTS LiveVersionRecorded NumberMeansOnePrompt
PROPERTY KeepsLedger
