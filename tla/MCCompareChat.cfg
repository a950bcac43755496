SPECIFICATION MCSpec
CONSTANTS
    Models = {m1, m2}
    Sessions = {s1, s2}
    MaxTurns = 2
    NoSession = NoSession
    MaxClicks = 2
CONSTRAINT Followed
CHECK_DEADLOCK FALSE
INVARIANTS QuestionsMeetAnswers OneSession SpinnerMeansWaiting
PROPERTY TurnsEnd
