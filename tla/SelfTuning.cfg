SPECIFICATION Spec
CONSTANTS
    s1 = s1
    memory_md = memory_md
    user_md = user_md
    f1 = f1
    f2 = f2
    r1 = r1
    Sessions = {s1}
    Targets = {memory_md, user_md}
    User = user_md
    Facts = {f1, f2}
    Legacy <- OldProfile
    Limit = 2
    Interval = 1
    Window = 1
    MinFailures = 1
    Rules = {r1}
    MaxRules = 1
    MaxReviews = 1
    MaxCalls = 2
    MaxTurns = 2
    MaxRestarts = 2
CHECK_DEADLOCK FALSE
INVARIANTS TypeOK LimitHolds
PROPERTIES FactsLeaveOnRequest
