SPECIFICATION Spec
CONSTANTS
    a = a
    b = b
    n = n
    c1 = c1
    c2 = c2
    Task = {a, b, n}
    Existing = {a, b}
    Session = {s1}
    Caller = {c1, c2}
    Jobs <- MCJobs
    Nobody = Nobody
    MaxCalls = 3
    MaxBreaks = 1
    MaxEntries = 2
INVARIANTS
    AnswerIsTrue
    VisitsCounted
PROPERTIES
    WaitsForBlockers
CHECK_DEADLOCK FALSE
