SPECIFICATION Spec
CONSTANTS
    p1 = p1
    p2 = p2
    t1 = t1
    t2 = t2
    Project = {p1, p2}
    Task = {t1, t2}
    Existing = {t1}
    Written = {c1}
    Comment = {c1, c2, c3, c4}
    None = None
    ProjectOf <- MCProjectOf
    Starts <- MCStarts
    MaxInputs = 3
    MaxDrops = 2
    MaxWaiting = 1
INVARIANTS
    CommentsKept
    ActiveIsWatched
    ScreenIsTrue
CHECK_DEADLOCK FALSE
