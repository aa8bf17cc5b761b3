CONSTANTS
    t1 = t1  t2 = t2  impl = impl  closed = closed
    Task = {t1}
    Session = {s1, s2, s3}
    Client = {c1}
    Step = {impl, closed}
    StepStatus <- TwoSteps
    Blockers <- NoBlocks
    Workers = 1
    Targets = {impl, closed, "human"}
    Requests = {"enroll", "resume", "reopen", "abort"}
    NoTask = NoTask  NoStep = NoStep
    MaxVisit = 3  MaxCrash = 0  MaxFault = 0  MaxReload = 0
SPECIFICATION Spec
SYMMETRY SessionSymmetry
INVARIANTS
    NoDoubleDispatch
    SessionOnItsStep
CHECK_DEADLOCK FALSE
