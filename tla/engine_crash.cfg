CONSTANTS
    t1 = t1  t2 = t2  impl = impl  closed = closed
    Task = {t1}
    Session = {s1, s2}
    Client = {c1}
    Step = {impl}
    StepStatus <- OneStep
    Blockers <- NoBlocks
    Workers = 1
    Targets = {impl}
    Requests = {"cancel", "abort"}
    NoTask = NoTask  NoStep = NoStep
    MaxVisit = 2  MaxCrash = 1  MaxFault = 1  MaxReload = 1
SPECIFICATION Spec
SYMMETRY SessionSymmetry
INVARIANTS
    OneLiveSession
    ScannerParksNoLiveTask
PROPERTIES
    ImplementsSessionClaims
CHECK_DEADLOCK FALSE
