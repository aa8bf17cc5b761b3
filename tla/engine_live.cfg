CONSTANTS
    t1 = t1  t2 = t2  impl = impl  closed = closed
    Task = {t1, t2}
    Session = {s1, s2}
    Client = {c1}
    Step = {impl}
    StepStatus <- OneStep
    Blockers <- T2AfterT1
    Workers = 1
    Targets = {"done"}
    Requests = {"abort"}
    NoTask = NoTask  NoStep = NoStep
    MaxVisit = 1  MaxCrash = 1  MaxFault = 0  MaxReload = 0
SPECIFICATION FairSpec
INVARIANTS
    PoolAccounting
PROPERTIES
    QueuedSessionIsServed
    EverySchedulableTaskIsClaimed
    SettledIsSealed
    OrphansAreReaped
CHECK_DEADLOCK FALSE
