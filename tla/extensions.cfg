SPECIFICATION FairSpec
CONSTANTS
    Name = {a, l}
    Local = {l}
    Job = a
    Default = a
    StepUntil = 1
    Call = {c1, c2}
    MaxVersion = 2
    MaxRestarts = 1
    FirstRun = TRUE
    a = a  l = l  c1 = c1  c2 = c2
INVARIANTS
    AppliedIsLive
PROPERTIES
    OrphanIsParked
CHECK_DEADLOCK FALSE
