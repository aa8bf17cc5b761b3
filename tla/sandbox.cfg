CONSTANTS
    MaxSessions = 3
    MaxFaults = 2
SPECIFICATION FairSpec
INVARIANT DoneIsClean
PROPERTY WorkIsHandedOver
PROPERTY ContainerEnds
CHECK_DEADLOCK FALSE
