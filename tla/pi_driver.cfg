CONSTANTS
    Input = {i1}
    MaxCorrections = 1  MaxAttempts = 2
    MaxMessage = 1  MaxExtra = 2  MaxPipe = 1
SPECIFICATION FairSpec
INVARIANTS
    TurnPerCycle
    NeverToldBusy
    NoStalePartial
PROPERTIES
    RunReturns
CHECK_DEADLOCK FALSE
