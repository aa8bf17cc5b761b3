SPECIFICATION FairSpec
CONSTANTS
    Mode = {"task", "chat"}
    MaxCorrections = 1
    MaxBlock = 2
    MaxExtra = 2
    MaxPipe = 1
INVARIANTS
    EndMeansDone
    NoServerLeft
    ShownIsTrue
PROPERTIES
    EndedIsSealed
CHECK_DEADLOCK FALSE
