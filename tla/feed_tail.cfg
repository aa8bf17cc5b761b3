CONSTANTS
    Sub = {s1}
    NoSub = NoSub
    FromLine = {1, 4}
    MaxMessage = 2  MaxNote = 1  MaxPartial = 1  MaxFault = 1
SPECIFICATION FairSpec
INVARIANTS
    CursorAtTail
    ShownIsPrefix
PROPERTIES
    EndIsLearned
CHECK_DEADLOCK FALSE
