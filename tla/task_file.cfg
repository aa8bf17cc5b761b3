CONSTANTS
    Position = {p, q}
    Text = {t, u}
    Absent = Absent  Corrupt = Corrupt
    MaxEdit = 3  MaxMutation = 2  MaxComment = 1
SPECIFICATION TaskFairSpec
INVARIANTS
    EngineOwnsPosition
    HumanFieldsKept
    ChangesAreTold
PROPERTIES
    EditsAreSeen
CHECK_DEADLOCK FALSE
