SPECIFICATION StackSpec
CONSTANTS
    u1 = u1
    u2 = u2
    Attendees = {u1, u2}
    DemoUser = u1
    Capacity = 2
    Path <- MCPath
    MaxOperations = 3
INVARIANTS
    CompleteWhenUp
    CountNeverTooHigh
    RowsFitOlderSchema
PROPERTIES
    OwnRowsStay
    RepeatIsIdle
