\* Two S2E states: stacks of up to three words, four frames in a history.
SPECIFICATION InterpSpec
CONSTANTS
    States = {s1, s2}
    StackTop = 2
    MaxId = 4
    Addresses = {1, 2}
    ReuseLocations = FALSE
INVARIANTS TrackingInLoop HighLevelStackNotEmpty FramesTile ActivationsOnStack
CHECK_DEADLOCK FALSE
