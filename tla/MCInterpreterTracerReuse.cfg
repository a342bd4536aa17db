\* One S2E state; the location of a left over HL frame is used again.
SPECIFICATION InterpSpec
CONSTANTS
    States = {s1}
    StackTop = 3
    MaxId = 4
    Addresses = {1, 2, 3}
    ReuseLocations = TRUE
INVARIANT HighLevelStackNotEmpty
CHECK_DEADLOCK FALSE
