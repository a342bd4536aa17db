\* Three slots, four process indexes in all and four states.
SPECIFICATION Spec
CONSTANTS
    MaxProcesses = 3
    MaxIndex = 3
    MaxStateId = 4
    Crashes = TRUE
    NoProcess = NoProcess
INVARIANTS SlotFree UniqueStateIds SuccessCounted
PROPERTY BalancingKeepsStates
