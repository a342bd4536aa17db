\* Three S2E states that diverge, merge, call, return and loop; indexes of two levels.
SPECIFICATION TopoSpec
CONSTANTS
    States = {s1, s2, s3}
    HLPC = {1, 2}
    Strategy = "bfs"
    MaxDepth = 2
    Succ <- LoopFlow
    CallSites = {1}
    Exits = {1}
    ForkUntracked = FALSE
    WriteBackRate = 1
    MaxIndex = 2
SYMMETRY StateSymmetry
INVARIANTS LoopLevels CurrentOnPath CursorBehind
PROPERTY TopologicOrder
