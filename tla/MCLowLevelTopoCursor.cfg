\* Three S2E states and the default rate of cursor writebacks.
SPECIFICATION TopoSpec
CONSTANTS
    States = {s1, s2, s3}
    HLPC = {1, 2}
    Strategy = "dfs"
    MaxDepth = 3
    Succ <- LoopFlow
    CallSites = {}
    Exits = {}
    ForkUntracked = FALSE
    WriteBackRate = 1000
    MaxIndex = 1
SYMMETRY StateSymmetry
INVARIANT NextStateFound
