\* Three S2E states, all forked after the executor tracks the first one.
SPECIFICATION SproutFairSpec
CONSTANTS
    States = {s1, s2, s3}
    HLPC = {1, 2}
    Strategy = "dfs"
    MaxDepth = 3
    ForkUntracked = FALSE
INVARIANTS Covered SteppingSuccessor LoneStateInterruptible SelectableTarget
PROPERTIES ImplementsSearch UpdateTerminates ExplorationCompletes
