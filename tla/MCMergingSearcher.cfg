\* Three states and two groups; a path only ends outside its group.
SPECIFICATION MergeFairSpec
CONSTANTS
    State = {1, 2, 3}
    InitialState = 1
    MaxDepth = 2
    RandomizeFork = TRUE
    ConcolicModes = {TRUE, FALSE}
    LoadBalancing = TRUE
    Succeeds = TRUE
    IdleGuest = TRUE
    MaxGroups = 2
    EndsInGroup = FALSE
    NoState = NoState
INVARIANTS PoolsMatchGroups
PROPERTIES ImplementsExecutor WaitingResumes CpuResumes Reclaimed
