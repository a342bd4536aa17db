\* A member of the group may end before it reaches the end of the group.
SPECIFICATION MergeSpec
CONSTANTS
    State = {1, 2, 3}
    InitialState = 1
    MaxDepth = 0
    RandomizeFork = FALSE
    ConcolicModes = {TRUE}
    LoadBalancing = FALSE
    Succeeds = FALSE
    IdleGuest = TRUE
    MaxGroups = 1
    EndsInGroup = TRUE
    NoState = NoState
INVARIANT NoneLost
