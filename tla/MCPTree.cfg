\* Concolic forks and load balancing; or plain ones with a depth limit.
SPECIFICATION PathSpec
CONSTANTS
    State = {1, 2, 3, 4}
    InitialState = 1
    MaxDepth = 2
    RandomizeFork = TRUE
    ConcolicModes = {TRUE, FALSE}
    LoadBalancing = TRUE
    Succeeds = TRUE
    IdleGuest = TRUE
INVARIANTS DeletedUnreachable ActiveIsCurrent NoneLost LeavesAreStates ActiveIffSearched
PROPERTY PathImplementsExecutor
