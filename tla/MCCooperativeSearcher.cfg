\* Three states, scheduled by yielding alone or also by live ids.
SPECIFICATION CoopFairSpec
CONSTANTS
    State = {1, 2, 3}
    InitialState = 1
    MaxDepth = 2
    RandomizeFork = TRUE
    ConcolicModes = {TRUE, FALSE}
    LoadBalancing = TRUE
    Succeeds = TRUE
    IdleGuest = TRUE
    Guests = {"yields", "any"}
    StaleIds = FALSE
    NoState = NoState
INVARIANTS SelectionSearched
PROPERTIES ImplementsExecutor NoStarvation
