\* Depth first alone, interleaved and in batches, and with iterative deepening.
SPECIFICATION SearchSpec
CONSTANTS
    State = {1, 2, 3, 4}
    InitialState = 1
    MaxDepth = 3
    RandomizeFork = TRUE
    ConcolicModes = {TRUE, FALSE}
    LoadBalancing = TRUE
    Succeeds = TRUE
    IdleGuest = TRUE
    Stacks = {{}, {"interleaved", "batching"}, {"deepening", "batching"}}
    LongSlices = TRUE
    NoState = NoState
INVARIANTS SearchersInSync NoInvalidRemoval
PROPERTY ImplementsExecutor
