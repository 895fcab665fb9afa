CONSTANTS
    w1 = w1
    w2 = w2
    Workers <- TwoWorkers
    Rate = 2
    Burst = 2
    Chunk = 2
    MaxRetries = 1
    Base = 2
    BackoffMax = 2
    MaxInt64 = 7
    Sources = 2
    Horizon = 1
SPECIFICATION Spec
INVARIANTS TypeOK Cap Prompt PauseBounded
PROPERTIES StopWakes
