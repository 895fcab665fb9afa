CONSTANTS
    Sizes <- MCSizes
    Concurrencies <- MCConcurrencies
    MaxInt64 = 31
    MaxChunks = 20
SPECIFICATION Spec
INVARIANTS Tiles AtMostConcurrency NearEqual
PROPERTY Covers
