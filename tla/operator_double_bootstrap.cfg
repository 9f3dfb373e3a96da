CONSTANTS
    w1 = w1
    w2 = w2
    Workers = {w1, w2}
    N = 2
    Kinds = {"agenticMap"}
    ConcurrencyLimit = 1
    MaxRetries = 1
    MaxCrashes = 1
    MaxStalls = 0
SPECIFICATION FairSpec
INVARIANTS
    BootstrapAppendedOnce
