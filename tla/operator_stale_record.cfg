CONSTANTS
    w1 = w1
    w2 = w2
    Workers = {w1, w2}
    N = 2
    Kinds = {"llmMap"}
    ConcurrencyLimit = 1
    MaxRetries = 1
    MaxCrashes = 0
    MaxStalls = 1
SPECIFICATION FairSpec
PROPERTIES
    FirstTerminalTransitionWins
