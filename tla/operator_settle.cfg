CONSTANTS
    w1 = w1
    w2 = w2
    postgres = postgres
    embedded = embedded
    Workers = {w1, w2}
    N = 2
    Kinds = {"llmMap", "agenticMap"}
    ConcurrencyLimit = 1
    MaxRetries = 0
    MaxCrashes = 1
    MaxStalls = 1
    Backends = {"memory", "sqlite"}
    MaxRounds = 1
    MaxRefusals = 1
SPECIFICATION SettleSpec
PROPERTIES
    StoresSettle
