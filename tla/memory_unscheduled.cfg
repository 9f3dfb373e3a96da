CONSTANTS
    c1 = c1
    c2 = c2
    k1 = k1
    k2 = k2
    Clients = {c1, c2}
    Compactors = {k1}
    HardCompactors = {k1}
    Requests <- MCRequests
    MinBlocks = {1, 2}
    TailWindow = 1
    BlockTarget = 3
    Available = 4
    Target = 2
    Soft = 2
    SummarySizes = {1}
    FallbackMax = 1
    MaxRounds = 2
    MaxEvents = 4
    MaxHandles = 0
    MaxCollisions = 1
    MaxCompactions = 1
SPECIFICATION Spec
INVARIANT
    OverSoftIsScheduled
CHECK_DEADLOCK FALSE
