CONSTANTS
    c1 = c1
    c2 = c2
    k1 = k1
    k2 = k2
    Clients = {c1, c2}
    Compactors = {k1, k2}
    HardCompactors = {k1, k2}
    Requests <- MCRequests
    MinBlocks = {1, 2}
    TailWindow = 1
    BlockTarget = 3
    Available = 4
    Target = 2
    Soft = 2
    SummarySizes = {1, 2}
    FallbackMax = 2
    MaxRounds = 2
    MaxEvents = 4
    MaxHandles = 1
    MaxCollisions = 1
    MaxCompactions = 2
SYMMETRY MCSymmetry
SPECIFICATION Spec
INVARIANTS
    MemoryTypeOK
    Lossless
    InOrder
    SnapshotAgreement
    DagSound
    OneBatchPerKey
PROPERTIES
    PinnedStay
    ImplementsTranscript
CHECK_DEADLOCK FALSE
