CONSTANTS
    w1 = w1
    w2 = w2
    Workers = {w1, w2}
    N = 2
    Kinds = {"llmMap", "agenticMap"}
    ConcurrencyLimit = 1
    MaxRetries = 1
    MaxCrashes = 1
    MaxStalls = 1
SPECIFICATION FairSpec
INVARIANTS
    TypeOK
    LeaseLimit
    LeaseAgreement
    ExclusiveExecution
    RunMirrorsTasks
    OneHandle
    ArtifactIsFinal
    ChildAgreement
    BootstrapBeforeExecution
    AttemptBudget
PROPERTIES
    ImplementsOperatorRun
    TerminalIsFinal
    TasksSettle
    FinalizedUnlessCrash
