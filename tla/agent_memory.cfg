CONSTANTS
    n1 = n1
    n2 = n2
    s1 = s1
    s2 = s2
    s3 = s3
    c1 = c1
    c2 = c2
    p1 = p1
    p2 = p2
    Conversations = {1, 2}
    Nodes = {n1, n2}
    NoKey = NoKey
    NoScope = NoScope
    Stopwords = {"the"}
    Batches <- MCBatches
    Artifacts = {"f"}
    Explorers = {"text"}
    MaxEvents = 3
    MaxItems = 3
    Queries <- MCQueries
    RetrievalStopwords = {"the"}
    ShortWords = {"z"}
    Cues = {"Y"}
    HeaderTokens = 1
    FactTokens <- MCFactTokens
    NewTexts <- MCNewTexts
    Reads <- MCReads
    SummaryForms <- MCForms
    BlockLengths = {2, 5}
    MaxChanges = 2
    Unkeyed = Unkeyed
    DetailTokens = 3
    TitleTokens = 1
    Sessions = {s1, s2, s3}
    NoSession = NoSession
    ParentOf <- MCParentOf
    Cockpit = {s3}
    Callers = {c1, c2}
    Casts <- MCCasts
    Clients = {p1, p2}
    SubmitRequests <- MCSubmits
    KnownConversations = {1, 2}
    Anonymous = Anonymous
    MaxSubmissions = 3
SPECIFICATION MemorySpec
CHECK_DEADLOCK FALSE
SYMMETRY Interchangeable
INVARIANTS
    StoresAlike
    PagesComplete
    BudgetHonoured
    LeftOutIsReported
    ReadFailsOnlyIfOvertaken
    SubmissionAnswered
    ArchivedExactlyOnce
    BindingStable
    HandoffRecalled
    CurrentStateIsReplay
