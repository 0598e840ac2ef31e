SPECIFICATION PSpec
CONSTANTS
    Items = {i1}
    Sources = {src1}
    Ops = {}
    NoOp = NoOp
    NoItem = NoItem
    MaxAttempts = 2
    RetryDelay <- NoDelays
    Policies = {"manual-resolution", "idempotent-redrive"}
    RedriveWindow = 1
    MaxNow = 2
    MaxDecisions = 1
    MaxCrashes = 2
    Rank <- SameRank
INVARIANTS
    AttemptsAccounted BudgetRespected NoticesMatchOpenFacts
    NeverDuplicatedOnItsOwn SentMeansArrived
PROPERTIES ImplementsLifecycle
CHECK_DEADLOCK FALSE
