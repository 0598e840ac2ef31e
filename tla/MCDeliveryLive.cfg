SPECIFICATION PFairSpec
CONSTANTS
    Items = {i1, i2}
    Sources = {src1}
    Ops = {}
    NoOp = NoOp
    NoItem = NoItem
    MaxAttempts = 2
    RetryDelay <- NoDelays
    Policies = {"manual-resolution"}
    RedriveWindow = 1
    MaxNow = 0
    MaxDecisions = 0
    MaxCrashes = 0
    Rank <- TwoRanks
PROPERTIES EveryDeliveryDriven
CHECK_DEADLOCK FALSE
