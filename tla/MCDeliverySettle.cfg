SPECIFICATION PSpec
CONSTANTS
    Items = {i1, i2}
    Sources = {src1}
    Ops = {op1, op2}
    NoOp = NoOp
    NoItem = NoItem
    MaxAttempts = 1
    RetryDelay <- NoDelays
    Policies = {"manual-resolution"}
    RedriveWindow = 1
    MaxNow = 0
    MaxDecisions = 0
    MaxCrashes = 1
    Rank <- SameRank
SYMMETRY Symmetry
INVARIANTS QuietMeansNoEffects SettledMeansEmpty FreezeComplete
CHECK_DEADLOCK FALSE
