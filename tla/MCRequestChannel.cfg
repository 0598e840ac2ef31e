CONSTANTS
    left = left
    right = right
    c1 = c1
    c2 = c2
    Ends = {left, right}
    Calls = {c1, c2}
    Callers <- LeftFirst
    MaxOutbound = 1
    MaxInbound = 1
    None = None
SPECIFICATION FairSpec
INVARIANTS AnswersAreFinal NobodyWaitsOnDeadChannel OverloadOnlyAfterCancelOrOpenWrite
PROPERTIES EveryCallSettles PlacesReturn
CHECK_DEADLOCK FALSE
