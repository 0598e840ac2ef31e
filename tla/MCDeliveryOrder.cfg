SPECIFICATION OSpec
CONSTANTS
    r1 = r1
    f1 = f1
    r2 = r2
    f2 = f2
    s1 = s1
    s2 = s2
    Entries = {r1, f1, r2, f2}
    Slots = {s1, s2}
    NoSlot = NoSlot
    NoEntry = NoEntry
    SendTimeout = TRUE
    SlotTtl = TRUE
    Reply <- Replies
    Fire <- Fires
    Rank <- Urgent
INVARIANTS FireFirstOnlyWhenReleased WaitsOnlyForPassedReply
CHECK_DEADLOCK FALSE
