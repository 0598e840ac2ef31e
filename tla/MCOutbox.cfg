SPECIFICATION FairSpec
CONSTANTS
    Entries = {e1, e2, e3}
    Slots = {s1, s2}
    NoSlot = NoSlot
    NoEntry = NoEntry
    SendTimeout = TRUE
    SlotTtl = TRUE
INVARIANTS NothingLost SerialSends ReplyBeforeWaiters OvertakesOnlyByFill
PROPERTIES EverySubmissionSettles
CHECK_DEADLOCK FALSE
