CONSTANTS
    w = w
    k = k
    b = b
    f = f
    Requests = {w, k, b, f}
    Class <- ClassOf
    Schedule <- TwoClasses
    Atomic <- Needs
    Preferred <- Likes
    Patient = {w, b, f}
    Lenders = {w}
    Slots = 2
    Space = 1
    Quanta = 2
    MaxRefill = 0
    None = None
SPECIFICATION FairSpec
INVARIANTS OccupancyConserved WorkHasSlot QuantaBacked BoundedOvertaking
PROPERTIES HeadGetsItsTurn
CHECK_DEADLOCK FALSE
