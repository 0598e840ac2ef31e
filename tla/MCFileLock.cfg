SPECIFICATION FairSpec
CONSTANTS
    c1 = c1
    c2 = c2
    c3 = c3
    Contenders = {c1, c2, c3}
    NoOne = NoOne
    Processes = {"p1", "p2", "p3"}
    Proc <- OwnProcess
    MaxLevel = 3
INVARIANTS BusyMeansContention
PROPERTIES ImplementsLock EveryCallAnswered
CHECK_DEADLOCK FALSE
