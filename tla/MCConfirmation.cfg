SPECIFICATION FairSpec
CONSTANTS
    Ids = {q1, q2, q3}
    Decisions = {allow}
    Causes = {c1}
    NoCause = NoCause
    MaxDepth = 2
INVARIANTS WaitersAttended OneDecision CancelledNeverShown DialogsMatch
PROPERTIES EveryRequestSettles
CHECK_DEADLOCK FALSE
