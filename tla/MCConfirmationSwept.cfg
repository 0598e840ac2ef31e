SPECIFICATION Spec
CONSTANTS
    Ids = {q1, q2}
    Decisions = {allow}
    Causes = {c1}
    NoCause = NoCause
    MaxDepth = 2
INVARIANTS SweptNeverShown
CHECK_DEADLOCK FALSE
