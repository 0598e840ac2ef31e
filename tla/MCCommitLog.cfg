CONSTANTS
    Writers = {w1, w2, w3}
    Registered = {w1, w2}
    Ops = {o1, o2}
    None = None
SPECIFICATION Spec
SYMMETRY Symmetry
INVARIANTS AtMostOnce CommittedKept DecisionsCurrent
PROPERTIES NothingDiscarded ImplementsAtomicLog
