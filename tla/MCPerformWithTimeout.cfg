\* Two concurrent calls, interchangeable.
CONSTANTS
    o1 = o1
    o2 = o2
    Ops <- TwoOps
SYMMETRY Symm
SPECIFICATION Spec
INVARIANT AnswerForwarded
CHECK_DEADLOCK FALSE
