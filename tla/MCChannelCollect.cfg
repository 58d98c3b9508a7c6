SPECIFICATION Spec
CONSTANTS
    Worker = {w1}
    Val = {v1}
    Recv = {r1}
    Capacity = 1
INVARIANT ReceivedSurvives
CHECK_DEADLOCK FALSE
