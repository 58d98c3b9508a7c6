SPECIFICATION Spec
CONSTANTS
    Worker = {w1}
    Val = {v1, v2}
    Recv = {r1}
    Capacity = 1
INVARIANT CancelIsClean
CHECK_DEADLOCK FALSE
