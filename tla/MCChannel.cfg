SPECIFICATION Spec
CONSTANTS
    Worker = {w1}
    Val = {v1, v2, v3}
    Recv = {r1, r2}
    Capacity = 1
SYMMETRY Symmetry
INVARIANTS TypeOK Conserved NoStuckPair NoFalseAlarm
CHECK_DEADLOCK FALSE
