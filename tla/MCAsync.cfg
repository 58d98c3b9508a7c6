SPECIFICATION Spec
CONSTANTS
    Body = {b1, b2}
    Native = {n1}
    MaxAwaits = 1
    Modes <- EachMode
INVARIANTS RunsUnsettled NeverEntersEmpty NoLostWakeup
PROPERTY WakesUp
CHECK_DEADLOCK FALSE
