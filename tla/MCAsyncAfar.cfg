SPECIFICATION Spec
CONSTANTS
    Body = {b1}
    Native = {n1}
    MaxAwaits = 1
    Modes <- SharedMode
INVARIANT StaleCompletionAbsorbed
CHECK_DEADLOCK FALSE
