SPECIFICATION Spec
CONSTANTS
    Handle = {h1, h2, h3}
    Vm = {v1, v2}
INVARIANTS NeverDestroyedJoinable AliveIsExact JoinRethrows
PROPERTY DrainReturns
CHECK_DEADLOCK FALSE
