SPECIFICATION Spec
CONSTANTS
    Spawned = {t1, t2}
    Worker = {w1, w2}
INVARIANTS CountMatches AskedNeverSucceeds NoneStranded
PROPERTIES CancelledNeverRuns SpawnsSettle
CHECK_DEADLOCK FALSE
