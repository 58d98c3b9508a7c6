SPECIFICATION Spec
CONSTANTS
    Task = {t1, t2}
    Thread = {h1, h2}
    Cont = {c1}
    Observer = {o1}
INVARIANTS TypeOK CallbacksOnce CascadeComplete
PROPERTIES ImplementsPromise CascadeArrives
CHECK_DEADLOCK FALSE
