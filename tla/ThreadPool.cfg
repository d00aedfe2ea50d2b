CONSTANTS
    t1 = t1
    t2 = t2
    t3 = t3
    t4 = t4
    t5 = t5
    Tasks = {t1, t2, t3, t4, t5}
    Spawns <- SpawnOne
    Adders = {a1, a2, a3}
    Workers = {w1, w2, w3}
    initialThreads = 0
    maxThreads = 3
    NoTask = NoTask
SPECIFICATION Spec
SYMMETRY Symmetry
CHECK_DEADLOCK FALSE
INVARIANTS
    TypeOK
    NoLostWakeup
    AtMostOneStalled
PROPERTIES
    ImplementsExecutor
    DrainedOnReturn
    ThreadsStableWhileJoining
