CONSTANTS
    t1 = t1
    t2 = t2
    t3 = t3
    t4 = t4
    t5 = t5
    Tasks = {t1, t2, t3, t4}
    Spawns <- SpawnOne
    Adders = {a1, a2}
    Workers = {w1, w2}
    initialThreads = 1
    maxThreads = 2
    NoTask = NoTask
SPECIFICATION FairSpec
CHECK_DEADLOCK FALSE
PROPERTIES
    EveryTaskExecuted
    WaitReturns
    AddTaskReturns
