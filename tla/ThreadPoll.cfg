\* No symmetry: the run checks liveness.
SPECIFICATION FairSpec
CONSTANTS
    Producers = {p1, p2}
    Workers = {w1, w2}
    Task = {t1, t2}
    NULL = NULL
    NoThread = NoThread
    InitCapa = 1
    MaxTasks = 2
    MaxStale = 1
INVARIANTS TypeOK RingIsContiguous EveryTaskHasAToken
PROPERTIES NoTokenInvented PushKeepsOrder EveryTaskIsTaken ImplementsTaskPool
