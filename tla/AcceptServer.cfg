\* No symmetry: the run checks liveness.
SPECIFICATION FairSpec
CONSTANTS
    Fd = {5, 6, 7}
    MaxClients = 4
    MaxRx = 1
    Workers = {w1, w2}
    Main = Main
    NULL = NULL
    NoThread = NoThread
    InitCapa = 1
    MaxStale = 1
    Silent = {5}
INVARIANTS OneOwner
PROPERTIES Answered
