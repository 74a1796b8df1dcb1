SPECIFICATION NetFairSpec
CONSTANTS
    Procs = {p1, p2, p3}
    first = p1
    Clients = {c1, c2}
    MaxRx = 2
    None = None
    MaxUnits = 5
    W = 2
    Users = {u1, u2}
    MaxTyped = 2
INVARIANTS NoZombieForgotten ConnectionsAreOwned EchoIsExact
PROPERTIES QuitIsObeyed NobodyHoldsTheServer
\* every process may have ended, and idle clients stay idle
CHECK_DEADLOCK FALSE
