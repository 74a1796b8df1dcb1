SPECIFICATION PollFairSpec
CONSTANTS
    Fd = {4, 5, 6}
    MaxClients = 4
    MaxRx = 1
    PollSize = 4
    PollMayFail = TRUE
    MAX_EVENT = 2
    FD_SETSIZE = 7
    listenfd = 3
    infd = 0
INVARIANTS EveryConnectionIsPolled ReportIsFresh
PROPERTIES InnerClientsServed
\* the server ends when accept fails
CHECK_DEADLOCK FALSE
