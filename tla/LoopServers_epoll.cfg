SPECIFICATION EpollFairSpec
CONSTANTS
    Fd = {5, 6, 7}
    MaxClients = 4
    MaxRx = 1
    MAX_EVENT = 2
    listenfd = 3
    PollSize = 4
    PollMayFail = TRUE
    FD_SETSIZE = 8
    infd = 0
INVARIANTS EventsStayTrue NoEventLost
PROPERTIES EpollClientsServed
\* the server ends when accept fails and with SIGPIPE
CHECK_DEADLOCK FALSE
