SPECIFICATION FairSpec
CONSTANTS
    Fd = {4, 5}
    MaxClients = 2
    MaxRx = 1
    FD_SETSIZE = 3
    PollMayFail = FALSE
PROPERTIES AllClientsServed
\* the server ends when accept fails
CHECK_DEADLOCK FALSE
