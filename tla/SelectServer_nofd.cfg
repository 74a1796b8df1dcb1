\* Descriptors 0 and 1 are the listening socket and the terminal, the rest are
\* left for connections.
SPECIFICATION FairSpec
CONSTANTS
    Fd = {2, 3}
    MaxClients = 3
    MaxRx = 1
    FD_SETSIZE = 4
    listenfd = 0
    infd = 1
PROPERTIES AllClientsServed
\* the server ends with "quit" or SIGPIPE
CHECK_DEADLOCK FALSE
