----------------------------- MODULE LoopServers -----------------------------
(***************************************************************************)
(* The loops of socketpoll/Socket.cpp that serve everybody in one thread.  *)
(* They are members of one class, and a program calls one of them: what    *)
(* the others would keep is then not there.  SelectServer is checked by    *)
(* itself; here are the runs of the other two.  The array of Socket::poll  *)
(* has a size of its own, so that what is assumed of select's table says   *)
(* nothing about it.                                                       *)
(***************************************************************************)
EXTENDS SelectServer

CONSTANTS PollSize, PollMayFail, MAX_EVENT

VARIABLES fds, revents,      \* of Socket::poll
          ready, event, n    \* of Socket::epoll

Poll == INSTANCE PollServer WITH FD_SETSIZE <- PollSize
Epoll == INSTANCE EpollServer

ASSUME LoopAssumption == Poll!PollAssumption /\ Epoll!EpollAssumption

selectOnly == <<client, allset, maxfd, rset, allconnfd, tty>>
pollOnly == <<fds, revents>>
epollOnly == <<ready, event, n>>
loopVars == <<vars, pollOnly, epollOnly>>

NoSelect ==
    /\ client = <<>> /\ allset = {} /\ maxfd = 0
    /\ rset = {} /\ allconnfd = 0 /\ tty = "none"
NoPoll == fds = <<>> /\ revents = <<>>
NoEpoll == ready = <<>> /\ event = <<>> /\ n = 0

-----------------------------------------------------------------------------
(* A program that calls poll *)

PollInit == Poll!Init /\ NoSelect /\ NoEpoll

PollNext == Poll!Next /\ UNCHANGED <<selectOnly, epollOnly>>

PollSpec == PollInit /\ [][PollNext]_loopVars

\* As in PollServer: the server's thread is scheduled.
PollFairSpec == PollSpec /\ WF_(Poll!vars)(Poll!Server)

\* As PollServer says them.
EveryConnectionIsPolled == Poll!EveryConnectionIsPolled
ReportIsFresh == Poll!ReportIsFresh
InnerClientsServed == Poll!InnerClientsServed

-----------------------------------------------------------------------------
(* A program that calls epoll, as webServer does *)

EpollInit == Epoll!Init /\ NoSelect /\ NoPoll /\ maxi = 0 /\ nready = 0 /\ i = 0

EpollNext == Epoll!Next /\ UNCHANGED <<selectOnly, pollOnly, maxi, nready, i>>

EpollSpec == EpollInit /\ [][EpollNext]_loopVars

\* As in EpollServer: the server's thread is scheduled.
EpollFairSpec == EpollSpec /\ WF_(Epoll!vars)(Epoll!Server)

\* As EpollServer says them.
EventsStayTrue == Epoll!EventsStayTrue
NoEventLost == Epoll!NoEventLost
EpollClientsServed == Epoll!AllClientsServed
=============================================================================
