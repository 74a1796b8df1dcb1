------------------------------ MODULE PollServer ------------------------------
(***************************************************************************)
(* Socket::poll of socketpoll/Socket.cpp (the version that is compiled):   *)
(* entry 0 of fds is the listening socket, the others are clients, and     *)
(* poll fills in the revents of the entries up to maxi only.  The array    *)
(* lives on the stack: revents of an entry poll has not visited yet is     *)
(* whatever was there.                                                     *)
(***************************************************************************)
EXTENDS Sockets

CONSTANTS FD_SETSIZE,
          PollMayFail   \* whether poll can return -1 (for want of memory)

None == -1   \* fd of a free entry

\* The usual limit of FD_SETSIZE descriptors leaves an entry for every
\* connection beside the listening socket and the standard streams.
PollAssumption ==
    /\ FD_SETSIZE \in Nat /\ Cardinality(Fd) < FD_SETSIZE
    /\ PollMayFail \in BOOLEAN

Entries == 1 .. FD_SETSIZE - 1

VARIABLES pc,
          fds,       \* the descriptor of each client entry
          revents,   \* entry |-> poll has reported something, 0 included
          maxi, nready, i

serverVars == <<pc, fds, revents, maxi, nready, i>>
vars == <<serverVars, sockVars>>

Init ==
    /\ SockInit
    /\ pc = "poll"
    /\ fds = [k \in Entries |-> None]
    /\ revents \in [0 .. FD_SETSIZE - 1 -> BOOLEAN]
    /\ maxi = 0 /\ nready = 0 /\ i = 1

-----------------------------------------------------------------------------
Polled(k) == IF k = 0 THEN backlog > 0 ELSE fds[k] # None /\ Ready(fds[k])

PollReturns ==
    LET report == {k \in 0 .. maxi : Polled(k)} IN
    /\ pc = "poll"
    /\ report # {}
    /\ revents' = [k \in DOMAIN revents |->
                     IF k <= maxi THEN k \in report ELSE revents[k]]
    /\ nready' = Cardinality(report)
    /\ pc' = "listen"
    /\ UNCHANGED <<fds, maxi, i, sockVars>>

\* The error is printed and the loop goes on with the revents of before.
PollFails ==
    /\ pc = "poll" /\ PollMayFail
    /\ nready' = -1
    /\ pc' = "listen"
    /\ UNCHANGED <<fds, revents, maxi, i, sockVars>>

NoNewClient ==
    /\ pc = "listen" /\ ~revents[0]
    /\ pc' = "clients" /\ i' = 1
    /\ UNCHANGED <<fds, revents, maxi, nready, sockVars>>

FreeEntry(k) == fds[k] = None /\ \A j \in Entries : fds[j] = None => k <= j

MaxiWith(k) == IF k > maxi THEN k ELSE maxi

\* accept, which waits for a client if there is none.
NewClient(f) ==
    /\ pc = "listen" /\ revents[0]
    /\ SysAccept(f)
    /\ \E k \in Entries :
         /\ FreeEntry(k)
         /\ fds' = [fds EXCEPT ![k] = f]
         /\ maxi' = MaxiWith(k)
    /\ nready' = nready - 1
    /\ pc' = IF nready - 1 <= 0 THEN "poll" ELSE "clients"
    /\ i' = 1
    /\ UNCHANGED revents

\* accept fails for want of a descriptor: exit(1).
AcceptFails ==
    /\ pc = "listen" /\ revents[0] /\ backlog > 0 /\ NoFdLeft
    /\ pc' = "exited"
    /\ SockExit
    /\ UNCHANGED <<fds, revents, maxi, nready, i>>

\* Mutants: the loop runs up to maxi; it ends one entry earlier still.
LoopedToMaxi == 1 .. maxi
LoopedShort == 1 .. maxi - 2

\* The loop ends before entry maxi.
Looped == 1 .. maxi - 1
Reported(k) == fds[k] # None /\ revents[k]

NextClient(k) ==
    /\ pc = "clients"
    /\ k \in Looped /\ k >= i /\ Reported(k)
    /\ \A j \in Looped : i <= j /\ j < k => ~Reported(j)

AfterClient(k) ==
    /\ nready' = nready - 1
    /\ pc' = IF nready - 1 = 0 THEN "poll" ELSE "clients"
    /\ i' = k + 1

LoopDone ==
    /\ pc = "clients"
    /\ \A k \in Looped : k >= i => ~Reported(k)
    /\ pc' = "poll"
    /\ UNCHANGED <<fds, revents, maxi, nready, i, sockVars>>

ReadClient(k) ==
    /\ NextClient(k)
    /\ ReadChunk(fds[k])
    /\ pc' = "echo" /\ i' = k
    /\ UNCHANGED <<fds, revents, maxi, nready>>

\* Mutant: the entry is not freed.
NotFreed(k) == fds

Freed(k) == [fds EXCEPT ![k] = None]

DropClient(k) ==
    /\ NextClient(k)
    /\ ReadEnds(fds[k])
    /\ SysClose(fds[k])
    /\ fds' = Freed(k)
    /\ AfterClient(k)
    /\ UNCHANGED <<revents, maxi>>

\* writen; SIGPIPE is ignored and its result is not looked at.
Echo ==
    /\ pc = "echo"
    /\ AfterClient(i)
    /\ UNCHANGED <<fds, revents, maxi, sockVars>>

-----------------------------------------------------------------------------
Running == pc # "exited"

Environment ==
    /\ Running
    /\ Connect \/ \E f \in Fd : Send(f) \/ Finish(f) \/ Reset(f)
    /\ UNCHANGED serverVars

Server ==
    \/ PollReturns \/ PollFails \/ NoNewClient \/ AcceptFails \/ LoopDone \/ Echo
    \/ \E f \in Fd : NewClient(f)
    \/ \E k \in Entries : ReadClient(k) \/ DropClient(k)

Next == Server \/ Environment

Spec == Init /\ [][Next]_vars

\* The server's thread is scheduled; clients need not act.
FairSpec == Spec /\ WF_vars(Server)

-----------------------------------------------------------------------------
\* Types.
TypeOK ==
    /\ SockTypeOK
    /\ pc \in {"poll", "listen", "clients", "echo", "exited"}
    /\ fds \in [Entries -> Fd \cup {None}]
    /\ revents \in [0 .. FD_SETSIZE - 1 -> BOOLEAN]
    /\ maxi \in 0 .. FD_SETSIZE - 1
    /\ nready \in -FD_SETSIZE .. FD_SETSIZE
    /\ i \in 1 .. FD_SETSIZE

Used == {k \in Entries : fds[k] # None}

\* Types; and every open connection has one entry that poll looks at, and no entry names
\* a descriptor that is closed or belongs to another entry too.
EveryConnectionIsPolled ==
    /\ TypeOK
    /\ Running =>
      /\ {fds[k] : k \in Used} = open
      /\ Cardinality(Used) = Cardinality(open)
      /\ \A k \in Used : k <= maxi

\* After a poll that did not fail, neither accept nor the read of a client
\* blocks the server: no revents left from an earlier client of the entry, and
\* none that poll never wrote, is taken for a report.
ReportIsFresh ==
    /\ pc = "listen" /\ nready > 0 /\ revents[0] => backlog > 0
    /\ pc = "clients" /\ nready > 0 => \A k \in Looped : k >= i /\ Reported(k) => Ready(fds[k])

\* A request is read, and a connection its client has ended is closed, unless
\* the server ends first.
Served(f) == ~Running \/ rx[f] = 0 \/ (pc = "echo" /\ fds[i] = f)
AllClientsServed ==
    \A f \in Fd : (rx[f] > 0 ~> Served(f)) /\ (peer[f] # "up" ~> ~Running \/ peer[f] = "up")

\* What the loop does achieve, unless poll fails some time: the clients below
\* entry maxi are served.
Below(f) == \E k \in Used : k < maxi /\ fds[k] = f
InnerClientsServed ==
    <>(nready < 0) \/ \A f \in Fd :
      /\ rx[f] > 0 /\ Below(f) ~> Served(f)
      /\ peer[f] # "up" /\ Below(f) ~> ~Running \/ peer[f] = "up"
=============================================================================
