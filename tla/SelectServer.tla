----------------------------- MODULE SelectServer -----------------------------
(***************************************************************************)
(* Socket::select of socketpoll/Socket.cpp: one thread, a table of client  *)
(* descriptors, a set to watch, and a loop over whatever select reports:   *)
(* the listening socket, the terminal, then the clients in table order.    *)
(* The clients go on sending and closing while the loop works through the  *)
(* report of a moment ago.                                                 *)
(***************************************************************************)
EXTENDS Sockets

CONSTANTS FD_SETSIZE, listenfd, infd

None == -1   \* a free entry of the table

\* The process may open no more than FD_SETSIZE descriptors (the usual limit),
\* so the table has an entry for every connection.
ASSUME SelectAssumption ==
    /\ FD_SETSIZE \in Nat
    /\ Fd \cup {listenfd, infd} \subseteq 0 .. FD_SETSIZE - 1
    /\ listenfd # infd /\ Fd \cap {listenfd, infd} = {}

VARIABLES pc,
          client, maxi,      \* the table and its highest index ever used
          allset, maxfd,     \* descriptors to watch, and the highest of them
          rset, nready,      \* the last report of select
          i,                 \* the loop over the table
          allconnfd,         \* number of clients
          tty                \* the line typed at the terminal, if any

serverVars == <<pc, client, maxi, allset, maxfd, rset, nready, i, allconnfd, tty>>
vars == <<serverVars, sockVars>>

Slots == 0 .. FD_SETSIZE - 1
Larger(a, b) == IF a > b THEN a ELSE b

Init ==
    /\ SockInit
    /\ pc = "select"
    /\ client = [k \in Slots |-> None] /\ maxi = -1
    /\ allset = {listenfd, infd} /\ maxfd = Larger(listenfd, infd)
    /\ rset = {} /\ nready = 0
    /\ i = 0
    /\ allconnfd = 0
    /\ tty = "none"

-----------------------------------------------------------------------------
Readable(x) ==
    CASE x = listenfd -> backlog > 0
      [] x = infd     -> tty # "none"
      [] OTHER        -> Ready(x)

\* select returns; it looks at no descriptor above maxfd.
SelectReturns ==
    LET report == {x \in allset : x <= maxfd /\ Readable(x)} IN
    /\ pc = "select"
    /\ report # {}
    /\ rset' = report /\ nready' = Cardinality(report)
    /\ pc' = "listen"
    /\ UNCHANGED <<client, maxi, allset, maxfd, i, allconnfd, tty, sockVars>>

NoNewClient ==
    /\ pc = "listen" /\ listenfd \notin rset
    /\ pc' = "tty"
    /\ UNCHANGED <<client, maxi, allset, maxfd, rset, nready, i, allconnfd, tty, sockVars>>

FreeSlot(k) == client[k] = None /\ \A j \in Slots : client[j] = None => k <= j

\* Mutants: maxfd does not follow; the new descriptor is put into the report.
MaxfdStays(f) == maxfd
RsetWith(f) == rset \cup {f}

MaxfdWith(f) == Larger(f, maxfd)
RsetAfterAccept(f) == rset

NewClient(f) ==
    /\ pc = "listen" /\ listenfd \in rset
    /\ SysAccept(f)
    /\ \E k \in Slots :
         /\ FreeSlot(k)
         /\ client' = [client EXCEPT ![k] = f]
         /\ maxi' = Larger(k, maxi)
    /\ allconnfd' = allconnfd + 1
    /\ allset' = allset \cup {f}
    /\ maxfd' = MaxfdWith(f)
    /\ rset' = RsetAfterAccept(f)
    /\ nready' = nready - 1
    /\ pc' = IF nready - 1 <= 0 THEN "select" ELSE "tty"
    /\ UNCHANGED <<i, tty>>

\* accept fails for want of a descriptor: back to select, past the clients.
AcceptFails ==
    /\ pc = "listen" /\ listenfd \in rset
    /\ backlog > 0 /\ NoFdLeft
    /\ pc' = "select"
    /\ UNCHANGED <<client, maxi, allset, maxfd, rset, nready, i, allconnfd, tty, sockVars>>

\* A line from the terminal does not count in nready.
Terminal ==
    /\ pc = "tty"
    /\ tty' = IF infd \in rset THEN "none" ELSE tty
    /\ pc' = IF infd \in rset /\ tty = "quit" THEN "endmain" ELSE "clients"
    /\ i' = 0
    /\ UNCHANGED <<client, maxi, allset, maxfd, rset, nready, allconnfd, sockVars>>

Reported(k) == client[k] # None /\ client[k] \in rset

\* The next entry of the table that select has reported.
NextClient(k) ==
    /\ pc = "clients"
    /\ k \in i .. maxi /\ Reported(k)
    /\ \A j \in i .. k - 1 : ~Reported(j)

AfterClient(k) ==
    /\ nready' = nready - 1
    /\ pc' = IF nready - 1 <= 0 THEN "select" ELSE "clients"
    /\ i' = k + 1

TableDone ==
    /\ pc = "clients"
    /\ \A k \in i .. maxi : ~Reported(k)
    /\ pc' = "select"
    /\ UNCHANGED <<client, maxi, allset, maxfd, rset, nready, i, allconnfd, tty, sockVars>>

ReadClient(k) ==
    /\ NextClient(k)
    /\ ReadChunk(client[k])
    /\ pc' = "echo" /\ i' = k
    /\ UNCHANGED <<client, maxi, allset, maxfd, rset, nready, allconnfd, tty>>

\* Mutant: no FD_CLR.
StillWatched(f) == allset

FdClr(f) == allset \ {f}

DropClient(k) ==
    /\ NextClient(k)
    /\ ReadEnds(client[k])
    /\ SysClose(client[k])
    /\ allset' = FdClr(client[k])
    /\ client' = [client EXCEPT ![k] = None]
    /\ allconnfd' = allconnfd - 1
    /\ AfterClient(k)
    /\ UNCHANGED <<maxi, maxfd, rset, tty>>

\* writen, whose result nobody looks at.
Echo ==
    /\ pc = "echo"
    /\ AfterClient(i)
    /\ UNCHANGED <<client, maxi, allset, maxfd, rset, allconnfd, tty, sockVars>>

\* SIGPIPE is not ignored: writing to a reset connection may end the process.
EchoKills ==
    /\ pc = "echo" /\ peer[client[i]] = "rst"
    /\ pc' = "killed"
    /\ SockExit
    /\ UNCHANGED <<client, maxi, allset, maxfd, rset, nready, i, allconnfd, tty>>

ClosedAtEnd == {client[k] : k \in 0 .. maxi} \ {None}

\* endmain: close what the table holds up to maxi, then the listening socket.
EndMain ==
    /\ pc = "endmain"
    /\ Closing(ClosedAtEnd)
    /\ backlog' = 0
    /\ pc' = "done"
    /\ UNCHANGED <<client, maxi, allset, maxfd, rset, nready, i, allconnfd, tty>>

-----------------------------------------------------------------------------
Running == pc \notin {"done", "killed"}

Type(line) ==
    /\ tty = "none"
    /\ tty' = line
    /\ UNCHANGED <<pc, client, maxi, allset, maxfd, rset, nready, i, allconnfd, sockVars>>

Environment ==
    /\ Running
    /\ \/ Connect /\ UNCHANGED serverVars
       \/ \E f \in Fd : (Send(f) \/ Finish(f) \/ Reset(f)) /\ UNCHANGED serverVars
       \/ \E line \in {"quit", "client", "other"} : Type(line)

Server ==
    \/ SelectReturns \/ NoNewClient \/ AcceptFails \/ Terminal \/ TableDone
    \/ Echo \/ EchoKills \/ EndMain
    \/ \E f \in Fd : NewClient(f)
    \/ \E k \in Slots : ReadClient(k) \/ DropClient(k)

Next == Server \/ Environment

Spec == Init /\ [][Next]_vars

\* The server's thread is scheduled; clients and the terminal need not act.
FairSpec == Spec /\ WF_vars(Server)

-----------------------------------------------------------------------------
\* Types.
TypeOK ==
    /\ SockTypeOK
    /\ pc \in {"select", "listen", "tty", "clients", "echo", "endmain", "done", "killed"}
    /\ client \in [Slots -> Fd \cup {None}]
    /\ maxi \in -1 .. FD_SETSIZE - 1
    /\ allset \subseteq Fd \cup {listenfd, infd}
    /\ maxfd \in 0 .. FD_SETSIZE - 1
    /\ rset \subseteq Fd \cup {listenfd, infd}
    /\ nready \in 0 .. FD_SETSIZE
    /\ i \in 0 .. FD_SETSIZE
    /\ allconnfd \in 0 .. FD_SETSIZE
    /\ tty \in {"none", "quit", "client", "other"}

Table == {k \in Slots : client[k] # None}

\* Types; and every open connection has one entry of the table, at or below maxi,
\* and is watched, at or below maxfd; nothing else is watched (a closed descriptor in
\* the set would make select fail and the server exit); and allconnfd counts
\* them.
EveryConnectionIsWatched ==
    /\ TypeOK
    /\ Running =>
      /\ {client[k] : k \in Table} = open
      /\ Cardinality(Table) = Cardinality(open) /\ allconnfd = Cardinality(open)
      /\ \A k \in Table : k <= maxi
      /\ allset = open \cup {listenfd, infd}
      /\ \A x \in allset : x <= maxfd

\* A report is acted on some time after select made it, yet neither accept nor
\* the read of a client can block the one thread of the server: what was
\* readable still is, and no descriptor in the report has been closed and
\* given to another connection meanwhile. And the count that lets the loop stop
\* early does not stop it before the last client reported.
ReportStaysTrue ==
    /\ pc = "listen" /\ listenfd \in rset => backlog > 0
    /\ pc = "clients" => \A k \in i .. maxi : Reported(k) => Ready(client[k])
    /\ pc = "clients" => nready >= Cardinality({k \in i .. maxi : Reported(k)})

\* A request is read, and a connection its client has ended is closed, unless
\* the server ends first.
Served(f) == ~Running \/ rx[f] = 0 \/ (pc = "echo" /\ client[i] = f)
AllClientsServed ==
    \A f \in Fd : (rx[f] > 0 ~> Served(f)) /\ (peer[f] # "up" ~> ~Running \/ peer[f] = "up")

\* The same, unless at last there is always a client waiting for which no
\* descriptor is left.
ServedWhileDescriptorsLast ==
    <>[](backlog > 0 /\ NoFdLeft) \/ AllClientsServed
=============================================================================
