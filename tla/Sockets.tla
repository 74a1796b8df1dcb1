-------------------------------- MODULE Sockets --------------------------------
(***************************************************************************)
(* The kernel's side of the servers in socketpoll/Socket.cpp, and their    *)
(* clients: the listening queue, the connections the server has accepted,  *)
(* what waits in them to be read and what the peer has done.  Data is      *)
(* counted in chunks of one read(MAXLINE).  What a client sends before     *)
(* its connection is accepted is modelled as sent right afterwards, which  *)
(* the server cannot tell apart.  A write never blocks: the clients take   *)
(* their answers.                                                          *)
(***************************************************************************)
EXTENDS Integers, FiniteSets

CONSTANTS Fd,          \* descriptors left for connections (RLIMIT_NOFILE)
          MaxClients,  \* bound: connections queued or accepted at a time
          MaxRx        \* bound: chunks sent and not yet read, per connection

ASSUME SocketsAssumption ==
    /\ Fd \subseteq Nat /\ IsFiniteSet(Fd)
    /\ MaxClients \in Nat /\ MaxRx \in Nat \ {0}

VARIABLES backlog,   \* connections established and not accepted
          open,      \* descriptors of accepted connections
          rx,        \* chunks waiting in each connection
          peer       \* "up", "fin": the client has closed, "rst": it has reset

sockVars == <<backlog, open, rx, peer>>

Quiet == [f \in Fd |-> 0]
AllUp == [f \in Fd |-> "up"]

SockInit == backlog = 0 /\ open = {} /\ rx = Quiet /\ peer = AllUp

SockTypeOK ==
    /\ backlog \in 0 .. MaxClients
    /\ open \subseteq Fd
    /\ rx \in [Fd -> 0 .. MaxRx]
    /\ peer \in [Fd -> {"up", "fin", "rst"}]

-----------------------------------------------------------------------------
(* What clients do, at any moment. *)

Connect ==
    /\ backlog + Cardinality(open) < MaxClients
    /\ backlog' = backlog + 1
    /\ UNCHANGED <<open, rx, peer>>

Send(f) ==
    /\ f \in open /\ peer[f] = "up" /\ rx[f] < MaxRx
    /\ rx' = [rx EXCEPT ![f] = @ + 1]
    /\ UNCHANGED <<backlog, open, peer>>

Finish(f) ==
    /\ f \in open /\ peer[f] = "up"
    /\ peer' = [peer EXCEPT ![f] = "fin"]
    /\ UNCHANGED <<backlog, open, rx>>

Reset(f) ==
    /\ f \in open /\ peer[f] # "rst"
    /\ peer' = [peer EXCEPT ![f] = "rst"]
    /\ UNCHANGED <<backlog, open, rx>>

-----------------------------------------------------------------------------
(* The system calls, as far as they change the sockets. *)

\* read(f) returns at once: data, end of file or an error.
Ready(f) == rx[f] > 0 \/ peer[f] # "up"

NoFdLeft == open = Fd

\* accept returns the lowest free descriptor; it blocks while nobody waits.
SysAccept(f) ==
    /\ backlog > 0
    /\ f \in Fd \ open /\ \A g \in Fd \ open : f <= g
    /\ backlog' = backlog - 1
    /\ open' = open \cup {f}
    /\ UNCHANGED <<rx, peer>>

\* read of one chunk; what a reset connection has received can still be read.
ReadChunk(f) ==
    /\ rx[f] > 0
    /\ rx' = [rx EXCEPT ![f] = @ - 1]
    /\ UNCHANGED <<backlog, open, peer>>

\* read returns 0 or -1.
ReadEnds(f) == rx[f] = 0 /\ peer[f] # "up"

Closing(F) ==
    /\ open' = open \ F
    /\ rx' = [f \in Fd |-> IF f \in F THEN 0 ELSE rx[f]]
    /\ peer' = [f \in Fd |-> IF f \in F THEN "up" ELSE peer[f]]

SysClose(f) == Closing({f}) /\ UNCHANGED backlog

\* The process ends: the queue and every connection go with it.
SockExit == backlog' = 0 /\ Closing(Fd)
=============================================================================
