------------------------------ MODULE EpollServer ------------------------------
(***************************************************************************)
(* Socket::epoll of socketpoll/Socket.cpp, the server that webServer runs: *)
(* one thread takes events in batches; the listening socket is watched     *)
(* level-triggered and gives one connection per event, a connection is     *)
(* watched edge-triggered and is over with its first event, because        *)
(* task(fd) reads once, answers and closes.                                *)
(***************************************************************************)
EXTENDS Sockets, Sequences, SequencesExt

CONSTANTS MAX_EVENT, listenfd

\* The listening socket is none of the connections.
EpollAssumption == MAX_EVENT \in Nat \ {0} /\ listenfd \in Nat \ Fd

VARIABLES pc,
          ready,    \* the kernel's list of descriptors with an event, in order
          event, n  \* the batch being worked through

serverVars == <<pc, ready, event, n>>
vars == <<serverVars, sockVars>>

Init ==
    /\ SockInit
    /\ pc = "wait"
    /\ ready = <<>> /\ event = <<>> /\ n = 1

-----------------------------------------------------------------------------
(* The kernel's list: a client's action puts the descriptor at its end,     *)
(* unless it is there; a level-triggered descriptor that was reported goes  *)
(* back to the end and leaves the list when it turns out not to be ready.   *)

Noted(x) == IF Contains(ready, x) THEN ready ELSE Append(ready, x)

Place(x) == CHOOSE k \in DOMAIN ready : ready[k] = x

Without(x) == IF Contains(ready, x) THEN RemoveAt(ready, Place(x)) ELSE ready

HasEvent(x) == IF x = listenfd THEN backlog > 0 ELSE Ready(x)

\* epoll_wait looks at no more of the list than there is room for.
BatchSize == IF Len(ready) < MAX_EVENT THEN Len(ready) ELSE MAX_EVENT

\* It goes on to the next when the one it looks at is not ready after all.
EpollSkips(x) ==
    /\ pc = "wait"
    /\ ~HasEvent(x) /\ \E k \in 1 .. BatchSize : ready[k] = x
    /\ ready' = Without(x)
    /\ UNCHANGED <<pc, event, n, sockVars>>

EpollWait ==
    LET taken == SubSeq(ready, 1, BatchSize)
        rest  == SubSeq(ready, BatchSize + 1, Len(ready))
    IN
    /\ pc = "wait"
    /\ ready # <<>> /\ \A k \in 1 .. BatchSize : HasEvent(ready[k])
    /\ event' = taken /\ n' = 1
    /\ ready' = IF Contains(taken, listenfd) THEN Append(rest, listenfd) ELSE rest
    /\ pc' = "batch"
    /\ UNCHANGED sockVars

-----------------------------------------------------------------------------
(* The batch *)

Current(x) == pc = "batch" /\ n <= Len(event) /\ event[n] = x

\* Mutant: the last event of the batch is left out.
BatchDoneEarly ==
    /\ pc = "batch" /\ n >= Len(event)
    /\ pc' = "wait"
    /\ UNCHANGED <<ready, event, n, sockVars>>

BatchDone ==
    /\ pc = "batch" /\ n > Len(event)
    /\ pc' = "wait"
    /\ UNCHANGED <<ready, event, n, sockVars>>

\* Mutant: accept is called again for the same event.
NewClientAgain(f) ==
    /\ Current(listenfd)
    /\ SysAccept(f)
    /\ UNCHANGED serverVars

\* EPOLL_CTL_ADD: a connection that has just been accepted is quiet.
NewClient(f) ==
    /\ Current(listenfd)
    /\ SysAccept(f)
    /\ n' = n + 1
    /\ UNCHANGED <<pc, ready, event>>

\* accept fails for want of a descriptor: exit(1).
AcceptFails ==
    /\ Current(listenfd) /\ backlog > 0 /\ NoFdLeft
    /\ SockExit
    /\ pc' = "exited"
    /\ UNCHANGED <<ready, event, n>>

\* Mutant: the end of the connection is not taken for something to read.
ReadReturnsData(f) == rx[f] > 0

ReadReturns(f) == Ready(f)

\* task(fd): one read of up to BUFSIZ bytes takes all there is ...
TaskRead(f) ==
    /\ Current(f) /\ f # listenfd
    /\ ReadReturns(f)
    /\ rx' = [rx EXCEPT ![f] = 0]
    /\ pc' = "write"
    /\ UNCHANGED <<backlog, open, peer, ready, event, n>>

\* ... one write, whose result nobody looks at ...
TaskWrite ==
    /\ pc = "write"
    /\ pc' = "close"
    /\ UNCHANGED <<ready, event, n, sockVars>>

\* ... which ends the process if the connection was reset: nothing ignores
\* SIGPIPE ...
TaskKilled ==
    /\ pc = "write" /\ peer[event[n]] = "rst"
    /\ SockExit
    /\ pc' = "killed"
    /\ UNCHANGED <<ready, event, n>>

\* ... and close, which takes the descriptor out of the kernel's list.
TaskClose ==
    /\ pc = "close"
    /\ SysClose(event[n])
    /\ ready' = Without(event[n])
    /\ n' = n + 1
    /\ pc' = "batch"
    /\ UNCHANGED event

-----------------------------------------------------------------------------
Running == pc \notin {"exited", "killed"}

Environment ==
    /\ Running
    /\ \/ Connect /\ ready' = Noted(listenfd)
       \/ \E f \in Fd : (Send(f) \/ Finish(f) \/ Reset(f)) /\ ready' = Noted(f)
    /\ UNCHANGED <<pc, event, n>>

Server ==
    \/ EpollWait \/ BatchDone \/ AcceptFails \/ TaskWrite \/ TaskKilled \/ TaskClose
    \/ \E f \in Fd : NewClient(f) \/ TaskRead(f)
    \/ \E x \in Fd \cup {listenfd} : EpollSkips(x)

Next == Server \/ Environment

Spec == Init /\ [][Next]_vars

\* The server's thread is scheduled; clients need not act.
FairSpec == Spec /\ WF_vars(Server)

-----------------------------------------------------------------------------
\* Types.
TypeOK ==
    /\ SockTypeOK
    /\ pc \in {"wait", "batch", "write", "close", "exited", "killed"}
    /\ ready \in Seq(Fd \cup {listenfd})
    /\ event \in Seq(Fd \cup {listenfd}) /\ Len(event) <= MAX_EVENT
    /\ n \in 1 .. MAX_EVENT + 1

\* Events still to be handled in the batch.
Left == {k \in n .. Len(event) : pc = "batch" \/ (pc \in {"write", "close"} /\ k > n)}

\* Types; and although an event is handled after others of its batch have closed descriptors and
\* accepted new ones under the same numbers, it still means the connection it
\* was reported for, and neither accept nor read can block the server.
EventsStayTrue ==
    /\ TypeOK
    /\ \A k \in Left : IF event[k] = listenfd THEN backlog > 0
                       ELSE event[k] \in open /\ Ready(event[k])

\* No connection is forgotten by the edge-triggered watch, which reports it
\* once: as long as it can be read it is in the kernel's list or in the batch,
\* and a waiting client keeps the listening socket in the list.
NoEventLost ==
    Running =>
      /\ \A f \in open : Ready(f) => \/ Contains(ready, f)
                                     \/ \E k \in n .. Len(event) : event[k] = f
      /\ backlog > 0 => Contains(ready, listenfd)

\* Whoever has sent or closed is answered and closed, unless the server ends:
\* neither new clients nor long batches keep a connection waiting for ever.
AllClientsServed == \A f \in Fd : (f \in open /\ Ready(f)) ~> (f \notin open)
=============================================================================
