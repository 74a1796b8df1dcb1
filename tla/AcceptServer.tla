----------------------------- MODULE AcceptServer -----------------------------
(***************************************************************************)
(* Socket::accept of socketpoll/Socket.cpp: the main thread accepts        *)
(* connections and pushes task(fd) into the thread pool; each worker that  *)
(* pops one reads the request, writes the answer and closes the            *)
(* descriptor.  Composes ThreadPoll with Sockets.                          *)
(***************************************************************************)
EXTENDS Sockets

CONSTANTS Workers, Main, NULL, NoThread, InitCapa, MaxStale,
          Silent   \* connections whose client neither sends nor closes

\* The pool of this server is one as ThreadPoll has it.
ASSUME AcceptAssumption ==
    /\ Silent \subseteq Fd
    /\ IsFiniteSet(Workers) /\ Main \notin Workers
    /\ NoThread \notin Workers \cup {Main} /\ NULL \notin Fd
    /\ InitCapa \in Nat \ {0} /\ MaxStale \in Nat

VARIABLES taskQueue, size_queue, capa_queue, pop_queue, push_queue,
          semsnet, lock_queue, pc, arg,
          at        \* where a worker is inside task(fd)

poolVars == <<taskQueue, size_queue, capa_queue, pop_queue, push_queue,
              semsnet, lock_queue, pc, arg>>
vars == <<poolVars, sockVars, at>>

\* A task is task(fd) for a descriptor; the queue never holds more tasks than
\* there are descriptors, so the pool's own bound is idle here.
Pool == INSTANCE ThreadPoll WITH
    Producers <- {Main}, Task <- Fd, MaxTasks <- Cardinality(Fd) + 1

AtRead == [w \in Workers |-> "read"]

Init == Pool!Init /\ SockInit /\ at = AtRead

-----------------------------------------------------------------------------
(* The main thread: accept, then the steps of push_back. *)

Accept(f) ==
    /\ SysAccept(f)
    /\ Pool!PushCall(Main, f)
    /\ UNCHANGED at

Push == Pool!ProducerStep(Main) /\ UNCHANGED <<sockVars, at>>

ProcessEnds ==
    /\ Pool!Restart
    /\ SockExit
    /\ at' = AtRead

\* accept without a free descriptor: exit(-1).
AcceptFails ==
    /\ pc[Main] = "idle" /\ backlog > 0 /\ NoFdLeft
    /\ ProcessEnds

\* on_input: 'Q' or the end of the keyboard input.
KeyboardQuit == ProcessEnds

-----------------------------------------------------------------------------
(* The workers: pop_front, then task(fd). *)

Pop(w) ==
    /\ Pool!PopWait(w) \/ Pool!PopLock(w) \/ Pool!PopTake(w)
       \/ Pool!PopEmpty(w) \/ Pool!PopNext(w)
    /\ UNCHANGED <<sockVars, at>>

InTask(w, step) == pc[w] = "run" /\ at[w] = step

\* Mutant: the end of the connection is not taken for something to read.
ReadReturnsData(w) == rx[arg[w]] > 0

ReadReturns(w) == Ready(arg[w])

\* One read of up to BUFSIZ bytes takes all there is; it blocks while the
\* connection is silent.
TaskRead(w) ==
    /\ InTask(w, "read") /\ ReadReturns(w)
    /\ rx' = [rx EXCEPT ![arg[w]] = 0]
    /\ at' = [at EXCEPT ![w] = "write"]
    /\ UNCHANGED <<poolVars, backlog, open, peer>>

\* Mutant: the descriptor is closed with the answer already.
TaskWriteCloses(w) ==
    /\ InTask(w, "write")
    /\ SysClose(arg[w])
    /\ at' = [at EXCEPT ![w] = "close"]
    /\ UNCHANGED poolVars

\* A write that succeeds or fails unnoticed.
TaskWrite(w) ==
    /\ InTask(w, "write")
    /\ at' = [at EXCEPT ![w] = "close"]
    /\ UNCHANGED <<poolVars, sockVars>>

\* A write to a connection that was reset raises SIGPIPE, which nothing
\* ignores here: the process ends.
TaskKilled(w) ==
    /\ InTask(w, "write") /\ peer[arg[w]] = "rst"
    /\ ProcessEnds

TaskClose(w) ==
    /\ InTask(w, "close")
    /\ SysClose(arg[w])
    /\ Pool!RunTask(w)
    /\ at' = [at EXCEPT ![w] = "read"]

-----------------------------------------------------------------------------
Client(f) == f \notin Silent /\ (Send(f) \/ Finish(f) \/ Reset(f))

Clients == (Connect \/ \E f \in Fd : Client(f)) /\ UNCHANGED <<poolVars, at>>

MainStep == Push \/ AcceptFails \/ \E f \in Fd : Accept(f)

WorkerStep(w) == Pop(w) \/ TaskRead(w) \/ TaskWrite(w) \/ TaskClose(w)

Next ==
    \/ Clients
    \/ MainStep
    \/ KeyboardQuit
    \/ \E w \in Workers : WorkerStep(w) \/ TaskKilled(w)

Spec == Init /\ [][Next]_vars

\* Threads run, and a client that is not silent sends or closes at last.
FairSpec ==
    /\ Spec
    /\ WF_vars(MainStep)
    /\ \A w \in Workers : WF_vars(WorkerStep(w))
    /\ \A f \in Fd :
         WF_vars(f \notin Silent /\ (Send(f) \/ Finish(f)) /\ UNCHANGED <<poolVars, at>>)

-----------------------------------------------------------------------------
\* A thread has a descriptor in hand: the main thread until it has stored it
\* in the ring, a worker from taking it until it has closed it.
Holds(th) == pc[th] \in {"push_lock", "push_store", "pop_next", "run"}

Owners(f) ==
    Cardinality({i \in DOMAIN taskQueue : taskQueue[i] = f})
    + Cardinality({th \in Pool!Threads : Holds(th) /\ arg[th] = f})

\* A connection that is open belongs to exactly one place and a descriptor
\* that is not open to none, although its number is used again as soon as a
\* worker has closed it: no connection is lost, none is answered or closed
\* twice, and no worker touches the connection of another.
OneOwner == \A f \in Fd : Owners(f) = IF f \in open THEN 1 ELSE 0

\* A worker that is blocked in read waits for its own client only: whoever
\* else has sent a request is answered, as long as fewer clients are silent
\* than there are workers.
Answered ==
    \A f \in Fd \ Silent : f \in open ~> f \notin open
=============================================================================
