------------------------------ MODULE ThreadPoll ------------------------------
(***************************************************************************)
(* The thread pool of socketpoll/ThreadPoll.cpp: a growable ring of tasks  *)
(* guarded by the mutex lock_queue, and a named POSIX semaphore that       *)
(* counts the tasks for the worker threads of waitpoll.  Threads are       *)
(* interleaved at the points where they meet: taking the mutex, the store  *)
(* into (or load from) the ring, the update of the indices that ends with  *)
(* the unlock, and the semaphore calls, which are made WITHOUT the mutex.  *)
(***************************************************************************)
EXTENDS Integers, FiniteSets

CONSTANTS Producers,   \* threads that call push_back
          Workers,     \* threads that run waitpoll
          Task,        \* the (function, para) pairs that are pushed
          NULL,        \* function == NULL: an empty slot, or nothing popped
          NoThread,    \* lock_queue is free
          InitCapa,    \* capa_queue of a new process (5 in the code)
          MaxTasks,    \* bound: no push starts with this many tasks queued
          MaxStale     \* bound: tokens a restart may leave in the semaphore

Threads == Producers \cup Workers

ASSUME ThreadsAssumption ==
    /\ IsFiniteSet(Producers) /\ IsFiniteSet(Workers)
    /\ Producers \cap Workers = {}
    /\ NoThread \notin Threads

ASSUME TaskAssumption == NULL \notin Task

ASSUME SizeAssumption ==
    InitCapa \in Nat \ {0} /\ MaxTasks \in Nat /\ MaxStale \in Nat

VARIABLES taskQueue,   \* the slots 0 .. capa_queue-1
          size_queue, capa_queue, pop_queue, push_queue,
          semsnet,     \* value of the named semaphore; outlives the process
          lock_queue,  \* the thread that holds the mutex, or NoThread
          pc,          \* where each thread is
          arg          \* push_back's (f, a); the task a worker has popped

vars == <<taskQueue, size_queue, capa_queue, pop_queue, push_queue,
          semsnet, lock_queue, pc, arg>>

queueVars == <<taskQueue, size_queue, capa_queue, pop_queue, push_queue>>

-----------------------------------------------------------------------------
\* A process that has just started: its statics are initialised and every
\* worker is about to wait.
EmptyRing == [i \in 0 .. InitCapa - 1 |-> NULL]
StartPc == [th \in Threads |-> IF th \in Producers THEN "idle" ELSE "pop_wait"]
NoArgs == [th \in Threads |-> NULL]

FreshProcess ==
    /\ taskQueue = EmptyRing /\ size_queue = 0 /\ capa_queue = InitCapa
    /\ pop_queue = 0 /\ push_queue = 0
    /\ lock_queue = NoThread /\ pc = StartPc /\ arg = NoArgs

Init == FreshProcess /\ semsnet = 0

Goto(th, from, to) == pc[th] = from /\ pc' = [pc EXCEPT ![th] = to]

\* Mutant: the index is not brought back to 0.
SuccNoWrap(i) == i + 1

\* ++index, and back to 0 at the capacity.
Succ(i) == IF i + 1 = capa_queue THEN 0 ELSE i + 1

-----------------------------------------------------------------------------
(* push_back *)

\* The call, up to the mutex.
PushCall(p, a) ==
    /\ Goto(p, "idle", "push_lock")
    /\ size_queue < MaxTasks
    /\ arg' = [arg EXCEPT ![p] = a]
    /\ UNCHANGED <<queueVars, semsnet, lock_queue>>

PushLock(p) ==
    /\ Goto(p, "push_lock", "push_store")
    /\ lock_queue = NoThread
    /\ lock_queue' = p
    /\ UNCHANGED <<queueVars, semsnet, arg>>

\* The slot at push_queue is free.
PushStore(p) ==
    /\ Goto(p, "push_store", "push_next")
    /\ taskQueue[push_queue] = NULL
    /\ taskQueue' = [taskQueue EXCEPT ![push_queue] = arg[p]]
    /\ UNCHANGED <<size_queue, capa_queue, pop_queue, push_queue,
                   semsnet, lock_queue, arg>>

\* Mutant: the next pop goes on where it was.
PopStays == pop_queue

PopAfterGrowth == 0

\* The slot is taken, so the ring is full: the slots double, those in use
\* keep their place, and the next pop starts again at slot 0.
PushGrow(p) ==
    /\ Goto(p, "push_store", "push_next")
    /\ taskQueue[push_queue] # NULL
    /\ taskQueue' = [i \in 0 .. 2 * capa_queue - 1 |->
                       IF i < capa_queue THEN taskQueue[i]
                       ELSE IF i = capa_queue THEN arg[p] ELSE NULL]
    /\ push_queue' = capa_queue
    /\ capa_queue' = 2 * capa_queue
    /\ pop_queue' = PopAfterGrowth
    /\ UNCHANGED <<size_queue, semsnet, lock_queue, arg>>

\* Advance push_queue, count the task, unlock.
PushNext(p) ==
    /\ Goto(p, "push_next", "push_post")
    /\ push_queue' = Succ(push_queue)
    /\ size_queue' = size_queue + 1
    /\ lock_queue' = NoThread
    /\ UNCHANGED <<taskQueue, capa_queue, pop_queue, semsnet, arg>>

\* Mutants: a token for the first task in the queue only; two for one task.
PostedIfEmpty == IF size_queue > 1 THEN semsnet ELSE semsnet + 1
PostedTwice == semsnet + 2

Posted == semsnet + 1

\* sem_post, after the mutex is released.
PushPost(p) ==
    /\ Goto(p, "push_post", "idle")
    /\ semsnet' = Posted
    /\ arg' = [arg EXCEPT ![p] = NULL]
    /\ UNCHANGED <<queueVars, lock_queue>>

-----------------------------------------------------------------------------
(* waitpoll and pop_front *)

PopWait(w) ==
    /\ Goto(w, "pop_wait", "pop_lock")
    /\ semsnet > 0
    /\ semsnet' = semsnet - 1
    /\ UNCHANGED <<queueVars, lock_queue, arg>>

\* Mutant: pop_front without the mutex.
PopLockUnchecked(w) ==
    /\ Goto(w, "pop_lock", "pop_take")
    /\ lock_queue' = w
    /\ UNCHANGED <<queueVars, semsnet, arg>>

PopLock(w) ==
    /\ Goto(w, "pop_lock", "pop_take")
    /\ lock_queue = NoThread
    /\ lock_queue' = w
    /\ UNCHANGED <<queueVars, semsnet, arg>>

\* Mutant: the slot is not cleared.
NotCleared == taskQueue

Cleared == [taskQueue EXCEPT ![pop_queue] = NULL]

PopTake(w) ==
    /\ Goto(w, "pop_take", "pop_next")
    /\ taskQueue[pop_queue] # NULL
    /\ arg' = [arg EXCEPT ![w] = taskQueue[pop_queue]]
    /\ taskQueue' = Cleared
    /\ UNCHANGED <<size_queue, capa_queue, pop_queue, push_queue,
                   semsnet, lock_queue>>

\* A token without a task: unlock, return NULL, and waitpoll waits again.
PopEmpty(w) ==
    /\ Goto(w, "pop_take", "pop_wait")
    /\ taskQueue[pop_queue] = NULL
    /\ lock_queue' = NoThread
    /\ UNCHANGED <<queueVars, semsnet, arg>>

\* Advance pop_queue, uncount the task, unlock.
PopNext(w) ==
    /\ Goto(w, "pop_next", "run")
    /\ pop_queue' = Succ(pop_queue)
    /\ size_queue' = size_queue - 1
    /\ lock_queue' = NoThread
    /\ UNCHANGED <<taskQueue, capa_queue, push_queue, semsnet, arg>>

\* t.function(t.para) returns.
RunTask(w) ==
    /\ Goto(w, "run", "pop_wait")
    /\ arg' = [arg EXCEPT ![w] = NULL]
    /\ UNCHANGED <<queueVars, semsnet, lock_queue>>

-----------------------------------------------------------------------------
\* The process ends anywhere (realloc fails, accept fails, 'Q' on the
\* keyboard, a signal) and is started again: sem_open(O_CREAT) finds the
\* semaphore of the previous process with the value it was left with.
Restart ==
    /\ semsnet <= MaxStale
    /\ taskQueue' = EmptyRing /\ size_queue' = 0 /\ capa_queue' = InitCapa
    /\ pop_queue' = 0 /\ push_queue' = 0
    /\ lock_queue' = NoThread /\ pc' = StartPc /\ arg' = NoArgs
    /\ UNCHANGED semsnet

ProducerStep(p) ==
    PushLock(p) \/ PushStore(p) \/ PushGrow(p) \/ PushNext(p) \/ PushPost(p)

WorkerStep(w) ==
    PopWait(w) \/ PopLock(w) \/ PopTake(w) \/ PopEmpty(w) \/ PopNext(w) \/ RunTask(w)

Next ==
    \/ \E p \in Producers : ProducerStep(p) \/ \E a \in Task : PushCall(p, a)
    \/ \E w \in Workers : WorkerStep(w)
    \/ Restart

Spec == Init /\ [][Next]_vars

\* Threads are scheduled; nobody has to push, and no process has to end.
\* A task function is assumed to return.
FairSpec ==
    /\ Spec
    /\ \A p \in Producers : WF_vars(ProducerStep(p))
    /\ \A w \in Workers : WF_vars(WorkerStep(w))

-----------------------------------------------------------------------------
ProducerPc == {"idle", "push_lock", "push_store", "push_next", "push_post"}
WorkerPc == {"pop_wait", "pop_lock", "pop_take", "pop_next", "run"}

\* Every variable has its type, the indices lie inside the ring.
TypeOK ==
    /\ capa_queue \in Nat \ {0}
    /\ taskQueue \in [0 .. capa_queue - 1 -> Task \cup {NULL}]
    /\ size_queue \in Nat
    /\ pop_queue \in 0 .. capa_queue - 1
    /\ push_queue \in 0 .. capa_queue - 1
    /\ semsnet \in Nat
    /\ lock_queue \in Threads \cup {NoThread}
    /\ pc \in [Threads -> ProducerPc \cup WorkerPc]
    /\ arg \in [Threads -> Task \cup {NULL}]
    /\ \A p \in Producers : pc[p] \in ProducerPc
    /\ \A w \in Workers : pc[w] \in WorkerPc

InSection(th) == pc[th] \in {"push_store", "push_next", "pop_take", "pop_next"}

\* The mutex is held by exactly the thread that is between lock and unlock of
\* push_back or pop_front, so no two of them touch the ring at once.
MutualExclusion == \A th \in Threads : InSection(th) <=> lock_queue = th

\* A store or a load of the holder that size_queue does not count yet.
Storing == \E p \in Producers : pc[p] = "push_next"
Taking  == \E w \in Workers : pc[w] = "pop_next"

\* Tasks in the ring, and the slot of the first, whatever the holder is doing.
First == IF Taking THEN Succ(pop_queue) ELSE pop_queue
Waiting ==
    IF Storing THEN size_queue + 1 ELSE IF Taking THEN size_queue - 1 ELSE size_queue

\* Slot i is one of n consecutive slots of the ring that start at f.
InRing(i, f, n) ==
    IF f + n <= capa_queue THEN f <= i /\ i < f + n
                           ELSE f <= i \/ i < f + n - capa_queue

\* The full slots are exactly the Waiting consecutive ones from First on and
\* push_queue is the slot after them: push_back's test of a single slot does
\* mean "full", pop_front's test does mean "empty", and the growth that
\* resets both indices leaves no hole in which a task could be forgotten.
RingIsContiguous ==
    /\ Waiting \in 0 .. capa_queue
    /\ \A i \in 0 .. capa_queue - 1 :
          taskQueue[i] # NULL <=> InRing(i, First, Waiting)
    /\ LET last == IF Storing THEN Succ(push_queue) ELSE push_queue
       IN  last = IF First + Waiting < capa_queue THEN First + Waiting
                                                  ELSE First + Waiting - capa_queue

\* Tokens in flight: posted, owed by a producer that has stored its task, or
\* taken by a worker that has not looked into the ring yet.
Owing  == {p \in Producers : pc[p] \in {"push_next", "push_post"}}
Waking == {w \in Workers : pc[w] \in {"pop_lock", "pop_take"}}
Tokens == semsnet + Cardinality(Owing) + Cardinality(Waking)

\* No task is ever without a token that will bring a worker to it, although
\* sem_post and sem_wait are outside the mutex and the semaphore outlives the
\* ring: a task cannot be stranded in the queue by a lost wake-up.
EveryTaskHasAToken == Tokens >= Waiting

\* Tokens without a task come only from a restart: no step of a running
\* process widens the gap between tokens and tasks (push_back pays exactly
\* one token per task, pop_front removes at most one task per token).
NoTokenInvented ==
    [][Tokens' - Waiting' > Tokens - Waiting => FreshProcess']_vars

\* A task in the ring is eventually taken by a worker (or lost with the whole
\* process), even when stale tokens make workers find an empty ring, and
\* although growing the ring sends pop_queue back to slot 0.
Occupied(i) == i \in DOMAIN taskQueue /\ taskQueue[i] # NULL
MaxSlots == InitCapa + 2 * (MaxTasks + Cardinality(Producers))
EveryTaskIsTaken == \A i \in 0 .. MaxSlots : Occupied(i) ~> ~Occupied(i)

\* The tasks in the order in which pop_front will take them.
PopOrder ==
    [k \in 1 .. Waiting |->
       LET i == First + k - 1
       IN  taskQueue[IF i < capa_queue THEN i ELSE i - capa_queue]]

\* push_back puts its task behind those that wait and leaves their order
\* alone, as long as it need not grow the ring: growing one whose first task
\* is not in slot 0 moves the tasks before push_queue to the front.
PushKeepsOrder ==
    [][Waiting' > Waiting /\ capa_queue' = capa_queue =>
         \A k \in 1 .. Waiting : PopOrder'[k] = PopOrder[k]]_vars

-----------------------------------------------------------------------------
\* The pool implements its promise: a task is submitted when it is stored and
\* started when it is taken out of its slot.
Pool == INSTANCE TaskPool WITH
    pending <- [t \in Task |-> Cardinality({i \in DOMAIN taskQueue : taskQueue[i] = t})],
    running <- [w \in Workers |-> arg[w]]

ImplementsTaskPool == Pool!FairSpec
=============================================================================
