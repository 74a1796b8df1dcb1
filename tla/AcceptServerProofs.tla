-------------------------- MODULE AcceptServerProofs --------------------------
(***************************************************************************)
(* Proofs about AcceptServer, for any number of workers, descriptors and   *)
(* clients. What holds of the pool is not proved again: the server takes   *)
(* only steps of a ThreadPoll, whose proofs are instantiated here.         *)
(***************************************************************************)
EXTENDS AcceptServer, SocketsProofs

\* ThreadPoll and its proofs, with descriptors for tasks.
PoolProofs == INSTANCE ThreadPollProofs WITH
    Producers <- {Main}, Task <- Fd, MaxTasks <- Cardinality(Fd) + 1

InSlot(f) == \E i \in DOMAIN taskQueue : taskQueue[i] = f
InHand(f) == \E th \in Pool!Threads : Holds(th) /\ arg[th] = f

\* A descriptor has no two places: two slots, two hands, or one of each.
OnePlace ==
    \A f \in Fd :
      /\ \A i, j \in DOMAIN taskQueue : taskQueue[i] = f /\ taskQueue[j] = f => i = j
      /\ \A th, ot \in Pool!Threads :
           Holds(th) /\ arg[th] = f /\ Holds(ot) /\ arg[ot] = f => th = ot
      /\ ~(InSlot(f) /\ InHand(f))

\* It has one if it is open. (With OnePlace this is OneOwner, without counting.)
PlacedIfOpen == \A f \in Fd : f \in open <=> InSlot(f) \/ InHand(f)

IInv == SockTypeOK /\ PoolProofs!IInv /\ OnePlace /\ PlacedIfOpen

USE SocketsAssumption, AcceptAssumption

-----------------------------------------------------------------------------
\* The constants are such that the proofs about ThreadPoll apply.
LEMMA PoolConstants ==
    /\ IsFiniteSet({Main}) /\ Cardinality(Fd) + 1 \in Nat
    /\ \A S : PoolProofs!IsFiniteSet(S) = IsFiniteSet(S)
    /\ \A S : PoolProofs!Cardinality(S) = Cardinality(S)
<1>1. IsFiniteSet({Main})
  BY FS_Singleton
<1>2. Cardinality(Fd) + 1 \in Nat
  BY FS_CardinalityType
<1>3. /\ \A S : PoolProofs!IsFiniteSet(S) = IsFiniteSet(S)
      /\ \A S : PoolProofs!Cardinality(S) = Cardinality(S)
  BY DEF PoolProofs!Cardinality, PoolProofs!IsFiniteSet, Cardinality, IsFiniteSet
<1> QED
  BY <1>1, <1>2, <1>3

\* A step of the server is one of its pool, or none.
LEMMA StepOfPool == ASSUME [Next]_vars PROVE [Pool!Next]_poolVars
<1>1. ASSUME NEW f \in Fd, Accept(f) PROVE Pool!Next
  BY <1>1 DEF Accept, Pool!Next
<1>2. ASSUME Push PROVE Pool!Next
  BY <1>2 DEF Push, Pool!Next
<1>3. ASSUME ProcessEnds PROVE Pool!Next
  BY <1>3 DEF ProcessEnds, Pool!Next
<1>4. ASSUME NEW w \in Workers, Pop(w) \/ TaskClose(w) PROVE Pool!Next
  BY <1>4 DEF Pop, TaskClose, Pool!Next, Pool!WorkerStep
<1>5. ASSUME NEW w \in Workers, TaskRead(w) \/ TaskWrite(w) PROVE UNCHANGED poolVars
  BY <1>5 DEF TaskRead, TaskWrite
<1>6. CASE Clients \/ UNCHANGED vars
  BY <1>6 DEF Clients, vars
<1> QED
  BY <1>1, <1>2, <1>3, <1>4, <1>5, <1>6
  DEF Next, MainStep, AcceptFails, KeyboardQuit, WorkerStep, TaskKilled

\* Which is one of the pool the proofs are about.
LEMMA SamePool ==
    /\ Pool!Init <=> PoolProofs!Init
    /\ Pool!Next <=> PoolProofs!Next
    /\ poolVars = PoolProofs!vars /\ poolVars' = PoolProofs!vars'
<1> USE DEF Pool!Goto, PoolProofs!Goto, Pool!queueVars, PoolProofs!queueVars
<1>1. \A p, a : Pool!PushCall(p, a) <=> PoolProofs!PushCall(p, a)
  BY DEF Pool!PushCall, PoolProofs!PushCall
<1>2. \A p : Pool!ProducerStep(p) <=> PoolProofs!ProducerStep(p)
  <2>1. \A p : Pool!PushLock(p) <=> PoolProofs!PushLock(p)
    BY DEF Pool!PushLock, PoolProofs!PushLock
  <2>2. \A p : Pool!PushStore(p) <=> PoolProofs!PushStore(p)
    BY DEF Pool!PushStore, PoolProofs!PushStore
  <2>3. \A p : Pool!PushGrow(p) <=> PoolProofs!PushGrow(p)
    BY DEF Pool!PushGrow, PoolProofs!PushGrow, Pool!PopAfterGrowth,
      PoolProofs!PopAfterGrowth
  <2>4. \A p : Pool!PushNext(p) <=> PoolProofs!PushNext(p)
    BY DEF Pool!PushNext, PoolProofs!PushNext, Pool!Succ, PoolProofs!Succ
  <2>5. \A p : Pool!PushPost(p) <=> PoolProofs!PushPost(p)
    BY DEF Pool!PushPost, PoolProofs!PushPost, Pool!Posted, PoolProofs!Posted
  <2> QED
    BY <2>1, <2>2, <2>3, <2>4, <2>5 DEF Pool!ProducerStep, PoolProofs!ProducerStep
<1>3. \A w : Pool!WorkerStep(w) <=> PoolProofs!WorkerStep(w)
  <2>1. \A w : Pool!PopWait(w) <=> PoolProofs!PopWait(w)
    BY DEF Pool!PopWait, PoolProofs!PopWait
  <2>2. \A w : Pool!PopLock(w) <=> PoolProofs!PopLock(w)
    BY DEF Pool!PopLock, PoolProofs!PopLock
  <2>3. \A w : Pool!PopTake(w) <=> PoolProofs!PopTake(w)
    BY DEF Pool!PopTake, PoolProofs!PopTake, Pool!Cleared, PoolProofs!Cleared
  <2>4. \A w : Pool!PopEmpty(w) <=> PoolProofs!PopEmpty(w)
    BY DEF Pool!PopEmpty, PoolProofs!PopEmpty
  <2>5. \A w : Pool!PopNext(w) <=> PoolProofs!PopNext(w)
    BY DEF Pool!PopNext, PoolProofs!PopNext, Pool!Succ, PoolProofs!Succ
  <2>6. \A w : Pool!RunTask(w) <=> PoolProofs!RunTask(w)
    BY DEF Pool!RunTask, PoolProofs!RunTask
  <2> QED
    BY <2>1, <2>2, <2>3, <2>4, <2>5, <2>6 DEF Pool!WorkerStep, PoolProofs!WorkerStep
<1>4. Pool!Restart <=> PoolProofs!Restart
  BY DEF Pool!Restart, PoolProofs!Restart, Pool!EmptyRing, PoolProofs!EmptyRing,
      Pool!StartPc, PoolProofs!StartPc, Pool!NoArgs, PoolProofs!NoArgs,
      Pool!Threads, PoolProofs!Threads
<1>5. Pool!Init <=> PoolProofs!Init
  BY DEF Pool!Init, PoolProofs!Init, Pool!FreshProcess, PoolProofs!FreshProcess,
      Pool!EmptyRing, PoolProofs!EmptyRing, Pool!StartPc, PoolProofs!StartPc,
      Pool!NoArgs, PoolProofs!NoArgs, Pool!Threads, PoolProofs!Threads
<1>6. poolVars = PoolProofs!vars /\ poolVars' = PoolProofs!vars'
  BY DEF poolVars, PoolProofs!vars
<1> QED
  BY <1>1, <1>2, <1>3, <1>4, <1>5, <1>6 DEF Pool!Next, PoolProofs!Next

\* What the proofs about ThreadPoll assume of its constants.
LEMMA PoolAssumptions ==
    PoolProofs!ThreadsAssumption /\ PoolProofs!TaskAssumption /\ PoolProofs!SizeAssumption
  BY PoolConstants
  DEF PoolProofs!ThreadsAssumption, PoolProofs!TaskAssumption, PoolProofs!SizeAssumption,
      PoolProofs!Threads

\* So the pool keeps its own invariant.
LEMMA StepPool == ASSUME PoolProofs!IInv, [Next]_vars PROVE PoolProofs!IInv'
<1>1. [PoolProofs!Next]_PoolProofs!vars
  BY StepOfPool, SamePool
<1>2. PoolProofs!TypeOK' /\ PoolProofs!MutualExclusion' /\ PoolProofs!PushHasTask'
  BY <1>1, PoolAssumptions, PoolProofs!StepControl
<1>3. PoolProofs!RingIsContiguous'
  BY <1>1, PoolAssumptions, PoolProofs!StepRing
<1> QED
  BY <1>2, <1>3 DEF PoolProofs!IInv

-----------------------------------------------------------------------------
(* Places *)

\* The types the places are made of.
LEMMA PlaceTypes ==
    ASSUME PoolProofs!IInv
    PROVE  /\ Pool!Threads = {Main} \cup Workers
           /\ capa_queue \in Nat \ {0}
           /\ taskQueue \in [0 .. capa_queue - 1 -> Fd \cup {NULL}]
           /\ DOMAIN taskQueue = 0 .. capa_queue - 1
           /\ pop_queue \in DOMAIN taskQueue /\ push_queue \in DOMAIN taskQueue
           /\ DOMAIN pc = Pool!Threads /\ DOMAIN arg = Pool!Threads
           /\ pc[Main] \in {"idle", "push_lock", "push_store", "push_next", "push_post"}
           /\ \A w \in Workers :
                pc[w] \in {"pop_wait", "pop_lock", "pop_take", "pop_next", "run"}
<1>1. Pool!Threads = {Main} \cup Workers /\ PoolProofs!Threads = Pool!Threads
  BY DEF Pool!Threads, PoolProofs!Threads
<1> QED
  BY <1>1
  DEF PoolProofs!IInv, PoolProofs!TypeOK, PoolProofs!ProducerPc, PoolProofs!WorkerPc

\* A step that neither puts down nor takes up a descriptor leaves the places.
LEMMA PlacesStay ==
    ASSUME OnePlace, PlacedIfOpen, UNCHANGED <<taskQueue, open>>,
           \A th \in Pool!Threads : /\ Holds(th)' <=> Holds(th)
                                    /\ Holds(th) => arg'[th] = arg[th]
    PROVE  OnePlace' /\ PlacedIfOpen'
<1>1. \A f : (InSlot(f)' <=> InSlot(f)) /\ (InHand(f)' <=> InHand(f))
  BY DEF InSlot, InHand, Pool!Threads
<1>2. OnePlace'
  BY <1>1 DEF OnePlace, Pool!Threads
<1> QED
  BY <1>1, <1>2 DEF PlacedIfOpen

\* What accept returns was closed, so nobody had it.
LEMMA PlaceOfAccepted ==
    ASSUME IInv, NEW f \in Fd, Accept(f)
    PROVE  OnePlace' /\ PlacedIfOpen'
<1> USE PlaceTypes DEF IInv
<1>1. /\ pc[Main] = "idle" /\ pc' = [pc EXCEPT ![Main] = "push_lock"]
      /\ arg' = [arg EXCEPT ![Main] = f] /\ taskQueue' = taskQueue
      /\ f \notin open /\ open' = open \cup {f}
  BY DEF Accept, Pool!PushCall, Pool!Goto, Pool!queueVars, SysAccept
<1>2. ~InSlot(f) /\ ~InHand(f)
  BY <1>1 DEF PlacedIfOpen
<1>3. \A th \in Pool!Threads : Holds(th)' <=> Holds(th) \/ th = Main
  BY <1>1 DEF Holds
<1>4. ~Holds(Main) /\ arg'[Main] = f /\ \A th \in Pool!Threads \ {Main} : arg'[th] = arg[th]
  BY <1>1 DEF Holds
<1>5. \A g : InSlot(g)' <=> InSlot(g)
  BY <1>1 DEF InSlot
<1>6. \A g : InHand(g)' <=> InHand(g) \/ g = f
  BY <1>3, <1>4 DEF InHand, Pool!Threads
<1>7. OnePlace'
  <2> SUFFICES ASSUME NEW g \in Fd
               PROVE  /\ \A i, j \in DOMAIN taskQueue :
                            taskQueue[i] = g /\ taskQueue[j] = g => i = j
                      /\ \A th, ot \in Pool!Threads :
                            Holds(th)' /\ arg'[th] = g /\ Holds(ot)' /\ arg'[ot] = g => th = ot
                      /\ ~(InSlot(g)' /\ InHand(g)')
    BY <1>1 DEF OnePlace, Pool!Threads
  <2>1. CASE g = f
    BY <1>2, <1>3, <1>4, <1>5, <1>6, <2>1 DEF InSlot, InHand
  <2>2. CASE g # f
    BY <1>3, <1>4, <1>5, <1>6, <2>2 DEF OnePlace
  <2> QED
    BY <2>1, <2>2
<1> QED
  BY <1>1, <1>2, <1>5, <1>6, <1>7 DEF PlacedIfOpen

\* push_back moves its descriptor from the hand of main into a slot.
LEMMA PlaceOfPushed ==
    ASSUME IInv, Pool!PushStore(Main) \/ Pool!PushGrow(Main), UNCHANGED open
    PROVE  OnePlace' /\ PlacedIfOpen'
<1> USE PlaceTypes DEF IInv
<1>1. PICK k \in DOMAIN taskQueue' :
        /\ pc[Main] = "push_store" /\ pc' = [pc EXCEPT ![Main] = "push_next"] /\ arg' = arg
        /\ DOMAIN taskQueue \subseteq DOMAIN taskQueue'
        /\ k \in DOMAIN taskQueue => taskQueue[k] = NULL
        /\ taskQueue'[k] = arg[Main]
        /\ \A i \in DOMAIN taskQueue \ {k} : taskQueue'[i] = taskQueue[i]
        /\ \A i \in DOMAIN taskQueue' \ DOMAIN taskQueue : i = k \/ taskQueue'[i] = NULL
  <2>1. CASE Pool!PushStore(Main)
    <3>1. taskQueue' = [taskQueue EXCEPT ![push_queue] = arg[Main]]
      BY <2>1 DEF Pool!PushStore
    <3> QED
      BY <2>1, <3>1 DEF Pool!PushStore, Pool!Goto
  <2>2. CASE Pool!PushGrow(Main)
    <3>1. /\ taskQueue' = [i \in 0 .. 2 * capa_queue - 1 |->
                             IF i < capa_queue THEN taskQueue[i]
                             ELSE IF i = capa_queue THEN arg[Main] ELSE NULL]
          /\ capa_queue \in DOMAIN taskQueue' /\ capa_queue \notin DOMAIN taskQueue
      BY <2>2 DEF Pool!PushGrow
    <3>2. /\ DOMAIN taskQueue \subseteq DOMAIN taskQueue' /\ taskQueue'[capa_queue] = arg[Main]
          /\ \A i \in DOMAIN taskQueue : taskQueue'[i] = taskQueue[i]
          /\ \A i \in DOMAIN taskQueue' \ DOMAIN taskQueue : i = capa_queue \/ taskQueue'[i] = NULL
      BY <3>1
    <3>3. /\ pc[Main] = "push_store" /\ pc' = [pc EXCEPT ![Main] = "push_next"] /\ arg' = arg
      BY <2>2 DEF Pool!PushGrow, Pool!Goto
    <3> QED
      BY <3>1, <3>2, <3>3
  <2> QED
    BY <2>1, <2>2
<1>2. \A f \in Fd : InSlot(f)' <=> InSlot(f) \/ f = arg[Main]
  BY <1>1 DEF InSlot
<1>3. /\ Holds(Main) /\ ~Holds(Main)'
      /\ \A th \in Pool!Threads \ {Main} : Holds(th)' <=> Holds(th)
  BY <1>1 DEF Holds
<1>4. ASSUME NEW f \in Fd
      PROVE  /\ \A i, j \in DOMAIN taskQueue' : taskQueue'[i] = f /\ taskQueue'[j] = f => i = j
             /\ \A th, ot \in Pool!Threads :
                  Holds(th)' /\ arg'[th] = f /\ Holds(ot)' /\ arg'[ot] = f => th = ot
             /\ ~(InSlot(f)' /\ InHand(f)')
             /\ InSlot(f)' \/ InHand(f)' <=> InSlot(f) \/ InHand(f)
  <2>1. CASE f = arg[Main]
    <3>1. InHand(f) /\ ~InSlot(f) /\ \A th \in Pool!Threads \ {Main} : ~(Holds(th) /\ arg[th] = f)
      BY <1>3, <2>1 DEF OnePlace, InHand
    <3>2. ~InHand(f)' /\ InSlot(f)'
      BY <1>1, <1>2, <1>3, <2>1, <3>1 DEF InHand, Pool!Threads
    <3>3. \A i \in DOMAIN taskQueue' : taskQueue'[i] = f => i = k
      BY <1>1, <3>1 DEF InSlot
    <3> QED
      BY <3>1, <3>2, <3>3 DEF InHand, Pool!Threads
  <2>2. CASE f # arg[Main]
    <3>1. InHand(f)' <=> InHand(f)
      BY <1>1, <1>3, <2>2 DEF InHand, Pool!Threads
    <3>2. \A i \in DOMAIN taskQueue' : taskQueue'[i] = f => i \in DOMAIN taskQueue /\ taskQueue[i] = f
      BY <1>1, <2>2
    <3>3. \A i, j \in DOMAIN taskQueue' : taskQueue'[i] = f /\ taskQueue'[j] = f => i = j
      BY <3>2 DEF OnePlace
    <3> QED
      BY <1>1, <1>2, <1>3, <2>2, <3>1, <3>3 DEF OnePlace
  <2> QED
    BY <2>1, <2>2
<1> QED
  BY <1>4 DEF OnePlace, PlacedIfOpen, Pool!Threads

\* pop_front moves the descriptor it finds from its slot into the worker's hand.
LEMMA PlaceOfPopped ==
    ASSUME IInv, NEW w \in Workers, Pool!PopTake(w), UNCHANGED open
    PROVE  OnePlace' /\ PlacedIfOpen'
<1> USE PlaceTypes DEF IInv
<1> DEFINE got == taskQueue[pop_queue]
<1>1. /\ pc[w] = "pop_take" /\ pc' = [pc EXCEPT ![w] = "pop_next"]
      /\ got \in Fd /\ arg' = [arg EXCEPT ![w] = got]
      /\ taskQueue' = [taskQueue EXCEPT ![pop_queue] = NULL]
  BY DEF Pool!PopTake, Pool!Goto, Pool!Cleared
<1>2. DOMAIN taskQueue' = DOMAIN taskQueue /\ taskQueue'[pop_queue] = NULL
      /\ \A i \in DOMAIN taskQueue \ {pop_queue} : taskQueue'[i] = taskQueue[i]
  BY <1>1
<1>3. /\ ~Holds(w) /\ Holds(w)' /\ arg'[w] = got
      /\ \A th \in Pool!Threads \ {w} : (Holds(th)' <=> Holds(th)) /\ arg'[th] = arg[th]
  BY <1>1 DEF Holds
<1>4. InSlot(got) /\ ~InHand(got)
  <2>1. InSlot(got)
    BY DEF InSlot
  <2> QED
    BY <1>1, <2>1 DEF OnePlace
<1> HIDE DEF got
<1>5. \A f \in Fd : InSlot(f)' <=> InSlot(f) /\ f # got
  <2>1. \A i \in DOMAIN taskQueue : taskQueue[i] = got => i = pop_queue
    BY <1>1 DEF OnePlace, got
  <2> QED
    BY <1>2, <2>1 DEF InSlot, got
<1>6. \A f \in Fd : InHand(f)' <=> InHand(f) \/ f = got
  BY <1>3 DEF InHand, Pool!Threads
<1>7. ASSUME NEW f \in Fd
      PROVE  /\ \A i, j \in DOMAIN taskQueue' : taskQueue'[i] = f /\ taskQueue'[j] = f => i = j
             /\ \A th, ot \in Pool!Threads :
                  Holds(th)' /\ arg'[th] = f /\ Holds(ot)' /\ arg'[ot] = f => th = ot
             /\ ~(InSlot(f)' /\ InHand(f)')
  <2>1. \A i, j \in DOMAIN taskQueue' : taskQueue'[i] = f /\ taskQueue'[j] = f => i = j
    BY <1>2 DEF OnePlace
  <2>2. \A th, ot \in Pool!Threads :
          Holds(th)' /\ arg'[th] = f /\ Holds(ot)' /\ arg'[ot] = f => th = ot
    BY <1>3, <1>4 DEF OnePlace, InHand
  <2>3. ~(InSlot(f)' /\ InHand(f)')
    BY <1>5, <1>6 DEF OnePlace
  <2> QED
    BY <2>1, <2>2, <2>3
<1> QED
  BY <1>4, <1>5, <1>6, <1>7 DEF OnePlace, PlacedIfOpen, Pool!Threads

\* close takes the descriptor out of the world and out of the hand at once.
LEMMA PlaceOfClosed ==
    ASSUME IInv, NEW w \in Workers, TaskClose(w)
    PROVE  OnePlace' /\ PlacedIfOpen'
<1> USE PlaceTypes DEF IInv
<1>1. /\ pc[w] = "run" /\ pc' = [pc EXCEPT ![w] = "pop_wait"]
      /\ arg' = [arg EXCEPT ![w] = NULL] /\ taskQueue' = taskQueue
      /\ open' = open \ {arg[w]}
  BY Zenon DEF TaskClose, InTask, Pool!RunTask, Pool!Goto, Pool!queueVars, SysClose, Closing
<1>2. /\ Holds(w) /\ ~Holds(w)'
      /\ \A th \in Pool!Threads \ {w} : (Holds(th)' <=> Holds(th)) /\ arg'[th] = arg[th]
  BY <1>1 DEF Holds
<1>3. \A f : InSlot(f)' <=> InSlot(f)
  BY <1>1 DEF InSlot
<1>4. \A f \in Fd : InHand(f)' <=> InHand(f) /\ f # arg[w]
  BY <1>2 DEF InHand, OnePlace, Pool!Threads
<1>5. OnePlace'
  BY <1>1, <1>2, <1>3, <1>4 DEF OnePlace, Pool!Threads
<1>6. \A f \in Fd : f = arg[w] => ~InSlot(f)
  BY <1>2 DEF OnePlace, InHand
<1> QED
  BY <1>1, <1>3, <1>4, <1>5, <1>6 DEF PlacedIfOpen

\* The end of the process closes what is open and forgets where it was.
LEMMA PlaceOfNothing ==
    ASSUME IInv, Pool!Restart, SockExit
    PROVE  OnePlace' /\ PlacedIfOpen'
<1>1. open' = {}
  BY Zenon DEF IInv, SockTypeOK, SockExit, Closing
<1>2. /\ taskQueue' = [i \in 0 .. InitCapa - 1 |-> NULL]
      /\ arg' = [th \in Pool!Threads |-> NULL]
  BY DEF Pool!Restart, Pool!EmptyRing, Pool!NoArgs
<1>3. \A f \in Fd : ~InSlot(f)' /\ ~InHand(f)'
  BY <1>2 DEF InSlot, InHand, Pool!Threads
<1>4. OnePlace'
  BY <1>2, <1>3 DEF OnePlace, Pool!Threads
<1> QED
  BY <1>1, <1>3, <1>4 DEF PlacedIfOpen

-----------------------------------------------------------------------------
(* The server *)

\* The sockets: one step per system call.
LEMMA StepSockets == ASSUME SockTypeOK, [Next]_vars PROVE SockTypeOK'
<1>1. ASSUME NEW f \in Fd, Accept(f) PROVE SockTypeOK'
  <2>1. /\ backlog' = backlog - 1 /\ backlog > 0 /\ open' = open \cup {f}
        /\ rx' = rx /\ peer' = peer
    BY <1>1 DEF Accept, SysAccept
  <2> QED
    BY <2>1 DEF SockTypeOK
<1>2. ASSUME Push PROVE SockTypeOK'
  BY <1>2 DEF Push, sockVars, SockTypeOK
<1>3. ASSUME ProcessEnds PROVE SockTypeOK'
  BY <1>3, ClosingTypes DEF ProcessEnds, SockExit
<1>4. ASSUME NEW w \in Workers, Pop(w) \/ TaskWrite(w) PROVE SockTypeOK'
  BY <1>4 DEF Pop, TaskWrite, sockVars, SockTypeOK
<1>5. ASSUME NEW w \in Workers, TaskRead(w) PROVE SockTypeOK'
  <2>1. /\ rx' = [rx EXCEPT ![arg[w]] = 0]
        /\ backlog' = backlog /\ open' = open /\ peer' = peer
    BY <1>5 DEF TaskRead
  <2>2. rx' \in [Fd -> 0 .. MaxRx]
    <3>1. rx \in [Fd -> 0 .. MaxRx] /\ 0 \in 0 .. MaxRx
      BY DEF SockTypeOK
    <3>2. \A f : [rx EXCEPT ![f] = 0] \in [Fd -> 0 .. MaxRx]
      BY <3>1
    <3> QED
      BY <2>1, <3>2
  <2> QED
    BY <2>1, <2>2 DEF SockTypeOK
<1>6. ASSUME NEW w \in Workers, TaskClose(w) PROVE SockTypeOK'
  <2>1. Closing({arg[w]}) /\ backlog' = backlog
    BY <1>6 DEF TaskClose, SysClose
  <2> QED
    BY <2>1, ClosingTypes
<1>7. CASE Clients
  BY <1>7, ClientStep DEF Clients, Client
<1>8. CASE UNCHANGED vars
  BY <1>8 DEF vars, sockVars, SockTypeOK
<1> QED
  BY <1>1, <1>2, <1>3, <1>4, <1>5, <1>6, <1>7, <1>8
  DEF Next, MainStep, AcceptFails, KeyboardQuit, WorkerStep, TaskKilled

\* Places: one step per action.
LEMMA StepPlaces == ASSUME IInv, [Next]_vars PROVE OnePlace' /\ PlacedIfOpen'
<1> USE PlaceTypes DEF IInv
<1>1. ASSUME NEW f \in Fd, Accept(f) PROVE OnePlace' /\ PlacedIfOpen'
  BY <1>1, PlaceOfAccepted
<1>2. ASSUME Push PROVE OnePlace' /\ PlacedIfOpen'
  <2>1. CASE Pool!PushStore(Main) \/ Pool!PushGrow(Main)
    BY <1>2, <2>1, PlaceOfPushed DEF Push, sockVars
  <2>2. CASE Pool!PushLock(Main) \/ Pool!PushNext(Main) \/ Pool!PushPost(Main)
    <3>1. UNCHANGED <<taskQueue, open>>
      BY <1>2, <2>2
      DEF Push, sockVars, Pool!PushLock, Pool!PushNext, Pool!PushPost, Pool!queueVars
    <3>2. \A th \in Pool!Threads : (Holds(th)' <=> Holds(th)) /\ (Holds(th) => arg'[th] = arg[th])
      BY <2>2 DEF Pool!PushLock, Pool!PushNext, Pool!PushPost, Pool!Goto, Holds
    <3> QED
      BY <3>1, <3>2, PlacesStay
  <2> QED
    BY <1>2, <2>1, <2>2 DEF Push, Pool!ProducerStep
<1>3. ASSUME ProcessEnds PROVE OnePlace' /\ PlacedIfOpen'
  BY <1>3, PlaceOfNothing DEF ProcessEnds
<1>4. ASSUME NEW w \in Workers, Pop(w) PROVE OnePlace' /\ PlacedIfOpen'
  <2>1. CASE Pool!PopTake(w)
    BY <1>4, <2>1, PlaceOfPopped DEF Pop, sockVars
  <2>2. CASE Pool!PopWait(w) \/ Pool!PopLock(w) \/ Pool!PopEmpty(w) \/ Pool!PopNext(w)
    <3>1. UNCHANGED <<taskQueue, open, arg>>
      BY <1>4, <2>2
      DEF Pop, sockVars, Pool!PopWait, Pool!PopLock, Pool!PopEmpty, Pool!PopNext, Pool!queueVars
    <3>2. \A th \in Pool!Threads : Holds(th)' <=> Holds(th)
      BY <2>2 DEF Pool!PopWait, Pool!PopLock, Pool!PopEmpty, Pool!PopNext, Pool!Goto, Holds
    <3> QED
      BY <3>1, <3>2, PlacesStay
  <2> QED
    BY <1>4, <2>1, <2>2 DEF Pop
<1>5. ASSUME NEW w \in Workers, TaskClose(w) PROVE OnePlace' /\ PlacedIfOpen'
  BY <1>5, PlaceOfClosed
<1>6. ASSUME UNCHANGED <<poolVars, open>> PROVE OnePlace' /\ PlacedIfOpen'
  BY <1>6, PlacesStay DEF poolVars, Holds
<1>7. ASSUME NEW w \in Workers, TaskRead(w) \/ TaskWrite(w) PROVE UNCHANGED <<poolVars, open>>
  BY <1>7 DEF TaskRead, TaskWrite, sockVars
<1>8. ASSUME Clients \/ UNCHANGED vars PROVE UNCHANGED <<poolVars, open>>
  BY <1>8, ClientStep DEF Clients, Client, vars, sockVars
<1> QED
  BY <1>1, <1>2, <1>3, <1>4, <1>5, <1>6, <1>7, <1>8
  DEF Next, MainStep, AcceptFails, KeyboardQuit, WorkerStep, TaskKilled

\* A new server has nothing open and nothing in the pool.
LEMMA InitIInv == Init => IInv
<1> SUFFICES ASSUME Init PROVE IInv
  OBVIOUS
<1>1. SockTypeOK
  BY DEF Init, SockInit, SockTypeOK, Quiet, AllUp
<1>2. PoolProofs!IInv
  BY SamePool, PoolAssumptions, PoolProofs!InitIInv DEF Init
<1>3. /\ open = {} /\ taskQueue = [i \in 0 .. InitCapa - 1 |-> NULL]
      /\ arg = [th \in Pool!Threads |-> NULL]
  BY DEF Init, SockInit, Pool!Init, Pool!FreshProcess, Pool!EmptyRing, Pool!NoArgs
<1>4. \A f \in Fd : ~InSlot(f) /\ ~InHand(f)
  BY <1>3 DEF InSlot, InHand
<1>5. OnePlace /\ PlacedIfOpen
  BY <1>3, <1>4 DEF OnePlace, PlacedIfOpen
<1> QED
  BY <1>1, <1>2, <1>5 DEF IInv

\* The invariant holds throughout.
LEMMA IInvInvariant == Spec => []IInv
<1>1. IInv /\ [Next]_vars => IInv'
  BY StepSockets, StepPool, StepPlaces DEF IInv
<1> QED
  BY <1>1, InitIInv, PTL DEF Spec

\* A set whose members are all the same has one at most.
LEMMA CountOfOne ==
    ASSUME NEW S, \A x, y \in S : x = y
    PROVE  Cardinality(S) = IF S = {} THEN 0 ELSE 1
<1>1. CASE S = {}
  BY <1>1, FS_EmptySet
<1>2. ASSUME NEW x \in S PROVE Cardinality(S) = 1
  <2>1. S = {x}
    OBVIOUS
  <2> QED
    BY <2>1, FS_Singleton
<1> QED
  BY <1>1, <1>2

\* Counted, the places of a descriptor are one or none.
LEMMA PlacesCounted == ASSUME IInv PROVE OneOwner
<1> SUFFICES ASSUME NEW f \in Fd PROVE Owners(f) = IF f \in open THEN 1 ELSE 0
  BY DEF OneOwner
<1> DEFINE slots == {i \in DOMAIN taskQueue : taskQueue[i] = f}
           hands == {th \in Pool!Threads : Holds(th) /\ arg[th] = f}
<1>1. Cardinality(slots) = IF InSlot(f) THEN 1 ELSE 0
  <2>1. (\A i, j \in slots : i = j) /\ (slots = {} <=> ~InSlot(f))
    BY DEF IInv, OnePlace, InSlot
  <2> QED
    BY <2>1, CountOfOne
<1>2. Cardinality(hands) = IF InHand(f) THEN 1 ELSE 0
  <2>1. (\A th, ot \in hands : th = ot) /\ (hands = {} <=> ~InHand(f))
    BY DEF IInv, OnePlace, InHand
  <2> QED
    BY <2>1, CountOfOne
<1>3. ~(InSlot(f) /\ InHand(f)) /\ (f \in open <=> InSlot(f) \/ InHand(f))
  BY DEF IInv, OnePlace, PlacedIfOpen
<1> QED
  BY <1>1, <1>2, <1>3 DEF Owners

\* A connection that Socket::accept has accepted is in exactly one place until it is
\* closed: on the way into the queue, in one slot of it or with one worker, however the
\* threads interleave, the ring grows and descriptor numbers are used again.
THEOREM AcceptOneOwner == Spec => []OneOwner
  BY IInvInvariant, PlacesCounted, PTL

\* Inside the accept server the pool does what ThreadPoll does, so that everything
\* proved of ThreadPoll holds of it, too.
THEOREM AcceptUsesThreadPoll == Spec => Pool!Spec
<1>1. Init => Pool!Init
  BY DEF Init
<1>2. [Next]_vars => [Pool!Next]_(Pool!vars)
  BY StepOfPool DEF poolVars, Pool!vars
<1> QED
  BY <1>1, <1>2, PTL DEF Spec, Pool!Spec
=============================================================================
