--------------------------- MODULE ThreadPollProofs ---------------------------
(***************************************************************************)
(* Proofs about ThreadPoll, for any number of producers and workers, any   *)
(* initial capacity and any bounds.                                        *)
(***************************************************************************)
EXTENDS ThreadPoll, TLAPS, FiniteSetTheorems

\* push_back has its task at hand until the task is stored.
PushHasTask ==
    \A p \in Producers : pc[p] \in {"push_lock", "push_store"} => arg[p] \in Task

\* The inductive invariant.  size_queue alone says nothing while a thread is
\* inside its section, so the ring is described through First and Waiting,
\* which need MutualExclusion to count one thread at most; and a store fills
\* a slot only because of PushHasTask.
IInv ==
    /\ TypeOK
    /\ MutualExclusion
    /\ PushHasTask
    /\ RingIsContiguous

USE ThreadsAssumption, TaskAssumption, SizeAssumption

-----------------------------------------------------------------------------
\* Where the holder is decides Storing and Taking.
LEMMA HolderDecides ==
    ASSUME TypeOK, MutualExclusion
    PROVE  /\ Storing <=> lock_queue \in Producers /\ pc[lock_queue] = "push_next"
           /\ Taking <=> lock_queue \in Workers /\ pc[lock_queue] = "pop_next"
           /\ ~(Storing /\ Taking)
  BY DEF TypeOK, MutualExclusion, InSection, Storing, Taking, Threads,
         ProducerPc, WorkerPc

\* The same of the state after a step.
LEMMA HolderDecidesNext ==
    ASSUME TypeOK', MutualExclusion'
    PROVE  /\ Storing' <=> lock_queue' \in Producers /\ pc'[lock_queue'] = "push_next"
           /\ Taking' <=> lock_queue' \in Workers /\ pc'[lock_queue'] = "pop_next"
           /\ ~(Storing' /\ Taking')
  BY DEF TypeOK, MutualExclusion, InSection, Storing, Taking, Threads,
         ProducerPc, WorkerPc

-----------------------------------------------------------------------------
\* A fresh pool has an empty ring and nobody in a section.
LEMMA InitIInv == Init => IInv
<1> SUFFICES ASSUME Init PROVE IInv
  OBVIOUS
<1> USE DEF Init, FreshProcess, EmptyRing, StartPc, NoArgs
<1>1. TypeOK
  BY DEF TypeOK, Threads, ProducerPc, WorkerPc
<1>2. MutualExclusion
  BY DEF MutualExclusion, InSection, Threads
<1>3. PushHasTask
  BY DEF PushHasTask, Threads
<1>4. ~Storing /\ ~Taking
  BY DEF Storing, Taking, Threads
<1>5. RingIsContiguous
  BY <1>4 DEF RingIsContiguous, First, Waiting, InRing
<1> QED
  BY <1>1, <1>2, <1>3, <1>5 DEF IInv

-----------------------------------------------------------------------------
\* Types, the mutex and the pushed task: one step per action.
LEMMA StepControl ==
    ASSUME IInv, [Next]_vars
    PROVE  TypeOK' /\ MutualExclusion' /\ PushHasTask'
<1> USE DEF IInv, TypeOK, MutualExclusion, PushHasTask, InSection, Goto, queueVars,
            Threads, ProducerPc, WorkerPc, Succ
<1>1. ASSUME NEW p \in Producers, NEW a \in Task, PushCall(p, a)
      PROVE  TypeOK' /\ MutualExclusion' /\ PushHasTask'
  BY <1>1 DEF PushCall
<1>2. ASSUME NEW p \in Producers, PushLock(p)
      PROVE  TypeOK' /\ MutualExclusion' /\ PushHasTask'
  BY <1>2 DEF PushLock
<1>3. ASSUME NEW p \in Producers, PushStore(p)
      PROVE  TypeOK' /\ MutualExclusion' /\ PushHasTask'
  BY <1>3 DEF PushStore
<1>4. ASSUME NEW p \in Producers, PushGrow(p)
      PROVE  TypeOK' /\ MutualExclusion' /\ PushHasTask'
  BY <1>4 DEF PushGrow, PopAfterGrowth
<1>5. ASSUME NEW p \in Producers, PushNext(p)
      PROVE  TypeOK' /\ MutualExclusion' /\ PushHasTask'
  BY <1>5 DEF PushNext
<1>6. ASSUME NEW p \in Producers, PushPost(p)
      PROVE  TypeOK' /\ MutualExclusion' /\ PushHasTask'
  BY <1>6 DEF PushPost, Posted
<1>7. ASSUME NEW w \in Workers, PopWait(w)
      PROVE  TypeOK' /\ MutualExclusion' /\ PushHasTask'
  BY <1>7 DEF PopWait
<1>8. ASSUME NEW w \in Workers, PopLock(w)
      PROVE  TypeOK' /\ MutualExclusion' /\ PushHasTask'
  BY <1>8 DEF PopLock
<1>9. ASSUME NEW w \in Workers, PopTake(w)
      PROVE  TypeOK' /\ MutualExclusion' /\ PushHasTask'
  BY <1>9 DEF PopTake, Cleared
<1>10. ASSUME NEW w \in Workers, PopEmpty(w)
       PROVE  TypeOK' /\ MutualExclusion' /\ PushHasTask'
  BY <1>10 DEF PopEmpty
<1>11. ASSUME NEW w \in Workers, PopNext(w)
       PROVE  TypeOK' /\ MutualExclusion' /\ PushHasTask'
  <2>1. Taking /\ ~Storing
    BY <1>11, HolderDecides DEF PopNext, Taking
  <2>2. size_queue - 1 \in Nat
    BY <2>1 DEF RingIsContiguous, Waiting
  <2> QED
    BY <1>11, <2>2 DEF PopNext
<1>12. ASSUME NEW w \in Workers, RunTask(w)
       PROVE  TypeOK' /\ MutualExclusion' /\ PushHasTask'
  BY <1>12 DEF RunTask
<1>13. ASSUME Restart
       PROVE  TypeOK' /\ MutualExclusion' /\ PushHasTask'
  BY <1>13 DEF Restart, EmptyRing, StartPc, NoArgs
<1>14. ASSUME UNCHANGED vars
       PROVE  TypeOK' /\ MutualExclusion' /\ PushHasTask'
  BY <1>14 DEF vars
<1> QED
  BY <1>1, <1>2, <1>3, <1>4, <1>5, <1>6, <1>7, <1>8, <1>9, <1>10, <1>11, <1>12,
     <1>13, <1>14 DEF Next, ProducerStep, WorkerStep

-----------------------------------------------------------------------------
\* A step that leaves the ring alone and moves no thread into or out of the
\* window between a store (or load) and the update of the index.
LEMMA RingUnchanged ==
    ASSUME RingIsContiguous, UNCHANGED queueVars,
           Storing' = Storing, Taking' = Taking
    PROVE  RingIsContiguous'
  BY DEF RingIsContiguous, First, Waiting, InRing, Succ, queueVars

\* The ring itself: one step per action that touches it.
LEMMA StepRing ==
    ASSUME IInv, [Next]_vars
    PROVE  RingIsContiguous'
<1> USE DEF IInv
<1>0. TypeOK' /\ MutualExclusion' /\ PushHasTask'
  BY StepControl
<1>1. ASSUME NEW th \in Threads, NEW to \in ProducerPc \cup WorkerPc,
             pc' = [pc EXCEPT ![th] = to], UNCHANGED queueVars,
             pc[th] \notin {"push_next", "pop_next"}, to \notin {"push_next", "pop_next"}
      PROVE  RingIsContiguous'
  <2>1. Storing' = Storing /\ Taking' = Taking
    BY <1>1 DEF Storing, Taking, TypeOK, Threads
  <2> QED
    BY <1>1, <2>1, RingUnchanged
<1>2. ASSUME NEW p \in Producers, NEW a \in Task, PushCall(p, a) PROVE RingIsContiguous'
  BY <1>1, <1>2 DEF PushCall, Goto, Threads, ProducerPc
<1>3. ASSUME NEW p \in Producers, PushLock(p) PROVE RingIsContiguous'
  BY <1>1, <1>3 DEF PushLock, Goto, Threads, ProducerPc
<1>4. ASSUME NEW p \in Producers, PushPost(p) PROVE RingIsContiguous'
  BY <1>1, <1>4 DEF PushPost, Posted, Goto, Threads, ProducerPc
<1>5. ASSUME NEW w \in Workers, PopWait(w) PROVE RingIsContiguous'
  BY <1>1, <1>5 DEF PopWait, Goto, Threads, WorkerPc
<1>6. ASSUME NEW w \in Workers, PopLock(w) PROVE RingIsContiguous'
  BY <1>1, <1>6 DEF PopLock, Goto, Threads, WorkerPc
<1>7. ASSUME NEW w \in Workers, PopEmpty(w) PROVE RingIsContiguous'
  BY <1>1, <1>7 DEF PopEmpty, Goto, Threads, WorkerPc
<1>8. ASSUME NEW w \in Workers, RunTask(w) PROVE RingIsContiguous'
  BY <1>1, <1>8 DEF RunTask, Goto, Threads, WorkerPc
<1>9. ASSUME NEW p \in Producers, PushStore(p) PROVE RingIsContiguous'
  <2>1. lock_queue = p /\ pc[p] = "push_store" /\ ~Storing /\ ~Taking
    BY <1>9, HolderDecides DEF PushStore, Goto, MutualExclusion, InSection, Threads
  <2>2. Storing' /\ ~Taking'
    BY <1>0, <1>9, <2>1, HolderDecidesNext DEF PushStore, Goto, TypeOK, Threads
  <2>3. arg[p] \in Task
    BY <2>1 DEF PushHasTask
  <2> DEFINE full(i) == taskQueue[i] # NULL
  <2>4. /\ size_queue \in 0 .. capa_queue
        /\ \A i \in 0 .. capa_queue - 1 : full(i) <=> InRing(i, pop_queue, size_queue)
        /\ push_queue = IF pop_queue + size_queue < capa_queue
                        THEN pop_queue + size_queue
                        ELSE pop_queue + size_queue - capa_queue
    BY <2>1 DEF RingIsContiguous, First, Waiting
  <2>5. size_queue < capa_queue
    BY <1>9, <2>4 DEF PushStore, InRing, TypeOK
  <2>6. \A i \in 0 .. capa_queue - 1 :
           taskQueue'[i] # NULL <=> InRing(i, pop_queue, size_queue + 1)
    BY <1>9, <2>3, <2>4, <2>5 DEF PushStore, InRing, TypeOK
  <2> QED
    BY <1>9, <2>2, <2>4, <2>5, <2>6
    DEF PushStore, RingIsContiguous, First, Waiting, InRing, Succ, TypeOK
<1>10. ASSUME NEW p \in Producers, PushGrow(p) PROVE RingIsContiguous'
  <2>1. lock_queue = p /\ pc[p] = "push_store" /\ ~Storing /\ ~Taking
    BY <1>10, HolderDecides DEF PushGrow, PopAfterGrowth, Goto, MutualExclusion, InSection, Threads
  <2>2. Storing' /\ ~Taking'
    BY <1>0, <1>10, <2>1, HolderDecidesNext DEF PushGrow, PopAfterGrowth, Goto, TypeOK, Threads
  <2>3. arg[p] \in Task
    BY <2>1 DEF PushHasTask
  <2>4. /\ size_queue \in 0 .. capa_queue
        /\ \A i \in 0 .. capa_queue - 1 :
              taskQueue[i] # NULL <=> InRing(i, pop_queue, size_queue)
        /\ push_queue = IF pop_queue + size_queue < capa_queue
                        THEN pop_queue + size_queue
                        ELSE pop_queue + size_queue - capa_queue
    BY <2>1 DEF RingIsContiguous, First, Waiting
  <2>5. size_queue = capa_queue
    BY <1>10, <2>4 DEF PushGrow, PopAfterGrowth, InRing, TypeOK
  <2>6. \A i \in 0 .. capa_queue - 1 : taskQueue[i] # NULL
    BY <2>4, <2>5 DEF InRing, TypeOK
  <2>7. /\ capa_queue' = 2 * capa_queue /\ push_queue' = capa_queue
        /\ pop_queue' = 0 /\ size_queue' = capa_queue
    BY <1>10, <2>5 DEF PushGrow, PopAfterGrowth
  <2>8. \A i \in 0 .. 2 * capa_queue - 1 : taskQueue'[i] # NULL <=> i < capa_queue + 1
    BY <1>10, <2>3, <2>6 DEF PushGrow, PopAfterGrowth, TypeOK
  <2> QED
    BY <2>2, <2>7, <2>8 DEF RingIsContiguous, First, Waiting, InRing, Succ, TypeOK
<1>11. ASSUME NEW p \in Producers, PushNext(p) PROVE RingIsContiguous'
  <2>1. Storing /\ ~Taking /\ lock_queue' = NoThread
    BY <1>11, HolderDecides DEF PushNext, Goto, Storing
  <2>2. ~Storing' /\ ~Taking'
    BY <1>0, <2>1, HolderDecidesNext DEF Threads
  <2> QED
    BY <1>11, <2>1, <2>2
    DEF PushNext, RingIsContiguous, First, Waiting, InRing, Succ, TypeOK
<1>12. ASSUME NEW w \in Workers, PopTake(w) PROVE RingIsContiguous'
  <2>1. lock_queue = w /\ ~Storing /\ ~Taking
    BY <1>12, HolderDecides DEF PopTake, Cleared, Goto, MutualExclusion, InSection, Threads
  <2>2. Taking' /\ ~Storing'
    BY <1>0, <1>12, <2>1, HolderDecidesNext DEF PopTake, Cleared, Goto, TypeOK, Threads
  <2>3. /\ size_queue \in 0 .. capa_queue
        /\ \A i \in 0 .. capa_queue - 1 :
              taskQueue[i] # NULL <=> InRing(i, pop_queue, size_queue)
        /\ push_queue = IF pop_queue + size_queue < capa_queue
                        THEN pop_queue + size_queue
                        ELSE pop_queue + size_queue - capa_queue
    BY <2>1 DEF RingIsContiguous, First, Waiting
  <2>4. size_queue > 0
    BY <1>12, <2>3 DEF PopTake, Cleared, InRing, TypeOK
  <2>5. \A i \in 0 .. capa_queue - 1 :
           taskQueue'[i] # NULL <=> InRing(i, Succ(pop_queue), size_queue - 1)
    BY <1>12, <2>3, <2>4 DEF PopTake, Cleared, InRing, Succ, TypeOK
  <2> QED
    BY <1>12, <2>2, <2>3, <2>4, <2>5
    DEF PopTake, Cleared, RingIsContiguous, First, Waiting, InRing, Succ, TypeOK
<1>13. ASSUME NEW w \in Workers, PopNext(w) PROVE RingIsContiguous'
  <2>1. Taking /\ ~Storing /\ lock_queue' = NoThread
    BY <1>13, HolderDecides DEF PopNext, Goto, Taking
  <2>2. ~Storing' /\ ~Taking'
    BY <1>0, <2>1, HolderDecidesNext DEF Threads
  <2> QED
    BY <1>13, <2>1, <2>2
    DEF PopNext, RingIsContiguous, First, Waiting, InRing, Succ, TypeOK
<1>14. ASSUME Restart PROVE RingIsContiguous'
  <2>1. ~Storing' /\ ~Taking'
    BY <1>14 DEF Restart, StartPc, Storing, Taking, Threads
  <2> QED
    BY <1>14, <2>1
    DEF Restart, EmptyRing, RingIsContiguous, First, Waiting, InRing
<1>15. ASSUME UNCHANGED vars PROVE RingIsContiguous'
  <2>1. Storing' = Storing /\ Taking' = Taking
    BY <1>15 DEF vars, Storing, Taking
  <2> QED
    BY <1>15, <2>1, RingUnchanged DEF vars, queueVars
<1> QED
  BY <1>2, <1>3, <1>4, <1>5, <1>6, <1>7, <1>8, <1>9, <1>10, <1>11, <1>12, <1>13,
     <1>14, <1>15 DEF Next, ProducerStep, WorkerStep

-----------------------------------------------------------------------------
\* IInv is an invariant of the pool.
LEMMA IInvInvariant == Spec => []IInv
<1>1. IInv /\ [Next]_vars => IInv'
  BY StepControl, StepRing DEF IInv
<1> QED
  BY <1>1, InitIInv, PTL DEF Spec

\* ThreadPoll.cpp never indexes outside the ring and its counters never go
\* below zero.
THEOREM PoolTypeOK == Spec => []TypeOK
  BY IInvInvariant, PTL DEF IInv

\* push_back and pop_front are never inside the ring at once.
THEOREM PoolMutualExclusion == Spec => []MutualExclusion
  BY IInvInvariant, PTL DEF IInv

\* Full slots are contiguous from pop_queue to push_queue through every
\* push, pop, growth and restart: no task is ever cut off from pop_front.
THEOREM PoolRingIsContiguous == Spec => []RingIsContiguous
  BY IInvInvariant, PTL DEF IInv

-----------------------------------------------------------------------------
(* Tokens *)

\* Threads that owe or have been given a token can be counted.
LEMMA TokenSetsFinite == IsFiniteSet(Owing) /\ IsFiniteSet(Waking)
  BY FS_Subset DEF Owing, Waking

\* Adding or removing one thread changes a finite count by one.
LEMMA OneMore ==
    ASSUME NEW S, IsFiniteSet(S), NEW T, NEW x, x \notin S, T = S \cup {x}
    PROVE  Cardinality(S) \in Nat /\ Cardinality(T) = Cardinality(S) + 1
  BY FS_AddElement, FS_CardinalityType

\* Taking one thread away.
LEMMA OneLess ==
    ASSUME NEW S, IsFiniteSet(S), NEW T, NEW x, x \in S, T = S \ {x}
    PROVE  Cardinality(S) \in Nat /\ Cardinality(T) = Cardinality(S) - 1
  BY FS_RemoveElement, FS_CardinalityType

\* How many tasks wait, seen from the holder of the mutex.
LEMMA WaitingByHolder ==
    ASSUME IInv
    PROVE  /\ Waiting \in Nat
           /\ lock_queue = NoThread => Waiting = size_queue
           /\ \A th \in Threads :
                /\ pc[th] \in {"push_store", "pop_take"} => Waiting = size_queue
                /\ pc[th] = "push_next" => Waiting = size_queue + 1
                /\ pc[th] = "pop_next" => Waiting = size_queue - 1
<1>1. Waiting \in Nat
  BY DEF IInv, TypeOK, RingIsContiguous
<1> QED
  BY <1>1, HolderDecides
  DEF IInv, TypeOK, MutualExclusion, InSection, Waiting, Threads, ProducerPc, WorkerPc

\* The same of the state after a step.
LEMMA WaitingByHolderNext ==
    ASSUME IInv'
    PROVE  /\ Waiting' \in Nat
           /\ lock_queue' = NoThread => Waiting' = size_queue'
           /\ \A th \in Threads :
                /\ pc'[th] \in {"push_store", "pop_take"} => Waiting' = size_queue'
                /\ pc'[th] = "push_next" => Waiting' = size_queue' + 1
                /\ pc'[th] = "pop_next" => Waiting' = size_queue' - 1
<1>1. Waiting' \in Nat
  BY DEF IInv, TypeOK, RingIsContiguous
<1> QED
  BY <1>1, HolderDecidesNext
  DEF IInv, TypeOK, MutualExclusion, InSection, Waiting, Threads, ProducerPc, WorkerPc

\* A thread that moves outside the windows leaves the count alone.
LEMMA WaitingUnchanged ==
    ASSUME IInv, NEW th \in Threads, NEW to, pc' = [pc EXCEPT ![th] = to],
           pc[th] \notin {"push_next", "pop_next"}, to \notin {"push_next", "pop_next"},
           UNCHANGED size_queue
    PROVE  Waiting' = Waiting
<1>1. Storing' = Storing /\ Taking' = Taking
  BY DEF Storing, Taking, IInv, TypeOK, Threads
<1> QED
  BY <1>1 DEF Waiting

\* The surplus of tokens over tasks is the same after every step but the one
\* that finds the ring empty, which consumes a token, and the restart.
LEMMA StepSurplus ==
    ASSUME IInv, IInv', [Next]_vars
    PROVE  \/ Tokens' - Waiting' = Tokens - Waiting
           \/ Waiting = 0 /\ Waiting' = 0 /\ Tokens' = Tokens - 1
           \/ FreshProcess' /\ Waiting' = 0
<1> DEFINE Same == Tokens' - Waiting' = Tokens - Waiting
<1> USE DEF Goto, Threads
<1>0. /\ IsFiniteSet(Owing) /\ IsFiniteSet(Waking)
      /\ Cardinality(Owing) \in Nat /\ Cardinality(Waking) \in Nat
      /\ Waiting \in Nat /\ Waiting' \in Nat
      /\ semsnet \in Nat /\ size_queue \in Nat
  BY TokenSetsFinite, FS_CardinalityType, WaitingByHolder, WaitingByHolderNext DEF IInv, TypeOK
<1>pc. pc \in [Threads -> ProducerPc \cup WorkerPc]
  BY DEF IInv, TypeOK
<1>1. ASSUME NEW p \in Producers, NEW a \in Task, PushCall(p, a) PROVE Same
  <2>1. Waiting' = Waiting
    BY <1>1, WaitingUnchanged DEF PushCall, queueVars
  <2>2. Owing' = Owing /\ Waking' = Waking
    BY <1>1, <1>pc DEF PushCall, Owing, Waking
  <2> QED
    BY <1>0, <1>1, <2>1, <2>2 DEF PushCall, Tokens
<1>2. ASSUME NEW p \in Producers, PushLock(p) PROVE Same
  <2>1. Waiting' = Waiting
    BY <1>2, WaitingUnchanged DEF PushLock, queueVars
  <2>2. Owing' = Owing /\ Waking' = Waking
    BY <1>2, <1>pc DEF PushLock, Owing, Waking
  <2> QED
    BY <1>0, <1>2, <2>1, <2>2 DEF PushLock, Tokens
<1>3. ASSUME NEW p \in Producers, PushStore(p) \/ PushGrow(p) PROVE Same
  <2>1. Waiting' = Waiting + 1
    <3>1. pc[p] = "push_store" /\ pc'[p] = "push_next" /\ size_queue' = size_queue
      BY <1>3, <1>pc DEF PushStore, PushGrow
    <3>2. Waiting = size_queue /\ Waiting' = size_queue' + 1
      BY <3>1, WaitingByHolder, WaitingByHolderNext
    <3> QED
      BY <1>0, <3>1, <3>2
  <2>2. p \notin Owing /\ Owing' = Owing \cup {p} /\ Waking' = Waking
    BY <1>3, <1>pc DEF PushStore, PushGrow, Owing, Waking
  <2>3. Cardinality(Owing') = Cardinality(Owing) + 1
    BY <1>0, <2>2, OneMore
  <2> QED
    <3>1. semsnet' = semsnet
      BY <1>3 DEF PushStore, PushGrow
    <3> QED
      BY <1>0, <2>1, <2>2, <2>3, <3>1 DEF Tokens
<1>4. ASSUME NEW p \in Producers, PushNext(p) PROVE Same
  <2>1. Waiting' = Waiting
    BY <1>0, <1>4, <1>pc, WaitingByHolder, WaitingByHolderNext DEF PushNext
  <2>2. Owing' = Owing /\ Waking' = Waking
    BY <1>4, <1>pc DEF PushNext, Owing, Waking
  <2> QED
    BY <1>0, <1>4, <2>1, <2>2 DEF PushNext, Tokens
<1>5. ASSUME NEW p \in Producers, PushPost(p) PROVE Same
  <2>1. Waiting' = Waiting
    BY <1>5, WaitingUnchanged DEF PushPost, Posted, queueVars
  <2>2. p \in Owing /\ Owing' = Owing \ {p} /\ Waking' = Waking
    BY <1>5, <1>pc DEF PushPost, Posted, Owing, Waking
  <2>3. Cardinality(Owing') = Cardinality(Owing) - 1
    BY <1>0, <2>2, OneLess
  <2> QED
    BY <1>0, <1>5, <2>1, <2>2, <2>3 DEF PushPost, Posted, Tokens
<1>6. ASSUME NEW w \in Workers, PopWait(w) PROVE Same
  <2>1. Waiting' = Waiting
    BY <1>6, WaitingUnchanged DEF PopWait, queueVars
  <2>2. w \notin Waking /\ Waking' = Waking \cup {w} /\ Owing' = Owing
    BY <1>6, <1>pc DEF PopWait, Owing, Waking
  <2>3. Cardinality(Waking') = Cardinality(Waking) + 1
    BY <1>0, <2>2, OneMore
  <2> QED
    BY <1>0, <1>6, <2>1, <2>2, <2>3 DEF PopWait, Tokens
<1>7. ASSUME NEW w \in Workers, PopLock(w) PROVE Same
  <2>1. Waiting' = Waiting
    BY <1>7, WaitingUnchanged DEF PopLock, queueVars
  <2>2. Owing' = Owing /\ Waking' = Waking
    BY <1>7, <1>pc DEF PopLock, Owing, Waking
  <2> QED
    BY <1>0, <1>7, <2>1, <2>2 DEF PopLock, Tokens
<1>8. ASSUME NEW w \in Workers, PopTake(w) PROVE Same
  <2>1. Waiting' = Waiting - 1
    BY <1>0, <1>8, <1>pc, WaitingByHolder, WaitingByHolderNext DEF PopTake, Cleared
  <2>2. w \in Waking /\ Waking' = Waking \ {w} /\ Owing' = Owing
    BY <1>8, <1>pc DEF PopTake, Cleared, Owing, Waking
  <2>3. Cardinality(Waking') = Cardinality(Waking) - 1
    BY <1>0, <2>2, OneLess
  <2> QED
    BY <1>0, <1>8, <2>1, <2>2, <2>3 DEF PopTake, Cleared, Tokens
<1>9. ASSUME NEW w \in Workers, PopEmpty(w)
      PROVE  Waiting = 0 /\ Waiting' = 0 /\ Tokens' = Tokens - 1
  <2>0. ~Storing /\ ~Taking
    BY <1>9, HolderDecides DEF PopEmpty, IInv, MutualExclusion, InSection
  <2>1. Waiting' = Waiting /\ Waiting = size_queue
    BY <1>9, WaitingUnchanged, WaitingByHolder DEF PopEmpty, queueVars
  <2>2. Waiting = 0
    BY <1>9, <2>0, <2>1 DEF PopEmpty, IInv, RingIsContiguous, First, InRing, TypeOK
  <2>3. w \in Waking /\ Waking' = Waking \ {w} /\ Owing' = Owing
    BY <1>9, <1>pc DEF PopEmpty, Owing, Waking
  <2>4. Cardinality(Waking') = Cardinality(Waking) - 1
    BY <1>0, <2>3, OneLess
  <2> QED
    BY <1>0, <1>9, <2>1, <2>2, <2>3, <2>4 DEF PopEmpty, Tokens
<1>10. ASSUME NEW w \in Workers, PopNext(w) PROVE Same
  <2>1. Waiting' = Waiting
    BY <1>0, <1>10, <1>pc, WaitingByHolder, WaitingByHolderNext DEF PopNext
  <2>2. Owing' = Owing /\ Waking' = Waking
    BY <1>10, <1>pc DEF PopNext, Owing, Waking
  <2> QED
    BY <1>0, <1>10, <2>1, <2>2 DEF PopNext, Tokens
<1>11. ASSUME NEW w \in Workers, RunTask(w) PROVE Same
  <2>1. Waiting' = Waiting
    BY <1>11, WaitingUnchanged DEF RunTask, queueVars
  <2>2. Owing' = Owing /\ Waking' = Waking
    BY <1>11, <1>pc DEF RunTask, Owing, Waking
  <2> QED
    BY <1>0, <1>11, <2>1, <2>2 DEF RunTask, Tokens
<1>12. ASSUME Restart PROVE FreshProcess' /\ Waiting' = 0
  <2>1. FreshProcess' /\ lock_queue' = NoThread /\ size_queue' = 0
    BY <1>12 DEF Restart, FreshProcess, EmptyRing, StartPc, NoArgs
  <2> QED
    BY <2>1, WaitingByHolderNext
<1>13. ASSUME UNCHANGED vars PROVE Same
  BY <1>0, <1>13 DEF vars, Tokens, Waiting, Owing, Waking, Storing, Taking
<1> QED
  BY <1>1, <1>2, <1>3, <1>4, <1>5, <1>6, <1>7, <1>8, <1>9, <1>10, <1>11, <1>12,
     <1>13 DEF Next, ProducerStep, WorkerStep

\* Both sides of the balance are numbers ...
LEMMA TokensNat ==
    ASSUME IInv PROVE Tokens \in Nat /\ Waiting \in Nat
  BY TokenSetsFinite, FS_CardinalityType, WaitingByHolder DEF IInv, TypeOK, Tokens

\* ... after a step, too.
LEMMA TokensNatNext ==
    ASSUME IInv' PROVE Tokens' \in Nat /\ Waiting' \in Nat
<1>1. IsFiniteSet(Owing') /\ IsFiniteSet(Waking')
  BY FS_Subset DEF Owing, Waking
<1>2. Cardinality(Owing') \in Nat /\ Cardinality(Waking') \in Nat
  BY <1>1, FS_CardinalityType
<1>3. semsnet' \in Nat
  BY DEF IInv, TypeOK
<1> QED
  BY <1>2, <1>3, WaitingByHolderNext DEF Tokens

\* A task in the ring is never without a token that brings a worker to it:
\* the semaphore calls outside the mutex lose no wake-up, whatever value the
\* semaphore was left with by an earlier process.
THEOREM PoolEveryTaskHasAToken == Spec => []EveryTaskHasAToken
<1>1. Init => EveryTaskHasAToken
  <2> SUFFICES ASSUME Init PROVE EveryTaskHasAToken
    OBVIOUS
  <2>1. Waiting = 0
    BY InitIInv, WaitingByHolder DEF Init, FreshProcess
  <2> QED
    BY <2>1, InitIInv, TokensNat DEF EveryTaskHasAToken
<1>2. IInv /\ IInv' /\ EveryTaskHasAToken /\ [Next]_vars => EveryTaskHasAToken'
  BY StepSurplus, TokensNat, TokensNatNext DEF EveryTaskHasAToken
<1> QED
  BY <1>1, <1>2, IInvInvariant, PTL DEF Spec

\* Only a restart leaves more tokens than tasks behind.
THEOREM PoolNoTokenInvented == Spec => NoTokenInvented
<1>1. IInv /\ IInv' /\ [Next]_vars
        => [Tokens' - Waiting' > Tokens - Waiting => FreshProcess']_vars
  BY StepSurplus, TokensNat, TokensNatNext
<1> QED
  BY <1>1, IInvInvariant, PTL DEF Spec, NoTokenInvented

-----------------------------------------------------------------------------
(* The order of the tasks *)

\* Only a store makes more tasks wait.
LEMMA OnlyPushAdds ==
    ASSUME IInv, IInv', [Next]_vars, Waiting' > Waiting
    PROVE  \E p \in Producers : PushStore(p) \/ PushGrow(p)
<1> USE DEF Goto, Threads
<1>0. Waiting \in Nat /\ Waiting' \in Nat /\ size_queue \in Nat
  BY WaitingByHolder, WaitingByHolderNext DEF IInv, TypeOK
<1>pc. pc \in [Threads -> ProducerPc \cup WorkerPc]
  BY DEF IInv, TypeOK
<1>1. ASSUME NEW p \in Producers, NEW a \in Task, PushCall(p, a) PROVE Waiting' = Waiting
  BY <1>1, WaitingUnchanged DEF PushCall, queueVars
<1>2. ASSUME NEW p \in Producers, PushLock(p) PROVE Waiting' = Waiting
  BY <1>2, WaitingUnchanged DEF PushLock, queueVars
<1>3. ASSUME NEW p \in Producers, PushNext(p) PROVE Waiting' = Waiting
  BY <1>0, <1>3, <1>pc, WaitingByHolder, WaitingByHolderNext DEF PushNext
<1>4. ASSUME NEW p \in Producers, PushPost(p) PROVE Waiting' = Waiting
  BY <1>4, WaitingUnchanged DEF PushPost, queueVars
<1>5. ASSUME NEW w \in Workers, PopWait(w) PROVE Waiting' = Waiting
  BY <1>5, WaitingUnchanged DEF PopWait, queueVars
<1>6. ASSUME NEW w \in Workers, PopLock(w) PROVE Waiting' = Waiting
  BY <1>6, WaitingUnchanged DEF PopLock, queueVars
<1>7. ASSUME NEW w \in Workers, PopTake(w) PROVE Waiting' = Waiting - 1
  BY <1>0, <1>7, <1>pc, WaitingByHolder, WaitingByHolderNext DEF PopTake
<1>8. ASSUME NEW w \in Workers, PopEmpty(w) PROVE Waiting' = Waiting
  BY <1>8, WaitingUnchanged DEF PopEmpty, queueVars
<1>9. ASSUME NEW w \in Workers, PopNext(w) PROVE Waiting' = Waiting
  BY <1>0, <1>9, <1>pc, WaitingByHolder, WaitingByHolderNext DEF PopNext
<1>10. ASSUME NEW w \in Workers, RunTask(w) PROVE Waiting' = Waiting
  BY <1>10, WaitingUnchanged DEF RunTask, queueVars
<1>11. ASSUME Restart PROVE Waiting' = 0
  BY <1>11, WaitingByHolderNext DEF Restart
<1>12. ASSUME UNCHANGED vars PROVE Waiting' = Waiting
  BY <1>12 DEF vars, Waiting, Storing, Taking
<1> QED
  BY <1>0, <1>1, <1>2, <1>3, <1>4, <1>5, <1>6, <1>7, <1>8, <1>9, <1>10, <1>11, <1>12
  DEF Next, ProducerStep, WorkerStep

\* A store that need not grow the ring fills a free slot and moves no task.
LEMMA StoreKeepsOrder ==
    ASSUME IInv, IInv', NEW p \in Producers, PushStore(p)
    PROVE  \A k \in 1 .. Waiting : PopOrder'[k] = PopOrder[k]
<1> USE DEF IInv, TypeOK
<1>1. lock_queue = p /\ ~Storing /\ ~Taking
  BY HolderDecides DEF PushStore, Goto, MutualExclusion, InSection, Threads
<1>2. ~Taking' /\ Storing'
  BY <1>1, HolderDecidesNext DEF PushStore, Goto, Threads
<1>3. /\ First = pop_queue /\ First' = pop_queue
      /\ Waiting = size_queue /\ Waiting' = size_queue + 1
      /\ capa_queue' = capa_queue /\ size_queue \in 0 .. capa_queue
  BY <1>1, <1>2 DEF First, Waiting, PushStore, RingIsContiguous
<1> SUFFICES ASSUME NEW k \in 1 .. size_queue PROVE PopOrder'[k] = PopOrder[k]
  BY <1>3
<1> DEFINE i == pop_queue + k - 1
           at == IF i < capa_queue THEN i ELSE i - capa_queue
<1>4. at \in 0 .. capa_queue - 1 /\ InRing(at, First, Waiting)
  BY <1>3 DEF InRing
<1>5. taskQueue[at] # NULL
  BY <1>4 DEF RingIsContiguous
<1>6. taskQueue'[at] = taskQueue[at]
  BY <1>4, <1>5 DEF PushStore
<1>7. PopOrder[k] = taskQueue[at]
  BY <1>3 DEF PopOrder
<1>8. PopOrder'[k] = taskQueue'[at]
  BY <1>3 DEF PopOrder
<1> QED
  BY <1>6, <1>7, <1>8

\* As long as the ring need not grow, tasks are taken in the order they were pushed.
THEOREM PoolPushKeepsOrder == Spec => PushKeepsOrder
<1>1. IInv /\ IInv' /\ [Next]_vars
        => [Waiting' > Waiting /\ capa_queue' = capa_queue =>
              \A k \in 1 .. Waiting : PopOrder'[k] = PopOrder[k]]_vars
  <2> SUFFICES ASSUME IInv, IInv', [Next]_vars, Waiting' > Waiting, capa_queue' = capa_queue
               PROVE  \A k \in 1 .. Waiting : PopOrder'[k] = PopOrder[k]
    OBVIOUS
  <2>1. PICK p \in Producers : PushStore(p) \/ PushGrow(p)
    BY OnlyPushAdds
  <2>2. ~PushGrow(p)
    BY DEF PushGrow, IInv, TypeOK
  <2> QED
    BY <2>1, <2>2, StoreKeepsOrder
<1> QED
  BY <1>1, IInvInvariant, PTL DEF Spec, PushKeepsOrder

-----------------------------------------------------------------------------
(* The abstract pool *)

\* A worker's task is the one it has taken and not finished.
HoldsWhatItTook ==
    \A w \in Workers : arg[w] # NULL <=> pc[w] \in {"pop_next", "run"}

\* No step separates a worker from its task: one case per kind of thread.
LEMMA StepHolds ==
    ASSUME IInv, HoldsWhatItTook, [Next]_vars
    PROVE  HoldsWhatItTook'
<1> USE DEF IInv, TypeOK, HoldsWhatItTook, Goto, Threads
<1>1. ASSUME NEW p \in Producers, ProducerStep(p) \/ \E a \in Task : PushCall(p, a)
      PROVE  HoldsWhatItTook'
  <2>1. \A w \in Workers : pc'[w] = pc[w] /\ arg'[w] = arg[w]
    BY <1>1 DEF ProducerStep, PushLock, PushStore, PushGrow, PushNext, PushPost, PushCall
  <2> QED
    BY <2>1
<1>2. ASSUME NEW w \in Workers, WorkerStep(w) PROVE HoldsWhatItTook'
  <2>1. \A x \in Workers \ {w} : pc'[x] = pc[x] /\ arg'[x] = arg[x]
    BY <1>2 DEF WorkerStep, PopWait, PopLock, PopTake, PopEmpty, PopNext, RunTask
  <2>2. arg'[w] # NULL <=> pc'[w] \in {"pop_next", "run"}
    BY <1>2 DEF WorkerStep, PopWait, PopLock, PopTake, PopEmpty, PopNext, RunTask
  <2> QED
    BY <2>1, <2>2
<1>3. CASE Restart
  BY <1>3 DEF Restart, StartPc, NoArgs
<1>4. CASE UNCHANGED vars
  BY <1>4 DEF vars
<1> QED
  BY <1>1, <1>2, <1>3, <1>4 DEF Next

\* A worker holds what it took in every state.
LEMMA HoldsInvariant == Spec => []HoldsWhatItTook
<1>1. Init => HoldsWhatItTook
  BY DEF Init, FreshProcess, StartPc, NoArgs, HoldsWhatItTook, Threads
<1> QED
  BY <1>1, StepHolds, IInvInvariant, PTL DEF Spec

\* Where the copies of a task are.
Copies(t) == {i \in DOMAIN taskQueue : taskQueue[i] = t}

\* The copies of a task in the ring can be counted.
LEMMA CopiesFinite ==
    ASSUME TypeOK, NEW t
    PROVE  IsFiniteSet(Copies(t)) /\ Cardinality(Copies(t)) \in Nat
<1>1. IsFiniteSet(0 .. capa_queue - 1)
  BY FS_Interval DEF TypeOK
<1>2. Copies(t) \subseteq 0 .. capa_queue - 1
  BY DEF Copies, TypeOK
<1> QED
  BY <1>1, <1>2, FS_Subset, FS_CardinalityType

\* A task is stored, in a free slot or behind a full ring.
LEMMA StoreSubmits ==
    ASSUME IInv, NEW p \in Producers, PushStore(p) \/ PushGrow(p)
    PROVE  \E a \in Task : Pool!Submit(a)
<1> USE DEF IInv, TypeOK
<1>1. PICK a \in Task : a = arg[p]
  BY DEF PushHasTask, PushStore, PushGrow, Goto
<1>2. PICK at \in Nat :
        /\ at \notin DOMAIN taskQueue \/ taskQueue[at] = NULL
        /\ \A t \in Task : Copies(t)' = IF t = a THEN Copies(t) \cup {at} ELSE Copies(t)
  <2>1. CASE PushStore(p)
    <3>1. push_queue \in Nat /\ push_queue \in DOMAIN taskQueue
      OBVIOUS
    <3>2. /\ taskQueue[push_queue] = NULL
          /\ taskQueue' = [taskQueue EXCEPT ![push_queue] = a]
      BY <1>1, <2>1 DEF PushStore
    <3> QED
      BY <3>1, <3>2 DEF Copies
  <2>2. CASE PushGrow(p)
    <3>1. capa_queue \in Nat /\ DOMAIN taskQueue = 0 .. capa_queue - 1
      OBVIOUS
    <3>2. taskQueue' = [i \in 0 .. 2 * capa_queue - 1 |->
                          IF i < capa_queue THEN taskQueue[i]
                          ELSE IF i = capa_queue THEN a ELSE NULL]
      BY <1>1, <2>2 DEF PushGrow
    <3>3. /\ DOMAIN taskQueue' = 0 .. 2 * capa_queue - 1
          /\ \A i \in 0 .. capa_queue - 1 : taskQueue'[i] = taskQueue[i]
          /\ taskQueue'[capa_queue] = a
          /\ \A i \in capa_queue + 1 .. 2 * capa_queue - 1 : taskQueue'[i] = NULL
      BY <3>2
    <3>4. ASSUME NEW t \in Task
          PROVE  Copies(t)' = IF t = a THEN Copies(t) \cup {capa_queue} ELSE Copies(t)
      <4>1. \A i \in 0 .. 2 * capa_queue - 1 : taskQueue'[i] = t
              <=> (i \in 0 .. capa_queue - 1 /\ taskQueue[i] = t) \/ (i = capa_queue /\ t = a)
        BY <3>3
      <4> QED
        BY <3>1, <3>3, <4>1 DEF Copies
    <3> QED
      BY <3>1, <3>4
  <2> QED
    BY <2>1, <2>2
<1>3. at \notin Copies(a)
  BY <1>2 DEF Copies
<1>4. Copies(a)' = Copies(a) \cup {at}
  BY <1>2
<1>5. Cardinality(Copies(a)') = Cardinality(Copies(a)) + 1
  BY <1>3, <1>4, CopiesFinite, OneMore
<1>6. \A t \in Task \ {a} : Cardinality(Copies(t)') = Cardinality(Copies(t))
  BY <1>2
<1>7. arg' = arg
  BY DEF PushStore, PushGrow
<1>8. Pool!Submit(a)
  BY <1>5, <1>6, <1>7 DEF Pool!Submit, Copies
<1> QED
  BY <1>8

\* A worker that takes the task out of its slot starts it.
LEMMA TakeStarts ==
    ASSUME IInv, HoldsWhatItTook, NEW w \in Workers, PopTake(w)
    PROVE  \E t \in Task : Pool!Start(w, t)
<1> USE DEF IInv, TypeOK
<1>1. PICK t \in Task : t = taskQueue[pop_queue]
  BY DEF PopTake
<1>2. arg[w] = NULL /\ arg' = [arg EXCEPT ![w] = t]
  BY <1>1 DEF HoldsWhatItTook, PopTake, Goto
<1>3. PICK at \in DOMAIN taskQueue :
        taskQueue[at] = t /\ taskQueue' = [taskQueue EXCEPT ![at] = NULL]
  BY <1>1 DEF PopTake, Cleared
<1>4. at \in Copies(t) /\ Copies(t)' = Copies(t) \ {at}
  BY <1>3 DEF Copies
<1>5. Cardinality(Copies(t)') = Cardinality(Copies(t)) - 1 /\ Cardinality(Copies(t)) > 0
  BY <1>4, CopiesFinite, OneLess, FS_EmptySet
<1>6. \A u \in Task \ {t} : Cardinality(Copies(u)') = Cardinality(Copies(u))
  <2>1. \A u \in Task \ {t} : Copies(u)' = Copies(u)
    BY <1>3 DEF Copies
  <2> QED
    BY <2>1
<1> DEFINE pending == [u \in Task |-> Cardinality({i \in DOMAIN taskQueue : taskQueue[i] = u})]
           running == [x \in Workers |-> arg[x]]
<1>7. running[w] = NULL /\ running' = [running EXCEPT ![w] = t]
  BY <1>2 DEF Threads
<1>8. pending[t] > 0 /\ pending' = [pending EXCEPT ![t] = pending[t] - 1]
  BY <1>5, <1>6 DEF Copies
<1>9. Pool!Start(w, t)
  BY <1>7, <1>8 DEF Pool!Start
<1> QED
  BY <1>9

\* A ring without tasks and threads without tasks are the pool that has lost all.
LEMMA EmptyIsNothing ==
    /\ taskQueue = EmptyRing => \A t \in Task : Cardinality(Copies(t)) = 0
    /\ taskQueue' = EmptyRing => \A t \in Task : Cardinality(Copies(t)') = 0
  BY FS_EmptySet DEF EmptyRing, Copies

\* The end of the process is a loss of all tasks.
LEMMA RestartLoses == ASSUME Restart PROVE Pool!Lose
<1>1. \A t \in Task : Cardinality(Copies(t)') = 0
  BY EmptyIsNothing DEF Restart
<1>2. \A w \in Workers : arg'[w] = NULL
  BY DEF Restart, NoArgs, Threads
<1> QED
  BY <1>1, <1>2 DEF Pool!Lose, Pool!Nothing, Pool!Nobody, Copies

\* A fresh pool is an abstract one without tasks.
LEMMA InitRefines == ASSUME Init PROVE Pool!Init
<1>1. \A t \in Task : Cardinality(Copies(t)) = 0
  BY EmptyIsNothing DEF Init, FreshProcess
<1>2. \A w \in Workers : arg[w] = NULL
  BY DEF Init, FreshProcess, NoArgs, Threads
<1> QED
  BY <1>1, <1>2 DEF Pool!Init, Pool!Nothing, Pool!Nobody, Copies

\* Every other step leaves the tasks of the pool alone, finishes one, or loses all.
LEMMA StepRefines ==
    ASSUME IInv, HoldsWhatItTook, [Next]_vars
    PROVE  [Pool!Next]_(Pool!vars)
<1> USE DEF IInv, TypeOK
<1>0. ASSUME UNCHANGED taskQueue, \A w \in Workers : arg'[w] = arg[w]
      PROVE  UNCHANGED Pool!vars
  BY <1>0 DEF Pool!vars
<1>1. ASSUME NEW p \in Producers, NEW a \in Task, PushCall(p, a)
      PROVE  UNCHANGED Pool!vars
  BY <1>0, <1>1 DEF PushCall, queueVars, Threads
<1>2. ASSUME NEW p \in Producers, ProducerStep(p) PROVE [Pool!Next]_(Pool!vars)
  <2>1. CASE PushStore(p) \/ PushGrow(p)
    BY <2>1, StoreSubmits DEF Pool!Next
  <2>2. CASE PushLock(p) \/ PushNext(p)
    BY <2>2, <1>0 DEF PushLock, PushNext, queueVars
  <2>3. CASE PushPost(p)
    BY <2>3, <1>0 DEF PushPost, queueVars, Threads
  <2> QED
    BY <1>2, <2>1, <2>2, <2>3 DEF ProducerStep
<1>3. ASSUME NEW w \in Workers, WorkerStep(w) PROVE [Pool!Next]_(Pool!vars)
  <2>1. CASE PopTake(w)
    BY <2>1, TakeStarts DEF Pool!Next
  <2>2. CASE PopWait(w) \/ PopLock(w) \/ PopEmpty(w) \/ PopNext(w)
    BY <2>2, <1>0 DEF PopWait, PopLock, PopEmpty, PopNext, queueVars
  <2>3. CASE RunTask(w)
    <3> DEFINE running == [x \in Workers |-> arg[x]]
    <3>1. running[w] # NULL /\ running' = [running EXCEPT ![w] = NULL]
      BY <2>3 DEF RunTask, Goto, HoldsWhatItTook, Threads
    <3>2. taskQueue' = taskQueue
      BY <2>3 DEF RunTask, queueVars
    <3>3. Pool!Finish(w)
      BY <3>1, <3>2 DEF Pool!Finish
    <3> QED
      BY <3>3 DEF Pool!Next
  <2> QED
    BY <1>3, <2>1, <2>2, <2>3 DEF WorkerStep
<1>4. ASSUME Restart PROVE Pool!Lose
  BY <1>4, RestartLoses
<1>5. ASSUME UNCHANGED vars PROVE UNCHANGED Pool!vars
  BY <1>5 DEF vars, Pool!vars
<1> QED
  BY <1>1, <1>2, <1>3, <1>4, <1>5 DEF Next, Pool!Next

\* push_back, pop_front and waitpoll together start every task they are given exactly
\* once, in one worker, and lose none before the process ends: the safety part of
\* ImplementsTaskPool.
THEOREM PoolImplementsTaskPool == Spec => Pool!Spec
  BY InitRefines, StepRefines, IInvInvariant, HoldsInvariant, PTL DEF Spec, Pool!Spec
=============================================================================
