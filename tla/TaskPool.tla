------------------------------- MODULE TaskPool -------------------------------
(***************************************************************************)
(* What a thread pool promises to the code that pushes tasks into it: each *)
(* submitted task is started by exactly one worker, once, and while        *)
(* workers are free none is passed over for ever.  Nothing is promised     *)
(* about the order, and the end of the process loses everything.           *)
(***************************************************************************)
EXTENDS Naturals

CONSTANTS Workers, Task, NULL

VARIABLES pending,   \* how many copies of each task wait
          running    \* the task each worker executes, or NULL

vars == <<pending, running>>

Nothing == [t \in Task |-> 0]
Nobody == [w \in Workers |-> NULL]

Init == pending = Nothing /\ running = Nobody

Submit(t) ==
    /\ pending' = [pending EXCEPT ![t] = @ + 1]
    /\ UNCHANGED running

Start(w, t) ==
    /\ running[w] = NULL
    /\ pending[t] > 0
    /\ running' = [running EXCEPT ![w] = t]
    /\ pending' = [pending EXCEPT ![t] = @ - 1]

Finish(w) ==
    /\ running[w] # NULL
    /\ running' = [running EXCEPT ![w] = NULL]
    /\ UNCHANGED pending

Lose == pending' = Nothing /\ running' = Nobody

Next ==
    \/ \E t \in Task : Submit(t)
    \/ \E w \in Workers : Finish(w) \/ \E t \in Task : Start(w, t)
    \/ Lose

Spec == Init /\ [][Next]_vars

FairSpec ==
    /\ Spec
    /\ \A t \in Task : WF_vars(\E w \in Workers : Start(w, t))
    /\ \A w \in Workers : WF_vars(Finish(w))
=============================================================================
