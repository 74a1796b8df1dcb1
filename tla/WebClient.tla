------------------------------ MODULE WebClient ------------------------------
(***************************************************************************)
(* socketpoll/webClient.cpp. As built, main makes one connection, sends a  *)
(* line and reads once. README.md:3 speaks of a client that checks the     *)
(* server with many threads: that is more(), of which line 80 has the      *)
(* call, with its threads of test(), each of which has threads of          *)
(* clientn(). Both are modelled; the server is external.                   *)
(***************************************************************************)
EXTENDS Integers, FiniteSets

CONSTANTS Tests,    \* threads of more()
          PerTest   \* threads of each test()

VARIABLES run,           \* main: "start", "alone", or in more(): "create", "join"; or
                         \* how it ended: "over", "exited"
          test,          \* of each test(): "none", "failed", "creates", "joins", "over"
          thr,           \* of each clientn()
          counter_lock,  \* who has it, or Free
          cnt, number,   \* the counter, and what a thread has taken from it
          conn           \* a connection: "none", "open", "served" once the server has
                         \* answered or closed it, "broken"

wvars == <<run, test, thr, counter_lock, cnt, number, conn>>

Alone == <<"main", 1>>
Free == <<>>
Threads == Tests \X (1 .. PerTest)
Clients == Threads \cup {Alone}

Start ==
    /\ run = "start"
    /\ test = [t \in Tests |-> "none"]
    /\ thr = [c \in Clients |-> "none"]
    /\ counter_lock = Free /\ cnt = 0
    /\ number = [c \in Clients |-> 0]
    /\ conn = [c \in Clients |-> "none"]

Alive == run \in {"alone", "create", "join"}

-----------------------------------------------------------------------------
(* main, more and test *)

\* As built ...
ConnectAlone ==
    /\ run = "start"
    /\ run' = "alone"
    /\ thr' = [thr EXCEPT ![Alone] = "connect"]
    /\ UNCHANGED <<test, counter_lock, cnt, number, conn>>

\* ... and with the call of line 80.
more ==
    /\ run = "start"
    /\ run' = "create"
    /\ UNCHANGED <<test, thr, counter_lock, cnt, number, conn>>

CreateTest ==
    /\ run = "create"
    /\ \E t \in Tests, created \in {"creates", "failed"} :
         test[t] = "none" /\ test' = [test EXCEPT ![t] = created]
    /\ run' = IF \E t \in Tests : test'[t] = "none" THEN "create" ELSE "join"
    /\ UNCHANGED <<thr, counter_lock, cnt, number, conn>>

CreateClient(t) ==
    /\ Alive /\ test[t] = "creates"
    /\ LET k == Cardinality({i \in 1 .. PerTest : thr[<<t, i>>] # "none"}) + 1
       IN  /\ \E created \in {"lock", "failed"} : thr' = [thr EXCEPT ![<<t, k>>] = created]
           /\ test' = [test EXCEPT ![t] = IF k = PerTest THEN "joins" ELSE "creates"]
    /\ UNCHANGED <<run, counter_lock, cnt, number, conn>>

JoinClients(t) ==
    /\ Alive /\ test[t] = "joins"
    /\ \A i \in 1 .. PerTest : thr[<<t, i>>] \in {"done", "failed"}
    /\ test' = [test EXCEPT ![t] = "over"]
    /\ UNCHANGED <<run, thr, counter_lock, cnt, number, conn>>

JoinTests ==
    /\ \/ run = "join" /\ \A t \in Tests : test[t] \in {"over", "failed"}
       \/ run = "alone" /\ thr[Alone] = "done"
    /\ run' = "over"
    /\ UNCHANGED <<test, thr, counter_lock, cnt, number, conn>>

\* What pthread_create returns is not looked at: when it fails, what is joined is
\* garbage, which crashes or is refused.
JoinGarbage ==
    /\ \/ run = "join" /\ \E t \in Tests : test[t] = "failed"
       \/ /\ Alive
          /\ \E t \in Tests, i \in 1 .. PerTest : test[t] = "joins" /\ thr[<<t, i>>] = "failed"
    /\ run' = "exited"
    /\ UNCHANGED <<test, thr, counter_lock, cnt, number, conn>>

-----------------------------------------------------------------------------
(* clientn, the constructor of a client's Socket, and readcbuf *)

ThreadAt(c, here, next) == Alive /\ thr[c] = here /\ thr' = [thr EXCEPT ![c] = next]

\* Mutant: nothing is waited for.
NotLocked == TRUE

LockIsFree == counter_lock = Free

LockCounter(c) ==
    /\ ThreadAt(c, "lock", "count") /\ LockIsFree
    /\ counter_lock' = c
    /\ UNCHANGED <<run, test, cnt, number, conn>>

\* The value of cnt++ is taken ...
TakeCount(c) ==
    /\ ThreadAt(c, "count", "unlock")
    /\ number' = [number EXCEPT ![c] = cnt]
    /\ UNCHANGED <<run, test, counter_lock, cnt, conn>>

\* ... and the counter stored and given free.
UnlockCounter(c) ==
    /\ ThreadAt(c, "unlock", "connect")
    /\ cnt' = number[c] + 1 /\ counter_lock' = Free
    /\ UNCHANGED <<run, test, number, conn>>

Connect(c) ==
    /\ ThreadAt(c, "connect", "write")
    /\ conn' = [conn EXCEPT ![c] = "open"]
    /\ UNCHANGED <<run, test, counter_lock, cnt, number>>

\* The constructor throws errno, which clientn and main catch.
ConnectFails(c) ==
    /\ ThreadAt(c, "connect", "done")
    /\ UNCHANGED <<run, test, counter_lock, cnt, number, conn>>

\* A connection that the server has closed takes the line all the same, and answers
\* with a reset.
WriteRequest(c) ==
    /\ ThreadAt(c, "write", "read") /\ conn[c] # "broken"
    /\ conn' = [conn EXCEPT ![c] = IF @ = "served" THEN "broken" ELSE @]
    /\ UNCHANGED <<run, test, counter_lock, cnt, number>>

ReadAnswer(c) ==
    /\ ThreadAt(c, "read", "done") /\ conn[c] = "served"
    /\ conn' = [conn EXCEPT ![c] = "none"]
    /\ UNCHANGED <<run, test, counter_lock, cnt, number>>

\* exit(-1), or SIGPIPE: all threads end with the one that fails.
WriteOrReadFails(c) ==
    /\ Alive /\ thr[c] \in {"write", "read"} /\ conn[c] = "broken"
    /\ run' = "exited"
    /\ UNCHANGED <<test, thr, counter_lock, cnt, number, conn>>

Client(c) ==
    \/ LockCounter(c) \/ TakeCount(c) \/ UnlockCounter(c) \/ Connect(c) \/ ConnectFails(c)
    \/ WriteRequest(c) \/ ReadAnswer(c) \/ WriteOrReadFails(c)

-----------------------------------------------------------------------------
\* The server answers, closes or breaks a connection (external).
Serve(c) ==
    /\ Alive /\ conn[c] = "open"
    /\ \E s \in {"served", "broken"} : conn' = [conn EXCEPT ![c] = s]
    /\ UNCHANGED <<run, test, thr, counter_lock, cnt, number>>

WebNext ==
    \/ ConnectAlone \/ more \/ CreateTest \/ JoinTests \/ JoinGarbage
    \/ \E t \in Tests : CreateClient(t) \/ JoinClients(t)
    \/ \E c \in Clients : Client(c) \/ Serve(c)

-----------------------------------------------------------------------------
\* Types; and the program does not return before its threads.
TypeOK ==
    /\ run \in {"start", "alone", "create", "join", "over", "exited"}
    /\ test \in [Tests -> {"none", "failed", "creates", "joins", "over"}]
    /\ thr \in [Clients -> {"none", "failed", "lock", "count", "unlock", "connect", "write", "read", "done"}]
    /\ counter_lock \in Clients \cup {Free} /\ cnt \in 0 .. Cardinality(Threads)
    /\ number \in [Clients -> 0 .. Cardinality(Threads)]
    /\ conn \in [Clients -> {"none", "open", "served", "broken"}]
    /\ run = "over" => \A c \in Clients : thr[c] \in {"none", "failed", "done"}

Counted(c) == c # Alone /\ thr[c] \in {"connect", "write", "read", "done"}

\* Each request of the many has a number of its own, and none is left out: what
\* the server is sent are the numbers below the counter.
CountsAreDistinct ==
    /\ \A c, d \in Threads : c # d /\ Counted(c) /\ Counted(d) => number[c] # number[d]
    /\ counter_lock = Free => {number[c] : c \in {d \in Threads : Counted(d)}} = 0 .. cnt - 1
=============================================================================
