------------------------------- MODULE AutoSsh -------------------------------
(***************************************************************************)
(* The supervisor of a reverse ssh tunnel, autossh/autossh.c: the main     *)
(* thread probes the server, forks ssh with its stderr on a pipe and waits *)
(* for it; a second thread reads the pipe and kills ssh when it reports    *)
(* that the tunnel does not work. ssh and the server are the environment.  *)
(***************************************************************************)
EXTENDS Integers, Sequences

CONSTANTS MaxOutput   \* lines ssh may have in the pipe (bound)

Failures == {"failed", "refused", "reset"}   \* connfailed, connrefuse, connreset
Lines == Failures \cup {"info"}

VARIABLES pc,       \* of the main thread
          n,        \* its loop counter
          watcher,  \* the second thread: "none", "read", "kill", "ended"
          done,     \* pritarg.done
          statu,    \* pritarg.statu
          ssh,      \* the child: "none", "runs", "zombie", "reaped"
          pipe,     \* lines the child has written and nobody has read
          readEnd, writeEnd  \* whether this process still has them open

threads == <<pc, n, watcher, done, statu>>
world == <<ssh, pipe, readEnd, writeEnd>>
vars == <<threads, world>>

Init ==
    /\ pc = "loop" /\ n = 2
    /\ watcher = "none" /\ done = 0 /\ statu = "init"
    /\ ssh = "none" /\ pipe = <<>>
    /\ readEnd = TRUE /\ writeEnd = TRUE

-----------------------------------------------------------------------------
(* The main thread *)

\* for(n=2;--n;): the counter is decreased before it is tested.
Iterate ==
    /\ pc = "loop"
    /\ n' = n - 1
    /\ pc' = IF n' = 0 THEN "returned" ELSE "probe"
    /\ UNCHANGED <<watcher, done, statu, world>>

\* getStatusFromServer: what connect, write and read find, or an errno that an
\* earlier call has left.
ProbeTo(next) ==
    /\ pc = "probe"
    /\ pc' = next
    /\ UNCHANGED <<n, watcher, done, statu, world>>

PortInUse == ProbeTo("exited")      \* err = 0

NotReachable == ProbeTo("sleep")    \* timeout, network or host unreachable, or unknown

PortIsFree == ProbeTo("fork")       \* refused or reset

NoSuchHost == ProbeTo("crashed")    \* gethostbyname returns NULL, which is followed

\* sleep(60) and continue.
Slept ==
    /\ pc = "sleep"
    /\ pc' = "loop"
    /\ UNCHANGED <<n, watcher, done, statu, world>>

ForkFails ==
    /\ pc = "fork"
    /\ pc' = "exited"
    /\ UNCHANGED <<n, watcher, done, statu, world>>

\* Mutant: the parent keeps the end of the pipe that the child writes to.
KeptWriteEnd == writeEnd

ClosedWriteEnd == FALSE

Fork ==
    /\ pc = "fork"
    /\ ssh' = "runs"
    /\ writeEnd' = ClosedWriteEnd
    /\ done' = 1
    /\ watcher' = "read"
    /\ pc' = "wait"
    /\ UNCHANGED <<n, statu, pipe, readEnd>>

\* Mutant: the watcher is told to stop.
DoneCleared == 0

DoneAfterWait == 1

Wait ==
    /\ pc = "wait" /\ ssh = "zombie"
    /\ ssh' = "reaped"
    /\ done' = DoneAfterWait
    /\ pc' = "join"
    /\ UNCHANGED <<n, watcher, statu, pipe, readEnd, writeEnd>>

Joined == watcher = "ended"

Join ==
    /\ pc = "join" /\ Joined
    /\ readEnd' = FALSE
    /\ pc' = "loop"
    /\ UNCHANGED <<n, watcher, done, statu, ssh, pipe, writeEnd>>

Main ==
    \/ Iterate \/ PortInUse \/ NotReachable \/ PortIsFree \/ NoSuchHost \/ Slept
    \/ ForkFails \/ Fork \/ Wait \/ Join

-----------------------------------------------------------------------------
(* The watcher, getErrnoFromChild *)

\* Mutant: the failure is noted and the loop left without a kill.
NotedOnly == "ended"

AfterFailure == "kill"

\* fgets returns a line; one that tells of a failure is noted.
ReadLine ==
    /\ watcher = "read" /\ done = 1 /\ pipe # <<>>
    /\ pipe' = Tail(pipe)
    /\ IF Head(pipe) \in Failures
         THEN statu' = Head(pipe) /\ watcher' = AfterFailure
         ELSE UNCHANGED <<statu, watcher>>
    /\ UNCHANGED <<pc, n, done, ssh, readEnd, writeEnd>>

\* fgets returns NULL when the pipe is empty and nobody has it open to write.
AtEof == pipe = <<>> /\ ssh # "runs" /\ ~writeEnd

\* while(para->done) ends, or the break in it.
WatchEnds ==
    /\ watcher = "read"
    /\ done = 0 \/ AtEof
    /\ watcher' = "ended"
    /\ UNCHANGED <<pc, n, done, statu, world>>

\* kill(para->pid,SIGKILL): without effect on a zombie; when the child has been
\* reaped, whoever has its number now is not modelled.
Kill ==
    /\ watcher = "kill"
    /\ ssh' = IF ssh = "runs" THEN "zombie" ELSE ssh
    /\ watcher' = "ended"
    /\ UNCHANGED <<pc, n, done, statu, pipe, readEnd, writeEnd>>

Watcher == ReadLine \/ WatchEnds \/ Kill

-----------------------------------------------------------------------------
(* ssh, or the copy of the supervisor whose execvp failed and that leaves   *)
(* the loop of main (external)                                              *)

Output ==
    /\ ssh = "runs" /\ Len(pipe) < MaxOutput
    /\ \E line \in Lines : pipe' = Append(pipe, line)
    /\ UNCHANGED <<threads, ssh, readEnd, writeEnd>>

Ends ==
    /\ ssh = "runs"
    /\ ssh' = "zombie"
    /\ UNCHANGED <<threads, pipe, readEnd, writeEnd>>

-----------------------------------------------------------------------------
Next == Main \/ Watcher \/ Output \/ Ends

Spec == Init /\ [][Next]_vars

\* Both threads are scheduled; ssh may be silent and run for ever.
FairSpec == Spec /\ WF_vars(Main) /\ WF_vars(Watcher)

-----------------------------------------------------------------------------
\* Types; and the pipe is there for as long as the watcher reads from it.
TypeOK ==
    /\ pc \in {"loop", "probe", "sleep", "fork", "wait", "join", "returned", "exited", "crashed"}
    /\ n \in 0 .. 2 /\ done \in 0 .. 1
    /\ watcher \in {"none", "read", "kill", "ended"}
    /\ statu \in Failures \cup {"init"}
    /\ ssh \in {"none", "runs", "zombie", "reaped"}
    /\ pipe \in Seq(Lines) /\ Len(pipe) <= MaxOutput
    /\ {readEnd, writeEnd} \subseteq BOOLEAN
    /\ watcher \in {"read", "kill"} => readEnd

\* The last words of ssh count: although main may have reaped it long before
\* the watcher gets to run, a failure it reported is never left in the pipe
\* unless an earlier one was noted.
LastWordsRead ==
    pc = "returned" => \/ statu # "init"
                       \/ \A i \in DOMAIN pipe : pipe[i] = "info"

\* A tunnel that is reported not to work does not stay up: the failure at the
\* head of the pipe is read and ssh brought to its end.
FailureEndsSsh == (ssh = "runs" /\ \E i \in DOMAIN pipe : pipe[i] \in Failures) ~> (ssh # "runs")

\* When ssh has ended, by itself or killed, main and watcher do not wait for
\* one another: the watcher sees the end of the pipe and main gets on.
NobodyWaitsForever == (ssh = "zombie") ~> (watcher = "ended" /\ ssh = "reaped" /\ pc # "join")

\* What README.md:2 promises: the state of the connection is watched and the
\* connection made again, so that the supervisor tries anew when ssh has ended
\* or the server was not reachable.
TriesAgain == (pc = "sleep" \/ ssh = "zombie") ~> (pc = "probe")
=============================================================================
