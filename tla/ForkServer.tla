----------------------------- MODULE ForkServer -----------------------------
(***************************************************************************)
(* The server of network/server.c: a process per connection. The process   *)
(* that accepted forks, closes its copy and accepts again; the child       *)
(* echoes until it reads quit and then returns from chldproccess into the  *)
(* loop of main, where it accepts too. SIGCHLD is caught to clear zombies, *)
(* and interrupts an accept that is waiting.                               *)
(*                                                                         *)
(* The kernel (queue of listen, signals, what becomes of orphans) and the  *)
(* clients are external.                                                   *)
(***************************************************************************)
EXTENDS Integers, Sequences, FiniteSets

CONSTANTS Procs,    \* processes that can come into being (bound)
          first,    \* the one started from the shell
          Clients,  \* connections that can be made (bound)
          MaxRx,    \* lines a client may have unread at the server (bound)
          None

ASSUME ForkAssumption == first \in Procs /\ None \notin Procs \cup Clients

VARIABLES pc,       \* of each process
          parent,   \* the process that forked it, None for shell and init
          sigchld,  \* SIGCHLD is pending
          acceptfd, \* the connection a process deals with
          holds,    \* the connections of which it has a descriptor
          buff,     \* what it read last
          backlog,  \* clients waiting to be accepted
          peer,     \* "none", "up", "fin", "rst": what the client has done
          rx        \* what it has sent and nobody has read

procVars == <<pc, parent, sigchld, acceptfd, holds, buff>>
connVars == <<backlog, peer, rx>>
vars == <<procVars, connVars>>

Init ==
    /\ pc = [p \in Procs |-> IF p = first THEN "accept" ELSE "unborn"]
    /\ parent = [p \in Procs |-> None]
    /\ sigchld = [p \in Procs |-> FALSE]
    /\ acceptfd = [p \in Procs |-> None]
    /\ holds = [p \in Procs |-> {}]
    /\ buff = [p \in Procs |-> "nothing"]
    /\ backlog = <<>>
    /\ peer = [c \in Clients |-> "none"] /\ rx = [c \in Clients |-> <<>>]

Gone == {"unborn", "zombie", "reaped"}
Alive(p) == pc[p] \notin Gone
ZombiesOf(p) == {q \in Procs : parent[q] = p /\ pc[q] = "zombie"}

Goto(p, next) == pc' = [pc EXCEPT ![p] = next]

-----------------------------------------------------------------------------
(* Ends and signals *)

\* The process ends: its descriptors are closed, its parent is told, and its
\* children are init's, which waits for them at once.
Ends(p) ==
    /\ pc' = [q \in Procs |->
                 IF q = p THEN IF parent[p] = None THEN "reaped" ELSE "zombie"
                 ELSE IF q \in ZombiesOf(p) THEN "reaped" ELSE pc[q]]
    /\ parent' = [q \in Procs |-> IF parent[q] = p THEN None ELSE parent[q]]
    /\ sigchld' = [q \in Procs |-> q # p /\ (sigchld[q] \/ q = parent[p])]
    /\ holds' = [holds EXCEPT ![p] = {}]
    /\ UNCHANGED <<acceptfd, buff, connVars>>

\* Mutant: waitpid is called once per signal.
OneCleared(p) == {CHOOSE q \in ZombiesOf(p) : TRUE}

Cleared(p) == ZombiesOf(p)

\* zombie_clear, at any point of the program that is not interrupted by it.
ZombieClear(p) ==
    /\ Alive(p) /\ sigchld[p]
    /\ sigchld' = [sigchld EXCEPT ![p] = FALSE]
    /\ pc' = [q \in Procs |-> IF q \in Cleared(p) THEN "reaped" ELSE pc[q]]
    /\ UNCHANGED <<parent, acceptfd, holds, buff, connVars>>

\* The signal finds the process waiting in accept, which returns EINTR: the
\* loop takes that for an error and exits. zombie_clear has run before, so
\* that what init gets are live children only.
AcceptInterrupted(p) ==
    /\ pc[p] = "accept" /\ sigchld[p]
    /\ Ends(p)

-----------------------------------------------------------------------------
(* The loop of main *)

Accept(p) ==
    /\ pc[p] = "accept" /\ backlog # <<>>
    /\ backlog' = Tail(backlog)
    /\ acceptfd' = [acceptfd EXCEPT ![p] = Head(backlog)]
    /\ holds' = [holds EXCEPT ![p] = @ \cup {Head(backlog)}]
    /\ Goto(p, "fork")
    /\ UNCHANGED <<parent, sigchld, buff, peer, rx>>

Unborn == {q \in Procs : pc[q] = "unborn"}
NextChild == CHOOSE q \in Unborn : TRUE

\* The child has everything but the signals.
Fork(p) ==
    LET q == NextChild IN
    /\ pc[p] = "fork" /\ Unborn # {}
    /\ pc' = [pc EXCEPT ![p] = "close", ![q] = "serve"]
    /\ parent' = [parent EXCEPT ![q] = p]
    /\ acceptfd' = [acceptfd EXCEPT ![q] = acceptfd[p]]
    /\ holds' = [holds EXCEPT ![q] = holds[p]]
    /\ UNCHANGED <<sigchld, buff, connVars>>

\* chldproccess(-1) returns like the parent's call: the client is dropped.
ForkFails(p) ==
    /\ pc[p] = "fork"
    /\ Goto(p, "close")
    /\ UNCHANGED <<parent, sigchld, acceptfd, holds, buff, connVars>>

\* Mutant: the parent keeps its descriptor.
Kept(p) == holds[p]

Closed(p) == holds[p] \ {acceptfd[p]}

\* close(acceptfd): of the parent, and once more of a child that has served.
CloseAccepted(p) ==
    /\ pc[p] = "close"
    /\ holds' = [holds EXCEPT ![p] = Closed(p)]
    /\ Goto(p, "accept")
    /\ UNCHANGED <<parent, sigchld, acceptfd, buff, connVars>>

-----------------------------------------------------------------------------
(* chldproccess in the child *)

\* read takes eight bytes, the size of a pointer: what has come together may
\* be read together, and a quit among other bytes is none.
Read(p) ==
    LET c == acceptfd[p] IN
    /\ pc[p] = "serve" /\ peer[c] # "rst"
    /\ \E k \in 1 .. Len(rx[c]) :
         /\ rx' = [rx EXCEPT ![c] = SubSeq(rx[c], k + 1, Len(rx[c]))]
         /\ buff' = [buff EXCEPT ![p] = IF k = 1 THEN Head(rx[c]) ELSE "line"]
    /\ Goto(p, "write")
    /\ UNCHANGED <<parent, sigchld, acceptfd, holds, backlog, peer>>

\* The end of the connection is not looked for: an empty string goes round.
ReadEnd(p) ==
    /\ pc[p] = "serve"
    /\ peer[acceptfd[p]] = "fin" /\ rx[acceptfd[p]] = <<>>
    /\ buff' = [buff EXCEPT ![p] = "nothing"]
    /\ Goto(p, "write")
    /\ UNCHANGED <<parent, sigchld, acceptfd, holds, connVars>>

ReadFails(p) ==
    /\ pc[p] = "serve" /\ peer[acceptfd[p]] = "rst"
    /\ Goto(p, "leave")
    /\ UNCHANGED <<parent, sigchld, acceptfd, holds, buff, connVars>>

\* Mutant: the child goes on after quit.
ServedOn(p) == "serve"

AfterWrite(p) == IF buff[p] = "quit" THEN "leave" ELSE "serve"

Write(p) ==
    /\ pc[p] = "write" /\ peer[acceptfd[p]] # "rst"
    /\ Goto(p, AfterWrite(p))
    /\ UNCHANGED <<parent, sigchld, acceptfd, holds, buff, connVars>>

\* A write to a connection that was reset returns an error ...
WriteFails(p) ==
    /\ pc[p] = "write" /\ peer[acceptfd[p]] = "rst"
    /\ Goto(p, "leave")
    /\ UNCHANGED <<parent, sigchld, acceptfd, holds, buff, connVars>>

\* ... or, when the peer had ended it before, raises SIGPIPE, which nobody
\* ignores.
Killed(p) ==
    /\ pc[p] = "write" /\ peer[acceptfd[p]] = "rst"
    /\ Ends(p)

\* close(sockfd) and back into the loop of main, at close(acceptfd).
Leave(p) ==
    /\ pc[p] = "leave"
    /\ holds' = [holds EXCEPT ![p] = @ \ {acceptfd[p]}]
    /\ Goto(p, "close")
    /\ UNCHANGED <<parent, sigchld, acceptfd, buff, connVars>>

-----------------------------------------------------------------------------
(* Clients *)

Unconnected == {c \in Clients : peer[c] = "none"}

Connect ==
    LET c == CHOOSE d \in Unconnected : TRUE IN
    /\ Unconnected # {}
    /\ peer' = [peer EXCEPT ![c] = "up"]
    /\ backlog' = Append(backlog, c)
    /\ UNCHANGED <<procVars, rx>>

Send(c) ==
    /\ peer[c] = "up" /\ Len(rx[c]) < MaxRx
    /\ \E line \in {"line", "quit"} : rx' = [rx EXCEPT ![c] = Append(@, line)]
    /\ UNCHANGED <<procVars, backlog, peer>>

Finish(c) ==
    /\ peer[c] = "up"
    /\ peer' = [peer EXCEPT ![c] = "fin"]
    /\ UNCHANGED <<procVars, backlog, rx>>

Reset(c) ==
    /\ peer[c] \in {"up", "fin"}
    /\ peer' = [peer EXCEPT ![c] = "rst"]
    /\ UNCHANGED <<procVars, backlog, rx>>

-----------------------------------------------------------------------------
Loop(p) ==
    \/ Accept(p) \/ Fork(p) \/ ForkFails(p) \/ CloseAccepted(p)
    \/ Read(p) \/ ReadEnd(p) \/ ReadFails(p)
    \/ Write(p) \/ WriteFails(p) \/ Killed(p) \/ Leave(p)

Signal(p) == ZombieClear(p) \/ AcceptInterrupted(p)

Environment == Connect \/ \E c \in Clients : Send(c) \/ Finish(c) \/ Reset(c)

Next == Environment \/ \E p \in Procs : Loop(p) \/ Signal(p)

Spec == Init /\ [][Next]_vars

\* Every process is scheduled and a pending signal delivered; clients need not
\* act.
FairSpec == Spec /\ \A p \in Procs : WF_vars(Loop(p)) /\ WF_vars(Signal(p))

-----------------------------------------------------------------------------
\* Types.
TypeOK ==
    /\ pc \in [Procs -> Gone \cup {"accept", "fork", "close", "serve", "write", "leave"}]
    /\ parent \in [Procs -> Procs \cup {None}]
    /\ sigchld \in [Procs -> BOOLEAN]
    /\ acceptfd \in [Procs -> Clients \cup {None}]
    /\ \A p \in Procs : Alive(p) /\ acceptfd[p] = None => pc[p] = "accept"
    /\ holds \in [Procs -> SUBSET Clients]
    /\ buff \in [Procs -> {"nothing", "line", "quit"}]
    /\ backlog \in Seq(Clients)
    /\ peer \in [Clients -> {"none", "up", "fin", "rst"}]
    /\ rx \in [Clients -> Seq({"line", "quit"})]

\* Children that end at the same time make one signal; still no zombie is
\* left without a signal that will clear it.
NoZombieForgotten == \A p \in Procs : Alive(p) /\ ZombiesOf(p) # {} => sigchld[p]

\* A connection is in the hands of the process that serves it, and besides of
\* its parent until that has come to its close: whoever waits in accept holds
\* none, and a child inherits no connection but its own.
OwnConnectionOnly ==
    \A p \in Procs :
      /\ pc[p] = "accept" => holds[p] = {}
      /\ holds[p] \subseteq {acceptfd[p]}
      /\ \A q \in Procs \ {p} : pc[p] \in {"serve", "write", "leave"} /\ acceptfd[p] \in holds[q]
                                  => pc[q] = "close" /\ parent[p] = q

\* A client that said quit sees its connection closed, although several
\* processes have had descriptors of it, wherever signals and resets strike.
QuitIsObeyed ==
    \A c \in Clients :
      (\E p \in Procs : pc[p] = "write" /\ acceptfd[p] = c /\ buff[p] = "quit")
        ~> (\A p \in Procs : c \notin holds[p])
=============================================================================
