--------------------------- MODULE NetworkPrograms ---------------------------
(***************************************************************************)
(* The servers and clients of network/, one system at a time: the server   *)
(* that forks with any clients, one session of it with the client of the   *)
(* repository, and the iterative server with its clients.                  *)
(***************************************************************************)
EXTENDS ForkServer

CONSTANTS MaxUnits, W, Users, MaxTyped

VARIABLES system,
          cli, typed, toServer, toClient, child, piece, sent, shown,
          server, served, rxbuff, queue, place, input, left, request, reply

ASSUME NetworkAssumption ==
    /\ MaxUnits \in Nat /\ W \in Nat \ {0} /\ MaxTyped \in Nat
    /\ "nobody" \notin Users   \* Nobody of IterativeServer

Echo == INSTANCE EchoSession
Iterative == INSTANCE IterativeServer

session == <<cli, typed, toServer, toClient, child, piece, sent, shown>>
service == <<server, served, rxbuff, queue, place, input, left, request, reply>>
netVars == <<system, vars, session, service>>

NetInit ==
    /\ system \in {"fork", "session", "iterative"}
    /\ Init /\ Echo!Init /\ Iterative!Init

InFork == system = "fork" /\ UNCHANGED <<system, session, service>>
InSession == system = "session" /\ UNCHANGED <<system, vars, service>>
InIterative == system = "iterative" /\ UNCHANGED <<system, vars, session>>

NetNext ==
    \/ InFork /\ Next
    \/ InSession /\ Echo!Next
    \/ InIterative /\ Iterative!Next

NetSpec == NetInit /\ [][NetNext]_netVars

\* Programs are scheduled and signals delivered. Users and clients outside of
\* the repository need not act, and connections need not break.
NetFairSpec ==
    /\ NetSpec
    /\ \A p \in Procs : WF_netVars(InFork /\ Loop(p)) /\ WF_netVars(InFork /\ Signal(p))
    /\ WF_netVars(InSession /\ Echo!ClientStep) /\ WF_netVars(InSession /\ Echo!ChildStep)
    /\ WF_netVars(InIterative /\ Iterative!ServerProgram)
    /\ \A u \in Users : WF_netVars(InIterative /\ Iterative!ClientProgram(u))

-----------------------------------------------------------------------------
\* Types of the system that runs; and in the iterative one nobody waits twice.
NetTypeOK ==
    /\ system = "fork" => TypeOK
    /\ system = "session" => Echo!TypeOK
    /\ system = "iterative" => Iterative!TypeOK

\* With the types: a process of the fork server has the connection it serves and no
\* other, as ForkServer says.
ConnectionsAreOwned == NetTypeOK /\ (system = "fork" => OwnConnectionOnly)

\* What the user of network/client.c sees is what was typed, as EchoSession says.
EchoIsExact == system = "session" => Echo!EchoIsExact

\* Every client of the iterative server that waits is answered or told off, as
\* IterativeServer says.
NobodyHoldsTheServer == Iterative!NobodyHoldsTheServer
=============================================================================
