----------------------------- MODULE OldAutoSsh -----------------------------
(***************************************************************************)
(* The ssh supervisor as it was, network/back_socket/autossh/autossh.c. It *)
(* differs from AutoSsh in its probe: the server is named by its address,  *)
(* and when that is none, the errno of an earlier call is the result. The  *)
(* rest is the same text and shares the actions of AutoSsh.                *)
(***************************************************************************)
EXTENDS AutoSsh

\* From the addresses and ports in its arguments; what is no port is zero.
OldInit == Init

\* inet_aton refuses the name: whatever errno says is taken for what the server
\* has answered, zero included.
NotAnAddress == \E next \in {"exited", "sleep", "fork"} : ProbeTo(next)

\* connect, write and read, after which errno is what the last failure has left.
Probed == PortInUse \/ NotReachable \/ PortIsFree

OldProbe == NotAnAddress \/ Probed

OldMain == Iterate \/ OldProbe \/ Slept \/ ForkFails \/ Fork \/ Wait \/ Join

OldWatcher == ReadLine \/ WatchEnds \/ Kill

OldNext == OldMain \/ OldWatcher \/ Output \/ Ends
=============================================================================
