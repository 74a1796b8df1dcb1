------------------------------ MODULE StdoutSub ------------------------------
(***************************************************************************)
(* mqtt-imx_/paho-sub.c: a subscriber that prints what it receives. Here   *)
(* finished is a flag of its own name, and there is no connected: what     *)
(* PahoClient calls by that name is what the callbacks last saw, and       *)
(* nothing in this program reads it. automaticReconnect is not set.        *)
(***************************************************************************)
EXTENDS PahoClient

Init == ClientInit("connect")

-----------------------------------------------------------------------------
\* Created, and connecting; when the library refuses to begin the program ends.
SubConnect ==
    /\ At("connect", "subscribe")
    /\ RequestConnect
    /\ UNCHANGED <<rc, flags>>

SubConnectFails == Ends("connect")

\* while (!subscribed), and a jump past the disconnect if it is to finish.
SubSubscribed == subscribed /\ Goto("subscribe", IF finished THEN "destroy" ELSE "receive")

\* Mutant: the loop waits for something else than the request to stop.
EndOfLink == disconnected

ToldToFinish == finished

\* while (!finished): messages are printed by the callback.
SubFinished == ToldToFinish /\ Goto("receive", "exit")

SubDisconnected == disconnected /\ Goto("disconnecting", "destroy")

SubDestroy == Ends("destroy")

SubMain ==
    \/ SubConnect \/ SubConnectFails \/ SubSubscribed \/ SubFinished
    \/ Disconnect \/ DisconnectFails \/ SubDisconnected \/ SubDestroy

\* onConnect, onConnectFailure, onSubscribe, onSubscribeFailure, connectionLost and
\* onDisconnect, as in PahoClient but for connected.
SubCallback == Callback

SubSignal == ClientSignal \/ SecondInterrupt

Next == SubMain \/ SubCallback \/ SubSignal \/ Progress \/ Drop

-----------------------------------------------------------------------------
\* Types of a program that has no states of its own beside the places of main.
TypeOK ==
    /\ ClientTypeOK
    /\ pc \in {"connect", "subscribe", "receive", "exit", "disconnecting", "destroy", "ended"}
=============================================================================
