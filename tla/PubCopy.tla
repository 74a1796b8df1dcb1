------------------------------- MODULE PubCopy -------------------------------
(***************************************************************************)
(* mqtt-imx_/paho-pub (copy).c: the publisher without a supervisor. It     *)
(* never calls pclose: every turn leaves a pipe open and a child behind,   *)
(* which waitpid without waiting picks up when it has ended.               *)
(***************************************************************************)
EXTENDS PahoClient

CONSTANTS MaxPipes   \* popens until the process is out of descriptors

VARIABLES pipes,     \* opened and never closed
          running,   \* producers that have not ended
          zombies    \* producers that have, and are not waited for

producers == <<pipes, running, zombies>>

NoProducers == pipes = 0 /\ running = 0 /\ zombies = 0

Init == ClientInit("start") /\ NoProducers

-----------------------------------------------------------------------------
\* while (!subscribed) with a waitpid that finds nobody yet.
CopySubscribed == subscribed /\ Goto("subscribe", IF finished THEN "exit" ELSE "loop") /\ UNCHANGED producers

CopyLoop == Goto("loop", IF finished THEN "exit" ELSE "sleep") /\ UNCHANGED producers

\* while (waitpid(-1, &status, WNOHANG) > 0), whether connected or not.
CopySlept ==
    /\ Goto("sleep", IF connected THEN "produce" ELSE "loop")
    /\ zombies' = 0
    /\ UNCHANGED <<pipes, running>>

CopyProduce ==
    /\ pipes < MaxPipes
    /\ Goto("produce", "try")
    /\ pipes' = pipes + 1 /\ running' = running + 1
    /\ UNCHANGED zombies

\* The process ends, and with it its pipes; its children are left to init.
CopyEnds(here) == Ends(here) /\ pipes' = 0 /\ running' = 0 /\ zombies' = 0

\* Without a descriptor or a process popen fails, and fgets dies of it.
CopyProducerFails == CopyEnds("produce")

CopyTry == Goto("try", NextTry) /\ UNCHANGED producers

CopySend ==
    /\ At("send", AfterSend) /\ Sending
    /\ UNCHANGED <<flags, library, producers>>

CopySent == Goto("sent", "loop") /\ UNCHANGED producers

\* while (!disconnected), with one child waited for in every turn.
CopyWaitDisconnected ==
    /\ pc = "disconnecting" /\ ~disconnected /\ zombies > 0
    /\ zombies' = zombies - 1
    /\ UNCHANGED <<client, pipes, running>>

CopyDestroy == disconnected /\ CopyEnds("disconnecting")

CopyMain ==
    \/ (ClearConnected \/ MyConnect \/ Disconnect) /\ UNCHANGED producers
    \/ DisconnectFails /\ CopyEnds("exit")
    \/ CopySubscribed \/ CopyLoop \/ CopySlept \/ CopyProduce \/ CopyProducerFails
    \/ CopyTry \/ CopySend \/ CopySent \/ CopyWaitDisconnected \/ CopyDestroy

\* A producer writes its line and ends (external).
ProducerEnds ==
    /\ running > 0
    /\ running' = running - 1 /\ zombies' = zombies + 1
    /\ UNCHANGED <<client, pipes>>

\* The callbacks of this file, those of PahoClient to the letter.
CopyCallback == Callback /\ UNCHANGED producers

CopySignal ==
    \/ ClientSignal /\ UNCHANGED producers
    \/ SecondInterrupt /\ CopyEnds(pc)

Next ==
    \/ CopyMain \/ CopyCallback \/ CopySignal
    \/ ProducerEnds
    \/ (Progress \/ Retry \/ Drop) /\ UNCHANGED producers

-----------------------------------------------------------------------------
\* Types; and no producer without the pipe it was started with.
TypeOK ==
    /\ ClientTypeOK
    /\ pipes \in 0 .. MaxPipes /\ {running, zombies} \subseteq Nat
    /\ running + zombies <= pipes
    /\ pc \in {"start", "connect", "subscribe", "loop", "sleep", "produce", "try", "send",
               "sent", "exit", "disconnecting", "ended"}
=============================================================================
