------------------------------ MODULE PubThread ------------------------------
(***************************************************************************)
(* mqtt-imx_/paho-pub (thread).c: as PubCopy, with the publishing loop in  *)
(* a thread of its own, which main waits for. Nobody waits for a producer  *)
(* until the disconnect.                                                   *)
(***************************************************************************)
EXTENDS PahoClient

CONSTANTS MaxPipes

VARIABLES pipes, running, zombies,
          sender, sendRc   \* the second thread and its rc, which nothing initialises

Copy == INSTANCE PubCopy

thread == <<sender, sendRc>>
producers == <<pipes, running, zombies>>

NoThread == sender = "none" /\ sendRc = "ok"

Init == Copy!Init /\ NoThread

-----------------------------------------------------------------------------
(* main *)

ThreadSubscribed ==
    /\ subscribed
    /\ Goto("subscribe", IF finished THEN "exit" ELSE "createThread")
    /\ UNCHANGED <<producers, thread>>

CreateThread ==
    /\ Goto("createThread", "join")
    /\ sender' = "loop" /\ sendRc' \in {"ok", "failed"}
    /\ UNCHANGED producers

JoinThread ==
    /\ sender = "done"
    /\ Goto("join", "exit")
    /\ UNCHANGED <<producers, thread>>

\* The end of the process is the end of its threads.
ThreadEnds(here) == Copy!CopyEnds(here) /\ sender' = "none" /\ sendRc' = "ok"

ThreadMain ==
    \/ (ClearConnected \/ MyConnect \/ Disconnect) /\ UNCHANGED <<producers, thread>>
    \/ DisconnectFails /\ ThreadEnds("exit")
    \/ Copy!CopyWaitDisconnected /\ UNCHANGED thread
    \/ disconnected /\ ThreadEnds("disconnecting")
    \/ ThreadSubscribed \/ CreateThread \/ JoinThread

-----------------------------------------------------------------------------
(* sendmessage, the second thread *)

SenderGoes(here, next) == sender = here /\ sender' = next /\ UNCHANGED <<client, sendRc>>

SenderLoop == SenderGoes("loop", IF finished THEN "done" ELSE "sleep") /\ UNCHANGED producers

SenderSlept == SenderGoes("sleep", IF connected THEN "produce" ELSE "loop") /\ UNCHANGED producers

SenderProduce ==
    /\ pipes < MaxPipes
    /\ SenderGoes("produce", "try")
    /\ pipes' = pipes + 1 /\ running' = running + 1
    /\ UNCHANGED zombies

\* popen fails and fgets takes the whole process with it.
SenderDies == sender = "produce" /\ ThreadEnds(pc)

SenderTry ==
    /\ SenderGoes("try", IF connected THEN "send" ELSE IF sendRc = "ok" THEN "loop" ELSE "try")
    /\ UNCHANGED producers

SenderSend ==
    /\ sender = "send" /\ sender' = AfterSend
    /\ sendRc' = IF link = "up" THEN "ok" ELSE "failed"
    /\ UNCHANGED <<client, producers>>

SenderSent == SenderGoes("sent", "loop") /\ UNCHANGED producers

SenderStep ==
    \/ SenderLoop \/ SenderSlept \/ SenderProduce \/ SenderDies
    \/ SenderTry \/ SenderSend \/ SenderSent

-----------------------------------------------------------------------------
\* The callbacks of this file, those of PahoClient to the letter.
ThreadCallback == Callback /\ UNCHANGED <<producers, thread>>

ThreadSignal ==
    \/ ClientSignal /\ UNCHANGED <<producers, thread>>
    \/ SecondInterrupt /\ ThreadEnds(pc)

Next ==
    \/ ThreadMain \/ SenderStep \/ ThreadCallback \/ ThreadSignal
    \/ Copy!ProducerEnds /\ UNCHANGED thread
    \/ (Progress \/ Retry \/ Drop) /\ UNCHANGED <<producers, thread>>

-----------------------------------------------------------------------------
\* Types; and main is past the thread only when the thread is.
TypeOK ==
    /\ ClientTypeOK
    /\ running + zombies <= pipes
    /\ pc \in {"start", "connect", "subscribe", "createThread", "join", "exit", "disconnecting", "ended"}
    /\ sender \in {"none", "loop", "sleep", "produce", "try", "send", "sent", "done"}
    /\ sendRc \in {"ok", "failed"}
    /\ sender \in {"none", "done"} \/ pc = "join"
=============================================================================
