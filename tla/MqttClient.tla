----------------------------- MODULE MqttClient -----------------------------
(***************************************************************************)
(* The MQTT publisher of mqtt-imx_/src/paho-pub.c: a supervising process   *)
(* forks a client, waits for its end and forks the next one. In the client *)
(* the main thread connects, waits for its subscription and publishes in a *)
(* loop.                                                                   *)
(***************************************************************************)
EXTENDS PahoClient

VARIABLES supervisor, toStop   \* the parent and its own flag

parent == <<supervisor, toStop>>

Init == supervisor = "loop" /\ toStop = FALSE /\ ClientInit("none")

-----------------------------------------------------------------------------
(* The supervisor *)

Parent(here, next) == supervisor = here /\ supervisor' = next

\* while (!toStop)
TestToStop == Parent("loop", IF toStop THEN "done" ELSE "fork") /\ UNCHANGED <<toStop, client>>

\* The child starts with a copy of the parent's flags and handlers.
InheritFlags ==
    /\ connected' = FALSE /\ subscribed' = FALSE /\ disconnected' = FALSE
    /\ finished' = toStop
    /\ sigint' = IF toStop THEN "default" ELSE "caught"

ForkClient ==
    /\ Parent("fork", "wait")
    /\ pc' = "start" /\ rc' = "ok"
    /\ InheritFlags
    /\ UNCHANGED <<toStop, library>>

ForkFails == Parent("fork", "done") /\ toStop' = TRUE /\ UNCHANGED client

WaitReturns == Parent("wait", "sleep") /\ Goto("ended", "none") /\ UNCHANGED toStop

Slept300 == Parent("sleep", "loop") /\ UNCHANGED <<toStop, client>>

\* A signal at the parent, which waits on for its client.
ParentSignal ==
    /\ supervisor # "done" /\ ~toStop
    /\ toStop' = TRUE
    /\ UNCHANGED <<supervisor, client>>

Supervisor == TestToStop \/ ForkClient \/ ForkFails \/ WaitReturns \/ Slept300

-----------------------------------------------------------------------------
(* The client's main thread *)

\* while (!subscribed): only after it is finished looked at.
Subscribed == subscribed /\ Goto("subscribe", IF finished THEN "exit" ELSE "loop")

\* Mutant: the loop does not look at the request to stop.
DeafTest == "sleep"

AfterTest == IF finished THEN "exit" ELSE "sleep"

\* while (!toStop), where finished is another name of toStop.
Loop == Goto("loop", AfterTest)

Slept == Goto("sleep", IF connected THEN "produce" ELSE "loop")

\* popen, fgets and pclose, which leaves the loop when it fails.
Produce == Goto("produce", "try") \/ Goto("produce", "exit")

\* popen fails, and fgets is called with its null pointer.
ProducerFails == Ends("produce")

Try == Goto("try", NextTry)

Send == At("send", AfterSend) /\ Sending /\ UNCHANGED <<flags, library>>

Sent == Goto("sent", "loop")

\* Mutant: the client's library is left running.
NotDestroyed == UNCHANGED library

Destroyed == LibraryGone

Destroy == At("disconnecting", "returned") /\ disconnected /\ Destroyed /\ UNCHANGED <<rc, flags>>

\* mqtt_client has returned into the loop of main with its log closed and its
\* options freed. With toStop set, both are done a second time at the end of
\* main: the process returns or dies. Without (after a failing pclose) it sleeps
\* and forks a client of its own that uses them: the model stops there.
Returned == Ends("returned")

Main ==
    /\ \/ ClearConnected \/ MyConnect \/ Subscribed \/ Loop \/ Slept \/ Produce
       \/ ProducerFails \/ Try \/ Send \/ Sent \/ Disconnect \/ DisconnectFails
       \/ Destroy \/ Returned
    /\ UNCHANGED parent

Environment ==
    (ClientSignal \/ SecondInterrupt \/ Callback \/ Progress \/ Retry \/ Drop) /\ UNCHANGED parent

Next == Supervisor \/ ParentSignal \/ Main \/ Environment

-----------------------------------------------------------------------------
\* Types of the publisher's own variables.
TypeOK ==
    /\ ClientTypeOK
    /\ supervisor \in {"loop", "fork", "wait", "sleep", "done"} /\ toStop \in BOOLEAN
    /\ pc \in {"none", "start", "connect", "subscribe", "loop", "sleep", "produce", "try",
               "send", "sent", "exit", "disconnecting", "returned", "ended"}

Publishing == {"loop", "sleep", "produce", "try", "send", "sent"}
=============================================================================
