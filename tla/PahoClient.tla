----------------------------- MODULE PahoClient -----------------------------
(***************************************************************************)
(* What the programs built on the asynchronous Paho library have in        *)
(* common: flags that callbacks set and the main thread waits for, and the *)
(* callbacks themselves, which are the same text in each of them (mapped   *)
(* here to mqtt-imx_/src/paho-pub.c). Callbacks are run one after another  *)
(* by a thread of the library.                                             *)
(*                                                                         *)
(* The library and the broker are external: the link, the callbacks that   *)
(* are due, and whether an answer to the subscription is still to come.    *)
(***************************************************************************)
EXTENDS Integers, Sequences

CONSTANTS MaxDue   \* callbacks that can be due at a time (bound)

VARIABLES pc, rc,               \* the client's main thread and its last result
          connected, subscribed, finished, disconnected,
          sigint,               \* "caught", or "default" once a signal has come
          link,                 \* "down", "connecting", "up"
          due,                  \* callbacks that are due, in order
          armed,                \* the next end of a connect is called back
          subscribing, closing  \* requests the library has not answered

flags == <<connected, subscribed, finished, disconnected, sigint>>
library == <<link, due, armed, subscribing, closing>>
client == <<pc, rc, flags, library>>

ClientInit(start) ==
    /\ pc = start /\ rc = "ok"
    /\ connected = FALSE /\ subscribed = FALSE
    /\ finished = FALSE /\ disconnected = FALSE /\ sigint = "caught"
    /\ link = "down" /\ due = <<>> /\ armed = FALSE
    /\ subscribing = FALSE /\ closing = FALSE

\* What is left of the library when the process ends or destroys the client.
LibraryGone ==
    /\ link' = "down" /\ due' = <<>> /\ armed' = FALSE
    /\ subscribing' = FALSE /\ closing' = FALSE

Alive == pc \notin {"none", "ended"}

-----------------------------------------------------------------------------
(* What a main thread does *)

At(here, next) == pc = here /\ pc' = next

\* A step that only moves on, and one with which the process ends.
Goto(here, next) == At(here, next) /\ UNCHANGED <<rc, flags, library>>
Ends(here) == At(here, "ended") /\ LibraryGone /\ UNCHANGED <<rc, flags>>

\* MQTTAsync_connect: a request while there is a link is let go (external).
Connecting == IF link = "down" THEN "connecting" ELSE link

RequestConnect ==
    /\ link' = Connecting /\ armed' = TRUE
    /\ UNCHANGED <<due, subscribing, closing>>

\* myconnect clears the flag first ...
ClearConnected ==
    /\ At("start", "connect")
    /\ connected' = FALSE
    /\ UNCHANGED <<rc, subscribed, finished, disconnected, sigint, library>>

\* ... and calls the library, which may refuse to begin.
MyConnect ==
    /\ At("connect", "subscribe")
    /\ \/ RequestConnect /\ finished' = finished
       \/ UNCHANGED library /\ finished' = TRUE
    /\ UNCHANGED <<rc, connected, subscribed, disconnected, sigint>>

\* if(connected == 1) in the do loop: without a connection the old result
\* decides, so that a message is left out or the loop goes round.
NextTry == IF connected THEN "send" ELSE IF rc = "ok" THEN "loop" ELSE "try"

\* MQTTAsync_send: the library takes the message if it has a link (external).
Sending == rc' = IF link = "up" THEN "ok" ELSE "failed"
AfterSend == IF link = "up" THEN "sent" ELSE "try"

Disconnect ==
    /\ At("exit", "disconnecting") /\ link = "up"
    /\ closing' = TRUE
    /\ UNCHANGED <<rc, flags, link, due, armed, subscribing>>

\* exit(EXIT_FAILURE): there is nothing to disconnect.
DisconnectFails == link # "up" /\ Ends("exit")

\* cfinish, which also gives SIGINT its default back ...
ClientSignal ==
    /\ Alive /\ sigint = "caught"
    /\ finished' = TRUE /\ sigint' = "default"
    /\ UNCHANGED <<pc, rc, connected, subscribed, disconnected, library>>

\* ... so that a second one kills.
SecondInterrupt == Alive /\ sigint = "default" /\ Ends(pc)

-----------------------------------------------------------------------------
(* The callbacks *)

Called(callback) ==
    /\ due # <<>> /\ Head(due) = callback
    /\ due' = Tail(due)
    /\ UNCHANGED <<pc, rc, sigint>>

\* The flag is set and the subscription requested.
onConnect ==
    /\ Called("connected")
    /\ connected' = TRUE
    /\ \/ link = "up" /\ subscribing' = TRUE /\ finished' = finished
       \/ subscribing' = subscribing /\ finished' = TRUE
    /\ UNCHANGED <<subscribed, disconnected, link, armed, closing>>

onConnectFailure ==
    /\ Called("connectFailed")
    /\ connected' = FALSE /\ finished' = TRUE
    /\ UNCHANGED <<subscribed, disconnected, link, armed, subscribing, closing>>

\* Mutant: success is not noted.
SubscriptionForgotten == subscribed

SubscriptionNoted == TRUE

onSubscribeSuccess ==
    /\ Called("subscribed")
    /\ subscribed' = SubscriptionNoted
    /\ UNCHANGED <<connected, finished, disconnected, link, armed, subscribing, closing>>

onSubscribeFailure ==
    /\ Called("subscribeFailed")
    /\ finished' = TRUE
    /\ UNCHANGED <<connected, subscribed, disconnected, link, armed, subscribing, closing>>

\* Mutant: the flag stays as it was.
FlagKept == connected

FlagAfterLoss == FALSE

\* Mutant: no new connection is requested.
NotReconnecting == link

Reconnecting == Connecting

connectionLost ==
    /\ Called("lost")
    /\ connected' = FlagAfterLoss
    /\ \/ link' = Reconnecting /\ armed' = TRUE /\ finished' = finished
       \/ UNCHANGED <<link, armed>> /\ finished' = TRUE
    /\ UNCHANGED <<subscribed, disconnected, subscribing, closing>>

onDisconnect ==
    /\ Called("disconnected")
    /\ disconnected' = TRUE
    /\ UNCHANGED <<connected, subscribed, finished, link, armed, subscribing, closing>>

Callback ==
    \/ onConnect \/ onConnectFailure \/ onSubscribeSuccess \/ onSubscribeFailure
    \/ connectionLost \/ onDisconnect

-----------------------------------------------------------------------------
(* The library and the broker *)

Library == UNCHANGED <<pc, rc, flags>>
Due(callbacks) == Len(due \o callbacks) <= MaxDue /\ due' = due \o callbacks

\* A connect that the library repeats by itself after a failure it has told of
\* may go without a callback.
Established ==
    /\ link = "connecting"
    /\ link' = "up" /\ armed' = FALSE
    /\ Due(<<"connected">>) \/ (~armed /\ Due(<<>>))
    /\ Library /\ UNCHANGED <<subscribing, closing>>

Refused ==
    /\ link = "connecting"
    /\ link' = "down" /\ armed' = FALSE
    /\ Due(<<"connectFailed">>) \/ (~armed /\ Due(<<>>))
    /\ Library /\ UNCHANGED <<subscribing, closing>>

\* automaticReconnect, once there has been a connect to repeat; after a loss the
\* next end of a connect is called back.
Retry ==
    /\ Alive /\ link = "down" /\ ~closing
    /\ pc \notin {"create", "start", "connect", "refused", "returned"}
    /\ link' = "connecting"
    /\ Library /\ UNCHANGED <<due, armed, subscribing, closing>>

Answered ==
    /\ subscribing /\ link = "up"
    /\ subscribing' = FALSE
    /\ Due(<<"subscribed">>) \/ Due(<<"subscribeFailed">>)
    /\ Library /\ UNCHANGED <<link, armed, closing>>

\* The link breaks. The requests under way are told to have failed, or not.
Drop ==
    /\ link = "up"
    /\ link' = "down" /\ armed' = TRUE
    /\ subscribing' = FALSE /\ closing' = FALSE
    /\ Due(<<"lost">>) \/ (subscribing /\ Due(<<"subscribeFailed", "lost">>))
    /\ Library

Disconnected ==
    /\ closing /\ link = "up"
    /\ link' = "down" /\ armed' = FALSE
    /\ subscribing' = FALSE /\ closing' = FALSE
    /\ Due(<<"disconnected">>)
    /\ Library

Progress == Established \/ Refused \/ Answered \/ Disconnected

-----------------------------------------------------------------------------
ClientTypeOK ==
    /\ rc \in {"ok", "failed"}
    /\ {connected, subscribed, finished, disconnected} \subseteq BOOLEAN
    /\ sigint \in {"caught", "default"}
    /\ link \in {"down", "connecting", "up"}
    /\ {armed, subscribing, closing} \subseteq BOOLEAN
    /\ Len(due) <= MaxDue
    /\ pc \in {"none", "returned", "ended"} => due = <<>> /\ link = "down"
=============================================================================
