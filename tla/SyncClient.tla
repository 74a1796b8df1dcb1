------------------------------ MODULE SyncClient ------------------------------
(***************************************************************************)
(* mqtt-imx_/src/main.c: the client on the synchronous Paho library. The   *)
(* loop of main and msgarrvd, called by a thread of the library for every  *)
(* message, both send by SendTask, which is to be entered by one at a time *)
(* and looks after that with a flag that it tests and sets without a lock. *)
(***************************************************************************)
EXTENDS Integers

CONSTANTS MaxArrived   \* messages that wait for msgarrvd (bound)

VARIABLES place,          \* of main
          task,           \* where a thread is in SendTask
          sendCompleteOK, stop,
          pubmsg,         \* whose payload the common message points to
          arrived,        \* messages the broker has sent
          fdLog           \* whether the log is open

Threads == {"main", "callback"}
Out == [t \in Threads |-> "out"]

syncVars == <<place, task, sendCompleteOK, stop, pubmsg, arrived, fdLog>>

Init ==
    /\ place = "connect" /\ task = Out
    /\ sendCompleteOK = 0 /\ stop = FALSE
    /\ pubmsg = "nobody" /\ arrived = 0 /\ fdLog = FALSE

Over ==
    /\ place' = "ended" /\ task' = Out /\ sendCompleteOK' = 0 /\ stop' = stop
    /\ pubmsg' = "nobody" /\ arrived' = 0 /\ fdLog' = FALSE

-----------------------------------------------------------------------------
(* SendTask *)

Stage(t, here, next) == task[t] = here /\ task' = [task EXCEPT ![t] = next]

TestFlag(t) ==
    /\ Stage(t, "test", IF sendCompleteOK > 0 THEN "out" ELSE "set")
    /\ UNCHANGED <<place, sendCompleteOK, stop, pubmsg, arrived, fdLog>>

SetFlag(t) ==
    /\ Stage(t, "set", "produce")
    /\ sendCompleteOK' = 1
    /\ UNCHANGED <<place, stop, pubmsg, arrived, fdLog>>

\* The message is common, its payload on the thread's own stack.
FillMessage(t) ==
    /\ Stage(t, "produce", "publish")
    /\ pubmsg' = t
    /\ UNCHANGED <<place, sendCompleteOK, stop, arrived, fdLog>>

\* No pipe was ever closed; when popen fails fgets dies of it.
ProducerDies(t) == task[t] = "produce" /\ Over

\* Mutant: the flag stays set when the message was not delivered in time.
FlagLeft == sendCompleteOK

FlagTaken == 0

\* Published, and delivered or given up after ten seconds.
Publish(t) ==
    /\ Stage(t, "publish", "out")
    /\ sendCompleteOK' = FlagTaken
    /\ UNCHANGED <<place, stop, pubmsg, arrived, fdLog>>

SendTask(t) == TestFlag(t) \/ SetFlag(t) \/ FillMessage(t) \/ ProducerDies(t) \/ Publish(t)

-----------------------------------------------------------------------------
(* main *)

Place(here, next) == place = here /\ place' = next

SyncConnect ==
    /\ Place("connect", "openLog")
    /\ UNCHANGED <<task, sendCompleteOK, stop, pubmsg, arrived, fdLog>>

SyncConnectFails == place = "connect" /\ Over

\* Messages come from the subscription on; the log is opened after it.
OpenLog ==
    /\ Place("openLog", "loop")
    /\ fdLog' = TRUE
    /\ UNCHANGED <<task, sendCompleteOK, stop, pubmsg, arrived>>

\* The do loop: a task, a sleep and the test of toStop.
CallTask ==
    /\ Place("loop", "test") /\ Stage("main", "out", "test")
    /\ UNCHANGED <<sendCompleteOK, stop, pubmsg, arrived, fdLog>>

TestStop ==
    /\ task["main"] = "out"
    /\ Place("test", IF stop THEN "unsubscribe" ELSE "loop")
    /\ UNCHANGED <<task, sendCompleteOK, stop, pubmsg, arrived, fdLog>>

\* Unsubscribed, disconnected, destroyed, wherever the other thread is.
Finish == place = "unsubscribe" /\ Over

SyncMain ==
    \/ SyncConnect \/ SyncConnectFails \/ OpenLog \/ CallTask \/ TestStop \/ Finish
    \/ SendTask("main")

-----------------------------------------------------------------------------
\* disconnect, the handler of SIGINT.
disconnect ==
    /\ place # "ended" /\ ~stop
    /\ stop' = TRUE
    /\ UNCHANGED <<place, task, sendCompleteOK, pubmsg, arrived, fdLog>>

\* The message is written to the log and a task run.
msgarrvd ==
    /\ arrived > 0 /\ fdLog
    /\ Stage("callback", "out", "test")
    /\ arrived' = arrived - 1
    /\ UNCHANGED <<place, sendCompleteOK, stop, pubmsg, fdLog>>

\* It came before the log was opened.
ArrivedEarly == arrived > 0 /\ ~fdLog /\ Over

SyncCallback == msgarrvd \/ ArrivedEarly \/ SendTask("callback")

\* A message of the broker (external). connlost only prints.
MessageComes ==
    /\ place \in {"openLog", "loop", "test"} /\ arrived < MaxArrived
    /\ arrived' = arrived + 1
    /\ UNCHANGED <<place, task, sendCompleteOK, stop, pubmsg, fdLog>>

Next == SyncMain \/ SyncCallback \/ disconnect \/ MessageComes

-----------------------------------------------------------------------------
\* Types; and when no thread is in SendTask its flag lets the next one in,
\* although two may have been in it and each has set and taken the flag.
TypeOK ==
    /\ place \in {"connect", "openLog", "loop", "test", "unsubscribe", "ended"}
    /\ task \in [Threads -> {"out", "test", "set", "produce", "publish"}]
    /\ sendCompleteOK \in 0 .. 1 /\ {stop, fdLog} \subseteq BOOLEAN
    /\ pubmsg \in Threads \cup {"nobody"} /\ arrived \in 0 .. MaxArrived
    /\ (\A t \in Threads : task[t] \in {"out", "test", "set"}) => sendCompleteOK = 0
=============================================================================
