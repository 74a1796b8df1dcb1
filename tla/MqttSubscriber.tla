--------------------------- MODULE MqttSubscriber ---------------------------
(***************************************************************************)
(* mqtt-cloud_/src/paho-pub.c: the client that only receives and shows     *)
(* what it receives in shared memory. Its log is the same memory: MyLog,   *)
(* called by main and by callbacks, composes a line in a static buffer     *)
(* without a lock and then copies it under one, to the file and to the     *)
(* segment, which keeps the last line only. A reader in another process    *)
(* (shmm/shmread.c) copies the segment without a lock.                     *)
(*                                                                         *)
(* A line is what its caller says; the segment is looked at in two halves. *)
(***************************************************************************)
EXTENDS PahoClient

VARIABLES stage,    \* where a caller is in MyLog: "out", "compose", "copy", "copying"
          msg_buf,  \* whose line it holds, or "mixed"
          mm,       \* the segment's halves
          mapped,   \* mm_addr: "no" before, "yes", "null", "gone" after munmap
          reader    \* "idle", the first half it has copied, or "overtaken" by a writer

Callers == {"main", "callback"}
Outside == [c \in Callers |-> "out"]

log == <<stage, msg_buf, mm, mapped>>
memory == <<mm, reader>>

NoLog ==
    /\ stage = Outside /\ msg_buf = "empty" /\ mm = <<"empty", "empty">>
    /\ mapped = "no" /\ reader = "idle"

Init == ClientInit("create") /\ NoLog

-----------------------------------------------------------------------------
(* mmcreate and mmrelease *)

\* Any of its calls may fail, and the segment of before is kept as it was.
MmCreate ==
    /\ At("create", "start")
    /\ mapped' \in {"yes", "null"}
    /\ UNCHANGED <<rc, flags, library, stage, msg_buf, memory>>

\* munmap without shm_unlink.
MmRelease ==
    /\ pc = "disconnecting" /\ disconnected
    /\ pc' = "destroy"
    /\ mapped' = "gone"
    /\ UNCHANGED <<rc, flags, library, stage, msg_buf, memory>>

-----------------------------------------------------------------------------
(* MyLog *)

Inside == {c \in Callers : stage[c] # "out"}

\* strftime begins the buffer anew, the rest is appended to what is there.
Compose(c) ==
    /\ stage[c] = "compose"
    /\ msg_buf' = IF \E d \in Callers \ {c} : stage[d] \in {"copy", "copying"} THEN "mixed" ELSE c
    /\ stage' = [stage EXCEPT ![c] = "copy"]
    /\ UNCHANGED <<client, mapped, memory>>

\* conLock is held from the first half to the second.
CopyBegins(c) ==
    /\ stage[c] = "copy" /\ \A d \in Callers : stage[d] # "copying"
    /\ mapped = "yes"
    /\ mm' = [mm EXCEPT ![1] = msg_buf]
    /\ stage' = [stage EXCEPT ![c] = "copying"]
    /\ reader' = IF reader = "idle" THEN "idle" ELSE "overtaken"
    /\ UNCHANGED <<client, msg_buf, mapped>>

CopyEnds(c) ==
    /\ stage[c] = "copying"
    /\ mm' = [mm EXCEPT ![2] = msg_buf]
    /\ stage' = [stage EXCEPT ![c] = "done"]
    /\ UNCHANGED <<client, msg_buf, mapped, reader>>

\* Writing to an address that is no longer, or never was, mapped kills. The
\* segment stays.
ProcessEnds(here) == Ends(here) /\ stage' = Outside /\ msg_buf' = "empty" /\ mapped' = "no" /\ UNCHANGED memory

CopyKills(c) == stage[c] = "copy" /\ mapped # "yes" /\ ProcessEnds(pc)

MyLog(c) == Compose(c) \/ CopyBegins(c) \/ CopyEnds(c) \/ CopyKills(c)

\* A call of MyLog, and what its caller does when it is back.
Logs(c) == stage[c] = "out" /\ stage' = [stage EXCEPT ![c] = "compose"]
Logged(c) == stage[c] = "done" /\ stage' = [stage EXCEPT ![c] = "out"]
NotLogging == UNCHANGED <<log, memory>>

-----------------------------------------------------------------------------
(* main *)

\* myconnect: "Connecting:", and the flag cleared ...
LogConnecting == pc = "start" /\ Logs("main") /\ UNCHANGED <<client, msg_buf, mapped, memory>>

Connect ==
    /\ ClearConnected /\ Logged("main")
    /\ UNCHANGED <<msg_buf, mapped, memory>>

\* ... and the connect, whose failure is logged before finished is set.
ConnectBegins ==
    /\ At("connect", "subscribe")
    /\ RequestConnect
    /\ UNCHANGED <<rc, flags, log, memory>>

ConnectFails ==
    /\ Goto("connect", "refused") /\ Logs("main")
    /\ UNCHANGED <<msg_buf, mapped, memory>>

Refusal ==
    /\ At("refused", "subscribe") /\ Logged("main")
    /\ finished' = TRUE
    /\ UNCHANGED <<rc, connected, subscribed, disconnected, sigint, library, msg_buf, mapped, memory>>

\* while (!subscribed) and while (!toStop).
CloudSubscribed == subscribed /\ Goto("subscribe", "receive") /\ NotLogging

\* Mutant: the loop is left at once, and main logs while callbacks do.
NotWaiting == TRUE

ToldToStop == finished

Stopping ==
    /\ ToldToStop
    /\ Goto("receive", "stopping") /\ Logs("main")
    /\ UNCHANGED <<msg_buf, mapped, memory>>

CloudDisconnect ==
    /\ At("stopping", "disconnecting") /\ Logged("main") /\ link = "up"
    /\ closing' = TRUE
    /\ UNCHANGED <<rc, flags, link, due, armed, subscribing, msg_buf, mapped, memory>>

\* The failure is logged, and the process exits.
CloudDisconnectFails ==
    /\ link # "up"
    /\ Goto("stopping", "failed") /\ stage["main"] = "done"
    /\ stage' = [stage EXCEPT !["main"] = "compose"]
    /\ UNCHANGED <<msg_buf, mapped, memory>>

CloudExit == stage["main"] = "done" /\ ProcessEnds("failed")

CloudDestroy == ProcessEnds("destroy")

CloudMain ==
    \/ MmCreate \/ LogConnecting \/ Connect \/ ConnectBegins \/ ConnectFails \/ Refusal
    \/ CloudSubscribed \/ Stopping \/ CloudDisconnect \/ CloudDisconnectFails \/ CloudExit
    \/ MmRelease \/ CloudDestroy \/ MyLog("main")

-----------------------------------------------------------------------------
(* Callbacks: each of them logs a line, which stands for all it logs, and   *)
(* does its work after it; connected, which some set before, is not read    *)
(* by anything that is compiled.                                            *)

CallbackLogs ==
    /\ Alive /\ due # <<>> /\ Logs("callback")
    /\ UNCHANGED <<client, msg_buf, mapped, memory>>

messageArrived ==
    /\ Called("message")
    /\ UNCHANGED <<connected, subscribed, finished, disconnected, link, armed, subscribing, closing>>

CloudCallback ==
    \/ CallbackLogs \/ MyLog("callback")
    \/ (Callback \/ messageArrived) /\ Logged("callback") /\ UNCHANGED <<msg_buf, mapped, memory>>

\* A message of the broker (external).
Arrives ==
    /\ link = "up"
    /\ Due(<<"message">>)
    /\ Library /\ UNCHANGED <<link, armed, subscribing, closing>>

CloudSignal ==
    \/ ClientSignal /\ NotLogging
    \/ Alive /\ sigint = "default" /\ ProcessEnds(pc)

-----------------------------------------------------------------------------
(* The reader: main of shmm/shmread.c maps the segment, copies it and       *)
(* unmaps it again, at any time and any number of times.                    *)

ReadsFirstHalf ==
    /\ reader = "idle"
    /\ reader' = IF \E c \in Callers : stage[c] = "copying" THEN "overtaken" ELSE mm[1]
    /\ UNCHANGED <<client, log>>

ReadsSecondHalf ==
    /\ reader # "idle"
    /\ reader' = "idle"
    /\ UNCHANGED <<client, log>>

ShmRead == ReadsFirstHalf \/ ReadsSecondHalf

Next ==
    \/ CloudMain \/ CloudCallback \/ CloudSignal \/ ShmRead
    \/ (Progress \/ Retry \/ Drop \/ Arrives) /\ NotLogging

-----------------------------------------------------------------------------
\* Types of the log and the segment.
TypeOK ==
    /\ ClientTypeOK
    /\ stage \in [Callers -> {"out", "compose", "copy", "copying", "done"}]
    /\ {msg_buf, mm[1], mm[2]} \subseteq Callers \cup {"empty", "mixed"}
    /\ mapped \in {"no", "yes", "null", "gone"}
    /\ reader \in Callers \cup {"empty", "mixed", "idle", "overtaken"}

\* What is in the segment is one line of one caller, whatever callbacks come, as
\* long as the client has not been told to finish: main and the callbacks call
\* MyLog, whose buffer has no lock, at different times. And a reader that no
\* writer has overtaken finds the second half of the line whose first it copied.
LinesAreWhole ==
    ~finished =>
        /\ (\A c \in Callers : stage[c] # "copying") => mm[1] = mm[2]
        /\ "mixed" \notin {mm[1], mm[2]}
        /\ reader \notin {"idle", "overtaken"} => reader = mm[2]
=============================================================================
