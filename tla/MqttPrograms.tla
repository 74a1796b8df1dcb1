---------------------------- MODULE MqttPrograms ----------------------------
(***************************************************************************)
(* The MQTT programs of the repository, each on its own: a behaviour is    *)
(* one of them from the reading of its options to its end.                 *)
(***************************************************************************)
EXTENDS PahoClient, ConfigParse

CONSTANTS MaxPipes, MaxArrived,
          Files, Argvs,   \* the configurations and command lines looked at
          Defaulted       \* keys for which GetOptFromFile has a default

ASSUME MqttAssumption == {MaxDue, MaxPipes, MaxArrived} \subseteq Nat

\* A file has lines, and a line has words.
ASSUME FilesAssumption == Files \subseteq Seq(Seq(STRING))

VARIABLES program, phase,
          supervisor, toStop,
          pipes, running, zombies, sender, sendRc,
          stage, msg_buf, mm, mapped, reader,
          place, task, sendCompleteOK, stop, pubmsg, arrived, fdLog

start == <<phase, input, options, turn, word>>
parentVars == <<supervisor, toStop>>
producerVars == <<pipes, running, zombies>>
threadVars == <<sender, sendRc>>
shmVars == <<stage, msg_buf, mm, mapped, reader>>
sync == <<place, task, sendCompleteOK, stop, pubmsg, arrived, fdLog>>
vars == <<program, start, client, parentVars, producerVars, threadVars, shmVars, sync>>

Pub == INSTANCE MqttClient
Copy == INSTANCE PubCopy
Thread == INSTANCE PubThread
Sub == INSTANCE StdoutSub
Cloud == INSTANCE MqttSubscriber
Sync == INSTANCE SyncClient

FromFile == {"publisher", "copy", "thread", "subscriber", "synchronous"}
Programs == FromFile \cup {"stdout"}

-----------------------------------------------------------------------------
(* The options come first. *)

NoFile == <<"no file">>

Init ==
    /\ program \in Programs /\ phase = "start"
    /\ options = Fresh /\ turn = 1 /\ word = 1
    /\ input \in IF program = "stdout" THEN Argvs ELSE Files \cup {NoFile}
    /\ supervisor = "loop" /\ toStop = FALSE
    /\ CASE program = "publisher" -> ClientInit("none")
         [] program = "stdout" -> ClientInit("connect")
         [] program = "subscriber" -> ClientInit("create")
         [] program = "synchronous" -> ClientInit("none")
         [] OTHER -> ClientInit("start")
    /\ Copy!NoProducers /\ Thread!NoThread /\ Cloud!NoLog /\ Sync!Init

Program == <<program, client, parentVars, producerVars, threadVars, shmVars, sync>>

\* Nothing depends on them any more.
Forgotten == input' = <<>> /\ options' = Fresh /\ turn' = 1 /\ word' = 1

\* fopen fails, and fgets dies of its null pointer.
NoConfiguration ==
    /\ phase = "start" /\ input = NoFile
    /\ phase' = "over" /\ Forgotten
    /\ UNCHANGED Program

ReadOptions ==
    /\ phase = "start" /\ input # NoFile
    /\ IF program = "stdout" THEN ReadArgument ELSE ReadLine
    /\ UNCHANGED <<phase, Program>>

OptionsRead ==
    /\ phase = "start" /\ input # NoFile /\ ~MoreToRead
    /\ phase' = "read"
    /\ options' = IF program = "stdout" \/ options.exited THEN options
                  ELSE WithDefaults(options, Defaulted)
    /\ UNCHANGED <<input, turn, word, Program>>

\* The default of the client's name is longer than the memory it is copied to:
\* where malloc has rounded up it fits, elsewhere the heap is destroyed.
NameOverflows ==
    /\ phase = "read" /\ program # "stdout" /\ ~options.exited
    /\ options.opt["client_id"] = Default
    /\ phase' = "over" /\ Forgotten
    /\ UNCHANGED Program

Begin ==
    /\ phase = "read"
    /\ phase' = IF options.exited THEN "over" ELSE "run"
    /\ Forgotten
    /\ UNCHANGED Program

Starting == NoConfiguration \/ ReadOptions \/ OptionsRead \/ NameOverflows \/ Begin

-----------------------------------------------------------------------------
Runs(p) == phase = "run" /\ program = p /\ UNCHANGED <<program, start>>

NotPub == UNCHANGED parentVars
NotCopy == UNCHANGED producerVars
NotThread == UNCHANGED threadVars
NotCloud == UNCHANGED shmVars
NotSync == UNCHANGED sync

Publisher == Runs("publisher") /\ NotCopy /\ NotThread /\ NotCloud /\ NotSync
CopyOfIt == Runs("copy") /\ NotPub /\ NotThread /\ NotCloud /\ NotSync
Threaded == Runs("thread") /\ NotPub /\ NotCloud /\ NotSync
Stdout == Runs("stdout") /\ NotPub /\ NotCopy /\ NotThread /\ NotCloud /\ NotSync
Subscriber == Runs("subscriber") /\ NotPub /\ NotCopy /\ NotThread /\ NotSync
Synchronous == Runs("synchronous") /\ UNCHANGED client /\ NotPub /\ NotCopy /\ NotThread /\ NotCloud

MainStep ==
    \/ Publisher /\ Pub!Main
    \/ CopyOfIt /\ Copy!CopyMain
    \/ Threaded /\ Thread!ThreadMain
    \/ Stdout /\ Sub!SubMain
    \/ Subscriber /\ Cloud!CloudMain
    \/ Synchronous /\ Sync!SyncMain

CallbackStep ==
    \/ Publisher /\ Callback /\ NotPub
    \/ CopyOfIt /\ Copy!CopyCallback
    \/ Threaded /\ Thread!ThreadCallback
    \/ Stdout /\ Sub!SubCallback
    \/ Subscriber /\ Cloud!CloudCallback
    \/ Synchronous /\ Sync!SyncCallback

OtherStep ==
    \/ Publisher /\ Pub!Supervisor
    \/ Threaded /\ Thread!SenderStep

ProgressStep ==
    \/ Publisher /\ Progress /\ NotPub
    \/ CopyOfIt /\ Progress /\ NotCopy
    \/ Threaded /\ Progress /\ NotCopy /\ NotThread
    \/ Stdout /\ Progress
    \/ Subscriber /\ Progress /\ NotCloud

Next ==
    \/ Starting
    \/ Publisher /\ Pub!Next
    \/ CopyOfIt /\ Copy!Next
    \/ Threaded /\ Thread!Next
    \/ Stdout /\ Sub!Next
    \/ Subscriber /\ Cloud!Next
    \/ Synchronous /\ Sync!Next

Spec == Init /\ [][Next]_vars

\* Threads and processes are scheduled and the library answers what it was
\* asked; links need not break, messages, signals and readers need not come,
\* and the library need not try again by itself.
FairSpec ==
    /\ Spec
    /\ WF_vars(Starting) /\ WF_vars(MainStep) /\ WF_vars(CallbackStep)
    /\ WF_vars(OtherStep) /\ WF_vars(ProgressStep)

-----------------------------------------------------------------------------
\* Each program keeps its types; and no callback comes to a process that has
\* destroyed its client or is none, no producer is without its pipe, main is not
\* past a thread that still sends, and SendTask of the synchronous client lets
\* the next thread in once those that were in it have left.
TypeOK ==
    /\ phase \in {"start", "read", "run", "over"}
    /\ program = "publisher" => Pub!TypeOK
    /\ program = "copy" => Copy!TypeOK
    /\ program = "thread" => Thread!TypeOK
    /\ program = "stdout" => Sub!TypeOK
    /\ program = "subscriber" => Cloud!TypeOK
    /\ program = "synchronous" => Sync!TypeOK

\* The options are what the file says: of several lines with one key the last
\* counts, a key without a value changes nothing, and the program ends if and
\* only if there is a line it cannot understand. (Lines fit into the buffer: a
\* longer one is read as two, of which the second is understood as a line.)
OptionsAsWritten ==
    (phase = "read" /\ program # "stdout" /\ LinesFit(input)) =>
        /\ options.exited <=> ~Understood(input)
        /\ ~options.exited => \A k \in Keys : options.opt[k] =
               LET v == LastSetting(input, k)
               IN  IF v = Unset /\ k \in Defaulted THEN Default ELSE v

\* The flag that callbacks and the publishing loop share tells the truth about
\* the link as soon as no callback is due, through losses, reconnections of both
\* kinds and callbacks that come late, until the client disconnects or is told to
\* finish.
FlagFollowsLink ==
    (/\ program \in {"publisher", "copy", "thread"} /\ Alive
     /\ ~finished /\ pc \notin {"disconnecting", "returned"} /\ due = <<>>)
        => (connected <=> link = "up")

LinesAreWhole == program = "subscriber" => Cloud!LinesAreWhole

\* A lost link is asked for again, or the client told to finish: no loss passes
\* unnoticed in any of the asynchronous clients.
LossIsAnswered ==
    (phase = "run" /\ Alive /\ link = "down") ~> (link # "down" \/ finished \/ ~Alive)

\* Once the link stays up, messages go out again and again: neither a result of
\* before nor a subscription that got lost with an earlier link keeps the loop,
\* unless pclose has failed and the client is leaving.
Leaving == pc \in {"exit", "disconnecting", "returned"}

KeepsPublishing ==
    program = "publisher" =>
        (<>[](link = "up" /\ ~finished /\ ~Leaving) => []<>(pc = "sent"))

Serving ==
    \/ pc \in Pub!Publishing \cup {"receive"}
    \/ sender \in Pub!Publishing
    \/ place \in {"loop", "test"}

\* A request to stop reaches the loop of every program, and in the older ones is
\* not held up by the children and pipes they forget, unless a send has failed
\* and the connection has not come back: then the inner loop looks at nothing else.
StopIsHeard ==
    ((finished \/ stop) /\ Serving)
        ~> (~Serving \/ ("failed" \in {rc, sendRc} /\ ~connected))
=============================================================================
