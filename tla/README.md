# A verification project for socket_example

The repository is a collection of networking programs in C and C++: TCP servers
built on each of the multiplexing calls, a thread pool, MQTT clients for an
i.MX board, a supervisor that keeps an ssh tunnel open, two kernel drivers and a
program of a smaller board, and small tools around them. This directory models the programs that have behaviour
worth checking (several threads, processes or peers, or state that outlives a
step), checks the models with TLC and proves nearly all of the safety properties
with TLAPS.

## Inventory

`network/back_socket/**` holds older copies of the programs below. Two of them are
different programs and listed; the rest is the same text and left out, like the
vendored Paho headers and samples and build output.

| part | sources | state | operations | what is hard |
|---|---|---|---|---|
| thread pool | `socketpoll/ThreadPoll.cpp` | ring `taskQueue` with `pop_queue`, `push_queue`, `size_queue`, `capa_queue`; mutex `lock_queue`; named semaphore `semsnet` | `push_back`, `pop_front`, `waitpoll` | semaphore calls outside the mutex; growth of a ring in use; the semaphore survives the process, the ring does not |
| accept server | `Socket.cpp` `accept`, `task` | descriptors on their way through the pool | accept, push, read/write/close in a worker | reuse of descriptor numbers; silent clients hold workers; failing accept ends the process |
| select server | `Socket.cpp` `select` | `client[]`, `maxi`, `allset`, `maxfd`, `nready`, `allconnfd` | accept, terminal command, read/echo, drop | acting on a report of a moment ago; several counters and tables for one fact; descriptors running out |
| poll server | `Socket.cpp` `poll` | `fds[]` with `revents`, `maxi`, `nready` | accept, read/echo, drop | uninitialised and stale `revents`; the bounds of the loop |
| epoll server (the one `webServer` runs) | `Socket.cpp` `epoll`, `task` | the kernel's ready list, the batch `event[]` | accept, answer and close | descriptors closed and reused within a batch; edge-triggered events are reported once |
| MQTT publisher | `mqtt-imx_/src/paho-pub.c` | `connected`, `subscribed`, `finished`, `disconnected`, `toStop` shared between the main thread and Paho's callbacks; supervising parent process | connect, subscribe, publish loop, reconnect, shutdown, fork/wait/sleep of the parent | callbacks race the loop; retries; loops that wait for a flag nobody will set |
| older MQTT publishers | `mqtt-imx_/paho-pub (copy).c`, `(thread).c` | the same flags; the pipes and children of `popen` that are never closed; a sending thread | as above without the supervisor, the second with the loop in a thread | children and descriptors pile up; main and sender stop at different times |
| MQTT subscriber to shared memory | `mqtt-cloud_/src/paho-pub.c`, reader `shmm/shmread.c` | the same flags, the log's line buffer, the mapped log | as above; log; a reader in another process | one buffer without a lock; callbacks after the mapping is gone; torn reads |
| MQTT subscriber on a terminal | `mqtt-imx_/paho-sub.c` | the same flags, its options | connect, subscribe, print, shutdown | waits for flags |
| synchronous MQTT client | `mqtt-imx_/src/main.c` | `sendCompleteOK`, the message that loop and callback share | `SendTask` from loop and callback | re-entrance of a flag tested and set without a lock |
| configuration parser | `mqtt-imx_/src/ConfigParse.c` | `Options` | read lines, find keys and values, defaults | keys without values, repeated keys, lines longer than the buffer |
| ssh supervisor | `autossh/autossh.c` | child pid, pipe, `done` flag, status | fork ssh, watch its stderr, kill, wait, retry | watcher thread races the child's end; does it retry at all |
| fork server and its client | `network/server.c`, `network/client.c` | a process per connection; the bytes on their way | accept, fork, SIGCHLD handler; a session line by line | accept interrupted by SIGCHLD; what a child does after its client is served; `sizeof` of a pointer for the size of the buffer |
| iterative server and its clients | `network/server/server.c`, `network/client/client.c` | the one client served, the queue of `listen` | one read and one write for each connection | one client can stop all others; a user who quits ends the server |
| DHT11 driver | `dht11_driver/dht11.c` | the cached five bytes, `pre_jiffies`, pin and mapping | read, open, release, loading, unloading | the cache is stamped before the read has succeeded; concurrent readers; loads that fail |
| timer and PWM driver | `dht11_driver/timrot_train.c` | mapped registers, requested pins, the clock, the five bytes | as above | no stamp, no lock; failing loads give back only part of what they took |
| address fixer | `fixaddress/fixaddress.c` | the tree of its processes | wait for an interface, run three commands | a child whose exec fails goes on with the program |
| shared memory writer | `mmshare/wrapper.c`, `shmwrite.go` | a System V segment and the text in it | create, write, remove | killed between creating and removing; started twice |
| shared memory tools of POSIX | `shmm/shmwrite.c` and its copy `20180623.c`, `mmshare/shmread.*` | two objects that outlive their users | create, size, write; create, size, read | killed at any moment, started together, no lock, failures of `mmap` not seen |
| sample for an 8051 | `dht11_driver/exaple.c` | the frame being sent, the next one, the flags of the serial line | measure and send; interrupt | main and interrupt share buffers and are kept apart by time alone |
| older ssh supervisor | `back_socket/autossh/autossh.c` | as `autossh` | as `autossh`, but for the probe | an `errno` nobody has set decides |
| older address fixer | `back_socket/fixaddress/main.c` | name, address, command | one pass over what `ifconfig` prints | names not found, null pointers, sizes below zero |
| web client | `socketpoll/webClient.cpp` | the counter and its lock, a connection for each thread | create threads, count, send, receive, join | creates that fail; one thread's failure ends all |
| setip | `staticIP/setip.c` | the errors and what is said | one `ioctl` | errors that go by |
| select demo, setip2 | `socketpoll/select.c`, `staticIP/setip2.c` | none | one watched set; a list of `ioctl`s | sequential |

What makes each modelled part correct:

* thread pool: a task that is pushed is executed by exactly one worker, once; it
  is never hidden in the ring or left without a wake-up;
* servers: an open connection is known to the server in exactly one place and
  watched; the single thread never blocks in a call it makes because of a
  report; requests are read and ended connections closed; shutting down closes
  everything;
* MQTT clients: the flag shared by main and callbacks follows the link, a lost
  link is asked for again, publishing goes on, a request to stop is obeyed; the
  log holds whole lines; the options are what the file says;
* ssh supervisor: what ssh reports before its end is acted upon, and main, the
  watcher and the child never wait for one another; the tunnel is tried again;
* fork server: every ended child is waited for, every descriptor is closed by
  every process that has it; a session shows what was typed, once and in order;
* iterative server: who waits for an answer gets one;
* drivers: one measurement is not disturbed by another one, `dht11.c` does not
  measure too often, a good reading is kept, nobody uses the device while the
  module goes, and an open device has its registers mapped; the 8051 leaves a
  frame alone until it is sent;
* tools: commands that change an address run one at a time; a segment stays as
  long as the writer it belongs to, a word in a POSIX object for good; the web
  client's requests are numbered one by one.

## How the modules fit together

```
TaskPool  <-- implemented by --  ThreadPoll  <-- INSTANCE --  AcceptServer
                                     |                             |
                             ThreadPollProofs  <-- INSTANCE --  AcceptServerProofs
                                                                   |
                                                  Sockets  (SocketsProofs)
                                                 /   |    \
                                SelectServer  PollServer  EpollServer
                                                 \   |    /
                                                LoopServers  (LoopProofs)

PahoClient  <-- EXTENDS --  MqttClient  PubCopy  PubThread  StdoutSub  MqttSubscriber
ConfigParse     SyncClient            \____________ MqttPrograms ____________/

ForkServer   EchoSession  IterativeServer              -->  NetworkPrograms
AutoSsh      OldAutoSsh   FixAddress   OldFixAddress
ShmWriter    PosixShm     SetIp        WebClient       -->  ToolPrograms
Dht11        Timrot       Sample8051                   -->  DriverPrograms
```

`MqttProofs`, `NetworkProofs`, `ToolProofs` and `DriverProofs` extend the four
compositions, `LoopProofs` extends `LoopServers`. `AcceptServerProofs` instantiates
not only the pool but the proofs about it.

Programs that do not meet at run time are put side by side by a module with a
variable that says which of them a behaviour is about (`program`, `system`,
`tool`, `driver`); it never changes, and the variables of the others stay as they
were. One run then checks what the programs have in common, such as the flags of
the MQTT clients, for all of them.

### The pool and the servers

* `ThreadPoll` — the pool. One action per stretch of code between two points
  where threads can meet: `PushCall`, `PushLock`, `PushStore` or `PushGrow`,
  `PushNext` (indices, size, unlock), `PushPost`; `PopWait`, `PopLock`,
  `PopTake` or `PopEmpty`, `PopNext`, `RunTask`. `Restart` is the end of the
  process at any point followed by a new start: everything is initialised but
  the named semaphore. The constants `MaxTasks` and `MaxStale` bound the queue
  and the value a restart may leave in the semaphore; they appear in the guards
  of `PushCall` and `Restart` only.
* `TaskPool` — what a pool promises: tasks are submitted, started by one worker,
  finished, or all lost. No order is promised.
* `ThreadPollProofs` — the proofs, like every module whose name ends so.
* `Sockets` — the kernel and the clients as the servers use them (external):
  the queue of `listen`, open descriptors, unread chunks, what the peer has
  done. `accept` returns the lowest free descriptor, so numbers are reused at
  once. `MaxClients` and `MaxRx` bound the clients.
* `AcceptServer` — `Socket::accept` with the pool and `task`. It instantiates
  `ThreadPoll` with descriptors as tasks and adds the accept that precedes
  `push_back` and the read, write and close that a task consists of. At this
  commit the construction of the pool is commented out (`Socket.cpp:53`) and
  `webServer` runs the epoll loop; the module models the server with line 53 in
  force.
* `SelectServer`, `PollServer`, `EpollServer` — the three loops. Every call of
  the kernel and every client handled is a step, so clients act in between. In
  `EpollServer` `ready` is the kernel's list: clients put descriptors at its end
  (`Noted`), `epoll_wait` takes as many from its head as there is room for
  (`EpollWait`) once it has thrown out those that are not ready after all
  (`EpollSkips`, one at a time), and `close` takes a descriptor out (`Without`).
* `LoopServers` — the poll and the epoll loop beside that of select, of which a
  program calls one (`PollSpec`, `EpollSpec`), for the runs and the proofs of all
  three. `PollServer` is also run by itself, with a client in the last entry.

### The MQTT clients

* `PahoClient` — what the programs on the asynchronous library share: the flags
  under their names, and the callbacks, which are the same text in each. `pc` is
  the main thread, `due` the queue from which the library's thread calls back, one
  at a time; `link`, `armed`, `subscribing` and `closing` are the library and the
  broker (external). `Retry` is `automaticReconnect`, which runs next to the
  connect that `connectionLost` requests. `finished` is `toStop` under another
  name, so a signal and a failed callback are one request. `MaxDue` bounds the
  callbacks that wait.
* `MqttClient` — the publisher. `supervisor` is the parent's loop, and `pc` belongs
  to the client it has forked. A client that has stopped returns from
  `mqtt_client` into the loop of `main`, as `Returned` has it.
* `PubCopy`, `PubThread` — the older publishers. `pipes` are the descriptors of
  `popen` that nobody closes, `running` and `zombies` the children behind them;
  `MaxPipes` is where the process is out of descriptors. `sender` is the thread of
  `PubThread`, whose `rc` is not initialised.
* `StdoutSub` — `paho-sub.c`.
* `MqttSubscriber` — the client whose log is shared memory. `MyLog` is a call in
  steps: compose in the static buffer, copy under the lock, of which a reader of
  another process sees a first and a second half. What happens after the mapping
  is gone is `CopyKills`.
* `SyncClient` — `main.c` on the synchronous library. `task` is where main and the
  thread of `msgarrvd` are in `SendTask`.
* `ConfigParse` — `GetOptFromFile` and the command line of `paho-sub.c`, a turn of
  their loops at a time (`ReadLine`, `ReadArgument`). A line is the sequence of words
  `strtok` finds; a line longer than the buffer comes in pieces, as from `fgets`
  (`LastWord`). `LastSetting` and `Understood` say independently what a file means.
* `MqttPrograms` — each program from its options to its end.

### The programs of `network/`

* `ForkServer` — the tree of processes. `pc[p]` is where process `p` is in `main`
  or `chldproccess`, `holds[p]` the connections it has a descriptor of. A child
  that has served goes on at `close(acceptfd)` and accepts: there is one loop for
  all. `ZombieClear` is the handler; `AcceptInterrupted` is the signal that finds
  its process in `accept`. `Procs`, `Clients` and `MaxRx` are bounds.
* `EchoSession` — one session of `network/client.c` with such a child. A unit
  stands for a few bytes, zero for a blank one; `W` units are the eight bytes the
  child handles at a time. `MaxUnits` bounds what is typed.
* `IterativeServer` — the other server and any number of its clients.
* `NetworkPrograms` — the three systems side by side.

### The tools

* `AutoSsh` — the supervisor. `pc` is the main thread, `watcher` the thread in
  `getErrnoFromChild`, `ssh` the child and `pipe` its stderr, of which `readEnd`
  and `writeEnd` are this process's descriptors. `ProbeTo` stands for
  `getStatusFromServer`, whose result depends on the network and on what is left
  in `errno`; the four actions made from it are the branches main takes. A child
  whose `execvp` fails leaves the loop of `main` and ends, as `Ends` has it.
* `FixAddress` — a process is named by the commands for which its ancestors and it
  were forked, so that `<<1, 3>>` is the copy that was to become the third command
  and was forked by the copy that was to become the first. A child is a command
  or, when its exec fails, one more copy of the program.
* `ShmWriter` — writers started any number of times and killed at any moment on
  one key; the copy of the text begins and ends. An administrator may remove what
  is left.
* `OldAutoSsh` — the older supervisor: `AutoSsh` with another probe, which takes for
  the server's answer whatever `errno` holds when the server is not named by an
  address. It shares all other actions, so the properties of `AutoSsh` are checked
  of both.
* `OldFixAddress` — the lines of `ifconfig` are heads and addresses of two
  interfaces in any order; `NameAt` and `AddressAt` are the two loops. `Room` is
  what is left of the size of a pointer, with `Sizes` for the count of the numbers of `size_t`.
* `PosixShm` — two writers and the reader, started any number of times, failing or
  killed at any step.
* `SetIp` — the errors are the two that are looked at, EPERM, and EBADF when there
  is no socket.
* `WebClient` — `main` as built, with the thread `Alone`, or `more()`, which line 80
  would call: `Tests` stands for its 800 threads and `PerTest` for the seven of
  each. The lock is held from `LockCounter` to `UnlockCounter`, and `cnt++` is two
  steps in between.
* `ToolPrograms` — all side by side.

### The drivers

* `Dht11` — the driver with readers, time and the loading and unloading of the
  module. `JIFFIES` is the range of the kernel's counter, so that `time_after` is
  what it is in the kernel; `left` is the true time until the stamp, with which
  properties compare it, and stops at half the range. `held` are the pin and the
  mapping, which failing loads take and give back; `Copy` is `copy_to_user`, which
  may sleep.
* `Timrot` — the same for `timrot_train.c`. `cpu` is the reader that waits without
  sleeping, during which nothing else runs; `lost` are the mappings of loads that
  failed, `pins` the pins they keep. After a load without a clock the device stays
  registered and its code is gone (`dangling`); only `Reboot` leads on from there.
* `Sample8051` — the small board. `str` and `outdata` are seen in halves, so that a
  copy begins and ends; a tick is the time of a byte on the line. `Measure` is `RH`:
  what it reads is abstracted, the long pulse before it, `LOW`, is not.
* `DriverPrograms` — the two drivers, of which a board has one, since they take the
  same pin, and the small board.

Each `.cfg` is one run. A module whose constants a `.cfg` can name is checked as it
stands; `MCMqttClient` defines the files and command lines the `mqtt` run needs.

## The runs

| run | what it checks | result |
|---|---|---|
| `pool` | `TypeOK`, `RingIsContiguous`, `EveryTaskHasAToken`, `NoTokenInvented`, `PushKeepsOrder`, `EveryTaskIsTaken`, `ImplementsTaskPool` | hold |
| `accept` | `OneOwner`, `Answered` | hold |
| `select` | `EveryConnectionIsWatched`, `ReportStaysTrue`, `ServedWhileDescriptorsLast` | hold |
| `select_no_descriptor` | `AllClientsServed` with more clients than descriptors | violated |
| `poll` | `EveryConnectionIsPolled`, `ReportIsFresh`, `InnerClientsServed` | hold |
| `poll_last_client` | `AllClientsServed` | violated |
| `epoll` | `EventsStayTrue`, `NoEventLost`, `EpollClientsServed` | hold |
| `drivers` | `NoPulseIsCut`, `NoFrameIsCut`, `SensorRests`, `ReadingIsHeld` | hold |
| `tools` | `MemoryStays`, `LastWordsRead`, `FixersAreRight`, `CountsAreDistinct`, `FailureEndsSsh`, `NobodyWaitsForever` | hold |
| `autossh_retry` | `TriesAgain` | violated |
| `network` | `NoZombieForgotten`, `ConnectionsAreOwned`, `EchoIsExact`, `QuitIsObeyed`, `NobodyHoldsTheServer` | hold |
| `mqtt` | `TypeOK`, `FlagFollowsLink`, `OptionsAsWritten`, `LinesAreWhole`, `LossIsAnswered`, `KeepsPublishing`, `StopIsHeard` | hold |

The types of the three loops are part of the first invariant of their runs, and
`accept` leaves those of its parts to `pool` and `epoll`. `ReportStaysTrue` says
of `select` two things that belong together: what was reported is still so, and
the number of reports counts it. `MemoryStays` is the types of all tools with
`SegmentStays` of `ShmWriter` and `TextStays` of `PosixShm`, `FixersAreRight` is
`OneCommandAtATime` of `FixAddress` with `CommandIsRight` of `OldFixAddress`;
`EpollClientsServed` is `AllClientsServed` of `EpollServer`, which of the three loops
only that of epoll keeps;
`ConnectionsAreOwned` and `NoPulseIsCut` carry the types of their runs; `TypeOK` of
`mqtt` what each program relies on inside (a process
that has destroyed its client gets no callback, `SendTask` lets the next one in).

Bounds. The pool starts with one slot and grows twice, the second time with
`pop_queue` in the middle; two producers and two workers are enough for every
pair of threads that can meet at the ring, and one stale token for a worker to
find an empty ring. The servers have two or three descriptors and one client
more than that, so that numbers are reused, tables have holes and descriptors
run out; one unread chunk per connection, since a loop handles chunks one by
one. `FD_SETSIZE` is just large enough for the descriptors, as the usual limit
on descriptors makes it; a process with a higher limit, whose tables can fill
up, is not modelled. A batch of epoll holds two events for three connections.

A tick of `drivers` is two seconds and its counter has four bits: it wraps many
times within a behaviour, the ten and twelve seconds of `dht11.c` are five and
six ticks, and `msleep(18)` may straddle the edge of a tick. Two readers and two
opens make every overlap. In `tools` ssh has at most three lines in the pipe: one
that is read, and two that are still there when it ends; the tree of the address
fixer is complete for its three commands; two writers are one that is there and
one that comes; three threads of the web client are one that has counted, one
that is counting and one that waits. The 8051 sends five bytes while it holds the
line low for six ticks (eighteen on the board) or pauses for seven (two seconds on
the board), so the model is tighter than the board. In `network` three processes and two connections give two
children that can end together, a child that serves its second client as a
parent, and an orphan; two unread lines make a quit that comes together with
another line. A session has five units and a piece two: a line of three pieces,
and a short line behind a long one. Two users with two lines each queue up behind
one another and come back.

In `mqtt` two callbacks may wait: a loss comes with a subscription that failed,
and with a connect of before or after it; forks, losses and signals are not
bounded. Two pipes are one left open and the one that finds the process out of
descriptors, two waiting messages a callback followed by another. A configuration
has up to three lines of eight kinds, so that a key is set twice with something
in between; a buffer holds three words, and one kind of line has four. A command
line has up to four words.

`CHECK_DEADLOCK FALSE` is used where the program really ends: the three loops by
`quit` at the terminal, by `exit` when accept fails, or by SIGPIPE; the tools when
they return; the MQTT programs when they are told to stop, cannot understand
their options or cannot fork; in `network`, when an accept was interrupted in
every process or the users have gone. It is on for the pool, the accept server
and the drivers.

## Fairness

The threads of the process are scheduled: weak fairness on the steps of each
thread of the pool, and on the loop of each server. Nobody has to push, connect,
send, type or crash. In `accept`, clients that are not in `Silent` send or close
in the end; the silent one shows that a worker blocked in `read` holds up nobody
else while another worker is free. Weak fairness is enough for the mutex because
the number of outstanding tasks is bounded, by the descriptors in the program
and by `MaxTasks` in the model.

In `tools` both threads of either ssh supervisor are scheduled and ssh need not say
or do anything. In `network` every process is scheduled, pending signals are
delivered (`Loop`, `Signal`), and so are both ends of a session and the iterative
server with its clients; no user has to type. In `mqtt` the parent, the main
thread, the thread of the callbacks and the sender are scheduled and the library
brings to an end what it was asked for (`ProgressStep`); nobody has to send a
signal or a message, no link has to break, and the library need not retry by
itself. The properties of `drivers` need no fairness.

## What the checks found

* `poll_last_client`: `for(i=1;i<maxi;i++)` (`Socket.cpp:519`) leaves out entry
  `maxi`. With a single client nobody is ever answered; with more, the one in
  the highest entry waits until another connects above it. `InnerClientsServed`
  is what remains true. Running the loop to `maxi` alone is not a repair: the
  mutant `LoopedToMaxi` breaks `ReportIsFresh`, because the entry of a client
  that was accepted a moment ago has a `revents` nobody has written.
* `select_no_descriptor`: without a free descriptor, `accept error` and
  `continue` (`Socket.cpp:289-292`) repeat for ever without looking at the
  clients, so no descriptor is ever given back.
* `autossh_retry`: `for(int n=2;--n;)` (`autossh.c:130`) takes one turn. After
  ssh has ended, or after a minute's sleep because the server was out of reach,
  the program returns, where `README.md:2` promises a new connection. What holds
  within the one turn is shown by `tools`; `pritarg.done = 1` in line 179, which
  looks like a slip for 0, is what makes `LastWordsRead` true (the mutant
  `DoneCleared` breaks it).

What holds, and where it ends:

* `FlagFollowsLink` holds, although main, callbacks and two sources of connects
  meet at `connected`: `myconnect` clears the flag before it asks, and callbacks
  come in the order of what they tell. `StopIsHeard` has two limits: a send that
  has failed is repeated until the connection is back (`paho-pub.c:466-470`), deaf
  to the request; and a client that waits for its subscription (`:408`) looks at
  nothing but `subscribed`. When connecting or subscribing fails there, the client
  waits for ever, and the parent in `wait` with it. `KeepsPublishing` is about the
  supervised publisher; it exempts a client that is leaving.
* `LinesAreWhole` needs no lock on the buffer only because main is silent while
  callbacks can come, until the client is told to finish; after that the line of
  main and the line of a callback can mix. A reader of the segment is promised
  nothing when a writer overtakes it.
* `OptionsAsWritten` is about lines that fit into the buffer of `fgets`: the rest of
  a longer line, also of a comment, is understood as a line of its own.
* A session of the fork server gets out of step over any line longer than eight
  bytes: the client takes the first piece for the whole answer and the next line
  is answered with the rest. What is shown is exact all the same (`EchoIsExact`),
  because the child clears its buffer before every read.
* `NobodyHoldsTheServer` holds because the client connects only after its user has
  typed; the client of the fork server, which connects first, would stop the
  iterative server (the mutant `ConnectedFirst`).
* `SensorRests` holds through the wrap of the counter. In the other direction,
  when nobody has read for half the range of `jiffies` (248 days at 100 Hz), old
  data is served for as long again.
* `NoPulseIsCut` holds for two different reasons: `dht11.c` sleeps in its pulse and
  is saved by the stamp it has set before, `timrot_train.c` has no stamp and is
  saved by waiting without sleep. Its failing loads leave mappings and pins
  behind, and the two requests it joins by `&&` take one pin only.
* `NoFrameIsCut` holds of the 8051 by time alone: five bytes are out in five
  milliseconds, and main holds the line low for eighteen before it fills the next
  frame. A shorter pulse breaks it (the mutant `Pulsed`). Five bytes that come in
  while main fills `str` do mix with a reading.
* `CommandIsRight` holds because `setIP` subtracts more from the size of a pointer
  than it is: in the wrapped room everything fits, and the buffer is large enough
  for the longest name and address. An interface without an address is given that
  of the one listed after it.
* A POSIX object is sized before it is mapped, and once written stays so. The
  reader asks for an object no program of the repository writes and gets zeros.
* Of the errors of its `ioctl` `setip` looks at 19 and 99 only (`setip.c:57-66`).
  Without the privilege to set an address, or without a socket, it prints the
  success of line 33. `SetIp` ends in `setip = "said"` without `given`; no run
  states the opposite.
* A killed shared memory writer leaves its segment, on which all later starts
  fail until somebody removes it.
* Growing the ring while `pop_queue` is not 0 (`ThreadPoll.cpp:112-114`) loses no
  task but changes their order; `PushKeepsOrder` and `TaskPool` leave order out
  there.

## What is proved

Every safety invariant and action property of the runs is a theorem, for every value
of the constants that the assumptions allow. A `...Proofs` module belongs to the
module it extends.

| module | theorems (what they state of `Spec`, `PollSpec`, `EpollSpec`, `NetSpec`, `ToolSpec`, `DriverSpec`) |
|---|---|
| `ThreadPollProofs` | `PoolTypeOK`, `PoolMutualExclusion`, `PoolRingIsContiguous`, `PoolEveryTaskHasAToken`, `PoolNoTokenInvented`, `PoolPushKeepsOrder`, `PoolImplementsTaskPool` |
| `AcceptServerProofs` | `AcceptOneOwner`, `AcceptUsesThreadPoll` |
| `LoopProofs` | `SelectEveryConnectionIsWatched`, `SelectReportStaysTrue`, `PollEveryConnectionIsPolled`, `PollReportIsFresh`, `EpollEventsStayTrue`, `EpollNoEventLost` |
| `NetworkProofs` | `NetworkNoZombieForgotten`, `NetworkConnectionsAreOwned`, `NetworkEchoIsExact` |
| `ToolProofs` | `ToolLastWordsRead`, `ToolMemoryStays`, `ToolFixersAreRight`, `ToolCountsAreDistinct` |
| `DriverProofs` | `DriverNoPulseIsCut`, `DriverNoFrameIsCut`, `DriverSensorRests`, `DriverReadingIsHeld` |
| `MqttProofs` | `MqttTypeOK`, `MqttFlagFollowsLink`, `MqttLinesAreWhole`, `MqttOptionsAsWritten` |

A theorem has the name of the property it proves behind that of its part;
`PoolMutualExclusion`, `PoolImplementsTaskPool` and `AcceptUsesThreadPoll` are about
no property of a run: the second is the safety part (`Pool!Spec`) of
`ImplementsTaskPool`, the third says that the accept server uses its pool as
`ThreadPoll` allows, so that the theorems of the pool hold in it.
`SocketsProofs` has only lemmas, which the servers use: what a client, a read and
a close leave as it was.

`LoopProofs` proves of `Spec`, `PollSpec` and `EpollSpec` what the runs of the three
loops check. That there is a table for `select` (`SelectAssumption`), which
`LoopServers` inherits, is hidden from the proofs of the other two; what they are
about has a size of its own (`PollSize`, `MAX_EVENT`).

### Assumptions

They stand beside the constants and are evaluated by TLC in every run.

* Bounds (`MaxTasks`, `MaxStale`, `MaxRx`, `MaxDue`, `MaxPipes`, `MaxUnits`, ...)
  are natural numbers, so nothing depends on how large they are.
* Sets that are counted are finite (threads, descriptors, readers, the web
  client's tests); processes, writers and users may be any set.
* Names that stand for nobody are not the name of somebody (`NULL` is no task,
  `NoThread` no thread, `None` no process, `"free"` no reader, ...).
* The listening socket and the terminal are not among the descriptors of clients,
  and descriptors are below `FD_SETSIZE` (`SelectAssumption`), or fewer than it
  (`PollAssumption`). For epoll the listening socket is another one than the
  clients' and a batch holds at least one event (`EpollAssumption`). `LoopAssumption` of
  `LoopServers` is these two.
* The accept server's main thread is no worker, its workers are a finite set, and
  a ring has at least one slot (`AcceptAssumption`). The pool's own assumptions
  (`PoolProofs!...`) are derived from it, with room in the queue for each descriptor
  and one more.
* The files of the `mqtt` run are sequences of lines, lines of words
  (`FilesAssumption`); the buffer holds at least one word and no key begins like a
  comment (`ConfigAssumption`).
* Of time, only how constants compare: a pulse of `dht11.c` is shorter than the
  hold of the buffer, that and the rest of the sensor at most half the range of
  the counter (`DhtAssumption`: 20 ms, 10 s and 12 s against 248 days); a frame of
  the 8051 is shorter than the time it holds the line low, and that not longer
  than its pause (`DriverAssumption`: 5 ms, 18 ms, 2 s).

### The arguments

Each proof has an inductive invariant `IInv` (in the compositions the conjunction
of one for each program, since the programs next to one another do not share a
variable), checked by TLC on the run before it was proved, and one step for each
action. What the invariants add to what they prove:

* **Pool.** `size_queue` and the indices lag behind the slots while a thread is
  inside its section, so the ring is described by `First` and `Waiting`, which
  correct for the one store or load under way. That there is at most one needs
  `MutualExclusion`; that a store fills a slot needs `PushHasTask`; that counters
  do not go below zero needs `RingIsContiguous` itself. A push that finds its slot
  taken then knows that all slots are (`Waiting = capa_queue`), which is why
  resetting `pop_queue` and continuing behind the old ring leaves no hole. For the
  semaphore, `StepSurplus` shows that every step keeps `Tokens - Waiting`, except
  finding the ring empty, which gives up a token when `Waiting` is 0, and a
  restart, which empties the ring; so tokens always cover tasks.
* **Refinement.** `PushStore` and `PushGrow` submit, `PopTake` starts, `RunTask`
  finishes and `Restart` loses all; every other step stutters, although `PushGrow`
  moves the ring. `HoldsWhatItTook` says that a worker has a task exactly between
  `PopTake` and `RunTask`; a task that is in the ring twice is counted twice.
* **Select and poll.** `TableIsRight`: between two steps the places in use hold
  every open connection once, below `maxi`. `ReportSoFar` follows the report
  through the loop: what is still to come of it is true, because a descriptor that
  was accepted meanwhile is not in it (`select`), or, in `poll`, because `maxi - 1`
  is where the loop ends: entries above may carry what nobody has written. For
  `select`, `CountCovers` bounds `nready` from below by what is left, which is why
  the loop does not end too early; for `poll`, `NreadyBounded` is how far below
  zero a failed call may take it.
* **Epoll.** `EpollListed`: nothing is twice in the kernel's list, and a connection
  in it is open and can be read, except the one `task` has just read and will close.
  `EpollBatch`: the events left in a batch are all different, so closing one cannot
  falsify another, and a connection accepted meanwhile, which was closed, is in
  none. `EpollQuiet`: what is closed carries nothing, so a new connection owes no
  report. That the list loses nothing is then a matter of its elements: `EpollWithout`,
  `EpollAppended` and `EpollParts` say what is in a list with one less, with one
  more, and cut in two, and each keeps its entries distinct.
* **Accept.** The invariant of the pool, instantiated with descriptors for tasks
  (`PoolProofs!IInv`), together with `OneOwner` put without counting: a descriptor is
  in no two slots, in no two hands, and not in both. `PoolProofs!StepControl` and
  `PoolProofs!StepRing` keep the pool's part, because every step of the server is
  one of the pool or leaves it alone (`StepOfPool`). For the rest it matters which
  of the pool's steps move a task: a push from the main thread's hands to a slot, a
  pop from a slot to a worker's, and the growth of the ring, which moves slots but
  keeps what they hold. A main thread that has stored its descriptor still names it
  in `arg` until it accepts the next one, when a worker may have closed it and
  `accept` given the number away; `Holds` leaves such hands out.
* **Fork server.** `FamilyIsRight`: a parent that is set is alive, is not its own
  child, and has a signal pending for every zombie. `QueueIsFresh` and
  `ForkIsAlone` say that a connection is in the hands of the one process that has
  accepted it until it forks. For a session, `Strlen` of what the child echoes ends
  before the first unit that was not read, because the buffer has been cleared. The
  iterative server needs `WaitersWait`: who is served or waits has no answer yet.
* **Tools.** For `LastWordsRead`, `TurnIsRight`: the loop takes one turn, and once
  ssh is forked nobody else can write to the pipe; so the watcher ends only with a
  status or at the end of the pipe (`EndedRight`). For the address fixer, `OneTurn`
  generalises "one command at a time" to everybody whose turn it is; that a child's
  name is new (`NamesAreNew`) and that a copy goes on behind the command it failed
  to become (`CopiesGoOn`) keep it. For the older fixer, where each block of
  `ifconfig` begins and which name and address have been found last. For the web
  client, the numbers given away are those below the counter (`CountsAreRight`) and
  threads live within their test (`ThreadsStand`).
* **Drivers.** `AheadWhileLeft`: `time_after` with a counter that wraps says that
  the stamp is ahead exactly as long as ticks are left, up to half the range.
  `PulseIsRight`: who sleeps in the pulse is alone and has left a stamp that is
  further ahead than its sleep is long. For the other driver the same follows from
  the processor that is not given away (`ProcessorIsRight`). The 8051 needs how
  much of a frame has been sent compared with the time main has been holding the
  line (`FrameIsRight`), and of what kind the halves of its buffers are.
* **MQTT.** `FlagFollowsLink` is not inductive: callbacks are late. `FlagAfter(due,
  connected)` is what the flag will be when all that are due have run, and unless
  the client is doomed (told to finish, or with a failed connect still to be told)
  it is what the link is (`ClientInv`). A callback that runs does not change
  `FlagAfter` (`FlagWithOneLess`), one that becomes due decides on it as the link
  does (`FlagWithOneMore`), and a connect that the library repeats without telling
  is the first of its kind (`armed`). Each program adds where its main thread can
  be; its instance is shown to have the shared steps (`PubShares`, ...). For
  `LinesAreWhole`, `LogTurns` says when main and callbacks call `MyLog`: never both
  before the client has been told to finish (`OneInside`), since main does so
  without a link; `LogWhole` then says of whom buffer and halves are. For
  `OptionsAsWritten` the loop over the lines is the induction: `ReadSoFar` says that
  after each turn the options are what the lines read so far set last (`SetByLast`),
  and that the program is leaving if and only if one of them was not understood;
  `LineParsed` is what one line does, and `FileEnds` compares the last turn with
  `LastSetting`.

### What is only checked by TLC

* Liveness: `EveryTaskIsTaken`, `Answered`,
  `EpollClientsServed`, `ServedWhileDescriptorsLast`, `InnerClientsServed`, `FailureEndsSsh`,
  `NobodyWaitsForever`, `QuitIsObeyed`, `NobodyHoldsTheServer`, `LossIsAnswered`,
  `KeepsPublishing`, `StopIsHeard`, and the fairness in `ImplementsTaskPool`.

## Not modelled

Programs: the select demo, which tests the set it passed in place of the one it
got back and keeps no state; `setip2.c` and `mqtt-imx_/paho-pub.c`, which do not
compile; scratch files; copies, generated and vendored files. `my_shm_read` of
`wrapper.c` is called by nothing.

Inside what is modelled: the callbacks that only write to a log;
`onPublishFailure`, which reads from a null pointer when the library gives no
response (`paho-pub.c:240`); the drivers on a kernel that preempts kernel code
(there a reader may come between `misc_register` and the first stamp); what
`kill` does to a process number that has been given away again; answers that
block because the client does not take them; the text of addresses, messages and
lines; the parsing of the supervisors' arguments; the bits the 8051 reads from the
sensor.

## The plan

The safety properties of the runs are proved; liveness is out of the provers' reach.
What would add to this:

1. what a configuration with lines longer than the buffer means, and what a command
   line means, stated without the loops that read them;
2. the writing to a connection that was reset, with and without SIGPIPE ignored, as a
   property of the servers.
