----------------------------- MODULE ToolProofs -----------------------------
(***************************************************************************)
(* Proofs about the programs that are started by themselves, for pipes of  *)
(* any length, any number of writers, and any number of the web client's   *)
(* threads.                                                                *)
(***************************************************************************)
EXTENDS ToolPrograms, TLAPS, FiniteSetTheorems, SequenceTheorems

USE ToolAssumption

-----------------------------------------------------------------------------
(* The two supervisors, autossh *)

\* Nothing has been forked yet, or never will be.
NotForked == watcher = "none" /\ ssh = "none" /\ pipe = <<>> /\ readEnd

\* The loop of main is gone through once; once ssh has been forked, nobody but it
\* can write to the pipe, and the watcher is not told to stop.
TurnIsRight ==
    /\ pc = "returned" => n = 0
    /\ pc = "loop" => n \in 1 .. 2
    /\ pc \notin {"returned", "loop"} => n = 1
    /\ pc \in {"probe", "sleep", "fork", "exited", "crashed"} \/ n = 2 => NotForked
    /\ watcher = "none" => NotForked
    /\ watcher # "none" => done = 1 /\ ~writeEnd
    /\ pc \in {"wait", "join"} => watcher # "none"
    /\ pc \in {"loop", "returned"} /\ watcher # "none" => watcher = "ended"
    /\ pc \in {"loop", "returned"} => ssh \in {"none", "reaped"}
    /\ pc = "join" => ssh = "reaped"

\* The watcher ends on a failure, or at the end of the pipe.
EndedRight ==
    /\ watcher = "kill" => statu # "init"
    /\ watcher = "ended" => statu # "init" \/ (pipe = <<>> /\ ssh # "runs")

SshInv == TypeOK /\ TurnIsRight /\ EndedRight

\* The supervisor begins without a child, and without a watcher.
LEMMA InitSsh == Init => SshInv
BY EmptySeq, LenProperties
DEF Init, SshInv, TypeOK, TurnIsRight, NotForked, EndedRight, Failures

\* One step per action; the older supervisor has no others.
LEMMA StepSsh == ASSUME SshInv, [Next]_vars PROVE SshInv'
<1> USE DEF SshInv, TypeOK, TurnIsRight, NotForked, EndedRight, world, Failures
<1>1. CASE Iterate
  BY <1>1 DEF Iterate
<1>2. CASE PortInUse \/ NotReachable \/ PortIsFree \/ NoSuchHost
  BY <1>2 DEF PortInUse, NotReachable, PortIsFree, NoSuchHost, ProbeTo
<1>3. CASE Slept \/ ForkFails
  BY <1>3 DEF Slept, ForkFails
<1>4. CASE Fork
  <2>1. NotForked /\ n = 1
    BY <1>4 DEF Fork
  <2>2. /\ ssh' = "runs" /\ writeEnd' = FALSE /\ done' = 1 /\ watcher' = "read" /\ pc' = "wait"
        /\ UNCHANGED <<n, statu, pipe, readEnd>>
    BY <1>4 DEF Fork, ClosedWriteEnd
  <2>3. {readEnd', writeEnd'} \subseteq BOOLEAN
    BY <2>2
  <2>4. TurnIsRight' /\ EndedRight'
    BY <2>1, <2>2
  <2> QED
    BY <2>1, <2>2, <2>3, <2>4
<1>5. CASE Wait
  BY <1>5 DEF Wait, DoneAfterWait
<1>6. CASE Join
  <2>1. /\ pc = "join" /\ watcher = "ended" /\ readEnd' = FALSE /\ pc' = "loop"
        /\ UNCHANGED <<n, watcher, done, statu, ssh, pipe, writeEnd>>
    BY <1>6 DEF Join, Joined
  <2>2. {readEnd', writeEnd'} \subseteq BOOLEAN
    BY <2>1
  <2>3. TurnIsRight' /\ EndedRight'
    BY <2>1
  <2> QED
    BY <2>1, <2>2, <2>3
<1>7. CASE ReadLine
  <2>1. /\ Head(pipe) \in Lines /\ Tail(pipe) \in Seq(Lines)
        /\ Len(pipe) \in Nat /\ Len(pipe) # 0 /\ Len(Tail(pipe)) = Len(pipe) - 1
    BY <1>7, HeadTailProperties, EmptySeq, LenProperties DEF ReadLine
  <2>2. /\ watcher = "read" /\ pipe' = Tail(pipe) /\ UNCHANGED <<pc, n, done, ssh, readEnd, writeEnd>>
        /\ \/ statu' \in Failures /\ watcher' = "kill"
           \/ UNCHANGED <<statu, watcher>>
    BY <1>7 DEF ReadLine, AfterFailure
  <2> QED
    BY <2>1, <2>2
<1>8. CASE WatchEnds
  BY <1>8 DEF WatchEnds, AtEof
<1>9. CASE Kill
  BY <1>9 DEF Kill
<1>10. CASE Output
  <2>1. PICK line \in Lines : pipe' = Append(pipe, line)
    BY <1>10 DEF Output
  <2>2. pipe' \in Seq(Lines) /\ Len(pipe) \in Nat /\ Len(pipe') = Len(pipe) + 1
    BY <2>1, AppendProperties, LenProperties
  <2> QED
    BY <1>10, <2>2 DEF Output, threads
<1>11. CASE Ends
  BY <1>11 DEF Ends, threads
<1>12. CASE UNCHANGED vars
  BY <1>12 DEF vars, threads
<1> QED
  BY <1>1, <1>2, <1>3, <1>4, <1>5, <1>6, <1>7, <1>8, <1>9, <1>10, <1>11, <1>12
  DEF Next, Main, Watcher

\* The older supervisor does nothing that the newer one may not do.
LEMMA OldStepIsStep == Old!OldNext => Next
BY DEF Old!OldNext, Old!OldMain, Old!OldWatcher, Old!OldProbe, Old!NotAnAddress, Old!Probed,
       Old!Iterate, Old!PortInUse, Old!NotReachable, Old!PortIsFree, Old!ProbeTo, Old!Slept,
       Old!ForkFails, Old!Fork, Old!ClosedWriteEnd, Old!Wait, Old!DoneAfterWait, Old!Join,
       Old!Joined, Old!ReadLine, Old!AfterFailure, Old!Failures, Old!WatchEnds, Old!AtEof,
       Old!Kill, Old!Output, Old!Lines, Old!Ends, Old!world, Old!threads,
       Next, Main, Watcher, Iterate, PortInUse, NotReachable, PortIsFree, NoSuchHost, ProbeTo,
       Slept, ForkFails, Fork, ClosedWriteEnd, Wait, DoneAfterWait, Join, Joined, ReadLine,
       AfterFailure, Failures, WatchEnds, AtEof, Kill, Output, Lines, Ends, world, threads

-----------------------------------------------------------------------------
(* System V shared memory, mmshare *)

ShmInv == Shm!TypeOK /\ Shm!SegmentStays

\* The writer begins without a segment.
LEMMA InitShm == Shm!Start => ShmInv
BY DEF Shm!Start, ShmInv, Shm!TypeOK, Shm!SegmentStays

\* Who writes has the segment, so that nobody else opens, writes or removes it.
LEMMA StepShm == ASSUME ShmInv, [Shm!ShmNext]_memory PROVE ShmInv'
<1> USE DEF ShmInv, Shm!TypeOK, Shm!SegmentStays
<1>1. ASSUME NEW w \in Writers, Shm!Open(w) PROVE ShmInv'
  BY <1>1 DEF Shm!Open, Shm!Exclusive
<1>2. ASSUME NEW w \in Writers, Shm!UpdateFails(w) \/ Shm!Update(w) \/ Shm!Updated(w)
      PROVE  ShmInv'
  BY <1>2 DEF Shm!UpdateFails, Shm!Update, Shm!Updated
<1>3. ASSUME NEW w \in Writers, Shm!Close(w) \/ Shm!Killed(w) PROVE ShmInv'
  BY <1>3 DEF Shm!Close, Shm!Killed
<1>4. CASE Shm!Removed
  BY <1>4 DEF Shm!Removed
<1>5. CASE UNCHANGED memory
  BY <1>5 DEF memory
<1> QED
  BY <1>1, <1>2, <1>3, <1>4, <1>5 DEF Shm!ShmNext

-----------------------------------------------------------------------------
(* POSIX shared memory, shmm and shmread.go *)

\* Which state of an object a program has to reckon with.
ObjectsAreRight ==
    /\ test_shm \in {"none", "empty", "zeros"}
    /\ prog["shmread"] = "opened" => test_shm # "none"
    /\ prog["shmread"] = "sized" => test_shm = "zeros"
    /\ prog["shmread"] \in {"idle", "opened", "sized"}
    /\ \A p \in Posix!ShmWriters : /\ prog[p] = "opened" => ram # "none"
                                   /\ prog[p] = "copied" => ram = "text"
PosixInv == Posix!TypeOK /\ ObjectsAreRight /\ Posix!TextStays

\* No object has been made.
LEMMA InitPosix == Posix!Start => PosixInv
BY DEF Posix!Start, PosixInv, Posix!TypeOK, ObjectsAreRight, Posix!TextStays, Posix!Progs,
       Posix!ShmWriters

\* An object gains a size and a word, and loses neither.
LEMMA StepPosix == ASSUME PosixInv, [Posix!PosixNext]_posix PROVE PosixInv'
<1> USE DEF PosixInv, Posix!TypeOK, ObjectsAreRight, Posix!TextStays, Posix!Progs,
            Posix!ShmWriters, Posix!ProgAt, Posix!Created, Posix!Sized
<1>1. ASSUME NEW p \in Posix!Progs, Posix!OpenRam(p) \/ Posix!SizeRam(p) PROVE PosixInv'
  BY <1>1 DEF Posix!OpenRam, Posix!SizeRam
<1>2. ASSUME NEW p \in Posix!Progs,
             Posix!WriteRam(p) \/ Posix!WrittenRam(p) \/ Posix!WriterEnds(p)
      PROVE  PosixInv'
  <2>1. CASE Posix!WriteRam(p)
    BY <2>1 DEF Posix!WriteRam
  <2>2. CASE Posix!WrittenRam(p)
    BY <2>2 DEF Posix!WrittenRam
  <2>3. CASE Posix!WriterEnds(p)
    BY <2>3 DEF Posix!WriterEnds
  <2> QED
    BY <1>2, <2>1, <2>2, <2>3
<1>3. ASSUME NEW p \in Posix!Progs, Posix!Fails(p) PROVE PosixInv'
  BY <1>3 DEF Posix!Fails
<1>4. CASE Posix!Read
  BY <1>4 DEF Posix!Read, Posix!OpenTest, Posix!SizeTest, Posix!ReadTest
<1>5. CASE UNCHANGED posix
  BY <1>5 DEF posix
<1> QED
  BY <1>1, <1>2, <1>3, <1>4, <1>5 DEF Posix!PosixNext

-----------------------------------------------------------------------------
(* The address fixer, fixaddress *)

\* A copy comes to no command that has been begun before it.
CopiesGoOn ==
    \A p \in Fix!Procs : at[p] = "copy" =>
      \/ p = <<>>
      \/ \E a \in 1 .. Fix!Last : p = <<a>> /\ a < step[p]
      \/ \E a, b \in 1 .. Fix!Last : p = <<a, b>> /\ a < b /\ b < step[p]
      \/ p = <<1, 2, 3>> /\ step[p] = Fix!Last + 1

\* A name is given once: to whom no process has been born, it has been at nothing.
NamesAreNew ==
    \A p \in Fix!Procs :
      /\ at[p] = "none" => step[p] = 1 /\ ~waiting[p]
      /\ \A k \in 1 .. Fix!Last :
           Append(p, k) \in Fix!Procs /\ at[Append(p, k)] # "none"
             => k < step[p] \/ (k = step[p] /\ waiting[p])

\* Whose turn it is: who runs, as a command or as a copy that does not wait, or who
\* has waited for what is over. There is never more than one.
Turn(p) == \/ at[p] = "command" \/ (at[p] = "copy" /\ ~waiting[p])
           \/ waiting[p] /\ at[Fix!Child(p)] = "over"
OneTurn == \A p, q \in Fix!Procs : Turn(p) /\ Turn(q) => p = q

WaitsForItsChild == \A p \in Fix!Procs : waiting[p] => at[p] = "copy" /\ step[p] <= Fix!Last

FixInv == Fix!TypeOK /\ CopiesGoOn /\ NamesAreNew /\ OneTurn /\ WaitsForItsChild

\* The names of the children of a process that has the name of one or two commands.
LEMMA OneMore ==
    /\ \A a, c \in 1 .. 3 : Append(<<a>>, c) = <<a, c>>
    /\ \A a, b, c \in 1 .. 3 : Append(<<a, b>>, c) = <<a, b, c>>
<1>1. ASSUME NEW a \in 1 .. 3, NEW c \in 1 .. 3 PROVE Append(<<a>>, c) = <<a, c>>
  <2>1. <<a>> \in Seq(1 .. 3) /\ Len(<<a>>) = 1 /\ <<a>>[1] = a
    OBVIOUS
  <2>2. <<a, c>> \in Seq(1 .. 3) /\ Len(<<a, c>>) = 2 /\ <<a, c>>[1] = a /\ <<a, c>>[2] = c
    OBVIOUS
  <2>3. /\ Append(<<a>>, c) \in Seq(1 .. 3) /\ Len(Append(<<a>>, c)) = 2
        /\ Append(<<a>>, c)[1] = a /\ Append(<<a>>, c)[2] = c
    BY <2>1, AppendProperties
  <2>4. \A x, y \in Seq(1 .. 3) :
          Len(x) = 2 /\ Len(y) = 2 /\ x[1] = y[1] /\ x[2] = y[2] => x = y
    BY SeqEqual
  <2> QED
    BY <2>2, <2>3, <2>4, Zenon
<1>2. ASSUME NEW a \in 1 .. 3, NEW b \in 1 .. 3, NEW c \in 1 .. 3
      PROVE  Append(<<a, b>>, c) = <<a, b, c>>
  <2>1. <<a, b>> \in Seq(1 .. 3) /\ Len(<<a, b>>) = 2 /\ <<a, b>>[1] = a /\ <<a, b>>[2] = b
    OBVIOUS
  <2>2. /\ <<a, b, c>> \in Seq(1 .. 3) /\ Len(<<a, b, c>>) = 3
        /\ <<a, b, c>>[1] = a /\ <<a, b, c>>[2] = b /\ <<a, b, c>>[3] = c
    OBVIOUS
  <2>3. /\ Append(<<a, b>>, c) \in Seq(1 .. 3) /\ Len(Append(<<a, b>>, c)) = 3
        /\ Append(<<a, b>>, c)[1] = a /\ Append(<<a, b>>, c)[2] = b
        /\ Append(<<a, b>>, c)[3] = c
    BY <2>1, AppendProperties
  <2>4. \A x, y \in Seq(1 .. 3) :
          Len(x) = 3 /\ Len(y) = 3 /\ x[1] = y[1] /\ x[2] = y[2] /\ x[3] = y[3] => x = y
    <3>1. ASSUME NEW x \in Seq(1 .. 3), NEW y \in Seq(1 .. 3), Len(x) = 3, Len(y) = 3,
                 x[1] = y[1], x[2] = y[2], x[3] = y[3]
          PROVE  x = y
      <4>1. \A i \in 1 .. Len(x) : x[i] = y[i]
        BY <3>1
      <4> QED
        BY <3>1, <4>1, SeqEqual
    <3> QED
      BY <3>1
  <2> QED
    BY <2>2, <2>3, <2>4, Zenon
<1> QED
  BY <1>1, <1>2

\* A name tells the parent and the command.
LEMMA NamesTell ==
    /\ \A p, q \in Fix!Procs, k, l \in Nat : Append(p, k) = Append(q, l) => p = q /\ k = l
    /\ \A p \in Fix!Procs, k \in Nat : Append(p, k) # p /\ Append(p, k) # <<>>
<1>1. \A a, b \in 1 .. 3 : <<a>> \in Seq(Nat) /\ <<a, b>> \in Seq(Nat)
  OBVIOUS
<1>2. <<>> \in Seq(Nat) /\ <<1, 2, 3>> \in Seq(Nat)
  OBVIOUS
<1>3. ASSUME NEW q \in Fix!Procs PROVE q \in Seq(Nat)
  <2>1. \/ q = <<>> \/ q = <<1, 2, 3>>
        \/ (\E a \in 1 .. 3 : q = <<a>>) \/ (\E a, b \in 1 .. 3 : q = <<a, b>>)
    BY DEF Fix!Procs, Fix!Last
  <2> QED
    BY <1>1, <1>2, <2>1, Zenon
<1>4. Fix!Procs \subseteq Seq(Nat)
  BY <1>3, Zenon
<1>5. \A p \in Seq(Nat), k \in Nat : Len(Append(p, k)) = Len(p) + 1 /\ Len(p) \in Nat
  BY AppendProperties, LenProperties
<1>6. \A p \in Seq(Nat), k \in Nat : Append(p, k) # p /\ Append(p, k) # <<>>
  BY <1>5, EmptySeq
<1>7. \A p, q \in Seq(Nat), k, l \in Nat : Append(p, k) = Append(q, l) => p = q /\ k = l
  BY AppendInjective
<1> QED
  BY <1>4, <1>6, <1>7, Zenon

\* The child of a process whose commands are not over has a name, of its own.
LEMMA ChildIsNamed ==
    ASSUME FixInv, NEW p \in Fix!Procs, at[p] = "copy", step[p] <= Fix!Last
    PROVE  /\ Fix!Child(p) \in Fix!Procs /\ Fix!Child(p) # p /\ Fix!Child(p) # <<>>
           /\ \A q \in Fix!Procs, k \in Nat : Append(q, k) = Fix!Child(p) => q = p /\ k = step[p]
           /\ \A q \in Fix!Procs : Fix!Child(q) = Fix!Child(p) => q = p
<1>1. step[p] \in 1 .. 3 /\ \A q \in Fix!Procs : step[q] \in Nat
  BY DEF FixInv, Fix!TypeOK, Fix!Last
<1>2. Fix!Child(p) # p /\ Fix!Child(p) # <<>>
  BY <1>1, NamesTell DEF Fix!Child
<1>3. \A q \in Fix!Procs, k \in Nat : Append(q, k) = Fix!Child(p) => q = p /\ k = step[p]
  BY <1>1, NamesTell DEF Fix!Child
<1>4. \A q \in Fix!Procs : Fix!Child(q) = Fix!Child(p) => q = p
  BY <1>1, <1>3 DEF Fix!Child
<1>5. Append(p, step[p]) \in Fix!Procs
  <2>1. CASE p = <<>>
    BY <1>1, <2>1 DEF Fix!Procs, Fix!Last
  <2>2. ASSUME NEW a \in 1 .. 3, p = <<a>> PROVE Append(p, step[p]) \in Fix!Procs
    <3>1. Append(p, step[p]) = <<a, step[p]>>
      BY <1>1, <2>2, OneMore
    <3> QED
      BY <1>1, <3>1 DEF Fix!Procs, Fix!Last
  <2>3. ASSUME NEW a \in 1 .. 3, NEW b \in 1 .. 3, p = <<a, b>>, a < b, b < step[p]
        PROVE  Append(p, step[p]) \in Fix!Procs
    <3>1. a = 1 /\ b = 2 /\ step[p] = 3
      BY <1>1, <2>3
    <3>2. Append(p, step[p]) = <<1, 2, 3>>
      BY <2>3, <3>1, OneMore
    <3> QED
      BY <3>2 DEF Fix!Procs, Fix!Last
  <2> QED
    BY <1>1, <2>1, <2>2, <2>3 DEF FixInv, CopiesGoOn, Fix!Last
<1> QED
  BY <1>2, <1>3, <1>4, <1>5 DEF Fix!Child

\* Main is at its beginning, and no child has been started.
LEMMA InitFix == Fix!Start => FixInv
<1>1. <<>> \in Fix!Procs
  BY DEF Fix!Procs
<1> QED
  BY <1>1, NamesTell
  DEF Fix!Start, FixInv, Fix!TypeOK, CopiesGoOn, NamesAreNew, OneTurn, Turn,
      WaitsForItsChild, Fix!Last

\* The turn goes from parent to child and back: one step per action.
LEMMA StepFix == ASSUME FixInv, [Fix!FixNext]_fixer PROVE FixInv'
<1> USE DEF FixInv, Fix!TypeOK, CopiesGoOn, NamesAreNew, OneTurn, Turn, WaitsForItsChild,
            Fix!Last
<1>1. ASSUME NEW p \in Fix!Procs, Fix!Fork(p) PROVE FixInv'
  <2>1. PICK image \in {"command", "copy"} :
          /\ at[p] = "copy" /\ ~waiting[p] /\ step[p] <= 3
          /\ at' = [at EXCEPT ![Fix!Child(p)] = image]
          /\ step' = [step EXCEPT ![Fix!Child(p)] = step[p] + 1]
          /\ waiting' = [waiting EXCEPT ![p] = TRUE]
          /\ UNCHANGED <<stage, iface, up>>
    BY <1>1 DEF Fix!Fork, Fix!Runs
  <2>2. /\ Fix!Child(p) \in Fix!Procs /\ Fix!Child(p) # p /\ Fix!Child(p) # <<>>
        /\ \A q \in Fix!Procs, k \in Nat : Append(q, k) = Fix!Child(p) => q = p /\ k = step[p]
        /\ \A q \in Fix!Procs : Fix!Child(q) = Fix!Child(p) => q = p
    BY <2>1, ChildIsNamed
  <2>3. at[Fix!Child(p)] = "none" /\ ~waiting[Fix!Child(p)] /\ step[Fix!Child(p)] = 1
    <3>1. step[p] \in 1 .. 3 /\ Fix!Child(p) = Append(p, step[p])
      BY <2>1 DEF Fix!Child
    <3>2. at[Append(p, step[p])] # "none" => step[p] < step[p] \/ waiting[p]
      BY <2>2, <3>1 DEF NamesAreNew
    <3>3. at[Fix!Child(p)] = "none"
      BY <2>1, <3>1, <3>2
    <3> QED
      BY <2>2, <3>3
  <2>4. \A q \in Fix!Procs \ {Fix!Child(p)} : Fix!Child(q)' = Fix!Child(q)
    BY <2>1 DEF Fix!Child
  <2>5. Fix!TypeOK' /\ WaitsForItsChild'
    BY <2>1, <2>2, <2>3, <2>4
  <2>6. CopiesGoOn'
    <3>1. ASSUME NEW q \in Fix!Procs, q # Fix!Child(p), at'[q] = "copy"
          PROVE  at[q] = "copy" /\ step'[q] = step[q]
      BY <2>1, <3>1
    <3>2. \/ Fix!Child(p) = <<>>
          \/ \E a \in 1 .. 3 : Fix!Child(p) = <<a>> /\ a < step[p] + 1
          \/ \E a, b \in 1 .. 3 : Fix!Child(p) = <<a, b>> /\ a < b /\ b < step[p] + 1
          \/ Fix!Child(p) = <<1, 2, 3>> /\ step[p] + 1 = 4
      <4>1. step[p] \in 1 .. 3
        BY <2>1
      <4>2. CASE p = <<>>
        BY <4>1, <4>2 DEF Fix!Child
      <4>3. ASSUME NEW a \in 1 .. 3, p = <<a>>, a < step[p]
            PROVE  Fix!Child(p) = <<a, step[p]>>
        BY <4>1, <4>3, OneMore DEF Fix!Child
      <4>4. ASSUME NEW a \in 1 .. 3, NEW b \in 1 .. 3, p = <<a, b>>, a < b, b < step[p]
            PROVE  Fix!Child(p) = <<1, 2, 3>> /\ step[p] = 3
        <5>1. a = 1 /\ b = 2 /\ step[p] = 3
          BY <4>1, <4>4
        <5> QED
          BY <4>4, <5>1, OneMore DEF Fix!Child
      <4> QED
        BY <2>1, <4>1, <4>2, <4>3, <4>4
    <3>3. step'[Fix!Child(p)] = step[p] + 1
      BY <2>1, <2>2
    <3> QED
      BY <3>1, <3>2, <3>3
  <2>7. NamesAreNew'
    <3>1. ASSUME NEW q \in Fix!Procs
          PROVE  at'[q] = "none" => step'[q] = 1 /\ ~waiting'[q]
      BY <2>1, <2>2
    <3>2. ASSUME NEW q \in Fix!Procs, NEW k \in 1 .. 3, Append(q, k) \in Fix!Procs,
                 at'[Append(q, k)] # "none"
          PROVE  k < step'[q] \/ (k = step'[q] /\ waiting'[q])
      <4>1. CASE Append(q, k) = Fix!Child(p)
        <5>1. q = p /\ k = step[p]
          BY <2>2, <4>1
        <5>2. step'[p] = step[p] /\ waiting'[p]
          BY <2>1, <2>2
        <5> QED
          BY <5>1, <5>2
      <4>2. CASE Append(q, k) # Fix!Child(p)
        <5>1. at[Append(q, k)] # "none"
          BY <2>1, <2>2, <3>2, <4>2
        <5>2. k < step[q] \/ (k = step[q] /\ waiting[q])
          BY <3>2, <5>1
        <5>3. q # Fix!Child(p)
          BY <2>3, <5>2
        <5> QED
          BY <2>1, <5>2, <5>3
      <4> QED
        BY <4>1, <4>2
    <3> QED
      BY <3>1, <3>2
  <2>8. OneTurn'
    BY <2>1, <2>2, <2>3, <2>4
  <2> QED
    BY <2>5, <2>6, <2>7, <2>8
<1>2. ASSUME NEW p \in Fix!Procs,
             ~waiting'[p], waiting' \in [Fix!Procs -> BOOLEAN], step[p] <= 3,
             at[p] = "copy", Turn(p),
             step' = [step EXCEPT ![p] = step[p] + 1],
             \A q \in Fix!Procs \ {p} : waiting'[q] = waiting[q],
             UNCHANGED <<stage, iface, up, at>>
      PROVE  FixInv'
  <2>1. \A q \in Fix!Procs \ {p} : step'[q] = step[q] /\ Fix!Child(q)' = Fix!Child(q)
    BY <1>2 DEF Fix!Child
  <2>2. Fix!TypeOK' /\ WaitsForItsChild'
    BY <1>2, <2>1
  <2>3. CopiesGoOn'
    BY <1>2, <2>1
  <2>4. NamesAreNew'
    BY <1>2, <2>1
  <2>5. OneTurn'
    BY <1>2, <2>1
  <2> QED
    BY <2>2, <2>3, <2>4, <2>5
<1>3. ASSUME NEW p \in Fix!Procs, Fix!ForkFails(p) \/ Fix!WaitReturns(p) PROVE FixInv'
  <2>1. CASE Fix!ForkFails(p)
    BY <1>2, <2>1 DEF Fix!ForkFails, Fix!Runs
  <2>2. CASE Fix!WaitReturns(p)
    <3>1. /\ waiting[p] /\ at[Fix!Child(p)] = "over" /\ at[p] = "copy" /\ step[p] <= 3
          /\ waiting' = [waiting EXCEPT ![p] = FALSE]
          /\ step' = [step EXCEPT ![p] = step[p] + 1] /\ UNCHANGED <<stage, iface, up, at>>
      BY <2>2 DEF Fix!WaitReturns, Fix!Reaped
    <3>2. /\ ~waiting'[p] /\ waiting' \in [Fix!Procs -> BOOLEAN]
          /\ \A q \in Fix!Procs \ {p} : waiting'[q] = waiting[q]
      BY <3>1
    <3> QED
      BY <1>2, <3>1, <3>2
  <2> QED
    BY <1>3, <2>1, <2>2
<1>4. ASSUME NEW p \in Fix!Procs, Fix!CommandEnds(p) \/ Fix!Returns(p) PROVE FixInv'
  <2>1. /\ Turn(p) /\ at[p] \in {"command", "copy"} /\ ~waiting[p]
        /\ at' = [at EXCEPT ![p] = "over"] /\ UNCHANGED <<stage, iface, up, step, waiting>>
    BY <1>4 DEF Fix!CommandEnds, Fix!Returns, Fix!Runs
  <2>2. \A q \in Fix!Procs : Fix!Child(q)' = Fix!Child(q)
    BY <2>1 DEF Fix!Child
  <2>3. Fix!TypeOK' /\ WaitsForItsChild' /\ CopiesGoOn'
    BY <2>1, <2>2
  <2>4. NamesAreNew'
    BY <2>1
  <2>5. OneTurn'
    <3>1. ASSUME NEW q \in Fix!Procs, Turn(q)' PROVE waiting[q] /\ Fix!Child(q) = p
      BY <2>1, <2>2, <3>1
    <3>2. ASSUME NEW q \in Fix!Procs, NEW r \in Fix!Procs, Turn(q)', Turn(r)' PROVE q = r
      <4>1. waiting[q] /\ Fix!Child(q) = p /\ Fix!Child(r) = p
        BY <3>1, <3>2
      <4> QED
        BY <4>1, ChildIsNamed
    <3> QED
      BY <3>2
  <2> QED
    BY <2>3, <2>4, <2>5
<1>5. CASE Fix!ReadConfig \/ Fix!ComesUp \/ Fix!Found \/ Fix!GetIP
  BY <1>5 DEF Fix!ReadConfig, Fix!ComesUp, Fix!Found, Fix!GetIP, Fix!Child
<1>6. CASE UNCHANGED fixer
  BY <1>6 DEF fixer, Fix!Child
<1> QED
  BY <1>1, <1>2, <1>3, <1>4, <1>5, <1>6 DEF Fix!FixNext

\* As there is one turn, there is one command.
LEMMA OneTurnOneCommand == FixInv => Fix!OneCommandAtATime
<1> SUFFICES ASSUME FixInv PROVE Fix!OneCommandAtATime
  OBVIOUS
<1> DEFINE running == {p \in Fix!Procs : at[p] = "command"}
<1>1. Cardinality(running) <= 1
  <2>1. CASE running = {}
    BY <2>1, FS_EmptySet
  <2>2. ASSUME NEW p \in running PROVE Cardinality(running) <= 1
    <3>1. running = {p}
      BY DEF FixInv, OneTurn, Turn
    <3>2. Cardinality({p}) = 1
      BY FS_Singleton
    <3> HIDE DEF running
    <3> QED
      BY <3>1, <3>2
  <2> QED
    BY <2>1, <2>2
<1>2. ASSUME NEW p \in running PROVE \A q \in Fix!Procs : ~Fix!Runs(q)
  BY <1>2 DEF FixInv, OneTurn, Turn, Fix!Runs
<1>3. (\E p \in Fix!Procs : at[p] = "command") => \A q \in Fix!Procs : ~Fix!Runs(q)
  BY <1>2
<1>4. Fix!Cardinality(running) <= 1
  BY <1>1 DEF Fix!Cardinality, Fix!IsFiniteSet, Cardinality, IsFiniteSet
<1> QED
  BY <1>3, <1>4, Zenon DEF Fix!OneCommandAtATime

-----------------------------------------------------------------------------
(* The address fixer as it was *)

Addresses == {OldFix!Address(i, v) : i \in OldFix!Ifaces, v \in {"own", "0.0.0.0"}}
Printed == {OldFix!Head1(i) : i \in OldFix!Ifaces} \cup Addresses

\* What ifconfig prints: no interface twice, and every other line an address.
LinesAreRight(out) ==
    /\ out \in Seq(Printed) /\ Len(out) \in 0 .. 4
    /\ \A j, k \in 1 .. Len(out) :
         out[j] = OldFix!Head1("wlan") /\ out[k] = OldFix!Head1("wlan") => j = k

\* The address is that of the interface from the moment it is taken.
AddressIsRight ==
    fix \in {"asked", "printed"} /\ interface = "wlan" /\ OldFix!HasAddress("wlan")
      => hostip = <<"wlan", "200">>

OldFixInv == OldFix!TypeOK /\ AddressIsRight

\* ifconfig prints the name of an interface and, if it has one, its address.
LEMMA BlockIsRight ==
    ASSUME NEW i \in OldFix!Ifaces, NEW b \in OldFix!Block(i)
    PROVE  /\ b \in Seq(Printed) /\ Len(b) \in 1 .. 2 /\ b[1] = OldFix!Head1(i)
           /\ Len(b) = 2 => b[2] \in Addresses
<1>1. CASE b = <<OldFix!Head1(i)>>
  BY <1>1 DEF Printed
<1>2. ASSUME NEW v \in {"own", "0.0.0.0"}, b = <<OldFix!Head1(i), OldFix!Address(i, v)>>
      PROVE  /\ b \in Seq(Printed) /\ Len(b) \in 1 .. 2 /\ b[1] = OldFix!Head1(i)
             /\ Len(b) = 2 => b[2] \in Addresses
  BY <1>2 DEF Printed, Addresses
<1> QED
  BY <1>1, <1>2 DEF OldFix!Block

\* An address can be told from the head of an interface, and has an interface.
LEMMA AddressParts ==
    ASSUME NEW a \in Addresses
    PROVE  a.kind = "inet addr" /\ a.of \in OldFix!Ifaces
<1>1. PICK i \in OldFix!Ifaces, v \in {"own", "0.0.0.0"} : a = OldFix!Address(i, v)
  BY DEF Addresses
<1> QED
  BY <1>1 DEF OldFix!Address

\* So can the heads of the two.
LEMMA LineIsOne ==
    /\ OldFix!Head1("wlan") # OldFix!Head1("other")
    /\ \A i \in OldFix!Ifaces : OldFix!Head1(i) \notin Addresses
<1>1. \A i : OldFix!Head1(i).kind = "head" /\ OldFix!Head1(i).of = i
  BY DEF OldFix!Head1
<1> QED
  BY <1>1, AddressParts

\* Two blocks one after the other, in either order.
LEMMA TwoBlocksAreRight ==
    ASSUME NEW i \in OldFix!Ifaces, NEW j \in OldFix!Ifaces, i # j,
           NEW a \in OldFix!Block(i), NEW b \in OldFix!Block(j)
    PROVE  LinesAreRight(a \o b)
<1>1. /\ a \in Seq(Printed) /\ Len(a) \in 1 .. 2 /\ a[1] = OldFix!Head1(i)
      /\ Len(a) = 2 => a[2] \in Addresses
  BY BlockIsRight
<1>2. /\ b \in Seq(Printed) /\ Len(b) \in 1 .. 2 /\ b[1] = OldFix!Head1(j)
      /\ Len(b) = 2 => b[2] \in Addresses
  BY BlockIsRight
<1>3. /\ a \o b \in Seq(Printed) /\ Len(a \o b) = Len(a) + Len(b)
      /\ \A k \in 1 .. Len(a) + Len(b) :
           (a \o b)[k] = IF k <= Len(a) THEN a[k] ELSE b[k - Len(a)]
  BY <1>1, <1>2, ConcatProperties
<1>4. Len(a) \in 1 .. 2 /\ Len(b) \in 1 .. 2 /\ Len(a \o b) \in 2 .. 4
  <2>1. \A m, p \in 1 .. 2 : m + p \in 2 .. 4
    OBVIOUS
  <2> QED
    BY <1>1, <1>2, <1>3, <2>1
<1>5. ASSUME NEW k \in 1 .. Len(a \o b), (a \o b)[k] = OldFix!Head1("wlan")
      PROVE  k = IF i = "wlan" THEN 1 ELSE Len(a) + 1
  <2>1. (i = "wlan" /\ j = "other") \/ (i = "other" /\ j = "wlan")
    BY DEF OldFix!Ifaces
  <2>2. k \in 1 .. 4
    BY <1>5, <1>4
  <2>3. CASE k <= Len(a)
    <3>1. k = 1 \/ (k = 2 /\ Len(a) = 2)
      <4>1. \A m \in 1 .. 2 : k <= m => k = 1 \/ (k = 2 /\ m = 2)
        BY <2>2
      <4> QED
        BY <1>4, <2>3, <4>1
    <3> QED
      BY <1>1, <1>3, <1>5, <2>1, <2>3, <3>1, LineIsOne
  <2>4. CASE k > Len(a)
    <3>1. k - Len(a) = 1 \/ (k - Len(a) = 2 /\ Len(b) = 2)
      BY <1>1, <1>2, <1>3, <1>5, <2>4
    <3>2. (a \o b)[k] = b[k - Len(a)]
      BY <1>1, <1>2, <1>3, <1>5, <2>4
    <3> QED
      BY <1>1, <1>2, <1>5, <2>1, <2>4, <3>1, <3>2, LineIsOne
  <2> QED
    BY <1>1, <2>2, <2>3, <2>4
<1> QED
  BY <1>1, <1>2, <1>3, <1>5 DEF LinesAreRight

\* So it does for any number of interfaces.
LEMMA OutputIsRight == ASSUME NEW out \in OldFix!Outputs PROVE LinesAreRight(out)
<1>1. CASE out = <<>>
  BY <1>1, EmptySeq DEF LinesAreRight
<1>2. ASSUME NEW i \in OldFix!Ifaces, out \in OldFix!Block(i) PROVE LinesAreRight(out)
  <2>1. /\ out \in Seq(Printed) /\ Len(out) \in 1 .. 2 /\ out[1] = OldFix!Head1(i)
        /\ Len(out) = 2 => out[2] \in Addresses
    BY <1>2, BlockIsRight
  <2>2. ASSUME NEW k \in 1 .. Len(out), out[k] = OldFix!Head1("wlan") PROVE k = 1
    <3>1. k = 1 \/ (k = 2 /\ Len(out) = 2)
      BY <2>1, <2>2
    <3> QED
      BY <2>1, <2>2, <3>1, LineIsOne DEF OldFix!Ifaces
  <2> QED
    BY <2>1, <2>2 DEF LinesAreRight
<1>3. "wlan" \in OldFix!Ifaces /\ "other" \in OldFix!Ifaces
  BY DEF OldFix!Ifaces
<1>4. ASSUME NEW i \in OldFix!Ifaces, NEW j \in OldFix!Ifaces, i # j,
             NEW a \in OldFix!Block(i), NEW b \in OldFix!Block(j), out = a \o b
      PROVE  LinesAreRight(out)
  BY <1>4, TwoBlocksAreRight
<1>5. \/ out = <<>>
      \/ \E i \in OldFix!Ifaces : out \in OldFix!Block(i)
      \/ \E a \in OldFix!Block("wlan"), b \in OldFix!Block("other") : out = a \o b
      \/ \E a \in OldFix!Block("wlan"), b \in OldFix!Block("other") : out = b \o a
  BY DEF OldFix!Outputs
<1> QED
  BY <1>1, <1>2, <1>3, <1>4, <1>5

\* Nothing has been printed.
LEMMA InitOldFix == OldFix!Start => OldFixInv
<1>1. <<>> \in OldFix!Outputs
  BY DEF OldFix!Outputs
<1> QED
  BY <1>1 DEF OldFix!Start, OldFixInv, OldFix!TypeOK, OldFix!Nothing, AddressIsRight

\* The least of a few places.
LEMMA LeastIsIn ==
    ASSUME NEW I \in SUBSET (1 .. 4), I # {}
    PROVE  /\ OldFix!Min(I) \in I
           /\ \A k \in I : (\A j \in I : k <= j) => OldFix!Min(I) = k
<1>1. \E k \in I : \A j \in I : k <= j
  <2>1. CASE 1 \in I
    BY <2>1
  <2>2. CASE 1 \notin I /\ 2 \in I
    BY <2>2
  <2>3. CASE 1 \notin I /\ 2 \notin I /\ 3 \in I
    BY <2>3
  <2>4. CASE 1 \notin I /\ 2 \notin I /\ 3 \notin I
    <3>1. ASSUME NEW i \in I PROVE i = 4
      BY <2>4
    <3>2. \A i, j \in I : i <= j
      BY <3>1
    <3> QED
      BY <3>2
  <2> QED
    BY <2>1, <2>2, <2>3, <2>4
<1>2. OldFix!Min(I) \in I /\ \A j \in I : OldFix!Min(I) <= j
  BY <1>1 DEF OldFix!Min
<1>3. ASSUME NEW k \in I, \A j \in I : k <= j PROVE OldFix!Min(I) = k
  <2>1. OldFix!Min(I) \in 1 .. 4 /\ k \in 1 .. 4 /\ k <= OldFix!Min(I) /\ OldFix!Min(I) <= k
    BY <1>2, <1>3
  <2>2. \A x, y \in 1 .. 4 : x <= y /\ y <= x => x = y
    OBVIOUS
  <2> QED
    BY <2>1, <2>2
<1> QED
  BY <1>2, <1>3

\* What getIP takes for the address is one, and that of the interface whose own address
\* is printed below its name.
LEMMA AddressIsFound ==
    ASSUME OldFixInv
    PROVE  /\ OldFix!AddressAt # 0 => list[OldFix!AddressAt] \in Addresses
           /\ interface = "wlan" /\ OldFix!HasAddress("wlan") =>
                /\ list # <<>> /\ OldFix!NameAt # 0 /\ OldFix!AddressAt # 0
                /\ list[OldFix!AddressAt] = OldFix!Address("wlan", "own")
<1> DEFINE I == {k \in 1 .. Len(list) : OldFix!Names(list[k])}
           J == {k \in OldFix!NameAt + 1 .. Len(list) : list[k].kind = "inet addr"}
<1>1. LinesAreRight(list)
  BY OutputIsRight DEF OldFixInv, OldFix!TypeOK
<1>2. /\ OldFix!NameAt = IF I # {} THEN OldFix!Min(I) ELSE 0
      /\ OldFix!AddressAt = IF J # {} THEN OldFix!Min(J) ELSE 0
  BY DEF OldFix!NameAt, OldFix!AddressAt, OldFix!SelectInSeq, OldFix!SelectInSubSeq
<1>3. /\ \A v : OldFix!Address("wlan", v).kind = "inet addr"
      /\ \A i : OldFix!Head1(i).kind = "head" /\ OldFix!Head1(i).of = i
  BY DEF OldFix!Address, OldFix!Head1
<1>4. ASSUME NEW line \in Printed
      PROVE  /\ line.kind = "head" => line = OldFix!Head1(line.of)
             /\ line.kind = "inet addr" => line \in Addresses
  <2>1. CASE line \in Addresses
    BY <2>1, AddressParts
  <2>2. ASSUME NEW i \in OldFix!Ifaces, line = OldFix!Head1(i)
        PROVE  line.kind = "head" /\ line = OldFix!Head1(line.of)
    BY <1>3, <2>2
  <2> QED
    BY <2>1, <2>2 DEF Printed
<1>5. /\ Len(list) \in 0 .. 4 /\ \A k \in 1 .. Len(list) : list[k] \in Printed
      /\ \A j, k \in 1 .. Len(list) :
           list[j] = OldFix!Head1("wlan") /\ list[k] = OldFix!Head1("wlan") => j = k
  BY <1>1, LenProperties DEF LinesAreRight
<1>6. PICK len \in 0 .. 4 : len = Len(list)
  BY <1>5
<1>7. I \in SUBSET (1 .. 4)
  BY <1>6
<1>8. OldFix!NameAt \in 0 .. 4 /\ (I # {} => OldFix!NameAt \in I)
  <2> HIDE DEF I, J
  <2>1. I # {} => OldFix!Min(I) \in I
    BY <1>7, LeastIsIn
  <2>2. I # {} => OldFix!NameAt \in I
    BY <1>2, <2>1, Zenon
  <2>3. I = {} => OldFix!NameAt = 0
    BY <1>2, Zenon
  <2>4. 0 \in 0 .. 4 /\ \A i \in I : i \in 0 .. 4
    BY <1>7
  <2> QED
    BY <2>2, <2>3, <2>4
<1>9. J \in SUBSET (1 .. 4)
  <2>1. PICK name \in 0 .. 4 : name = OldFix!NameAt
    BY <1>8
  <2>2. \A k \in name + 1 .. len : k \in 1 .. 4
    OBVIOUS
  <2> QED
    BY <1>6, <2>1, <2>2
<1>10. OldFix!AddressAt # 0 => OldFix!AddressAt \in J
  <2> HIDE DEF I, J
  <2> QED
    BY <1>2, <1>9, LeastIsIn
<1>11. OldFix!AddressAt # 0 => list[OldFix!AddressAt] \in Addresses
  <2>1. \A k \in J : k \in 1 .. Len(list) /\ list[k].kind = "inet addr"
    <3>1. PICK name \in 0 .. 4 : name = OldFix!NameAt
      BY <1>8
    <3>2. \A k \in name + 1 .. len : k \in 1 .. len
      OBVIOUS
    <3> QED
      BY <1>6, <3>1, <3>2
  <2> HIDE DEF J
  <2> QED
    BY <1>4, <1>5, <1>10, <2>1
<1>12. ASSUME interface = "wlan", OldFix!HasAddress("wlan")
       PROVE  /\ list # <<>> /\ OldFix!NameAt # 0 /\ OldFix!AddressAt # 0
              /\ list[OldFix!AddressAt] = OldFix!Address("wlan", "own")
  <2>1. PICK k \in 1 .. Len(list) - 1 :
          list[k] = OldFix!Head1("wlan") /\ list[k + 1] = OldFix!Address("wlan", "own")
    BY <1>12 DEF OldFix!HasAddress
  <2>2. k \in 1 .. len /\ k + 1 \in 1 .. len /\ k \in Nat
    BY <1>6, <2>1
  <2>3. ASSUME NEW j \in I PROVE j = k
    <3>1. list[j].of = "wlan" /\ list[j].kind = "head" /\ j \in 1 .. Len(list)
      BY <1>12 DEF OldFix!Names
    <3>2. list[j] = OldFix!Head1("wlan")
      BY <1>4, <1>5, <3>1
    <3> QED
      BY <1>5, <1>6, <2>1, <2>2, <3>1, <3>2
  <2>4. k \in I
    BY <1>3, <1>6, <1>12, <2>1, <2>2 DEF OldFix!Names
  <2>5. OldFix!NameAt = k
    BY <1>8, <2>3, <2>4
  <2>6. k + 1 \in J /\ \A j \in J : k + 1 <= j
    <3>1. J = {j \in k + 1 .. len : list[j].kind = "inet addr"}
      BY <1>6, <2>5
    <3>2. list[k + 1].kind = "inet addr"
      BY <1>3, <2>1
    <3>3. k + 1 \in k + 1 .. len /\ \A j \in k + 1 .. len : k + 1 <= j
      BY <2>2
    <3> HIDE DEF J
    <3> QED
      BY <3>1, <3>2, <3>3
  <2>7. OldFix!AddressAt = k + 1
    <3> HIDE DEF J
    <3> QED
      BY <1>2, <1>9, <2>6, LeastIsIn
  <2>8. list # <<>>
    BY <1>6, <2>2, EmptySeq
  <2> QED
    BY <2>1, <2>2, <2>5, <2>7, <2>8
<1> QED
  BY <1>11, <1>12

\* One step per action.
LEMMA StepOldFix == ASSUME OldFixInv, [OldFix!OldFixNext]_oldFixer PROVE OldFixInv'
<1> USE DEF OldFixInv, OldFix!TypeOK, AddressIsRight, OldFix!HasAddress
<1>1. CASE OldFix!parseConfig
  BY <1>1 DEF OldFix!parseConfig
<1>2. CASE OldFix!popenIfconfig
  BY <1>2 DEF OldFix!popenIfconfig
<1>3. CASE OldFix!getIP
  <2>1. fix' \in {"asked", "crashed"} /\ UNCHANGED <<list, interface>>
    BY <1>3 DEF OldFix!getIP
  <2>2. hostip' \in {OldFix!Nothing} \cup (OldFix!Ifaces \X {"0.0.0.0", "200"})
    <3>1. ASSUME OldFix!AddressAt # 0
          PROVE  OldFix!Fixed(list[OldFix!AddressAt]) \in OldFix!Ifaces \X {"0.0.0.0", "200"}
      <4>1. list[OldFix!AddressAt] \in Addresses
        BY <3>1, AddressIsFound
      <4>2. list[OldFix!AddressAt].of \in OldFix!Ifaces
        BY <4>1, AddressParts
      <4> QED
        BY <4>2 DEF OldFix!Fixed
    <3> QED
      BY <1>3, <3>1 DEF OldFix!getIP
  <2>3. AddressIsRight'
    <3> SUFFICES ASSUME fix' = "asked", interface = "wlan", OldFix!HasAddress("wlan")
                 PROVE  hostip' = <<"wlan", "200">>
      BY <2>1
    <3>1. /\ list # <<>> /\ OldFix!NameAt # 0 /\ OldFix!AddressAt # 0
          /\ list[OldFix!AddressAt] = OldFix!Address("wlan", "own")
      BY AddressIsFound
    <3>2. hostip' = OldFix!Fixed(OldFix!Address("wlan", "own"))
      BY <1>3, <3>1 DEF OldFix!getIP
    <3> QED
      BY <3>2 DEF OldFix!Fixed, OldFix!Address
  <2> QED
    BY <2>1, <2>2, <2>3
<1>4. CASE OldFix!setIP
  BY <1>4 DEF OldFix!setIP
<1>5. CASE UNCHANGED oldFixer
  BY <1>5 DEF oldFixer
<1> QED
  BY <1>1, <1>2, <1>3, <1>4, <1>5 DEF OldFix!OldFixNext

\* The room that is left wraps around to nearly everything.
LEMMA CommandFits == OldFixInv => OldFix!CommandIsRight
<1>1. \A x \in Int : x < 0 /\ x >= -65536 => x % OldFix!Sizes = x + 65536
  BY DEF OldFix!Sizes
<1>2. /\ OldFix!PointerSize \in Int /\ OldFix!Prefix \in Int
      /\ OldFix!PointerSize - OldFix!Prefix = -2
  BY DEF OldFix!PointerSize, OldFix!Prefix
<1>3. \A x \in Int : x = -2 => x % OldFix!Sizes = 65534
  BY <1>1
<1>4. OldFix!Room = 65534
  BY <1>2, <1>3 DEF OldFix!Room
<1> QED
  BY <1>4
  DEF OldFixInv, AddressIsRight, OldFix!CommandIsRight, OldFix!NameLength,
      OldFix!AddressLength, OldFix!Prefix, OldFix!Buffer

-----------------------------------------------------------------------------
(* setip *)

\* setip has said nothing yet ...
LEMMA InitSetIp == Set!Start => Set!TypeOK
BY DEF Set!Start, Set!TypeOK

\* ... and keeps to its types.
LEMMA StepSetIp == ASSUME Set!TypeOK, [Set!SetIpNext]_setter PROVE Set!TypeOK'
BY DEF Set!TypeOK, Set!SetIpNext, Set!Arguments, Set!set_ipaddr, Set!Says, Set!Errors, setter

-----------------------------------------------------------------------------
(* The web client *)

\* Which threads there are: a test creates its own one after the other, and is over
\* when they are.
TestStands(t) ==
    /\ test[t] \in {"none", "failed"} => \A i \in 1 .. PerTest : thr[<<t, i>>] = "none"
    /\ test[t] = "creates" =>
         \E m \in 0 .. PerTest - 1 : \A i \in 1 .. PerTest : thr[<<t, i>>] # "none" <=> i <= m
    /\ test[t] = "over" => \A i \in 1 .. PerTest : thr[<<t, i>>] \in {"done", "failed"}
    /\ run \in {"start", "alone"} => test[t] = "none"
ThreadsStand ==
    /\ \A t \in Tests : TestStands(t)
    /\ thr[Web!Alone] \in {"none", "connect", "write", "read", "done"}
    /\ run \in {"start", "create", "join"} => thr[Web!Alone] = "none"

\* Who is between lock and unlock has the lock, and its number is that of the counter;
\* the numbers that have been given away are those below it, each once.
CountedOnes == {c \in Web!Threads : Web!Counted(c)}
CountsAreRight ==
    /\ \A c \in Web!Clients : thr[c] \in {"count", "unlock"} <=> counter_lock = c
    /\ \A c \in Web!Clients : thr[c] = "unlock" => number[c] = cnt
    /\ cnt = Cardinality(CountedOnes)
    /\ \A c \in CountedOnes : number[c] \in 0 .. cnt - 1
    /\ \A c, d \in CountedOnes : number[c] = number[d] => c = d
    /\ \A k \in 0 .. cnt - 1 : \E c \in CountedOnes : number[c] = k

WebInv == Web!TypeOK /\ ThreadsStand /\ CountsAreRight

\* The threads are pairs, and finitely many; the one of main is none of them.
LEMMA WebThreads ==
    /\ Web!Alone \notin Web!Threads /\ Web!Alone \in Web!Clients
    /\ Web!Clients = Web!Threads \cup {Web!Alone}
    /\ \A t \in Tests, i \in 1 .. PerTest : <<t, i>> \in Web!Threads
    /\ Web!Free \notin Web!Clients
    /\ IsFiniteSet(Web!Threads) /\ Cardinality(Web!Threads) \in Nat
    /\ \A S : Web!Cardinality(S) = Cardinality(S)
<1>1. /\ Web!Alone \notin Web!Threads /\ Web!Alone \in Web!Clients
      /\ Web!Clients = Web!Threads \cup {Web!Alone}
      /\ \A t \in Tests, i \in 1 .. PerTest : <<t, i>> \in Web!Threads
  BY DEF Web!Alone, Web!Threads, Web!Clients
<1>2. Web!Free \notin Web!Clients
  BY DEF Web!Alone, Web!Threads, Web!Clients, Web!Free
<1>3. IsFiniteSet(Web!Threads)
  <2>1. IsFiniteSet(1 .. PerTest)
    BY FS_Interval
  <2> QED
    BY <2>1, FS_Product DEF Web!Threads
<1>4. Cardinality(Web!Threads) \in Nat
  BY <1>3, FS_CardinalityType
<1>5. \A S : Web!Cardinality(S) = Cardinality(S)
  BY DEF Web!Cardinality, Web!IsFiniteSet, Cardinality, IsFiniteSet
<1> QED
  BY <1>1, <1>2, <1>3, <1>4, <1>5

\* Nothing has been counted.
LEMMA InitWeb == Web!Start => WebInv
<1> SUFFICES ASSUME Web!Start PROVE WebInv
  OBVIOUS
<1> USE WebThreads DEF Web!Start
<1>1. Web!TypeOK
  BY DEF Web!TypeOK
<1>2. ThreadsStand
  BY DEF ThreadsStand, TestStands
<1>3. CountedOnes = {}
  BY DEF CountedOnes, Web!Counted
<1>4. CountsAreRight
  BY <1>3, FS_EmptySet DEF CountsAreRight
<1> QED
  BY <1>1, <1>2, <1>4 DEF WebInv

\* A test stands as it stood when neither it nor its threads have moved.
LEMMA TestFramed ==
    ASSUME NEW q \in Tests, TestStands(q), test'[q] = test[q],
           \A i \in 1 .. PerTest : thr'[<<q, i>>] = thr[<<q, i>>],
           run' = run \/ run' \notin {"start", "alone"}
    PROVE  TestStands(q)'
<1>1. test[q] = "creates" =>
        \E m \in 0 .. PerTest - 1 : \A i \in 1 .. PerTest : thr'[<<q, i>>] # "none" <=> i <= m
  BY DEF TestStands
<1>2. test[q] = "over" => \A i \in 1 .. PerTest : thr'[<<q, i>>] \in {"done", "failed"}
  BY DEF TestStands
<1>3. test[q] \in {"none", "failed"} => \A i \in 1 .. PerTest : thr'[<<q, i>>] = "none"
  BY DEF TestStands
<1>4. run' \in {"start", "alone"} => test[q] = "none"
  BY DEF TestStands
<1> QED
  BY <1>1, <1>2, <1>3, <1>4 DEF TestStands

\* So do all tests, and main, when no thread has moved.
LEMMA StandFramed ==
    ASSUME ThreadsStand, UNCHANGED <<test, thr>>,
           run' = run \/ run' \notin {"start", "alone", "create", "join"}
    PROVE  ThreadsStand'
<1>1. ASSUME NEW t \in Tests PROVE TestStands(t)'
  BY TestFramed DEF ThreadsStand
<1> QED
  BY <1>1 DEF ThreadsStand

\* The places of a thread that is under way.
Going == {"lock", "count", "unlock", "connect", "write", "read"}

\* A thread that moves on leaves its test as it stood.
LEMMA ThreadMoves ==
    ASSUME WebInv, NEW c \in Web!Clients, thr[c] \in Going,
           NEW next \in {"count", "unlock", "connect", "write", "read", "done"},
           thr' = [thr EXCEPT ![c] = next], Web!Alive, UNCHANGED <<run, test>>,
           c = Web!Alone => next \in {"connect", "write", "read", "done"}
    PROVE  /\ ThreadsStand'
           /\ thr' \in [Web!Clients -> Going \cup {"none", "failed", "done"}]
<1> USE WebThreads DEF WebInv, Web!TypeOK, ThreadsStand, TestStands, Going
<1>1. \A d \in Web!Clients : /\ thr'[d] # "none" <=> thr[d] # "none"
                            /\ thr[d] \in {"done", "failed"} => thr'[d] = thr[d]
  OBVIOUS
<1>2. ASSUME NEW t \in Tests PROVE TestStands(t)'
  <2>1. test'[t] = test[t] /\ run' = run
    OBVIOUS
  <2>2. \A i \in 1 .. PerTest :
          /\ thr'[<<t, i>>] # "none" <=> thr[<<t, i>>] # "none"
          /\ thr[<<t, i>>] \in {"done", "failed"} => thr'[<<t, i>>] = thr[<<t, i>>]
    BY <1>1
  <2>3. TestStands(t)
    OBVIOUS
  <2> HIDE DEF WebInv, ThreadsStand
  <2> QED
    BY <2>1, <2>2, <2>3
<1>3. /\ thr'[Web!Alone] \in {"none", "connect", "write", "read", "done"}
      /\ run' \in {"start", "create", "join"} => thr'[Web!Alone] = "none"
  BY <1>1
<1>4. thr' \in [Web!Clients -> Going \cup {"none", "failed", "done"}]
  OBVIOUS
<1> QED
  BY <1>2, <1>3, <1>4

\* What counts stays right where nobody is between lock and unlock, comes there or
\* leaves.
LEMMA CountsFramed ==
    ASSUME WebInv, UNCHANGED <<counter_lock, cnt, number>>,
           \A c \in Web!Clients :
             /\ thr'[c] \in {"count", "unlock"} <=> thr[c] \in {"count", "unlock"}
             /\ thr'[c] = "unlock" <=> thr[c] = "unlock"
             /\ Web!Counted(c)' <=> Web!Counted(c)
    PROVE  CountsAreRight'
<1>1. CountedOnes' = CountedOnes
  BY WebThreads DEF CountedOnes, Web!Threads
<1> QED
  BY <1>1 DEF WebInv, CountsAreRight

\* What a step keeps that moves no thread and no test.
LEMMA WebFramed ==
    ASSUME WebInv, UNCHANGED <<test, thr, counter_lock, cnt, number>>,
           \/ run' = run \/ run' = "exited"
           \/ run' = "over" /\ \A c \in Web!Clients : thr[c] \in {"none", "failed", "done"},
           conn' = conn \/ conn' \in [Web!Clients -> {"none", "open", "served", "broken"}],
           ThreadsStand', CountsAreRight'
    PROVE  WebInv'
<1>1. Web!TypeOK'
  BY DEF WebInv, Web!TypeOK
<1> QED
  BY <1>1 DEF WebInv

\* Threads, and what they have to do with the counter: one step per action.
LEMMA StepWeb == ASSUME WebInv, [Web!WebNext]_web PROVE WebInv'
<1> USE WebThreads DEF WebInv, Web!TypeOK
<1>1. CASE Web!ConnectAlone
  <2>1. /\ run = "start" /\ run' = "alone" /\ thr' = [thr EXCEPT ![Web!Alone] = "connect"]
        /\ thr[Web!Alone] = "none"
        /\ UNCHANGED <<test, counter_lock, cnt, number, conn>>
    BY <1>1 DEF Web!ConnectAlone, ThreadsStand
  <2>2. CountsAreRight'
    BY <2>1, CountsFramed DEF Web!Counted
  <2>3. \A c \in Web!Threads : thr'[c] = thr[c]
    BY <2>1
  <2>4. ThreadsStand'
    BY <2>1, <2>3 DEF ThreadsStand, TestStands
  <2> QED
    BY <2>1, <2>2, <2>4
<1>2. CASE Web!more
  <2>1. run = "start" /\ run' = "create" /\ UNCHANGED <<test, thr, counter_lock, cnt, number, conn>>
    BY <1>2 DEF Web!more
  <2>2. CountsAreRight'
    BY <2>1, CountsFramed DEF Web!Counted
  <2>3. ThreadsStand'
    BY <2>1 DEF ThreadsStand, TestStands
  <2> QED
    BY <2>1, <2>2, <2>3
<1>3. CASE Web!CreateTest
  <2>1. PICK t \in Tests, created \in {"creates", "failed"} :
          /\ run = "create" /\ test[t] = "none" /\ test' = [test EXCEPT ![t] = created]
          /\ run' \in {"create", "join"}
          /\ UNCHANGED <<thr, counter_lock, cnt, number, conn>>
    BY <1>3 DEF Web!CreateTest
  <2>2. CountsAreRight'
    BY <2>1, CountsFramed DEF Web!Counted
  <2>3. \A i \in 1 .. PerTest : thr[<<t, i>>] = "none"
    BY <2>1 DEF ThreadsStand, TestStands
  <2>4. \E m \in 0 .. PerTest - 1 : \A i \in 1 .. PerTest : thr[<<t, i>>] # "none" <=> i <= m
    <3>1. 0 \in 0 .. PerTest - 1 /\ \A i \in 1 .. PerTest : ~(i <= 0)
      OBVIOUS
    <3> QED
      BY <2>3, <3>1
  <2>5. ThreadsStand'
    <3>1. ASSUME NEW q \in Tests, q # t PROVE test'[q] = test[q]
      BY <2>1, <3>1
    <3>2. test'[t] = created
      BY <2>1
    <3>3. TestStands(t)'
      BY <2>1, <2>3, <2>4, <3>2 DEF TestStands
    <3>4. ASSUME NEW q \in Tests, q # t PROVE TestStands(q)'
      <4>1. test'[q] = test[q] /\ \A i \in 1 .. PerTest : thr'[<<q, i>>] = thr[<<q, i>>]
        BY <2>1, <3>1, <3>4
      <4>2. TestStands(q) /\ (run' = run \/ run' \notin {"start", "alone"})
        BY <2>1 DEF ThreadsStand
      <4> HIDE DEF WebInv
      <4> QED
        BY <4>1, <4>2, TestFramed
    <3> QED
      BY <2>1, <3>3, <3>4 DEF ThreadsStand
  <2> QED
    BY <2>1, <2>2, <2>5
<1>4. ASSUME NEW t \in Tests, Web!CreateClient(t) PROVE WebInv'
  <2>1. PICK m \in 0 .. PerTest - 1 : \A i \in 1 .. PerTest : thr[<<t, i>>] # "none" <=> i <= m
    BY <1>4 DEF Web!CreateClient, ThreadsStand, TestStands
  <2>2. Cardinality({i \in 1 .. PerTest : thr[<<t, i>>] # "none"}) = m
    <3>1. {i \in 1 .. PerTest : thr[<<t, i>>] # "none"} = 1 .. m
      BY <2>1
    <3>2. Cardinality(1 .. m) = m
      BY FS_Interval
    <3> QED
      BY <3>1, <3>2
  <2>3. PICK created \in {"lock", "failed"} :
          /\ Web!Alive /\ test[t] = "creates"
          /\ thr' = [thr EXCEPT ![<<t, m + 1>>] = created]
          /\ test' = [test EXCEPT ![t] = IF m + 1 = PerTest THEN "joins" ELSE "creates"]
          /\ UNCHANGED <<run, counter_lock, cnt, number, conn>>
    BY <1>4, <2>2 DEF Web!CreateClient
  <2>4. <<t, m + 1>> \in Web!Threads /\ thr[<<t, m + 1>>] = "none"
    BY <2>1
  <2>5. \A c \in Web!Clients \ {<<t, m + 1>>} : thr'[c] = thr[c]
    BY <2>3
  <2>6. thr'[<<t, m + 1>>] = created
    BY <2>3, <2>4
  <2>7. CountsAreRight'
    BY <2>3, <2>4, <2>5, <2>6, CountsFramed DEF Web!Counted
  <2>8. TestStands(t)'
    <3>1. CASE m + 1 = PerTest
      <4>1. test'[t] = "joins" /\ run' \notin {"start", "alone"}
        BY <2>3, <3>1 DEF ThreadsStand, TestStands
      <4> QED
        BY <4>1 DEF TestStands
    <3>2. CASE m + 1 # PerTest
      <4>1. m + 1 \in 0 .. PerTest - 1
        BY <3>2
      <4>2. \A i \in 1 .. PerTest : thr'[<<t, i>>] # "none" <=> i <= m + 1
        BY <2>1, <2>3, <2>5, <2>6
      <4>3. test'[t] = "creates" /\ run' \notin {"start", "alone"}
        BY <2>3, <3>2 DEF ThreadsStand, TestStands
      <4> QED
        BY <4>1, <4>2, <4>3 DEF TestStands
    <3> QED
      BY <3>1, <3>2
  <2>9. ASSUME NEW q \in Tests, q # t PROVE TestStands(q)'
    <3>1. test'[q] = test[q] /\ \A i \in 1 .. PerTest : thr'[<<q, i>>] = thr[<<q, i>>]
      BY <2>3, <2>5, <2>9
    <3>2. TestStands(q) /\ run' = run
      BY <2>3 DEF ThreadsStand
    <3> HIDE DEF WebInv
    <3> QED
      BY <3>1, <3>2, TestFramed
  <2>10. ThreadsStand'
    BY <2>3, <2>4, <2>5, <2>8, <2>9 DEF ThreadsStand
  <2> QED
    BY <2>3, <2>7, <2>10 DEF Web!Alive
<1>5. ASSUME NEW t \in Tests, Web!JoinClients(t) PROVE WebInv'
  <2>1. /\ Web!Alive /\ test[t] = "joins" /\ test' = [test EXCEPT ![t] = "over"]
        /\ \A i \in 1 .. PerTest : thr[<<t, i>>] \in {"done", "failed"}
        /\ UNCHANGED <<run, thr, counter_lock, cnt, number, conn>>
    BY <1>5 DEF Web!JoinClients
  <2>2. CountsAreRight'
    BY <2>1, CountsFramed DEF Web!Counted
  <2>3. ThreadsStand'
    <3>1. ASSUME NEW q \in Tests, q # t PROVE test'[q] = test[q]
      BY <2>1, <3>1
    <3>2. test'[t] = "over"
      BY <2>1
    <3>3. TestStands(t)'
      BY <2>1, <3>2 DEF ThreadsStand, TestStands, Web!Alive
    <3>4. ASSUME NEW q \in Tests, q # t PROVE TestStands(q)'
      <4>1. test'[q] = test[q] /\ \A i \in 1 .. PerTest : thr'[<<q, i>>] = thr[<<q, i>>]
        BY <2>1, <3>1, <3>4
      <4>2. TestStands(q) /\ (run' = run \/ run' \notin {"start", "alone"})
        BY <2>1 DEF ThreadsStand
      <4> HIDE DEF WebInv
      <4> QED
        BY <4>1, <4>2, TestFramed
    <3> QED
      BY <2>1, <3>3, <3>4 DEF ThreadsStand
  <2> QED
    BY <2>1, <2>2, <2>3 DEF Web!Alive
<1>6. CASE Web!JoinTests
  <2>1. run' = "over" /\ UNCHANGED <<test, thr, counter_lock, cnt, number, conn>>
    BY <1>6 DEF Web!JoinTests
  <2>2. CountsAreRight'
    BY <2>1, CountsFramed DEF Web!Counted
  <2>3. ThreadsStand'
    BY <2>1, StandFramed
  <2>4. ASSUME NEW c \in Web!Clients PROVE thr[c] \in {"none", "failed", "done"}
    <3>1. CASE c = Web!Alone
      BY <1>6, <3>1 DEF Web!JoinTests, ThreadsStand, TestStands
    <3>2. ASSUME NEW t \in Tests, NEW i \in 1 .. PerTest, c = <<t, i>>
          PROVE  thr[c] \in {"none", "failed", "done"}
      BY <1>6, <3>2 DEF Web!JoinTests, ThreadsStand, TestStands
    <3> QED
      BY <3>1, <3>2 DEF Web!Threads
  <2> HIDE DEF WebInv
  <2> QED
    BY <2>1, <2>2, <2>3, <2>4, WebFramed
<1>7. CASE Web!JoinGarbage
  <2>1. run' = "exited" /\ UNCHANGED <<test, thr, counter_lock, cnt, number, conn>>
    BY <1>7 DEF Web!JoinGarbage
  <2>2. CountsAreRight'
    BY <2>1, CountsFramed DEF Web!Counted
  <2>3. ThreadsStand'
    BY <2>1, StandFramed
  <2> HIDE DEF WebInv
  <2> QED
    BY <2>1, <2>2, <2>3, WebFramed
<1>8. ASSUME NEW c \in Web!Clients, Web!LockCounter(c) PROVE WebInv'
  <2>1. /\ Web!Alive /\ thr[c] = "lock" /\ thr' = [thr EXCEPT ![c] = "count"]
        /\ counter_lock = Web!Free /\ counter_lock' = c
        /\ UNCHANGED <<run, test, cnt, number, conn>>
    BY <1>8 DEF Web!LockCounter, Web!LockIsFree, Web!ThreadAt
  <2>2. c # Web!Alone
    BY <2>1 DEF ThreadsStand
  <2>3. ThreadsStand' /\ thr' \in [Web!Clients -> Going \cup {"none", "failed", "done"}]
    BY <2>1, <2>2, ThreadMoves DEF Going
  <2>4. CountedOnes' = CountedOnes
    BY <2>1 DEF CountedOnes, Web!Counted
  <2>5. CountsAreRight'
    BY <2>1, <2>4 DEF CountsAreRight
  <2> QED
    BY <2>1, <2>3, <2>5 DEF Web!Alive, Going
<1>9. ASSUME NEW c \in Web!Clients, Web!TakeCount(c) PROVE WebInv'
  <2>1. /\ Web!Alive /\ thr[c] = "count" /\ thr' = [thr EXCEPT ![c] = "unlock"]
        /\ number' = [number EXCEPT ![c] = cnt]
        /\ UNCHANGED <<run, test, counter_lock, cnt, conn>>
    BY <1>9 DEF Web!TakeCount, Web!ThreadAt
  <2>2. c # Web!Alone
    BY <2>1 DEF ThreadsStand
  <2>3. ThreadsStand' /\ thr' \in [Web!Clients -> Going \cup {"none", "failed", "done"}]
    BY <2>1, <2>2, ThreadMoves DEF Going
  <2>4. CountedOnes' = CountedOnes /\ c \notin CountedOnes
    BY <2>1 DEF CountedOnes, Web!Counted
  <2>5. \A d \in CountedOnes : number'[d] = number[d]
    BY <2>1, <2>4 DEF CountedOnes
  <2>6. CountsAreRight'
    BY <2>1, <2>4, <2>5 DEF CountsAreRight
  <2>7. number' \in [Web!Clients -> 0 .. Cardinality(Web!Threads)]
    BY <2>1
  <2> QED
    BY <2>1, <2>3, <2>6, <2>7 DEF Web!Alive, Going
<1>10. ASSUME NEW c \in Web!Clients, Web!UnlockCounter(c) PROVE WebInv'
  <2>1. /\ Web!Alive /\ thr[c] = "unlock" /\ thr' = [thr EXCEPT ![c] = "connect"]
        /\ cnt' = number[c] + 1 /\ counter_lock' = Web!Free
        /\ UNCHANGED <<run, test, number, conn>>
    BY <1>10 DEF Web!UnlockCounter, Web!ThreadAt
  <2>2. c # Web!Alone /\ c \in Web!Threads
    BY <2>1 DEF ThreadsStand
  <2>3. ThreadsStand' /\ thr' \in [Web!Clients -> Going \cup {"none", "failed", "done"}]
    BY <2>1, <2>2, ThreadMoves DEF Going
  <2>4. CountedOnes' = CountedOnes \cup {c} /\ c \notin CountedOnes
    BY <2>1, <2>2 DEF CountedOnes, Web!Counted
  <2>5. cnt' = cnt + 1 /\ number[c] = cnt /\ counter_lock = c
    BY <2>1 DEF CountsAreRight
  <2>6. /\ IsFiniteSet(CountedOnes) /\ Cardinality(CountedOnes') = cnt + 1
        /\ cnt + 1 <= Cardinality(Web!Threads) /\ cnt \in Nat
    <3>1. CountedOnes \subseteq Web!Threads /\ CountedOnes' \subseteq Web!Threads
      BY DEF CountedOnes, Web!Threads
    <3>2. IsFiniteSet(CountedOnes) /\ Cardinality(CountedOnes') <= Cardinality(Web!Threads)
      BY <3>1, FS_Subset
    <3>3. Cardinality(CountedOnes') = Cardinality(CountedOnes) + 1
      BY <2>4, <3>2, FS_AddElement
    <3>4. cnt = Cardinality(CountedOnes) /\ cnt \in Nat
      BY DEF CountsAreRight
    <3> QED
      BY <3>2, <3>3, <3>4
  <2>7. CountsAreRight'
    <3>1. \A d \in Web!Clients : thr'[d] \in {"count", "unlock"} <=> counter_lock' = d
      BY <2>1, <2>5 DEF CountsAreRight
    <3>2. \A d \in Web!Clients : thr'[d] = "unlock" => number'[d] = cnt'
      BY <3>1, <2>1
    <3>3. /\ \A d \in CountedOnes' : number'[d] \in 0 .. cnt' - 1
          /\ \A d, e \in CountedOnes' : number'[d] = number'[e] => d = e
      BY <2>1, <2>4, <2>5, <2>6 DEF CountsAreRight
    <3>4. \A k \in 0 .. cnt' - 1 : \E d \in CountedOnes' : number'[d] = k
      BY <2>1, <2>4, <2>5, <2>6 DEF CountsAreRight
    <3> QED
      BY <2>5, <2>6, <3>1, <3>2, <3>3, <3>4 DEF CountsAreRight
  <2>8. cnt' \in 0 .. Cardinality(Web!Threads) /\ counter_lock' \in Web!Clients \cup {Web!Free}
    BY <2>1, <2>5, <2>6
  <2> QED
    BY <2>1, <2>3, <2>7, <2>8 DEF Web!Alive, Going
<1>11. ASSUME NEW c \in Web!Clients,
              \/ Web!Connect(c) \/ Web!ConnectFails(c) \/ Web!WriteRequest(c) \/ Web!ReadAnswer(c)
       PROVE  WebInv'
  <2>1. PICK next \in {"write", "read", "done"} :
          /\ Web!Alive /\ thr[c] \in {"connect", "write", "read"}
          /\ thr' = [thr EXCEPT ![c] = next]
          /\ UNCHANGED <<run, test, counter_lock, cnt, number>>
          /\ conn' \in [Web!Clients -> {"none", "open", "served", "broken"}]
    BY <1>11
    DEF Web!Connect, Web!ConnectFails, Web!WriteRequest, Web!ReadAnswer, Web!ThreadAt
  <2>2. CountsAreRight'
    BY <2>1, CountsFramed DEF Web!Counted
  <2>3. ThreadsStand' /\ thr' \in [Web!Clients -> Going \cup {"none", "failed", "done"}]
    BY <2>1, ThreadMoves DEF Going
  <2> QED
    BY <2>1, <2>2, <2>3 DEF Web!Alive, Going
<1>12. ASSUME NEW c \in Web!Clients, Web!WriteOrReadFails(c) PROVE WebInv'
  <2>1. run' = "exited" /\ UNCHANGED <<test, thr, counter_lock, cnt, number, conn>>
    BY <1>12 DEF Web!WriteOrReadFails
  <2>2. CountsAreRight'
    BY <2>1, CountsFramed DEF Web!Counted
  <2>3. ThreadsStand'
    BY <2>1, StandFramed
  <2> HIDE DEF WebInv
  <2> QED
    BY <2>1, <2>2, <2>3, WebFramed
<1>13. ASSUME NEW c \in Web!Clients, Web!Serve(c) PROVE WebInv'
  <2>1. /\ conn' \in [Web!Clients -> {"none", "open", "served", "broken"}]
        /\ UNCHANGED <<run, test, thr, counter_lock, cnt, number>>
    BY <1>13 DEF Web!Serve
  <2>2. CountsAreRight'
    BY <2>1, CountsFramed DEF Web!Counted
  <2>3. ThreadsStand'
    BY <2>1, StandFramed
  <2> HIDE DEF WebInv
  <2> QED
    BY <2>1, <2>2, <2>3, WebFramed
<1>14. CASE UNCHANGED web
  <2>1. UNCHANGED <<run, test, thr, counter_lock, cnt, number, conn>>
    BY <1>14 DEF web
  <2>2. CountsAreRight'
    BY <2>1, CountsFramed DEF Web!Counted
  <2>3. ThreadsStand'
    BY <2>1, StandFramed
  <2> HIDE DEF WebInv
  <2> QED
    BY <2>1, <2>2, <2>3, WebFramed
<1> QED
  BY <1>1, <1>2, <1>3, <1>4, <1>5, <1>6, <1>7, <1>8, <1>9, <1>10, <1>11, <1>12, <1>13, <1>14
  DEF Web!WebNext, Web!Client

\* Those who have a number have those below the counter, each another.
LEMMA CountsTell == WebInv => Web!CountsAreDistinct
<1> SUFFICES ASSUME WebInv PROVE Web!CountsAreDistinct
  OBVIOUS
<1>1. \A c, d \in Web!Threads :
        c # d /\ Web!Counted(c) /\ Web!Counted(d) => number[c] # number[d]
  BY DEF WebInv, CountsAreRight, CountedOnes
<1>2. {number[c] : c \in CountedOnes} = 0 .. cnt - 1
  BY DEF WebInv, CountsAreRight
<1> QED
  BY <1>1, <1>2 DEF Web!CountsAreDistinct, CountedOnes

-----------------------------------------------------------------------------
(* Together *)

IInv == tool \in Tools /\ SshInv /\ FixInv /\ ShmInv /\ OldFixInv /\ PosixInv
        /\ Set!TypeOK /\ WebInv

\* What each program keeps is kept: the others stand still.
LEMMA IInvInvariant == ToolSpec => []IInv
<1>1. ToolInit => IInv
  BY InitSsh, InitFix, InitShm, InitOldFix, InitPosix, InitSetIp, InitWeb DEF ToolInit, IInv
<1>2. IInv /\ [ToolNext]_toolVars => IInv'
  <2> SUFFICES ASSUME IInv, [ToolNext]_toolVars PROVE IInv'
    OBVIOUS
  <2>1. /\ [Next]_vars /\ [Fix!FixNext]_fixer /\ [Shm!ShmNext]_memory
        /\ [OldFix!OldFixNext]_oldFixer /\ [Posix!PosixNext]_posix
        /\ [Set!SetIpNext]_setter /\ [Web!WebNext]_web /\ tool' = tool
    BY OldStepIsStep
    DEF ToolNext, InSsh, InFix, InShm, InOldFix, InPosix, InSetIp, InWeb, Only, toolVars
  <2> QED
    BY <2>1, StepSsh, StepFix, StepShm, StepOldFix, StepPosix, StepSetIp, StepWeb DEF IInv
<1> QED
  BY <1>1, <1>2, PTL DEF ToolSpec

\* When the supervisor has returned, a failure of ssh has not been left unread in its pipe.
THEOREM ToolLastWordsRead == ToolSpec => []LastWordsRead
<1>1. IInv => LastWordsRead
  BY DEF IInv, SshInv, TypeOK, TurnIsRight, NotForked, EndedRight, LastWordsRead
<1> QED
  BY <1>1, IInvInvariant, PTL

\* A System V segment stays as long as its writer and the word in a POSIX object for good;
\* the supervisor's pipe is there while the watcher reads; and all variables have their types.
THEOREM ToolMemoryStays == ToolSpec => []MemoryStays
<1>1. IInv => MemoryStays
  BY DEF IInv, SshInv, FixInv, ShmInv, OldFixInv, PosixInv, WebInv, MemoryStays, ToolTypeOK
<1> QED
  BY <1>1, IInvInvariant, PTL

\* One command at a time changes the address, and the older fixer prints the right one.
THEOREM ToolFixersAreRight == ToolSpec => []FixersAreRight
<1>1. IInv => FixersAreRight
  BY OneTurnOneCommand, CommandFits DEF IInv, FixersAreRight
<1> QED
  BY <1>1, IInvInvariant, PTL

\* The requests of the web client's threads have the numbers below the counter, each
\* its own.
THEOREM ToolCountsAreDistinct == ToolSpec => []CountsAreDistinct
<1>1. IInv => CountsAreDistinct
  BY CountsTell DEF IInv, CountsAreDistinct
<1> QED
  BY <1>1, IInvInvariant, PTL
=============================================================================
