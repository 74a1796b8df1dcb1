---------------------------- MODULE ToolPrograms ----------------------------
(***************************************************************************)
(* The programs of a board that are started by themselves, one at a time:  *)
(* the ssh supervisor and the address fixer, each as it is and as it was,  *)
(* what reads and writes shared memory, setip and the web client.          *)
(***************************************************************************)
EXTENDS AutoSsh, FiniteSets

CONSTANTS Writers, Tests, PerTest

ASSUME ToolAssumption ==
    /\ MaxOutput \in Nat
    /\ "none" \notin Writers                       \* of ShmWriter: no segment
    /\ IsFiniteSet(Tests) /\ "main" \notin Tests   \* Alone of WebClient
    /\ PerTest \in Nat \ {0}

VARIABLES tool,
          stage, iface, up, at, step, waiting,
          segment, text, wpc, shm_id,
          fix, list, interface, hostip,
          ram, test_shm, prog, ended, s,
          setip, error, given,
          run, test, thr, counter_lock, cnt, number, conn

Old == INSTANCE OldAutoSsh
Fix == INSTANCE FixAddress
Shm == INSTANCE ShmWriter
OldFix == INSTANCE OldFixAddress
Posix == INSTANCE PosixShm
Set == INSTANCE SetIp
Web == INSTANCE WebClient

fixer == <<stage, iface, up, at, step, waiting>>
memory == <<segment, text, wpc, shm_id>>
oldFixer == <<fix, list, interface, hostip>>
posix == <<ram, test_shm, prog, ended, s>>
setter == <<setip, error, given>>
web == <<run, test, thr, counter_lock, cnt, number, conn>>
toolVars == <<tool, vars, fixer, memory, oldFixer, posix, setter, web>>

Tools == {"autossh", "old autossh", "fixaddress", "old fixaddress", "shmwrite",
          "posix", "setip", "webClient"}

ToolInit ==
    /\ tool \in Tools
    /\ Init /\ Fix!Start /\ Shm!Start /\ OldFix!Start /\ Posix!Start /\ Set!Start /\ Web!Start

\* The programs have no state in common, but for the two supervisors, which
\* are not run together.
Only(t) == tool = t /\ UNCHANGED tool
InSsh(t) == Only(t) /\ UNCHANGED <<fixer, memory, oldFixer, posix, setter, web>>
InFix == Only("fixaddress") /\ UNCHANGED <<vars, memory, oldFixer, posix, setter, web>>
InShm == Only("shmwrite") /\ UNCHANGED <<vars, fixer, oldFixer, posix, setter, web>>
InOldFix == Only("old fixaddress") /\ UNCHANGED <<vars, fixer, memory, posix, setter, web>>
InPosix == Only("posix") /\ UNCHANGED <<vars, fixer, memory, oldFixer, setter, web>>
InSetIp == Only("setip") /\ UNCHANGED <<vars, fixer, memory, oldFixer, posix, web>>
InWeb == Only("webClient") /\ UNCHANGED <<vars, fixer, memory, oldFixer, posix, setter>>

ToolNext ==
    \/ InSsh("autossh") /\ Next
    \/ InSsh("old autossh") /\ Old!OldNext
    \/ InFix /\ Fix!FixNext
    \/ InShm /\ Shm!ShmNext
    \/ InOldFix /\ OldFix!OldFixNext
    \/ InPosix /\ Posix!PosixNext
    \/ InSetIp /\ Set!SetIpNext
    \/ InWeb /\ Web!WebNext

\* Both threads of a supervisor are scheduled; ssh may run for ever.
ToolSpec ==
    /\ ToolInit /\ [][ToolNext]_toolVars
    /\ WF_toolVars(InSsh("autossh") /\ Main) /\ WF_toolVars(InSsh("autossh") /\ Watcher)
    /\ WF_toolVars(InSsh("old autossh") /\ Old!OldMain)
    /\ WF_toolVars(InSsh("old autossh") /\ Old!OldWatcher)

-----------------------------------------------------------------------------
ToolTypeOK ==
    /\ tool \in Tools /\ TypeOK /\ Fix!TypeOK /\ Shm!TypeOK /\ OldFix!TypeOK
    /\ Posix!TypeOK /\ Set!TypeOK /\ Web!TypeOK

\* With the types of all, the pipe of a supervisor among them, which is there as
\* long as the watcher reads: a segment stays as long as its writer, as ShmWriter
\* says, and the word in a POSIX object for good, as PosixShm says.
MemoryStays == ToolTypeOK /\ Shm!SegmentStays /\ Posix!TextStays

\* The address fixer runs its commands one after another, as FixAddress says;
\* the older one prints the right command, as OldFixAddress says.
FixersAreRight == Fix!OneCommandAtATime /\ OldFix!CommandIsRight

\* The web client's threads count their requests, as WebClient says.
CountsAreDistinct == Web!CountsAreDistinct
=============================================================================
