------------------------------ MODULE PosixShm ------------------------------
(***************************************************************************)
(* The programs on POSIX shared memory: shmm/shmwrite.c and 20180623.c,    *)
(* the same text twice, write a word to the object "shm_ram"; shmread.go   *)
(* has readshmm of mmshare/shmread.c copy from the object "mqtt_shm_test". *)
(* Objects are created when they are not there and never unlinked: they    *)
(* outlive the programs, which may be started again and killed at any      *)
(* moment. (shmm/shmread.c reads the log of MqttSubscriber.)               *)
(***************************************************************************)
EXTENDS FiniteSets

VARIABLES ram, test_shm,  \* the objects: "none", "empty" without a size, then what they
                          \* hold: "zeros", "part" or "text"
          prog,           \* of each program: "idle", "opened", "sized", "mapped", "copied"
          ended,          \* whether a writer has come to its end
          s               \* what shmread.go has got: "nothing" (NULL), "zeros" or "text"

pvars == <<ram, test_shm, prog, ended, s>>

ShmWriters == {"shmwrite", "20180623"}
Progs == ShmWriters \cup {"shmread"}

Start ==
    /\ ram = "none" /\ test_shm = "none"
    /\ prog = [p \in Progs |-> "idle"]
    /\ ended = FALSE /\ s = "nothing"

ProgAt(p, here, next) == prog[p] = here /\ prog' = [prog EXCEPT ![p] = next]

-----------------------------------------------------------------------------
(* shmwrite.c and 20180623.c *)

\* Mutant: O_TRUNC among the flags.
CreatedAnew(object) == "empty"

Created(object) == IF object = "none" THEN "empty" ELSE object

OpenRam(p) ==
    /\ p \in ShmWriters /\ ProgAt(p, "idle", "opened")
    /\ ram' = Created(ram)
    /\ UNCHANGED <<test_shm, ended, s>>

\* ftruncate to the size it has changes nothing.
Sized(object) == IF object = "empty" THEN "zeros" ELSE object

SizeRam(p) ==
    /\ p \in ShmWriters /\ ProgAt(p, "opened", "sized")
    /\ ram' = Sized(ram)
    /\ UNCHANGED <<test_shm, ended, s>>

\* mmap and the copy, which begins ...
WriteRam(p) ==
    /\ p \in ShmWriters /\ ProgAt(p, "sized", "mapped")
    /\ ram' = IF ram = "text" THEN "text" ELSE "part"
    /\ UNCHANGED <<test_shm, ended, s>>

\* ... and ends.
WrittenRam(p) ==
    /\ p \in ShmWriters /\ ProgAt(p, "mapped", "copied")
    /\ ram' = "text"
    /\ UNCHANGED <<test_shm, ended, s>>

\* munmap; the object stays, since the unlink is a comment.
WriterEnds(p) ==
    /\ p \in ShmWriters /\ ProgAt(p, "copied", "idle")
    /\ ended' = TRUE
    /\ UNCHANGED <<ram, test_shm, s>>

-----------------------------------------------------------------------------
(* shmread.go and readshmm *)

OpenTest ==
    /\ ProgAt("shmread", "idle", "opened")
    /\ test_shm' = Created(test_shm) /\ s' = "nothing"
    /\ UNCHANGED <<ram, ended>>

SizeTest ==
    /\ ProgAt("shmread", "opened", "sized")
    /\ test_shm' = Sized(test_shm)
    /\ UNCHANGED <<ram, ended, s>>

\* mmap, copy, munmap: the reader sees what is there.
ReadTest ==
    /\ ProgAt("shmread", "sized", "idle")
    /\ s' = test_shm
    /\ UNCHANGED <<ram, test_shm, ended>>

Read == OpenTest \/ SizeTest \/ ReadTest

-----------------------------------------------------------------------------
\* A call fails, MAP_FAILED is taken for an address, or a signal comes.
Fails(p) ==
    /\ prog[p] # "idle"
    /\ prog' = [prog EXCEPT ![p] = "idle"]
    /\ UNCHANGED <<ram, test_shm, ended, s>>

PosixNext ==
    \/ Read
    \/ \E p \in Progs : \/ OpenRam(p) \/ SizeRam(p) \/ WriteRam(p) \/ WrittenRam(p)
                        \/ WriterEnds(p) \/ Fails(p)

-----------------------------------------------------------------------------
TypeOK ==
    /\ {ram, test_shm} \subseteq {"none", "empty", "zeros", "part", "text"}
    /\ prog \in [Progs -> {"idle", "opened", "sized", "mapped", "copied"}]
    /\ ended \in BOOLEAN /\ s \in {"nothing", "zeros", "text"}

\* Nobody maps an object without a size; the word is whole from the first writer's
\* end on, whichever others begin, fail or are killed after that.
TextStays ==
    /\ \A p \in ShmWriters : prog[p] \in {"sized", "mapped", "copied"} => ram \notin {"none", "empty"}
    /\ ended => ram = "text"
=============================================================================
