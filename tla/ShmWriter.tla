------------------------------ MODULE ShmWriter ------------------------------
(***************************************************************************)
(* mmshare/shmwrite.go on mmshare/wrapper.c: a program that creates a      *)
(* System V segment under a key made of a file name, writes a text to it,  *)
(* sleeps 100 s and removes the segment. It may be started any number of   *)
(* times and killed at any moment. log.Fatal ends it without the deferred  *)
(* close, so that the segment stays, and later starts fail on it.          *)
(***************************************************************************)
EXTENDS FiniteSets

CONSTANTS Writers

VARIABLES segment,   \* under the key: "none", or who has created it
          text,      \* in it: "zeros", "part" or "whole"
          wpc,       \* of each writer
          shm_id     \* the segment it has opened

svars == <<segment, text, wpc, shm_id>>

Start ==
    /\ segment = "none" /\ text = "zeros"
    /\ wpc = [w \in Writers |-> "idle"]
    /\ shm_id = [w \in Writers |-> "none"]

\* Mutant: IPC_CREAT without IPC_EXCL.
OpensAny(w) == TRUE

Exclusive(w) == segment = "none"

\* my_shm_open with its flag set.
Open(w) ==
    /\ wpc[w] = "idle" /\ Exclusive(w)
    /\ segment' = IF segment = "none" THEN w ELSE segment
    /\ text' = IF segment = "none" THEN "zeros" ELSE text
    /\ shm_id' = [shm_id EXCEPT ![w] = segment']
    /\ wpc' = [wpc EXCEPT ![w] = "update"]

\* my_shm_update: shmat fails and log.Fatal ends the program ...
UpdateFails(w) ==
    /\ wpc[w] = "update"
    /\ wpc' = [wpc EXCEPT ![w] = "idle"]
    /\ UNCHANGED <<segment, text, shm_id>>

\* ... or strcpy begins ...
Update(w) ==
    /\ wpc[w] = "update"
    /\ text' = "part"
    /\ wpc' = [wpc EXCEPT ![w] = "copy"]
    /\ UNCHANGED <<segment, shm_id>>

\* ... and ends, and the program sleeps.
Updated(w) ==
    /\ wpc[w] = "copy"
    /\ text' = "whole"
    /\ wpc' = [wpc EXCEPT ![w] = "sleep"]
    /\ UNCHANGED <<segment, shm_id>>

\* The deferred close: my_shm_close removes the segment it has the number of.
Close(w) ==
    /\ wpc[w] = "sleep"
    /\ segment' = IF segment = shm_id[w] THEN "none" ELSE segment
    /\ wpc' = [wpc EXCEPT ![w] = "idle"]
    /\ UNCHANGED <<text, shm_id>>

\* A signal (external).
Killed(w) ==
    /\ wpc[w] # "idle"
    /\ wpc' = [wpc EXCEPT ![w] = "idle"]
    /\ UNCHANGED <<segment, text, shm_id>>

\* The administrator removes what a writer has left, with ipcrm (external).
Removed ==
    /\ segment # "none" /\ \A w \in Writers : wpc[w] = "idle"
    /\ segment' = "none"
    /\ UNCHANGED <<text, wpc, shm_id>>

ShmNext ==
    \/ Removed
    \/ \E w \in Writers : \/ Open(w) \/ UpdateFails(w) \/ Update(w) \/ Updated(w)
                          \/ Close(w) \/ Killed(w)

TypeOK ==
    /\ segment \in Writers \cup {"none"} /\ text \in {"zeros", "part", "whole"}
    /\ wpc \in [Writers -> {"idle", "update", "copy", "sleep"}]
    /\ shm_id \in [Writers -> Writers \cup {"none"}]

\* A segment that is written stays its writer's and under its key until that
\* writer ends, with the whole text from the end of the copy on: no other start
\* of the program writes to it or takes it away.
SegmentStays ==
    \A w \in Writers : wpc[w] # "idle" => /\ segment = w /\ shm_id[w] = w
                                          /\ wpc[w] = "sleep" => text = "whole"
=============================================================================
