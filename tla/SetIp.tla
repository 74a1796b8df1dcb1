-------------------------------- MODULE SetIp --------------------------------
(***************************************************************************)
(* staticIP/setip.c: it sets the address of an interface with one ioctl    *)
(* and looks at two of the errors there are. After the others it says, in  *)
(* line 33, that the address is set, although it is not.                   *)
(***************************************************************************)
EXTENDS Integers

VARIABLES setip,  \* "start", "asked", "failed", "done" or "said"
          error,  \* errno: garbage on the stack, or what the ioctl has left
          given   \* whether the interface has the address

ivars == <<setip, error, given>>

ENODEV == 19
EADDRNOTAVAIL == 99
EPERM == 1
EBADF == 9        \* socket() has failed, unnoticed
Errors == {ENODEV, EADDRNOTAVAIL, EPERM, EBADF}

Start == setip = "start" /\ error = 0 /\ given = FALSE

\* Two arguments, or the usage.
Arguments ==
    /\ setip = "start"
    /\ setip' \in {"asked", "failed"}
    /\ UNCHANGED <<error, given>>

\* Two of the errors end the program. Without an error errno is what was on the
\* stack; and a text that is no address, which inet_pton refuses, sets zeros.
set_ipaddr ==
    /\ setip = "asked"
    /\ \/ /\ setip' = "done" /\ given' \in BOOLEAN
          /\ error' \in {0} \cup Errors
       \/ /\ error' \in Errors
          /\ setip' = IF error' \in {ENODEV, EADDRNOTAVAIL} THEN "failed" ELSE "done"
          /\ given' = FALSE

Says ==
    /\ setip = "done"
    /\ setip' = "said"
    /\ UNCHANGED <<error, given>>

SetIpNext == Arguments \/ set_ipaddr \/ Says

-----------------------------------------------------------------------------
TypeOK ==
    /\ setip \in {"start", "asked", "failed", "done", "said"}
    /\ error \in {0} \cup Errors /\ given \in BOOLEAN
=============================================================================
