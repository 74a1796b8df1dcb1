----------------------------- MODULE FixAddress -----------------------------
(***************************************************************************)
(* fixaddress/fixaddress.c: it waits for an interface to come up, takes    *)
(* its address, changes the last part to 200 and has three commands set    *)
(* it. A command is exec'd by a child the parent waits for. The child of   *)
(* an exec that fails goes on as a second copy of the program, with the    *)
(* commands that are left.                                                 *)
(***************************************************************************)
EXTENDS Integers, Sequences, FiniteSets

VARIABLES stage,    \* of the program until its commands: "start", "wait", "ask",
                    \* "commands", or how it ended: "crashed", "exited"
          iface,    \* what the file names: "named", or "empty", found on any line
          up,       \* the interfaces of the kernel that are up: 0, 1 or 2
          at,       \* of each process: "none", "copy", "command", "over"
          step,     \* the command it comes to, one beyond the last at the end
          waiting   \* whether it is in wait()

fvars == <<stage, iface, up, at, step, waiting>>

Last == 3   \* dhclient -r, ifconfig, dhclient

\* A process is named by the commands for which its ancestors and it were
\* forked; a copy begins with the command after the one that failed.
Procs == {<<>>} \cup {<<a>> : a \in 1 .. Last}
          \cup {<<a, b>> : a, b \in 1 .. Last} \cup {<<1, 2, 3>>}

Child(p) == Append(p, step[p])

Start ==
    /\ stage = "start" /\ iface = "empty" /\ up \in 0 .. 2
    /\ at = [p \in Procs |-> IF p = <<>> THEN "copy" ELSE "none"]
    /\ step = [p \in Procs |-> 1]
    /\ waiting = [p \in Procs |-> FALSE]

-----------------------------------------------------------------------------
(* Until the commands *)

\* The file may be missing, and is read all the same, or name no interface.
ReadConfig ==
    /\ stage = "start"
    /\ \/ stage' = "crashed" /\ iface' = iface
       \/ stage' = "wait" /\ iface' \in {"named", "empty"}
    /\ UNCHANGED <<up, at, step, waiting>>

\* The kernel brings up an interface, the second the one that is named.
ComesUp ==
    /\ stage = "wait" /\ up < 2
    /\ up' = up + 1
    /\ UNCHANGED <<stage, iface, at, step, waiting>>

\* The list has a line with the name, or the kernel has no list.
Found ==
    /\ stage = "wait"
    /\ \/ stage' = "ask" /\ up >= (IF iface = "named" THEN 2 ELSE 1)
       \/ stage' = "exited"
    /\ UNCHANGED <<iface, up, at, step, waiting>>

\* Without an address there is no last dot, and the change of what follows it
\* goes through a null pointer; without a mask the mask is empty.
GetIP ==
    /\ stage = "ask"
    /\ stage' \in {"commands", "crashed"}
    /\ UNCHANGED <<iface, up, at, step, waiting>>

-----------------------------------------------------------------------------
(* The commands *)

Runs(p) == stage = "commands" /\ at[p] = "copy" /\ ~waiting[p]

\* fork, and the exec of the child: it becomes the command, or a copy whose
\* own wait returns at once, since it has no children.
Fork(p) ==
    /\ Runs(p) /\ step[p] <= Last
    /\ \E image \in {"command", "copy"} :
          at' = [at EXCEPT ![Child(p)] = image]
    /\ step' = [step EXCEPT ![Child(p)] = step[p] + 1]
    /\ waiting' = [waiting EXCEPT ![p] = TRUE]
    /\ UNCHANGED <<stage, iface, up>>

\* Without a child wait returns at once.
ForkFails(p) ==
    /\ Runs(p) /\ step[p] <= Last
    /\ step' = [step EXCEPT ![p] = step[p] + 1]
    /\ UNCHANGED <<stage, iface, up, at, waiting>>

\* Mutant: the parent does not wait.
NotAwaited(p) == TRUE

Reaped(p) == at[Child(p)] = "over"

WaitReturns(p) ==
    /\ waiting[p] /\ Reaped(p)
    /\ waiting' = [waiting EXCEPT ![p] = FALSE]
    /\ step' = [step EXCEPT ![p] = step[p] + 1]
    /\ UNCHANGED <<stage, iface, up, at>>

\* A command ends (external).
CommandEnds(p) ==
    /\ at[p] = "command"
    /\ at' = [at EXCEPT ![p] = "over"]
    /\ UNCHANGED <<stage, iface, up, step, waiting>>

Returns(p) ==
    /\ Runs(p) /\ step[p] > Last
    /\ at' = [at EXCEPT ![p] = "over"]
    /\ UNCHANGED <<stage, iface, up, step, waiting>>

FixNext ==
    \/ ReadConfig \/ ComesUp \/ Found \/ GetIP
    \/ \E p \in Procs : \/ Fork(p) \/ ForkFails(p) \/ WaitReturns(p)
                        \/ CommandEnds(p) \/ Returns(p)

-----------------------------------------------------------------------------
\* Types; and nobody ends before the children it has forked.
TypeOK ==
    /\ stage \in {"start", "wait", "ask", "commands", "crashed", "exited"}
    /\ iface \in {"named", "empty"} /\ up \in 0 .. 2
    /\ at \in [Procs -> {"none", "copy", "command", "over"}]
    /\ step \in [Procs -> 1 .. Last + 1]
    /\ waiting \in [Procs -> BOOLEAN]
    /\ \A p \in Procs : waiting[p] => at[Child(p)] # "none"

\* The commands that change the address do not run beside one another, whatever
\* copies of the program there are and however many of them have commands left.
OneCommandAtATime ==
    /\ Cardinality({p \in Procs : at[p] = "command"}) <= 1
    /\ (\E p \in Procs : at[p] = "command") => \A p \in Procs : ~Runs(p)
=============================================================================
