------------------------------- MODULE Timrot -------------------------------
(***************************************************************************)
(* The driver dht11_driver/timrot_train.c, which feeds a PWM channel and   *)
(* reads the sensor on another pin. It has no lock and no time stamp: each *)
(* read measures, with mdelay, that is without giving the processor away.  *)
(*                                                                         *)
(* One processor and a kernel that does not preempt kernel code, as in     *)
(* Dht11. Failing loads leave mappings and pins behind, and one leaves the *)
(* device registered: what happens when that is used is undefined, and the *)
(* model goes on with the next start of the board.                         *)
(***************************************************************************)
EXTENDS Integers, FiniteSets

CONSTANTS Readers

VARIABLES tmod,      \* "absent", "coming", "live", "unmapped" or "dangling"
          maps,      \* the register blocks mapped, of Blocks
          lost,      \* those a failed load has mapped and nobody can unmap
          pins,      \* the pins requested, of Pins
          clock,     \* whether the clock of the PWM runs
          uses,      \* the module's use count
          at,        \* of each reader
          cpu,       \* "free", or the reader that waits without sleeping
          bits       \* data_duty

tvars == <<tmod, maps, lost, pins, clock, uses, at, cpu, bits>>

Blocks == {"clkctrl", "timrot", "pwm", "gpio"}
Pins == {"pwm3", "pwm4"}

Start ==
    /\ tmod = "absent" /\ maps = {} /\ lost = {} /\ pins = {} /\ clock = FALSE
    /\ uses = 0 /\ at = [r \in Readers |-> "closed"] /\ cpu = "free"
    /\ bits = "zeros"

-----------------------------------------------------------------------------
(* timrotModule_init and timrotModule_exit *)

\* The second request is made only when the first has failed.
Requested == {{"pwm3"}, {"pwm4"}}

\* Up to misc_register nobody else sees anything. The blocks mapped before the
\* call that failed stay mapped, except that the timer's is unmapped when the
\* PWM's cannot be had, and the pins' when the device cannot be registered.
LoadFails ==
    /\ tmod = "absent"
    /\ \/ lost' \in {lost, lost \cup {"clkctrl"}} /\ pins' = pins
       \/ lost' = lost \cup {"clkctrl", "timrot", "pwm"} /\ pins' \in Requested \cup {{}}
    /\ UNCHANGED <<tmod, maps, clock, uses, at, cpu, bits>>

\* Registered, so that others may open it as soon as clk_get sleeps.
Register ==
    /\ tmod = "absent"
    /\ tmod' = "coming" /\ maps' = Blocks /\ pins' \in Requested
    /\ bits' = "zeros"
    /\ UNCHANGED <<lost, clock, uses, at, cpu>>

ClockOn ==
    /\ tmod = "coming"
    /\ tmod' = "live" /\ clock' = TRUE
    /\ UNCHANGED <<maps, lost, pins, uses, at, cpu, bits>>

\* The load fails, its code goes, and the device remains in the list.
NoClock ==
    /\ tmod = "coming"
    /\ tmod' = "dangling"
    /\ UNCHANGED <<maps, lost, pins, clock, uses, at, cpu, bits>>

\* The next start of the board.
Reboot ==
    /\ tmod = "dangling"
    /\ tmod' = "absent" /\ maps' = {} /\ lost' = {} /\ pins' = {} /\ clock' = FALSE
    /\ uses' = 0 /\ at' = [r \in Readers |-> "closed"] /\ cpu' = "free"
    /\ bits' = "zeros"

Unmap ==
    /\ tmod = "live" /\ uses = 0
    /\ tmod' = "unmapped" /\ maps' = {} /\ pins' = {} /\ clock' = FALSE
    /\ UNCHANGED <<lost, uses, at, cpu, bits>>

Deregister ==
    /\ tmod = "unmapped"
    /\ tmod' = "absent"
    /\ UNCHANGED <<maps, lost, pins, clock, uses, at, cpu, bits>>

Module == LoadFails \/ Register \/ ClockOn \/ NoClock \/ Unmap \/ Deregister

-----------------------------------------------------------------------------
(* The readers, of which some may be in before the load has ended *)

Entered == tmod \in {"coming", "live"}

\* One use by the kernel, one by timrot_misc_open, which writes to the timer.
Open(r) ==
    /\ Entered /\ at[r] = "closed"
    /\ at' = [at EXCEPT ![r] = "open"]
    /\ uses' = uses + 2
    /\ UNCHANGED <<tmod, maps, lost, pins, clock, cpu, bits>>

Release(r) ==
    /\ Entered /\ at[r] = "open"
    /\ at' = [at EXCEPT ![r] = "closed"]
    /\ uses' = uses - 2
    /\ UNCHANGED <<tmod, maps, lost, pins, clock, cpu, bits>>

\* Mutant: the wait sleeps, as the one of dht11.c does.
Slept(r) == cpu' = "free"

Busy(r) == cpu' = r

\* The line is pulled low for 20 ms, whenever the last measurement was.
StartPulse(r) ==
    /\ Entered /\ at[r] = "open"
    /\ Busy(r)
    /\ at' = [at EXCEPT ![r] = "pulse"]
    /\ UNCHANGED <<tmod, maps, lost, pins, clock, uses, bits>>

\* Interrupts may come between the bits, and some may be missing.
Sample(r) ==
    /\ Entered /\ at[r] = "pulse"
    /\ bits' \in {"reading", "broken"}
    /\ at' = [at EXCEPT ![r] = "copying"] /\ cpu' = "free"
    /\ UNCHANGED <<tmod, maps, lost, pins, clock, uses>>

\* The buffer keeps what an earlier measurement has brought.
NoAnswer(r) ==
    /\ Entered /\ at[r] = "pulse"
    /\ at' = [at EXCEPT ![r] = "open"] /\ cpu' = "free"
    /\ UNCHANGED <<tmod, maps, lost, pins, clock, uses, bits>>

\* copy_to_user may sleep: what it copies may be of a later measurement.
Copy(r) ==
    /\ Entered /\ at[r] = "copying"
    /\ at' = [at EXCEPT ![r] = "open"]
    /\ UNCHANGED <<tmod, maps, lost, pins, clock, uses, cpu, bits>>

-----------------------------------------------------------------------------
\* While one waits without sleeping, nobody else runs.
TimrotNext ==
    \/ cpu = "free" /\ (Module \/ Reboot)
    \/ \E r \in Readers :
          /\ cpu \in {"free", r}
          /\ Open(r) \/ Release(r) \/ StartPulse(r) \/ Sample(r) \/ NoAnswer(r) \/ Copy(r)

-----------------------------------------------------------------------------
\* Types; a reader inside finds all registers mapped although the exit unmaps
\* them before it deregisters the device; a load that ends well has the clock.
TypeOK ==
    /\ tmod \in {"absent", "coming", "live", "unmapped", "dangling"}
    /\ maps \subseteq Blocks /\ lost \subseteq Blocks \ {"gpio"} /\ pins \subseteq Pins
    /\ (clock <=> tmod = "live")
    /\ uses = 2 * Cardinality({r \in Readers : at[r] # "closed"})
    /\ at \in [Readers -> {"closed", "open", "pulse", "copying"}]
    /\ cpu \in Readers \cup {"free"}
    /\ bits \in {"zeros", "reading", "broken"}
    /\ \A r \in Readers : at[r] # "closed" => maps = Blocks

\* Nobody begins a measurement, nor unloads the driver, in the middle of another
\* one: the twenty milliseconds are waited for without sleeping.
WholePulse ==
    /\ Cardinality({r \in Readers : at[r] = "pulse"}) <= 1
    /\ \A r \in Readers : at[r] = "pulse" => Entered
=============================================================================
