-------------------------------- MODULE Dht11 --------------------------------
(***************************************************************************)
(* The driver of the DHT11 sensor, dht11_driver/dht11.c: five bytes in a   *)
(* buffer shared by all readers, a time stamp before which a read is       *)
(* answered from the buffer, and a measurement that sleeps in its middle.  *)
(*                                                                         *)
(* The board has one processor. A step is a stretch of code in which the   *)
(* driver does not sleep, for a kernel that does not preempt kernel code:  *)
(* up to the msleep of a measurement, from there to copy_to_user, which    *)
(* sleeps when the reader's page is not there, with interrupts disabled    *)
(* while the bits come in. DEBUG_DATA_GPIO is 0, so that the debug pin is  *)
(* no part of the program.                                                 *)
(***************************************************************************)
EXTENDS Integers, FiniteSets

CONSTANTS Readers,
          JIFFIES,   \* the counter of ticks runs modulo this, a power of two
          HOLD,      \* ticks for which a measurement answers reads (10 s)
          REST,      \* ticks the sensor is left alone after loading (12 s)
          PULSE      \* ticks that may pass in msleep(18)

Half == JIFFIES \div 2

ASSUME DhtAssumption ==
    /\ {JIFFIES, HOLD, REST, PULSE} \subseteq Nat
    /\ PULSE < HOLD /\ HOLD <= Half /\ REST <= Half

VARIABLES module,       \* "out", "live" or, on the way out, "unmapped"
          held,         \* of the sampling pin and the mapped registers
          refs,         \* the module's use count
          pc,           \* of each reader
          data_duty,    \* what the buffer holds
          got,          \* what the last read of each reader returned
          jiffies, pre_jiffies,
          left,         \* ticks until pre_jiffies really comes, to compare with
          asleep        \* ticks the current msleep has taken

vars == <<module, held, refs, pc, data_duty, got, jiffies, pre_jiffies, left, asleep>>

Init ==
    /\ module = "out" /\ held = {} /\ refs = 0
    /\ pc = [r \in Readers |-> "closed"]
    /\ data_duty = "zeros" /\ got = [r \in Readers |-> "nothing"]
    /\ jiffies \in 0 .. JIFFIES - 1 /\ pre_jiffies = 0
    /\ left = -Half /\ asleep = 0

-----------------------------------------------------------------------------
(* Time *)

Measuring == {r \in Readers : pc[r] = "pulse"}

\* Beyond Half ticks the model stops counting how long ago the stamp was.
Tick ==
    /\ Measuring # {} => asleep < PULSE
    /\ jiffies' = (jiffies + 1) % JIFFIES
    /\ left' = IF left = -Half THEN left ELSE left - 1
    /\ asleep' = IF Measuring = {} THEN 0 ELSE asleep + 1
    /\ UNCHANGED <<module, held, refs, pc, data_duty, got, pre_jiffies>>

\* The kernel's time_after: the sign of the difference (external).
time_after(a, b) == (b - a) % JIFFIES >= Half

Stamp(t) == pre_jiffies' = (jiffies + t) % JIFFIES /\ left' = t

-----------------------------------------------------------------------------
(* The module. try_module_get of the kernel, for .owner, comes on top of    *)
(* the one in timrot_misc_open; release gives one back and the kernel the   *)
(* other.                                                                   *)

\* Mutant: one use too many is given up.
RefsReleasedTwice == refs - 4

RefsReleased == refs - 2

\* Loading initialises the statics and cannot be interrupted once the device
\* is in the list. It frees the pin first, which takes back the one that an
\* earlier load has left behind.
Load ==
    /\ module = "out"
    /\ module' = "live" /\ held' = {"pin", "map"}
    /\ data_duty' = "zeros"
    /\ Stamp(REST)
    /\ UNCHANGED <<refs, pc, got, jiffies, asleep>>

\* The pin cannot be had or the device not be registered, and the load undoes
\* what it did; or ioremap fails, and it leaves the pin behind.
LoadFails ==
    /\ module = "out"
    /\ held' \in {{}, {"pin"}}
    /\ UNCHANGED <<module, refs, pc, data_duty, got, jiffies, pre_jiffies, left, asleep>>

Open(r) ==
    /\ module = "live" /\ pc[r] = "closed"
    /\ pc' = [pc EXCEPT ![r] = "open"]
    /\ refs' = refs + 2
    /\ UNCHANGED <<module, held, data_duty, got, jiffies, pre_jiffies, left, asleep>>

Release(r) ==
    /\ pc[r] = "open"
    /\ pc' = [pc EXCEPT ![r] = "closed"]
    /\ refs' = RefsReleased
    /\ UNCHANGED <<module, held, data_duty, got, jiffies, pre_jiffies, left, asleep>>

\* rmmod: the kernel refuses while the module is used and lets nobody in from
\* here on; the registers and the pin go first ...
Unmap ==
    /\ module = "live" /\ refs = 0
    /\ module' = "unmapped" /\ held' = {}
    /\ UNCHANGED <<refs, pc, data_duty, got, jiffies, pre_jiffies, left, asleep>>

\* ... and misc_deregister, which may sleep for its mutex, last.
Deregister ==
    /\ module = "unmapped"
    /\ module' = "out"
    /\ UNCHANGED <<held, refs, pc, data_duty, got, jiffies, pre_jiffies, left, asleep>>

-----------------------------------------------------------------------------
(* timrot_misc_read *)

\* Mutant: a comparison that does not know that the counter wraps.
PlainlyAhead == pre_jiffies > jiffies

StampIsAhead == time_after(pre_jiffies, jiffies)

\* Answered from the buffer, whatever it holds.
ReadCached(r) ==
    /\ pc[r] = "open"
    /\ StampIsAhead
    /\ pc' = [pc EXCEPT ![r] = "copying"]
    /\ UNCHANGED <<module, held, refs, data_duty, got, jiffies, pre_jiffies, left, asleep>>

\* The stamp is set and the buffer emptied before anything is known of the
\* sensor; the line is pulled low and the reader sleeps.
StartPulse(r) ==
    /\ pc[r] = "open"
    /\ ~StampIsAhead
    /\ Stamp(HOLD)
    /\ data_duty' = "zeros"
    /\ pc' = [pc EXCEPT ![r] = "pulse"]
    /\ asleep' = 0
    /\ UNCHANGED <<module, held, refs, got, jiffies>>

\* Forty bits, of which some may be missing when the line stays high in the
\* middle of a byte: the read does not fail, and nobody checks the sum.
Sample(r) ==
    /\ pc[r] = "pulse"
    /\ data_duty' \in {"reading", "broken"}
    /\ pc' = [pc EXCEPT ![r] = "copying"]
    /\ UNCHANGED <<module, held, refs, got, jiffies, pre_jiffies, left, asleep>>

\* The sensor does not answer the pulse: this reader gets an error, and the
\* buffer stays as StartPulse left it.
NoAnswer(r) ==
    /\ pc[r] = "pulse"
    /\ got' = [got EXCEPT ![r] = "error"]
    /\ pc' = [pc EXCEPT ![r] = "open"]
    /\ UNCHANGED <<module, held, refs, data_duty, jiffies, pre_jiffies, left, asleep>>

\* copy_to_user: the reader gets what the buffer holds by now, or an error when
\* its own memory is not its own.
Copy(r) ==
    /\ pc[r] = "copying"
    /\ \E g \in {data_duty, "error"} : got' = [got EXCEPT ![r] = g]
    /\ pc' = [pc EXCEPT ![r] = "open"]
    /\ UNCHANGED <<module, held, refs, data_duty, jiffies, pre_jiffies, left, asleep>>

-----------------------------------------------------------------------------
Next ==
    \/ Tick \/ Load \/ LoadFails \/ Unmap \/ Deregister
    \/ \E r \in Readers : \/ Open(r) \/ Release(r)
                          \/ ReadCached(r) \/ StartPulse(r) \/ Sample(r) \/ NoAnswer(r)
                          \/ Copy(r)

Spec == Init /\ [][Next]_vars

-----------------------------------------------------------------------------
\* Types; whoever has the device open finds the pin taken and the registers
\* mapped, through any order of loads, failed ones too, opens, releases and
\* unloads; and no mapping outlives the module.
TypeOK ==
    /\ module \in {"out", "live", "unmapped"}
    /\ refs \in 0 .. 2 * Cardinality(Readers)
    /\ pc \in [Readers -> {"closed", "open", "pulse", "copying"}]
    /\ data_duty \in {"zeros", "reading", "broken"}
    /\ got \in [Readers -> {"nothing", "error", "zeros", "reading", "broken"}]
    /\ {jiffies, pre_jiffies} \subseteq 0 .. JIFFIES - 1
    /\ left \in -Half .. Half
    /\ asleep \in 0 .. PULSE
    /\ held \subseteq {"pin", "map"} /\ ("map" \in held <=> module = "live")
    /\ \A r \in Readers : pc[r] # "closed" => held = {"pin", "map"}

\* Nobody cuts the pulse of another reader short: although the lock-free
\* driver sleeps in the middle of a measurement, a second one cannot begin,
\* because the stamp was set before the sleep and outlasts it.
OnePulse == Cardinality(Measuring) <= 1

\* The sensor is left alone for 12 s after loading and for 10 s after every
\* pulse, successful or not, also when the counter of ticks wraps.
SensorRests == [][\A r \in Readers : pc[r] # "pulse" /\ pc'[r] = "pulse" => left <= 0]_vars

\* A measurement that succeeded is what everybody reads for as long as it is
\* to be held: no other reader empties the buffer under them, not even while
\* one sleeps in the middle of its read.
ReadingIsHeld ==
    [][data_duty = "reading" /\ left > 0 /\ module = "live"
         => /\ data_duty' = "reading"
            /\ \A r \in Readers : got'[r] # got[r] => got'[r] \in {"reading", "error"}]_vars
=============================================================================
