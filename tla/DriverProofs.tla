---------------------------- MODULE DriverProofs ----------------------------
(***************************************************************************)
(* What DriverPrograms promises of the sensor, of the pulses sent to it    *)
(* and of the frames of the small board holds for any number of readers,   *)
(* any width of the counter of ticks and all times that stand to each      *)
(* other as the assumptions say.                                           *)
(***************************************************************************)
EXTENDS DriverPrograms, TLAPS, FiniteSetTheorems

USE DhtAssumption, DriverAssumption

-----------------------------------------------------------------------------
(* The counter of ticks *)

\* What % makes of a number at most one turn away.
LEMMA ModNear ==
    ASSUME NEW a \in Int
    PROVE  /\ 0 <= a /\ a < JIFFIES => a % JIFFIES = a
           /\ JIFFIES <= a /\ a < 2 * JIFFIES => a % JIFFIES = a - JIFFIES
           /\ -JIFFIES <= a /\ a < 0 => a % JIFFIES = a + JIFFIES
  OBVIOUS

\* The half of the counter.
LEMMA HalfOfIt ==
    Half \in Nat /\ 1 <= Half /\ 2 * Half <= JIFFIES /\ JIFFIES \in Nat \ {0}
  BY DEF Half

-----------------------------------------------------------------------------
(* The sensor's driver *)

\* The stamp is where the counter will be after the ticks that are left, as long as
\* the model counts them.
StampIsRight == left > -Half => pre_jiffies = (jiffies + left) % JIFFIES

\* Whoever sleeps in a measurement is alone, has emptied the buffer, and the stamp it
\* has set is further ahead than the sleep is long.
PulseIsRight ==
    /\ \A r, q \in Readers : pc[r] = "pulse" /\ pc[q] = "pulse" => r = q
    /\ \A r \in Readers : pc[r] = "pulse" => left = HOLD - asleep /\ data_duty = "zeros"

\* Two uses for each who has the device open, while the module is loaded.
UsesAreRight ==
    /\ refs = 2 * Cardinality({r \in Readers : pc[r] # "closed"})
    /\ \A r \in Readers : pc[r] # "closed" => module = "live"
    /\ module = "live" => held = {"pin", "map"}

DhtInv == TypeOK /\ StampIsRight /\ PulseIsRight /\ UsesAreRight

\* The comparison with the wrapping counter is right: the stamp is ahead as long as
\* there are ticks left, and no longer.
LEMMA AheadWhileLeft ==
    ASSUME DhtInv, left > -Half
    PROVE  StampIsAhead <=> left > 0
<1> USE HalfOfIt DEF DhtInv, TypeOK, StampIsRight
<1>1. jiffies \in 0 .. JIFFIES - 1 /\ left \in Int /\ left <= Half /\ pre_jiffies = (jiffies + left) % JIFFIES
  OBVIOUS
<1>2. CASE jiffies + left >= JIFFIES
  <2>1. pre_jiffies = jiffies + left - JIFFIES
    BY <1>1, <1>2, ModNear
  <2>2. (jiffies - pre_jiffies) % JIFFIES = JIFFIES - left
    BY <1>1, <1>2, <2>1, ModNear
  <2> QED
    BY <1>1, <1>2, <2>2 DEF StampIsAhead, time_after
<1>3. CASE jiffies + left < 0
  <2>1. pre_jiffies = jiffies + left + JIFFIES
    BY <1>1, <1>3, ModNear
  <2>2. (jiffies - pre_jiffies) % JIFFIES = -left
    BY <1>1, <1>3, <2>1, ModNear
  <2> QED
    BY <1>1, <1>3, <2>2 DEF StampIsAhead, time_after
<1>4. CASE 0 <= jiffies + left /\ jiffies + left < JIFFIES
  <2>1. pre_jiffies = jiffies + left
    BY <1>1, <1>4, ModNear
  <2>2. jiffies - pre_jiffies = -left
    BY <1>1, <2>1
  <2>3. (-left) % JIFFIES = IF left > 0 THEN JIFFIES - left ELSE -left
    BY <1>1, ModNear
  <2> QED
    BY <1>1, <2>2, <2>3 DEF StampIsAhead, time_after
<1> QED
  BY <1>1, <1>2, <1>3, <1>4

\* One tick: the stamp stays where it is and comes one tick nearer.
LEMMA StampComesNearer ==
    ASSUME DhtInv, Tick
    PROVE  StampIsRight' /\ left' \in -Half .. Half /\ jiffies' \in 0 .. JIFFIES - 1
<1> USE HalfOfIt DEF DhtInv, TypeOK, StampIsRight, Tick
<1>1. jiffies \in 0 .. JIFFIES - 1 /\ left \in -Half .. Half /\ pre_jiffies' = pre_jiffies
  OBVIOUS
<1>2. jiffies' = IF jiffies + 1 = JIFFIES THEN 0 ELSE jiffies + 1
  BY <1>1, ModNear
<1>3. left' \in -Half .. Half /\ (left' > -Half => left > -Half /\ left' = left - 1)
  BY <1>1
<1>4. ASSUME left' > -Half PROVE pre_jiffies' = (jiffies' + left') % JIFFIES
  <2>1. pre_jiffies' = (jiffies + left) % JIFFIES /\ left' = left - 1
    BY <1>1, <1>3, <1>4
  <2>2. CASE jiffies + 1 = JIFFIES
    <3>1. jiffies' + left' = jiffies + left - JIFFIES
      BY <1>1, <1>2, <2>1, <2>2
    <3>2. (jiffies + left) % JIFFIES = (jiffies + left - JIFFIES) % JIFFIES
      <4>1. jiffies + left \in Int /\ 0 <= jiffies + left /\ jiffies + left < 2 * JIFFIES
        BY <1>1, <2>2
      <4>2. \A a \in Int : 0 <= a /\ a < 2 * JIFFIES => a % JIFFIES = (a - JIFFIES) % JIFFIES
        BY ModNear
      <4> QED
        BY <4>1, <4>2
    <3> QED
      BY <2>1, <3>1, <3>2
  <2>3. CASE jiffies + 1 # JIFFIES
    BY <1>1, <1>2, <2>1, <2>3
  <2> QED
    BY <2>2, <2>3
<1> QED
  BY <1>1, <1>2, <1>3, <1>4

\* A stamp that has just been set is right.
LEMMA StampIsSet ==
    ASSUME DhtInv, NEW t \in 0 .. Half, Stamp(t), jiffies' = jiffies
    PROVE  /\ StampIsRight' /\ left' = t /\ pre_jiffies' \in 0 .. JIFFIES - 1
           /\ left' \in -Half .. Half
<1> USE HalfOfIt DEF DhtInv, TypeOK, Stamp, StampIsRight
<1>1. jiffies \in 0 .. JIFFIES - 1
  OBVIOUS
<1>2. (jiffies + t) % JIFFIES \in 0 .. JIFFIES - 1
  BY <1>1, ModNear
<1> QED
  BY <1>1, <1>2

\* Nothing of the readers has changed.
LEMMA ReadersFramed ==
    ASSUME DhtInv, UNCHANGED <<refs, pc, module, held>>
    PROVE  UsesAreRight'
BY DEF DhtInv, UsesAreRight

\* Uses are counted: opening adds two and closing takes two away.
LEMMA UsesCounted ==
    ASSUME DhtInv, NEW r \in Readers, NEW next \in {"closed", "open", "pulse", "copying"},
           pc' = [pc EXCEPT ![r] = next], module = "live", UNCHANGED <<module, held>>,
           refs' = IF pc[r] = "closed" /\ next # "closed" THEN refs + 2
                   ELSE IF pc[r] # "closed" /\ next = "closed" THEN refs - 2 ELSE refs
    PROVE  /\ UsesAreRight' /\ refs' \in 0 .. 2 * Cardinality(Readers)
           /\ pc' \in [Readers -> {"closed", "open", "pulse", "copying"}]
           /\ pc'[r] = next /\ \A q \in Readers \ {r} : pc'[q] = pc[q]
<1> DEFINE In == {q \in Readers : pc[q] # "closed"}
<1>1. pc \in [Readers -> {"closed", "open", "pulse", "copying"}]
  BY DEF DhtInv, TypeOK
<1>2. pc'[r] = next /\ \A q \in Readers \ {r} : pc'[q] = pc[q]
  BY <1>1
<1>3. IsFiniteSet(In) /\ Cardinality(In) \in Nat
  BY FS_Subset, FS_CardinalityType
<1>4. Cardinality(In') <= Cardinality(Readers) /\ Cardinality(In') \in Nat /\ Cardinality(Readers) \in Nat
  BY FS_Subset, FS_CardinalityType
<1>5. refs = 2 * Cardinality(In)
  BY DEF DhtInv, UsesAreRight
<1>6. refs' = 2 * Cardinality(In')
  <2>1. CASE pc[r] = "closed" /\ next # "closed"
    <3>1. In' = In \cup {r} /\ r \notin In
      BY <1>2, <2>1
    <3>2. Cardinality(In \cup {r}) = Cardinality(In) + 1
      BY <1>3, <3>1, FS_AddElement
    <3> HIDE DEF In
    <3> QED
      BY <1>3, <1>5, <2>1, <3>1, <3>2
  <2>2. CASE pc[r] # "closed" /\ next = "closed"
    <3>1. In' = In \ {r} /\ r \in In
      BY <1>2, <2>2
    <3>2. Cardinality(In \ {r}) = Cardinality(In) - 1
      BY <1>3, <3>1, FS_RemoveElement
    <3> HIDE DEF In
    <3> QED
      BY <1>3, <1>5, <2>2, <3>1, <3>2
  <2>3. CASE (pc[r] = "closed") = (next = "closed")
    <3>1. In' = In
      BY <1>2, <2>3
    <3>2. refs' = refs
      BY <2>3
    <3> QED
      BY <1>5, <3>1, <3>2
  <2> QED
    BY <2>1, <2>2, <2>3
<1>7. /\ \A q \in Readers : pc'[q] # "closed" => module' = "live"
      /\ module' = "live" => held' = {"pin", "map"}
  BY DEF DhtInv, UsesAreRight
<1> QED
  BY <1>1, <1>2, <1>4, <1>6, <1>7 DEF UsesAreRight

\* Nobody has the device open, and the counter may stand anywhere.
LEMMA InitDht == Init => DhtInv
<1> SUFFICES ASSUME Init PROVE DhtInv
  OBVIOUS
<1> USE HalfOfIt DEF Init
<1>1. {r \in Readers : pc[r] # "closed"} = {}
  OBVIOUS
<1>2. UsesAreRight
  BY <1>1, FS_EmptySet DEF UsesAreRight
<1>3. TypeOK
  <2>1. Cardinality(Readers) \in Nat
    BY FS_CardinalityType
  <2> QED
    BY <2>1 DEF TypeOK
<1> QED
  BY <1>2, <1>3 DEF DhtInv, StampIsRight, PulseIsRight

\* The driver: one step per action.
LEMMA StepDht == ASSUME DhtInv, [Next]_vars PROVE DhtInv'
<1> USE HalfOfIt
<1>0. /\ pc \in [Readers -> {"closed", "open", "pulse", "copying"}]
      /\ \A r \in Readers : pc[r] # "closed" => module = "live" /\ held = {"pin", "map"}
      /\ module = "live" => held = {"pin", "map"}
      /\ left \in -Half .. Half /\ asleep \in 0 .. PULSE
  BY DEF DhtInv, TypeOK, UsesAreRight
<1>1. CASE Tick
  <2>1. StampIsRight' /\ left' \in -Half .. Half /\ jiffies' \in 0 .. JIFFIES - 1
    BY <1>1, StampComesNearer
  <2>2. UsesAreRight'
    BY <1>1, ReadersFramed DEF Tick
  <2>3. asleep' \in 0 .. PULSE
    BY <1>0, <1>1 DEF Tick
  <2>4. PulseIsRight'
    <3>1. ASSUME NEW r \in Readers, pc[r] = "pulse" PROVE left' = HOLD - asleep'
      <4>1. Measuring # {} /\ left = HOLD - asleep /\ asleep < PULSE
        BY <1>1, <3>1 DEF Tick, Measuring, DhtInv, PulseIsRight
      <4> QED
        BY <1>0, <1>1, <4>1 DEF Tick
    <3> QED
      BY <1>1, <3>1 DEF Tick, DhtInv, PulseIsRight
  <2> QED
    BY <1>1, <2>1, <2>2, <2>3, <2>4 DEF Tick, DhtInv, TypeOK
<1>2. CASE Load
  <2>1. \A r \in Readers : pc[r] = "closed"
    BY <1>0, <1>2 DEF Load
  <2>2. StampIsRight' /\ pre_jiffies' \in 0 .. JIFFIES - 1 /\ left' \in -Half .. Half
    <3>1. REST \in 0 .. Half
      OBVIOUS
    <3> QED
      BY <1>2, <3>1, StampIsSet DEF Load
  <2>3. UsesAreRight'
    BY <1>2, <2>1 DEF Load, DhtInv, UsesAreRight
  <2>4. PulseIsRight'
    BY <1>2, <2>1 DEF Load, PulseIsRight
  <2>5. TypeOK'
    BY <1>2, <2>1, <2>2 DEF Load, DhtInv, TypeOK
  <2> QED
    BY <2>2, <2>3, <2>4, <2>5 DEF DhtInv
<1>3. CASE LoadFails \/ Unmap \/ Deregister
  <2>1. \A r \in Readers : pc[r] = "closed"
    <3>1. CASE LoadFails \/ Deregister
      BY <1>0, <3>1 DEF LoadFails, Deregister
    <3>2. CASE Unmap
      <4>1. Cardinality({r \in Readers : pc[r] # "closed"}) = 0
        <5>1. Cardinality({r \in Readers : pc[r] # "closed"}) \in Nat
          BY FS_Subset, FS_CardinalityType
        <5> QED
          BY <3>2, <5>1 DEF Unmap, DhtInv, UsesAreRight
      <4>2. {r \in Readers : pc[r] # "closed"} = {}
        BY <4>1, FS_Subset, FS_EmptySet
      <4> QED
        BY <4>2
    <3> QED
      BY <1>3, <3>1, <3>2
  <2>2. /\ UNCHANGED <<refs, pc, data_duty, got, jiffies, pre_jiffies, left, asleep>>
        /\ module' \in {"out", "unmapped"} /\ held' \subseteq {"pin"}
    BY <1>3 DEF LoadFails, Unmap, Deregister, DhtInv, TypeOK
  <2> QED
    BY <2>1, <2>2 DEF DhtInv, TypeOK, StampIsRight, PulseIsRight, UsesAreRight
<1>4. ASSUME NEW r \in Readers, Open(r) PROVE DhtInv'
  <2>1. UsesAreRight' /\ refs' \in 0 .. 2 * Cardinality(Readers)
        /\ pc' \in [Readers -> {"closed", "open", "pulse", "copying"}]
        /\ pc'[r] = "open" /\ \A q \in Readers \ {r} : pc'[q] = pc[q]
    BY <1>0, <1>4, UsesCounted DEF Open
  <2>2. PulseIsRight'
    BY <1>4, <2>1 DEF Open, DhtInv, PulseIsRight
  <2> QED
    BY <1>0, <1>4, <2>1, <2>2 DEF Open, DhtInv, TypeOK, StampIsRight
<1>5. ASSUME NEW r \in Readers, Release(r) PROVE DhtInv'
  <2>1. UsesAreRight' /\ refs' \in 0 .. 2 * Cardinality(Readers)
        /\ pc' \in [Readers -> {"closed", "open", "pulse", "copying"}]
        /\ pc'[r] = "closed" /\ \A q \in Readers \ {r} : pc'[q] = pc[q]
    BY <1>0, <1>5, UsesCounted DEF Release, RefsReleased
  <2>2. PulseIsRight'
    BY <1>5, <2>1 DEF Release, DhtInv, PulseIsRight
  <2> QED
    BY <1>0, <1>5, <2>1, <2>2 DEF Release, DhtInv, TypeOK, StampIsRight
<1>6. ASSUME NEW r \in Readers, ReadCached(r) \/ Copy(r) \/ NoAnswer(r) \/ Sample(r) PROVE DhtInv'
  <2>1. PICK next \in {"open", "copying"} :
          /\ pc[r] # "closed" /\ pc' = [pc EXCEPT ![r] = next]
          /\ UNCHANGED <<module, held, refs, jiffies, pre_jiffies, left, asleep>>
          /\ pc[r] # "pulse" => data_duty' = data_duty
          /\ data_duty' \in {"zeros", "reading", "broken"}
          /\ got' \in [Readers -> {"nothing", "error", "zeros", "reading", "broken"}]
    BY <1>6 DEF ReadCached, Copy, NoAnswer, Sample, DhtInv, TypeOK
  <2>2. UsesAreRight' /\ refs' \in 0 .. 2 * Cardinality(Readers)
        /\ pc' \in [Readers -> {"closed", "open", "pulse", "copying"}]
        /\ pc'[r] = next /\ \A q \in Readers \ {r} : pc'[q] = pc[q]
    BY <1>0, <2>1, UsesCounted
  <2>3. PulseIsRight'
    BY <2>1, <2>2 DEF DhtInv, PulseIsRight
  <2> QED
    BY <1>0, <2>1, <2>2, <2>3 DEF DhtInv, TypeOK, StampIsRight
<1>7. ASSUME NEW r \in Readers, StartPulse(r) PROVE DhtInv'
  <2>1. \A q \in Readers : pc[q] # "pulse"
    <3>1. ASSUME NEW q \in Readers, pc[q] = "pulse" PROVE FALSE
      <4>1. left = HOLD - asleep
        BY <3>1 DEF DhtInv, PulseIsRight
      <4>2. left > 0 /\ left > -Half
        BY <1>0, <4>1
      <4> QED
        BY <1>7, <4>2, AheadWhileLeft DEF StartPulse
    <3> QED
      BY <3>1
  <2>2. UsesAreRight' /\ refs' \in 0 .. 2 * Cardinality(Readers)
        /\ pc' \in [Readers -> {"closed", "open", "pulse", "copying"}]
        /\ pc'[r] = "pulse" /\ \A q \in Readers \ {r} : pc'[q] = pc[q]
    BY <1>0, <1>7, UsesCounted DEF StartPulse
  <2>3. /\ StampIsRight' /\ left' = HOLD /\ pre_jiffies' \in 0 .. JIFFIES - 1
        /\ left' \in -Half .. Half
    <3>1. HOLD \in 0 .. Half
      OBVIOUS
    <3> QED
      BY <1>7, <3>1, StampIsSet DEF StartPulse
  <2>4. PulseIsRight'
    BY <1>7, <2>1, <2>2, <2>3 DEF StartPulse, PulseIsRight
  <2>5. TypeOK'
    BY <1>0, <1>7, <2>2, <2>3 DEF StartPulse, DhtInv, TypeOK
  <2> QED
    BY <2>2, <2>3, <2>4, <2>5 DEF DhtInv
<1>8. CASE UNCHANGED vars
  BY <1>8 DEF vars, DhtInv, TypeOK, StampIsRight, PulseIsRight, UsesAreRight
<1> QED
  BY <1>1, <1>2, <1>3, <1>4, <1>5, <1>6, <1>7, <1>8 DEF Next

\* The pulse belongs to one reader at most.
LEMMA PulseIsOne == DhtInv => OnePulse
<1> SUFFICES ASSUME DhtInv PROVE OnePulse
  OBVIOUS
<1>1. CASE Measuring = {}
  BY <1>1, FS_EmptySet DEF OnePulse
<1>2. CASE Measuring # {}
  <2>1. PICK r \in Readers : Measuring = {r}
    BY <1>2 DEF Measuring, DhtInv, PulseIsRight
  <2>2. Cardinality({r}) = 1
    BY FS_Singleton
  <2> QED
    BY <2>1, <2>2 DEF OnePulse
<1> QED
  BY <1>1, <1>2

-----------------------------------------------------------------------------
(* The timer's driver *)

\* Whoever waits for a measurement has the processor, and a registered device, of
\* which a failed load leaves the readers, has its registers.
ProcessorIsRight ==
    /\ \A r \in Readers : at[r] = "pulse" <=> cpu = r
    /\ cpu # "free" => Timer!Entered
    /\ \A r \in Readers : at[r] # "closed" => tmod \in {"coming", "live", "dangling"}
    /\ tmod \in {"coming", "live", "dangling"} => maps = Timer!Blocks

TimerInv == Timer!TypeOK /\ ProcessorIsRight

\* The instance counts as the library does.
LEMMA SameCount == \A S : Timer!Cardinality(S) = Cardinality(S)
BY DEF Timer!Cardinality, Timer!IsFiniteSet, Cardinality, IsFiniteSet

\* The board has just been started.
LEMMA InitTimer == Timer!Start => TimerInv
<1> SUFFICES ASSUME Timer!Start PROVE TimerInv
  OBVIOUS
<1> USE DEF Timer!Start
<1>1. {r \in Readers : at[r] # "closed"} = {}
  OBVIOUS
<1>2. uses = 2 * Timer!Cardinality({r \in Readers : at[r] # "closed"})
  BY <1>1, FS_EmptySet, SameCount
<1>3. Timer!TypeOK
  BY <1>2 DEF Timer!TypeOK
<1> QED
  BY <1>3 DEF TimerInv, ProcessorIsRight

\* Nobody uses a module whose count is zero.
LEMMA NobodyInside == TimerInv /\ uses = 0 => \A r \in Readers : at[r] = "closed"
<1> SUFFICES ASSUME TimerInv, uses = 0 PROVE \A r \in Readers : at[r] = "closed"
  OBVIOUS
<1> DEFINE In == {r \in Readers : at[r] # "closed"}
<1>1. IsFiniteSet(In) /\ Cardinality(In) \in Nat
  BY FS_Subset, FS_CardinalityType
<1>2. uses = 2 * Cardinality(In)
  BY SameCount DEF TimerInv, Timer!TypeOK
<1>3. In = {}
  <2>1. Cardinality(In) = 0
    BY <1>1, <1>2
  <2> QED
    BY <1>1, <2>1, FS_EmptySet
<1> QED
  BY <1>3

\* A reader's step: its place, its uses, and whose the processor is.
LEMMA ReaderMoves ==
    ASSUME TimerInv, NEW r \in Readers, NEW next \in {"closed", "open", "pulse", "copying"},
           at' = [at EXCEPT ![r] = next], Timer!Entered, cpu \in {"free", r},
           cpu' = IF next = "pulse" THEN r ELSE "free",
           UNCHANGED <<tmod, maps, lost, pins, clock>>,
           bits' \in {"zeros", "reading", "broken"},
           uses' = IF at[r] = "closed" /\ next # "closed" THEN uses + 2
                   ELSE IF at[r] # "closed" /\ next = "closed" THEN uses - 2 ELSE uses
    PROVE  TimerInv'
<1> DEFINE In == {q \in Readers : at[q] # "closed"}
<1>1. at \in [Readers -> {"closed", "open", "pulse", "copying"}]
  BY DEF TimerInv, Timer!TypeOK
<1>2. at'[r] = next /\ \A q \in Readers \ {r} : at'[q] = at[q]
  BY <1>1
<1>3. IsFiniteSet(In) /\ Cardinality(In) \in Nat
  BY FS_Subset, FS_CardinalityType
<1>4. uses = 2 * Cardinality(In)
  BY SameCount DEF TimerInv, Timer!TypeOK
<1>5. uses' = 2 * Cardinality(In')
  <2>1. CASE at[r] = "closed" /\ next # "closed"
    <3>1. In' = In \cup {r} /\ r \notin In
      BY <1>2, <2>1
    <3>2. Cardinality(In \cup {r}) = Cardinality(In) + 1
      BY <1>3, <3>1, FS_AddElement
    <3> HIDE DEF In
    <3> QED
      BY <1>3, <1>4, <2>1, <3>1, <3>2
  <2>2. CASE at[r] # "closed" /\ next = "closed"
    <3>1. In' = In \ {r} /\ r \in In
      BY <1>2, <2>2
    <3>2. Cardinality(In \ {r}) = Cardinality(In) - 1
      BY <1>3, <3>1, FS_RemoveElement
    <3> HIDE DEF In
    <3> QED
      BY <1>3, <1>4, <2>2, <3>1, <3>2
  <2>3. CASE (at[r] = "closed") = (next = "closed")
    <3>1. In' = In
      BY <1>2, <2>3
    <3>2. uses' = uses
      BY <2>3
    <3> QED
      BY <1>4, <3>1, <3>2
  <2> QED
    BY <2>1, <2>2, <2>3
<1>6. uses' = 2 * Timer!Cardinality({q \in Readers : at'[q] # "closed"})
  BY <1>5, SameCount
<1>7. ProcessorIsRight'
  <2>1. \A q \in Readers : at'[q] = "pulse" <=> cpu' = q
    BY <1>2 DEF TimerInv, ProcessorIsRight
  <2> QED
    BY <1>2, <2>1 DEF TimerInv, ProcessorIsRight, Timer!Entered
<1>8. \A q \in Readers : at'[q] # "closed" => maps' = Timer!Blocks
  BY DEF TimerInv, ProcessorIsRight, Timer!Entered
<1>9. at' \in [Readers -> {"closed", "open", "pulse", "copying"}] /\ cpu' \in Readers \cup {"free"}
  BY <1>1
<1> QED
  BY <1>6, <1>7, <1>8, <1>9 DEF TimerInv, Timer!TypeOK

\* The driver: a step of loading or unloading, while nobody waits, or of a reader.
LEMMA StepTimer == ASSUME TimerInv, [Timer!TimrotNext]_timer PROVE TimerInv'
<1>1. CASE cpu = "free" /\ (Timer!LoadFails \/ Timer!Register \/ Timer!ClockOn \/ Timer!NoClock)
  <2>1. UNCHANGED <<uses, at, cpu>>
    BY <1>1 DEF Timer!LoadFails, Timer!Register, Timer!ClockOn, Timer!NoClock
  <2>2. \A r \in Readers : at[r] # "closed" => tmod \in {"coming", "live", "dangling"}
    BY DEF TimerInv, ProcessorIsRight
  <2>3. /\ tmod' \in {"absent", "coming", "live", "dangling"}
        /\ tmod' \in {"coming", "live", "dangling"} => maps' = Timer!Blocks
        /\ tmod \in {"coming", "live", "dangling"} => tmod' \in {"coming", "live", "dangling"}
        /\ maps' \subseteq Timer!Blocks
    BY <1>1 DEF Timer!LoadFails, Timer!Register, Timer!ClockOn, Timer!NoClock,
                TimerInv, ProcessorIsRight, Timer!TypeOK
  <2>4. ProcessorIsRight'
    BY <1>1, <2>1, <2>2, <2>3 DEF TimerInv, ProcessorIsRight
  <2>5. /\ lost' \subseteq Timer!Blocks \ {"gpio"} /\ pins' \subseteq Timer!Pins
        /\ bits' \in {"zeros", "reading", "broken"}
    BY <1>1 DEF Timer!LoadFails, Timer!Register, Timer!ClockOn, Timer!NoClock,
                TimerInv, Timer!TypeOK, Timer!Blocks, Timer!Pins, Timer!Requested
  <2>6. clock' <=> tmod' = "live"
    BY <1>1 DEF Timer!LoadFails, Timer!Register, Timer!ClockOn, Timer!NoClock,
                TimerInv, Timer!TypeOK
  <2>7. \A r \in Readers : at'[r] # "closed" => maps' = Timer!Blocks
    BY <2>1, <2>2, <2>3
  <2> QED
    BY <2>1, <2>3, <2>4, <2>5, <2>6, <2>7 DEF TimerInv, Timer!TypeOK
<1>2. CASE cpu = "free" /\ (Timer!Unmap \/ Timer!Deregister)
  <2>1. \A r \in Readers : at[r] = "closed"
    BY <1>2, NobodyInside DEF Timer!Unmap, Timer!Deregister, TimerInv, ProcessorIsRight
  <2>2. UNCHANGED <<uses, at, cpu, lost, bits>>
    BY <1>2 DEF Timer!Unmap, Timer!Deregister
  <2>3. /\ tmod' \in {"unmapped", "absent"} /\ (clock' <=> tmod' = "live")
        /\ maps' \subseteq Timer!Blocks /\ pins' \subseteq Timer!Pins
    BY <1>2 DEF Timer!Unmap, Timer!Deregister, TimerInv, Timer!TypeOK
  <2> QED
    BY <1>2, <2>1, <2>2, <2>3 DEF TimerInv, ProcessorIsRight, Timer!TypeOK
<1>3. CASE Timer!Reboot
  <2>1. Timer!Start'
    BY <1>3 DEF Timer!Reboot, Timer!Start
  <2> QED
    BY <2>1, InitTimer, PTL
<1>4. ASSUME NEW r \in Readers, cpu \in {"free", r},
             \/ Timer!Open(r) \/ Timer!Release(r) \/ Timer!StartPulse(r)
             \/ Timer!Sample(r) \/ Timer!NoAnswer(r) \/ Timer!Copy(r)
      PROVE  TimerInv'
  <2>1. at \in [Readers -> {"closed", "open", "pulse", "copying"}]
        /\ bits \in {"zeros", "reading", "broken"} /\ (at[r] = "pulse" <=> cpu = r)
    BY DEF TimerInv, Timer!TypeOK, ProcessorIsRight
  <2>2. PICK next \in {"closed", "open", "pulse", "copying"} :
          /\ at' = [at EXCEPT ![r] = next] /\ Timer!Entered
          /\ cpu' = IF next = "pulse" THEN r ELSE "free"
          /\ UNCHANGED <<tmod, maps, lost, pins, clock>>
          /\ bits' \in {"zeros", "reading", "broken"}
          /\ uses' = IF at[r] = "closed" /\ next # "closed" THEN uses + 2
                     ELSE IF at[r] # "closed" /\ next = "closed" THEN uses - 2 ELSE uses
    BY <1>4, <2>1 DEF Timer!Open, Timer!Release, Timer!StartPulse, Timer!Sample,
                      Timer!NoAnswer, Timer!Copy, Timer!Busy
  <2> QED
    BY <1>4, <2>2, ReaderMoves
<1>5. CASE UNCHANGED timer
  BY <1>5 DEF timer, TimerInv, Timer!TypeOK, ProcessorIsRight, Timer!Entered
<1> QED
  BY <1>1, <1>2, <1>3, <1>4, <1>5 DEF Timer!TimrotNext, Timer!Module

\* Who waits has the processor for itself, and the module with it.
LEMMA PulseIsWhole == TimerInv => Timer!WholePulse
<1> SUFFICES ASSUME TimerInv PROVE Timer!WholePulse
  OBVIOUS
<1> DEFINE Waiting == {r \in Readers : at[r] = "pulse"}
<1>1. Waiting = {} \/ Waiting = {cpu}
  BY DEF TimerInv, ProcessorIsRight
<1>2. Cardinality({}) = 0 /\ Cardinality({cpu}) = 1
  BY FS_EmptySet, FS_Singleton
<1>3. Cardinality(Waiting) <= 1
  BY <1>1, <1>2
<1>4. \A r \in Readers : at[r] = "pulse" => Timer!Entered
  BY DEF TimerInv, ProcessorIsRight
<1> QED
  BY <1>3, <1>4, SameCount DEF Timer!WholePulse

-----------------------------------------------------------------------------
(* The program of the small board *)

\* A byte that is on its way, or whose interrupt is due, is one of the first ticks after
\* SendFirst: while a frame is being sent main has not waited longer than it has bytes.
FrameIsRight ==
    /\ shifting => since < count
    /\ TI => since <= count
    /\ ~shifting /\ ~TI => count \in {0, Small!Frame}
    /\ main \in {"copy", "copying", "sbuf", "fill", "filling"} =>
         ~shifting /\ ~TI /\ count \in {0, Small!Frame}

\* What is copied is of one kind, or of what has come in by the line.
TextIsRight ==
    /\ main = "copy" => {str[1], str[2]} # {"text", "reading"}
    /\ main = "copying" => {outdata[1], str[2]} # {"text", "reading"}
    /\ main = "filling" => str[1] # "text"

Texts == {"text", "reading", "input"}
SmallInv ==
    /\ Small!TypeOK /\ FrameIsRight /\ TextIsRight
    /\ str \in Texts \X Texts /\ outdata \in (Texts \cup {"zeros"}) \X (Texts \cup {"zeros"})

\* Nothing is being sent.
LEMMA InitSmall == Small!Start => SmallInv
<1> SUFFICES ASSUME Small!Start PROVE SmallInv
  OBVIOUS
<1> USE DEF Small!Start, Small!Frame
<1>1. Small!TypeOK
  <2>1. {shifting, TI, RI} \subseteq BOOLEAN
    OBVIOUS
  <2>2. {str[1], str[2]} \subseteq {"text", "reading", "input"}
        /\ {outdata[1], outdata[2]} \subseteq {"zeros", "text", "reading", "input"}
    OBVIOUS
  <2>3. since \in 0 .. PAUSE /\ count \in 0 .. 5 /\ count_r \in 0 .. 4 /\ main = "copy"
    OBVIOUS
  <2> QED
    BY <2>1, <2>2, <2>3 DEF Small!TypeOK
<1>2. FrameIsRight
  BY DEF FrameIsRight
<1>3. TextIsRight /\ str \in Texts \X Texts
      /\ outdata \in (Texts \cup {"zeros"}) \X (Texts \cup {"zeros"})
  BY DEF TextIsRight, Texts
<1> QED
  BY <1>1, <1>2, <1>3 DEF SmallInv

\* Main, the interrupt and the line: one step per action.
LEMMA StepSmall == ASSUME SmallInv, [Small!SampleNext]_sample PROVE SmallInv'
<1> USE DEF SmallInv, Small!TypeOK, Small!Frame, FrameIsRight, TextIsRight, Texts, Small!MainAt
<1>1. CASE Small!CopyFirst
  BY <1>1 DEF Small!CopyFirst
<1>2. CASE Small!CopySecond
  BY <1>2 DEF Small!CopySecond
<1>3. CASE Small!SendFirst
  BY <1>3 DEF Small!SendFirst
<1>4. CASE Small!Paused
  BY <1>4 DEF Small!Paused
<1>5. CASE Small!Measure
  BY <1>5 DEF Small!Measure, Small!HeldLow
<1>6. CASE Small!FillFirst
  BY <1>6 DEF Small!FillFirst
<1>7. CASE Small!FillSecond
  BY <1>7 DEF Small!FillSecond
<1>8. CASE Small!RSINTR
  <2>1. TextIsRight' /\ str' \in Texts \X Texts
        /\ outdata' \in (Texts \cup {"zeros"}) \X (Texts \cup {"zeros"})
    BY <1>8 DEF Small!RSINTR
  <2>2. FrameIsRight'
    BY <1>8 DEF Small!RSINTR
  <2>3. count' \in 0 .. 5 /\ count_r' \in 0 .. 4
    BY <1>8 DEF Small!RSINTR
  <2>4. shifting' \in BOOLEAN /\ TI' \in BOOLEAN /\ RI' \in BOOLEAN
    BY <1>8 DEF Small!RSINTR
  <2>5. {shifting', TI', RI'} \subseteq BOOLEAN
    BY <2>4
  <2>6. UNCHANGED <<main, since, outdata>>
    BY <1>8 DEF Small!RSINTR
  <2>7. {str'[1], str'[2]} \subseteq {"text", "reading", "input"}
    BY <2>1
  <2>8. Small!TypeOK'
    BY <2>3, <2>5, <2>6, <2>7
  <2> QED
    BY <2>1, <2>2, <2>8
<1>9. CASE Small!Tick
  <2>1. FrameIsRight' /\ since' \in 0 .. PAUSE
    BY <1>9 DEF Small!Tick
  <2>2. shifting' \in BOOLEAN /\ TI' \in BOOLEAN /\ RI' \in BOOLEAN
    BY <1>9 DEF Small!Tick
  <2> QED
    BY <1>9, <2>1, <2>2 DEF Small!Tick
<1>10. CASE Small!Received
  BY <1>10 DEF Small!Received
<1>11. CASE UNCHANGED sample
  BY <1>11 DEF sample
<1> QED
  BY <1>1, <1>2, <1>3, <1>4, <1>5, <1>6, <1>7, <1>8, <1>9, <1>10, <1>11
  DEF Small!SampleNext, Small!Main

-----------------------------------------------------------------------------
(* Together *)

IInv == DhtInv /\ TimerInv /\ SmallInv

\* What each program keeps is kept: the others stand still.
LEMMA DriverStep ==
    [DriverNext]_driverVars => [Next]_vars /\ [Timer!TimrotNext]_timer /\ [Small!SampleNext]_sample
BY DEF DriverNext, driverVars

\* All three are right in every state.
LEMMA IInvInvariant == DriverSpec => []IInv
<1>1. DriverInit => IInv
  BY InitDht, InitTimer, InitSmall DEF DriverInit, IInv
<1>2. IInv /\ [DriverNext]_driverVars => IInv'
  BY DriverStep, StepDht, StepTimer, StepSmall DEF IInv
<1> QED
  BY <1>1, <1>2, PTL DEF DriverSpec

\* No reader of either driver cuts the pulse of another short, whatever the width of the
\* counter and the number of readers: timrot_misc_read of both files.
THEOREM DriverNoPulseIsCut == DriverSpec => []NoPulseIsCut
<1>1. IInv => NoPulseIsCut
  BY PulseIsOne, PulseIsWhole
  DEF IInv, DhtInv, TimerInv, SmallInv, NoPulseIsCut, DriverTypeOK
<1> QED
  BY <1>1, IInvInvariant, PTL

\* Main of the 8051 leaves alone the frame that the interrupt is sending.
THEOREM DriverNoFrameIsCut == DriverSpec => []NoFrameIsCut
<1>1. IInv => NoFrameIsCut
  BY DEF IInv, SmallInv, FrameIsRight, NoFrameIsCut, Small!NoFrameIsCut
<1> QED
  BY <1>1, IInvInvariant, PTL

\* A pulse begins only when the ticks of the last one, or of the load, are over, although
\* the counter wraps.
THEOREM DriverSensorRests == DriverSpec => SensorRests
<1>1. ASSUME IInv, [DriverNext]_driverVars
      PROVE  [\A r \in Readers : pc[r] # "pulse" /\ pc'[r] = "pulse" => left <= 0]_vars
  <2> SUFFICES ASSUME [Next]_vars, DhtInv, NEW r \in Readers, pc[r] # "pulse", pc'[r] = "pulse"
               PROVE  left <= 0
    BY <1>1, DriverStep DEF IInv
  <2>1. StartPulse(r)
    BY DEF Next, vars, Tick, Load, LoadFails, Unmap, Deregister, Open, Release, ReadCached,
           StartPulse, Sample, NoAnswer, Copy, DhtInv, TypeOK
  <2>2. left \in Int
    BY HalfOfIt DEF DhtInv, TypeOK
  <2>3. left > -Half => ~(left > 0)
    BY <2>1, AheadWhileLeft DEF StartPulse
  <2> QED
    BY <2>2, <2>3, HalfOfIt
<1> QED
  BY <1>1, IInvInvariant, PTL DEF DriverSpec, SensorRests

\* While there are ticks left nobody empties the buffer under a reader of a measurement
\* that has succeeded.
THEOREM DriverReadingIsHeld == DriverSpec => ReadingIsHeld
<1>1. ASSUME IInv, [DriverNext]_driverVars
      PROVE  [data_duty = "reading" /\ left > 0 /\ module = "live"
               => /\ data_duty' = "reading"
                  /\ \A r \in Readers : got'[r] # got[r] => got'[r] \in {"reading", "error"}]_vars
  <2> SUFFICES ASSUME [Next]_vars, DhtInv, data_duty = "reading", left > 0, module = "live"
               PROVE  /\ data_duty' = "reading"
                      /\ \A r \in Readers : got'[r] # got[r] => got'[r] \in {"reading", "error"}
    BY <1>1, DriverStep DEF IInv
  <2>1. \A r \in Readers : pc[r] # "pulse"
    BY DEF DhtInv, PulseIsRight
  <2>2. StampIsAhead
    BY AheadWhileLeft, HalfOfIt DEF DhtInv, TypeOK
  <2> QED
    BY <2>1, <2>2 DEF Next, vars, Tick, Load, LoadFails, Unmap, Deregister, Open, Release,
       ReadCached, StartPulse, Sample, NoAnswer, Copy, DhtInv, TypeOK
<1> QED
  BY <1>1, IInvInvariant, PTL DEF DriverSpec, ReadingIsHeld
=============================================================================
