--------------------------- MODULE DriverPrograms ---------------------------
(***************************************************************************)
(* The programs of dht11_driver/: two drivers, of which a board is given   *)
(* one since they take the same pins, and the program of a smaller board.  *)
(***************************************************************************)
EXTENDS Dht11

CONSTANTS LOW, PAUSE

VARIABLES driver,
          tmod, maps, lost, pins, clock, uses, at, cpu, bits,
          main, since, str, outdata, count, count_r, shifting, TI, RI

Timer == INSTANCE Timrot
Small == INSTANCE Sample8051

\* The five bytes of a frame are out before the sensor has been woken (5 ms of 18).
ASSUME DriverAssumption ==
    /\ IsFiniteSet(Readers) /\ "free" \notin Readers
    /\ {LOW, PAUSE} \subseteq Nat /\ Small!Frame < LOW /\ LOW <= PAUSE

timer == <<tmod, maps, lost, pins, clock, uses, at, cpu, bits>>
sample == <<main, since, str, outdata, count, count_r, shifting, TI, RI>>
driverVars == <<driver, vars, timer, sample>>

DriverInit ==
    /\ driver \in {"dht11", "timrot", "sample"}
    /\ Init /\ Timer!Start /\ Small!Start

DriverNext ==
    \/ driver = "dht11" /\ Next /\ UNCHANGED <<driver, timer, sample>>
    \/ driver = "timrot" /\ Timer!TimrotNext /\ UNCHANGED <<driver, vars, sample>>
    \/ driver = "sample" /\ Small!SampleNext /\ UNCHANGED <<driver, vars, timer>>

DriverSpec == DriverInit /\ [][DriverNext]_driverVars

DriverTypeOK == TypeOK /\ Timer!TypeOK /\ Small!TypeOK

\* No reader of either driver cuts the pulse of another short: of dht11.c because
\* the stamp was set before the sleep and outlasts it, of timrot_train.c because
\* its wait does not sleep. (With the types, which say that an open device has its
\* registers.)
NoPulseIsCut == DriverTypeOK /\ OnePulse /\ Timer!WholePulse

\* Main of the 8051 leaves the frame alone that the interrupt is sending.
NoFrameIsCut == Small!NoFrameIsCut
=============================================================================
