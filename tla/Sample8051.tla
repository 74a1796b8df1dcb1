----------------------------- MODULE Sample8051 -----------------------------
(***************************************************************************)
(* dht11_driver/exaple.c, the program of an 8051 that reads the sensor and *)
(* sends every reading over its serial line. Main measures, fills str and  *)
(* copies it to outdata; the interrupt of the serial line sends the bytes  *)
(* of outdata one after another, and overwrites str when five bytes have   *)
(* come in. Nothing but time keeps main from outdata while it is sent.     *)
(*                                                                         *)
(* A tick is the time of a byte on the line, about a millisecond. str and  *)
(* outdata are looked at in two halves: what their bytes are of.           *)
(***************************************************************************)
EXTENDS Integers

CONSTANTS LOW,    \* ticks for which the line to the sensor is held low (18 ms)
          PAUSE   \* ticks between two measurements (2 s)

VARIABLES main,            \* what main comes to
          since,           \* ticks since it began to wait
          str, outdata,
          count, count_r,  \* bytes sent, and received, of five
          shifting,        \* a byte is on its way out of SBUF
          TI, RI           \* the interrupt flags

mvars == <<main, since, str, outdata, count, count_r, shifting, TI, RI>>

Frame == 5

Start ==
    /\ main = "copy" /\ since = 0
    /\ str = <<"text", "text">> /\ outdata = <<"zeros", "zeros">>
    /\ count = 0 /\ count_r = 0
    /\ shifting = FALSE /\ TI = FALSE /\ RI = FALSE

-----------------------------------------------------------------------------
(* main *)

MainAt(here, next) == main = here /\ main' = next

\* SendData: the greeting first, readings after it.
CopyFirst ==
    /\ MainAt("copy", "copying")
    /\ outdata' = <<str[1], outdata[2]>>
    /\ UNCHANGED <<since, str, count, count_r, shifting, TI, RI>>

CopySecond ==
    /\ MainAt("copying", "sbuf")
    /\ outdata' = <<outdata[1], str[2]>>
    /\ UNCHANGED <<since, str, count, count_r, shifting, TI, RI>>

\* A write to SBUF while a byte is on its way spoils both. RH begins at once after
\* the greeting, and after a pause later.
SendFirst ==
    /\ main = "sbuf"
    /\ main' = IF count = 0 THEN "low" ELSE "pause"
    /\ count' = 1 /\ shifting' = TRUE /\ since' = 0
    /\ UNCHANGED <<str, outdata, count_r, TI, RI>>

Paused ==
    /\ MainAt("pause", "low") /\ since = PAUSE
    /\ since' = 0
    /\ UNCHANGED <<str, outdata, count, count_r, shifting, TI, RI>>

\* Mutant: the sensor is woken by a short pulse.
Pulsed == TRUE

HeldLow == since >= LOW

\* RH: without an answer nothing is read; with one, five bytes come bit by bit,
\* each wait being given up when its counter wraps, and replace the last reading
\* if their sum is right.
Measure ==
    /\ MainAt("low", "fill") /\ HeldLow
    /\ UNCHANGED <<since, str, outdata, count, count_r, shifting, TI, RI>>

FillFirst ==
    /\ MainAt("fill", "filling")
    /\ str' = <<"reading", str[2]>>
    /\ UNCHANGED <<since, outdata, count, count_r, shifting, TI, RI>>

FillSecond ==
    /\ MainAt("filling", "copy")
    /\ str' = <<str[1], "reading">>
    /\ UNCHANGED <<since, outdata, count, count_r, shifting, TI, RI>>

Main ==
    \/ CopyFirst \/ CopySecond \/ SendFirst \/ Paused
    \/ Measure \/ FillFirst \/ FillSecond

-----------------------------------------------------------------------------
(* The serial line *)

\* RSINTR, which main cannot hold off.
RSINTR ==
    /\ TI \/ RI
    /\ TI' = FALSE /\ RI' = FALSE
    /\ shifting' = (shifting \/ (TI /\ count # Frame))
    /\ count' = IF TI /\ count # Frame THEN count + 1 ELSE count
    /\ count_r' = IF RI THEN (count_r + 1) % Frame ELSE count_r
    /\ str' = IF RI /\ count_r' = 0 THEN <<"input", "input">> ELSE str
    /\ UNCHANGED <<main, since, outdata>>

\* A byte is out, and the interrupt handled within the next one's time (external).
Tick ==
    /\ ~TI /\ ~RI
    /\ since' = IF since < PAUSE THEN since + 1 ELSE since
    /\ TI' = shifting /\ shifting' = FALSE
    /\ UNCHANGED <<main, str, outdata, count, count_r, RI>>

\* A byte of the other end (external).
Received ==
    /\ ~RI
    /\ RI' = TRUE
    /\ UNCHANGED <<main, since, str, outdata, count, count_r, shifting, TI>>

SampleNext == Main \/ RSINTR \/ Tick \/ Received

-----------------------------------------------------------------------------
\* Types; and the greeting and a reading are never in one frame.
TypeOK ==
    /\ main \in {"copy", "copying", "sbuf", "pause", "low", "fill", "filling"}
    /\ since \in 0 .. PAUSE
    /\ {str[1], str[2]} \subseteq {"text", "reading", "input"}
    /\ {outdata[1], outdata[2]} \subseteq {"zeros", "text", "reading", "input"}
    /\ count \in 0 .. Frame /\ count_r \in 0 .. Frame - 1
    /\ {shifting, TI, RI} \subseteq BOOLEAN
    /\ main = "sbuf" => {outdata[1], outdata[2]} # {"text", "reading"}

\* While the interrupt sends a frame main is busy with the sensor or waits: it
\* neither writes to SBUF nor changes outdata before all five bytes are out.
NoFrameIsCut ==
    main \in {"copy", "copying", "sbuf"} => count \in {0, Frame} /\ ~shifting /\ ~TI
=============================================================================
