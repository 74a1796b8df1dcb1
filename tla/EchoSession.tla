----------------------------- MODULE EchoSession -----------------------------
(***************************************************************************)
(* One session of network/client.c with the child of network/server.c that *)
(* serves it. The client writes a line and takes whatever its next read    *)
(* brings for the answer; the child echoes what it can read at a time,     *)
(* which is eight bytes, because the sizeof its buffer is that of a        *)
(* pointer, and which it writes up to the first zero. The two get out of   *)
(* step over a longer line.                                                *)
(*                                                                         *)
(* A unit is a few bytes, numbered in the order in which they are typed;   *)
(* zero is a blank one.                                                    *)
(***************************************************************************)
EXTENDS Integers, Sequences

CONSTANTS MaxUnits,   \* units that are typed in a session (bound)
          W           \* units in eight bytes

VARIABLES cli, typed,          \* the client and the line it has read from its user
          toServer, toClient,  \* on their way
          child, piece,        \* the server's child and the bytes of its buffer in use
          sent, shown          \* what was written, and what has come to the user's eyes

session == <<cli, typed, toServer, toClient, child, piece, sent, shown>>

Quit == MaxUnits + 1
Blank == [i \in 1 .. W |-> 0]

Init ==
    /\ cli = "type" /\ typed = <<>>
    /\ toServer = <<>> /\ toClient = <<>>
    /\ child = "read" /\ piece = Blank
    /\ sent = <<>> /\ shown = <<>>

-----------------------------------------------------------------------------
(* main of client.c *)

\* fgets: a line, quit, or nothing more.
TypeLine ==
    /\ cli = "type"
    /\ \/ \E n \in 0 .. MaxUnits - Len(sent) : typed' = [i \in 1 .. n |-> Len(sent) + i]
       \/ typed' = <<Quit>>
    /\ cli' = "write"
    /\ UNCHANGED <<toServer, toClient, child, piece, sent, shown>>

\* write of strlen bytes, which may be none, and exit after quit.
WriteLine ==
    /\ cli = "write" /\ child # "gone"
    /\ toServer' = toServer \o typed /\ sent' = sent \o typed
    /\ cli' = IF typed = <<Quit>> THEN "ended" ELSE "read"
    /\ UNCHANGED <<typed, toClient, child, piece, shown>>

\* Where nobody is left, the write or the read after it fails or kills.
WriteFails == cli = "write" /\ child = "gone" /\ cli' = "ended"
              /\ UNCHANGED <<typed, toServer, toClient, child, piece, sent, shown>>

ReadEcho ==
    /\ cli = "read" /\ toClient # <<>>
    /\ shown' = shown \o toClient /\ toClient' = <<>>
    /\ cli' = "type"
    /\ UNCHANGED <<typed, toServer, child, piece, sent>>

\* The end is not told from an answer.
ReadNothing ==
    /\ cli = "read" /\ toClient = <<>> /\ child = "gone"
    /\ cli' = "type"
    /\ UNCHANGED <<typed, toServer, toClient, child, piece, sent, shown>>

ClientStep == WriteLine \/ WriteFails \/ ReadEcho \/ ReadNothing

-----------------------------------------------------------------------------
(* chldproccess *)

\* Mutant: the buffer is not cleared before it is read into.
NotCleared == piece

Cleared == Blank

\* The bytes that have arrived, eight at most.
ChildRead ==
    /\ child = "read"
    /\ \E k \in 1 .. W :
         /\ k <= Len(toServer)
         /\ piece' = [i \in 1 .. W |-> IF i <= k THEN toServer[i] ELSE Cleared[i]]
         /\ toServer' = SubSeq(toServer, k + 1, Len(toServer))
    /\ child' = "write"
    /\ UNCHANGED <<cli, typed, toClient, sent, shown>>

\* The client has gone: an empty string is written, which does not fail.
ChildReadsEnd ==
    /\ child = "read" /\ cli = "ended" /\ toServer = <<>>
    /\ piece' = Cleared
    /\ child' = "write"
    /\ UNCHANGED <<cli, typed, toServer, toClient, sent, shown>>

\* strlen(buff): what lies before the first zero.
Strlen == CHOOSE n \in 0 .. W :
            (\A i \in 1 .. n : piece[i] # 0) /\ (n < W => piece[n + 1] = 0)
Echo == SubSeq(piece, 1, Strlen)

ChildWrite ==
    /\ child = "write"
    /\ toClient' = toClient \o Echo
    /\ child' = IF Echo = <<Quit>> THEN "gone" ELSE "read"
    /\ UNCHANGED <<cli, typed, toServer, piece, sent, shown>>

\* The client has gone with something unread: the connection is reset, and a
\* read or a write fails, or the signal of a broken pipe ends the child.
ChildFails ==
    /\ child # "gone" /\ cli = "ended" /\ toClient # <<>>
    /\ child' = "gone"
    /\ UNCHANGED <<cli, typed, toServer, toClient, piece, sent, shown>>

ChildStep == ChildRead \/ ChildReadsEnd \/ ChildWrite \/ ChildFails

\* The server is stopped by a signal (external).
ChildKilled ==
    /\ child # "gone"
    /\ child' = "gone"
    /\ UNCHANGED <<cli, typed, toServer, toClient, piece, sent, shown>>

Next == TypeLine \/ ClientStep \/ ChildStep \/ ChildKilled

-----------------------------------------------------------------------------
\* Types.
TypeOK ==
    /\ cli \in {"type", "write", "read", "ended"}
    /\ child \in {"read", "write", "gone"}
    /\ {typed, toServer, toClient, sent, shown} \subseteq Seq(1 .. Quit)
    /\ piece \in [1 .. W -> 0 .. Quit]

\* Although client and child get out of step, and lines come in pieces and
\* together, the user sees what was typed: nothing twice, nothing left out and
\* nothing of an earlier piece in a shorter later one.
EchoIsExact ==
    child # "gone" =>
        shown \o toClient \o (IF child = "write" THEN Echo ELSE <<>>) \o toServer = sent
=============================================================================
