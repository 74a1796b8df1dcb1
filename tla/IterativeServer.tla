--------------------------- MODULE IterativeServer ---------------------------
(***************************************************************************)
(* network/server/server.c, which serves one connection after the other,   *)
(* and its client network/client/client.c, which makes a connection for    *)
(* every line: one read and one write at each end.                         *)
(***************************************************************************)
EXTENDS Integers, Sequences, FiniteSets

CONSTANTS Users,     \* each with a client program
          MaxTyped   \* lines a user types (bound)

VARIABLES server, served, rxbuff,  \* the server, its accepted client, what it has read
          queue,                   \* connected and not accepted
          place, input, left,      \* of each client: where it is, its line, lines to come
          request,                 \* what lies at the server: "open" while none does
          reply                    \* what lies at the client: "none", "input" or "broken"

service == <<server, served, rxbuff, queue, place, input, left, request, reply>>

Nobody == "nobody"

\* Mutant: the client connects before its user has typed, as network/client.c does.
ConnectedFirst == <<"connect", "type", "write", "read">>

LineFirst == <<"type", "connect", "write", "read">>

After(here) ==
    LET k == CHOOSE i \in 1 .. 4 : LineFirst[i] = here IN LineFirst[(k % 4) + 1]

Init ==
    /\ server = "accept" /\ served = Nobody /\ rxbuff = "empty" /\ queue = <<>>
    /\ place = [u \in Users |-> LineFirst[1]]
    /\ input = [u \in Users |-> "empty"] /\ left = [u \in Users |-> MaxTyped]
    /\ request = [u \in Users |-> "open"] /\ reply = [u \in Users |-> "none"]

serverVars == <<server, served, rxbuff>>
clientVars == <<place, input, left>>
wires == <<queue, request, reply>>

-----------------------------------------------------------------------------
(* client.c *)

Moves(u, here, next) == place[u] = here /\ place' = [place EXCEPT ![u] = next]

\* fgets, which leaves the buffer empty at the end of the input.
TypesLine(u) ==
    /\ Moves(u, "type", After("type")) /\ left[u] > 0
    /\ \E line \in {"line", "quit", "empty"} : input' = [input EXCEPT ![u] = line]
    /\ left' = [left EXCEPT ![u] = @ - 1]
    /\ UNCHANGED <<serverVars, wires>>

Connects(u) ==
    /\ server # "gone" /\ Moves(u, "connect", After("connect"))
    /\ queue' = Append(queue, u)
    /\ request' = [request EXCEPT ![u] = "open"] /\ reply' = [reply EXCEPT ![u] = "none"]
    /\ UNCHANGED <<serverVars, input, left>>

ConnectRefused(u) == server = "gone" /\ Moves(u, "connect", "ended")
                     /\ UNCHANGED <<serverVars, input, left, wires>>

\* The line, the end of what is sent, and after quit the end of the program.
Writes(u) ==
    /\ reply[u] # "broken"
    /\ Moves(u, "write", IF input[u] = "quit" THEN "ended" ELSE "read")
    /\ request' = [request EXCEPT ![u] = input[u]]
    /\ UNCHANGED <<serverVars, input, left, queue, reply>>

\* The reply is written to the terminal and the log, and the connection closed.
ReadsReply(u) ==
    /\ reply[u] = "input" /\ Moves(u, "read", After("read"))
    /\ UNCHANGED <<serverVars, input, left, wires>>

\* write or read fails; or read finds the end, and the search for the end of a
\* line runs out of the buffer.
Broken(u) ==
    /\ reply[u] = "broken" /\ (Moves(u, "write", "ended") \/ Moves(u, "read", "ended"))
    /\ UNCHANGED <<serverVars, input, left, wires>>

ClientProgram(u) ==
    Connects(u) \/ ConnectRefused(u) \/ Writes(u) \/ ReadsReply(u) \/ Broken(u)

\* The user interrupts the client: its connection ends with what has been sent.
Interrupted(u) ==
    /\ place[u] \in {"write", "read"} /\ Moves(u, place[u], "ended")
    /\ request' = [request EXCEPT ![u] = IF @ = "open" THEN "empty" ELSE @]
    /\ UNCHANGED <<serverVars, input, left, queue, reply>>

-----------------------------------------------------------------------------
(* server.c *)

\* What is left of connections when the server's process ends.
Ends ==
    /\ server' = "gone" /\ served' = Nobody /\ rxbuff' = "empty" /\ queue' = <<>>
    /\ reply' = [u \in Users |->
           IF u = served \/ \E i \in DOMAIN queue : queue[i] = u THEN "broken" ELSE reply[u]]
    /\ UNCHANGED <<clientVars, request>>

Accepts ==
    /\ server = "accept" /\ queue # <<>>
    /\ server' = "read" /\ served' = Head(queue) /\ queue' = Tail(queue)
    /\ UNCHANGED <<clientVars, rxbuff, request, reply>>

Reads ==
    /\ server = "read" /\ request[served] # "open"
    /\ server' = "write" /\ rxbuff' = request[served]
    /\ UNCHANGED <<clientVars, served, wires>>

\* Written and closed ...
Replies ==
    /\ server = "write"
    /\ server' = "compare"
    /\ reply' = [reply EXCEPT ![served] = "input"] /\ served' = Nobody
    /\ UNCHANGED <<clientVars, rxbuff, queue, request>>

\* ... and the loop left after quit.
Compares ==
    /\ server = "compare"
    /\ IF rxbuff = "quit" THEN Ends
       ELSE /\ server' = "accept" /\ rxbuff' = "empty"
            /\ UNCHANGED <<clientVars, served, wires>>

\* accept, read or write fails, or a signal comes.
ServerFails == server # "gone" /\ Ends

ServerProgram == Accepts \/ Reads \/ Replies \/ Compares

Next ==
    \/ ServerProgram \/ ServerFails
    \/ \E u \in Users : TypesLine(u) \/ ClientProgram(u) \/ Interrupted(u)

-----------------------------------------------------------------------------
\* Types; and nobody waits twice, nor while being served.
TypeOK ==
    /\ server \in {"accept", "read", "write", "compare", "gone"}
    /\ served \in Users \cup {Nobody} /\ rxbuff \in {"line", "quit", "empty"}
    /\ \A i, j \in DOMAIN queue : queue[i] = queue[j] => i = j
    /\ \A i \in DOMAIN queue : queue[i] \in Users \ {served}
    /\ place \in [Users -> {"type", "connect", "write", "read", "ended"}]
    /\ input \in [Users -> {"line", "quit", "empty"}] /\ left \in [Users -> 0 .. MaxTyped]
    /\ request \in [Users -> {"open", "line", "quit", "empty"}]
    /\ reply \in [Users -> {"none", "input", "broken"}]

\* Nobody who waits for an answer waits for ever, although the server deals with
\* one client only and reads without a limit of time: no client has a connection
\* while its user thinks.
NobodyHoldsTheServer == \A u \in Users : (place[u] = "read") ~> (place[u] # "read")
=============================================================================
