---------------------------- MODULE SocketsProofs ----------------------------
(***************************************************************************)
(* What the proofs about the servers need to know of the sockets: what a   *)
(* step of the clients, a read and a close leave as it was.                *)
(***************************************************************************)
EXTENDS Sockets, TLAPS, FiniteSetTheorems

USE SocketsAssumption

\* Open descriptors are counted by a number.
LEMMA OpenIsFinite ==
    ASSUME SockTypeOK PROVE IsFiniteSet(open) /\ Cardinality(open) \in Nat
  BY FS_Subset, FS_CardinalityType DEF SockTypeOK

\* Clients take nothing away: what read would return at once it still does.
LEMMA ClientStep ==
    ASSUME SockTypeOK, Connect \/ \E f \in Fd : Send(f) \/ Finish(f) \/ Reset(f)
    PROVE  /\ SockTypeOK'
           /\ open' = open /\ backlog' >= backlog
           /\ \A f \in Fd : Ready(f) => Ready(f)'
<1> USE DEF SockTypeOK, Ready
<1>1. CASE Connect
  BY <1>1, OpenIsFinite DEF Connect
<1>2. ASSUME NEW f \in Fd, Send(f)
      PROVE  /\ SockTypeOK' /\ open' = open /\ backlog' = backlog
             /\ \A g \in Fd : Ready(g) => Ready(g)'
  <2>1. rx[f] + 1 \in 0 .. MaxRx /\ rx' = [rx EXCEPT ![f] = rx[f] + 1]
    BY <1>2 DEF Send
  <2>2. rx' \in [Fd -> 0 .. MaxRx]
    BY <2>1
  <2> QED
    BY <1>2, <2>1, <2>2 DEF Send
<1>3. ASSUME NEW f \in Fd, Finish(f) \/ Reset(f)
      PROVE  /\ SockTypeOK' /\ open' = open /\ backlog' = backlog
             /\ \A g \in Fd : Ready(g) => Ready(g)'
  BY <1>3 DEF Finish, Reset
<1> QED
  BY <1>1, <1>2, <1>3

\* Nor does a read, but of its own connection.
LEMMA ReadStep ==
    ASSUME SockTypeOK, NEW f \in Fd, ReadChunk(f)
    PROVE  /\ SockTypeOK'
           /\ open' = open /\ backlog' = backlog
           /\ \A g \in Fd \ {f} : Ready(g) => Ready(g)'
<1> USE DEF SockTypeOK
<1>1. rx[f] - 1 \in 0 .. MaxRx /\ rx' = [rx EXCEPT ![f] = rx[f] - 1]
  BY DEF ReadChunk
<1>2. rx' \in [Fd -> 0 .. MaxRx]
  BY <1>1
<1> QED
  BY <1>1, <1>2 DEF ReadChunk, Ready

\* close changes nothing of the other connections.
LEMMA CloseStep ==
    ASSUME SockTypeOK, NEW f \in Fd, SysClose(f)
    PROVE  /\ SockTypeOK'
           /\ open' = open \ {f} /\ backlog' = backlog
           /\ \A g \in Fd \ {f} : Ready(g) => Ready(g)'
<1> USE DEF SockTypeOK, SysClose, Closing
<1>1. open' = open \ {f} /\ backlog' = backlog
  OBVIOUS
<1>2. rx' \in [Fd -> 0 .. MaxRx] /\ \A g \in Fd \ {f} : rx'[g] = rx[g]
  <2>1. rx' = [g \in Fd |-> IF g \in {f} THEN 0 ELSE rx[g]]
    BY Zenon
  <2> QED
    BY <2>1
<1>3. peer' \in [Fd -> {"up", "fin", "rst"}] /\ \A g \in Fd \ {f} : peer'[g] = peer[g]
  <2>1. peer' = [g \in Fd |-> IF g \in {f} THEN "up" ELSE peer[g]]
    BY Zenon
  <2> QED
    BY <2>1
<1> QED
  BY <1>1, <1>2, <1>3 DEF Ready

\* The end of the process, or of several connections at once.
LEMMA ClosingTypes ==
    ASSUME SockTypeOK, NEW F, Closing(F), backlog' \in {0, backlog}
    PROVE  SockTypeOK'
<1> USE DEF SockTypeOK
<1>1. rx' \in [Fd -> 0 .. MaxRx]
  <2>1. rx' = [g \in Fd |-> IF g \in F THEN 0 ELSE rx[g]]
    BY Zenon DEF Closing
  <2> QED
    BY <2>1
<1>2. peer' \in [Fd -> {"up", "fin", "rst"}]
  <2>1. peer' = [g \in Fd |-> IF g \in F THEN "up" ELSE peer[g]]
    BY Zenon DEF Closing
  <2> QED
    BY <2>1
<1>3. open' = open \ F
  BY Zenon DEF Closing
<1>4. open' \subseteq Fd
  BY <1>3
<1>5. backlog' \in 0 .. MaxClients
  OBVIOUS
<1> QED
  BY <1>1, <1>2, <1>4, <1>5
=============================================================================
