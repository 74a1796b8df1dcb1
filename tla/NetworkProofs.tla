---------------------------- MODULE NetworkProofs ----------------------------
(***************************************************************************)
(* Proofs about the programs of network/, for any processes, clients,      *)
(* users and lines, and any size of the server's buffer.                   *)
(***************************************************************************)
EXTENDS NetworkPrograms, TLAPS, FiniteSetTheorems, SequenceTheorems

\* The family of the fork server: a parent lives, nobody is its own, and each
\* zombie of it has its signal.
FamilyIsRight ==
    \A p \in Procs : parent[p] # None =>
      /\ parent[p] # p /\ Alive(parent[p])
      /\ pc[p] = "zombie" => sigchld[parent[p]]

\* A client waits to be accepted once, and nobody deals with it before.
QueueIsFresh ==
    /\ \A i \in DOMAIN backlog : peer[backlog[i]] # "none"
    /\ \A i, j \in DOMAIN backlog : backlog[i] = backlog[j] => i = j
    /\ \A p \in Procs, i \in DOMAIN backlog : acceptfd[p] # backlog[i]
    /\ \A p \in Procs : acceptfd[p] # None => peer[acceptfd[p]] # "none"

\* Besides OwnConnectionOnly: until it forks, the accepting process is alone.
ForkIsAlone ==
    \A p, q \in Procs : pc[p] = "fork" /\ acceptfd[p] \in holds[q] => p = q

ForkInv == TypeOK /\ FamilyIsRight /\ QueueIsFresh /\ OwnConnectionOnly /\ ForkIsAlone

\* A session; besides, what strlen finds in a buffer that has been read into is real.
Units == 1 .. Echo!Quit
SessionInv ==
    /\ Echo!TypeOK /\ Echo!EchoIsExact
    /\ child = "write" => Echo!Echo \in Seq(Units)

\* The iterative server: who waits or is served has not been answered, and is
\* not about to connect again.
WaitersWait ==
    /\ \A u \in Users :
         u = served \/ (\E i \in DOMAIN queue : queue[i] = u)
           => place[u] \in {"write", "read", "ended"} /\ reply[u] = "none"
    /\ server \in {"read", "write"} => served \in Users
IterInv == Iterative!TypeOK /\ queue \in Seq(Users) /\ WaitersWait

IInv == ForkInv /\ SessionInv /\ IterInv

USE ForkAssumption, NetworkAssumption

-----------------------------------------------------------------------------
(* The fork server *)

\* Nobody is connected and no child has been started.
LEMMA InitFork == Init => ForkInv
<1> SUFFICES ASSUME Init PROVE ForkInv
  OBVIOUS
<1> USE DEF Init
<1>1. TypeOK
  BY DEF TypeOK, Alive, Gone
<1>2. FamilyIsRight
  BY DEF FamilyIsRight
<1>3. QueueIsFresh
  BY DEF QueueIsFresh
<1>4. OwnConnectionOnly /\ ForkIsAlone
  BY DEF OwnConnectionOnly, ForkIsAlone
<1> QED
  BY <1>1, <1>2, <1>3, <1>4 DEF ForkInv

\* The child of a fork is a process that was not there.
LEMMA ForkedIsNew ==
    ASSUME Unborn # {}
    PROVE  NextChild \in Procs /\ pc[NextChild] = "unborn"
  BY DEF NextChild, Unborn

\* The head of a queue and the rest of it.
LEMMA QueueParts ==
    ASSUME NEW S, NEW s \in Seq(S), s # <<>>
    PROVE  /\ Head(s) \in S /\ Tail(s) \in Seq(S)
           /\ 1 \in DOMAIN s /\ Head(s) = s[1]
           /\ \A i \in DOMAIN Tail(s) : i + 1 \in DOMAIN s /\ Tail(s)[i] = s[i + 1] /\ i + 1 # 1
<1>1. Len(s) \in Nat /\ Len(s) >= 1 /\ DOMAIN s = 1 .. Len(s)
  BY EmptySeq, LenProperties
<1>2. Head(s) = s[1] /\ Head(s) \in S /\ Tail(s) \in Seq(S)
  BY HeadTailProperties, <1>1
<1>3. Len(Tail(s)) = Len(s) - 1 /\ \A i \in 1 .. Len(Tail(s)) : Tail(s)[i] = s[i + 1]
  BY HeadTailProperties
<1> QED
  BY <1>1, <1>2, <1>3, LenProperties

Places == Gone \cup {"accept", "fork", "close", "serve", "write", "leave"}

\* Types: one step per action.
LEMMA StepForkTypes ==
    ASSUME ForkInv, [Next]_vars
    PROVE  TypeOK'
<1> USE DEF ForkInv, TypeOK, Alive, Gone, Goto, connVars, procVars
<1>1. ASSUME NEW p \in Procs, Ends(p) PROVE TypeOK'
  <2>1. pc' \in [Procs -> Places] /\ \A q \in Procs : pc'[q] \in Gone \cup {pc[q]}
    BY <1>1 DEF Ends, Places
  <2>2. parent' \in [Procs -> Procs \cup {None}]
    BY <1>1 DEF Ends
  <2>3. sigchld' \in [Procs -> BOOLEAN]
    <3>1. sigchld' = [q \in Procs |-> q # p /\ (sigchld[q] \/ q = parent[p])]
      BY <1>1 DEF Ends
    <3>2. \A q \in Procs : (q # p /\ (sigchld[q] \/ q = parent[p])) \in BOOLEAN
      OBVIOUS
    <3> QED
      BY <3>1, <3>2, Zenon
  <2>4. holds' \in [Procs -> SUBSET Clients] /\ UNCHANGED <<acceptfd, buff, backlog, peer, rx>>
    BY <1>1 DEF Ends
  <2> QED
    BY <2>1, <2>2, <2>3, <2>4 DEF Places
<1>2. ASSUME NEW p \in Procs, ZombieClear(p) PROVE TypeOK'
  <2>1. pc' \in [Procs -> Places] /\ \A q \in Procs : pc'[q] \in Gone \cup {pc[q]}
    BY <1>2 DEF ZombieClear, Places
  <2> QED
    BY <1>2, <2>1 DEF ZombieClear, Places
<1>3. ASSUME NEW p \in Procs, Accept(p) PROVE TypeOK'
  <2>1. Head(backlog) \in Clients /\ Tail(backlog) \in Seq(Clients)
    BY <1>3, QueueParts DEF Accept
  <2> QED
    BY <1>3, <2>1 DEF Accept
<1>4. ASSUME NEW p \in Procs, Fork(p) PROVE TypeOK'
  <2>1. PICK q \in Procs : q = NextChild /\ pc[q] = "unborn"
    BY <1>4, ForkedIsNew DEF Fork
  <2> QED
    BY <1>4, <2>1 DEF Fork
<1>5. ASSUME NEW p \in Procs, ForkFails(p) \/ ReadFails(p) \/ WriteFails(p) PROVE TypeOK'
  <2>1. PICK next \in {"close", "leave"} :
          /\ pc[p] \in {"fork", "serve", "write"} /\ pc' = [pc EXCEPT ![p] = next]
          /\ UNCHANGED <<parent, sigchld, acceptfd, holds, buff, connVars>>
    BY <1>5 DEF ForkFails, ReadFails, WriteFails
  <2> QED
    BY <2>1
<1>6. ASSUME NEW p \in Procs, CloseAccepted(p) \/ Leave(p) PROVE TypeOK'
  <2>1. holds' = [holds EXCEPT ![p] = holds[p] \ {acceptfd[p]}]
    BY <1>6 DEF CloseAccepted, Leave, Closed
  <2>2. holds' \in [Procs -> SUBSET Clients]
    BY <2>1
  <2>3. CASE CloseAccepted(p)
    BY <2>2, <2>3 DEF CloseAccepted
  <2>4. CASE Leave(p)
    BY <2>2, <2>4 DEF Leave
  <2> QED
    BY <1>6, <2>3, <2>4
<1>7. ASSUME NEW p \in Procs, Read(p) PROVE TypeOK'
  <2>1. PICK c \in Clients : c = acceptfd[p]
    BY <1>7 DEF Read
  <2>2. PICK k \in 1 .. Len(rx[c]) :
          /\ rx' = [rx EXCEPT ![c] = SubSeq(rx[c], k + 1, Len(rx[c]))]
          /\ buff' = [buff EXCEPT ![p] = IF k = 1 THEN Head(rx[c]) ELSE "line"]
    BY <1>7, <2>1 DEF Read
  <2>3. rx[c] \in Seq({"line", "quit"}) /\ rx[c] # <<>>
    BY <2>2, EmptySeq
  <2>4. Head(rx[c]) \in {"line", "quit"}
    BY <2>3, HeadTailProperties
  <2>5. SubSeq(rx[c], k + 1, Len(rx[c])) \in Seq({"line", "quit"})
    BY <2>2, <2>3, LenProperties, SubSeqProperties
  <2> QED
    BY <1>7, <2>2, <2>4, <2>5 DEF Read
<1>8. ASSUME NEW p \in Procs, ReadEnd(p) PROVE TypeOK'
  BY <1>8 DEF ReadEnd
<1>9. ASSUME NEW p \in Procs, Write(p) PROVE TypeOK'
  BY <1>9 DEF Write, AfterWrite
<1>10. ASSUME Connect PROVE TypeOK'
  <2>1. PICK c \in Clients : peer' = [peer EXCEPT ![c] = "up"] /\ backlog' = Append(backlog, c)
    BY <1>10 DEF Connect, Unconnected
  <2>2. backlog' \in Seq(Clients)
    BY <2>1, AppendProperties
  <2> QED
    BY <1>10, <2>1, <2>2 DEF Connect
<1>11. ASSUME NEW c \in Clients, Send(c) PROVE TypeOK'
  <2>1. PICK line \in {"line", "quit"} : rx' = [rx EXCEPT ![c] = Append(rx[c], line)]
    BY <1>11 DEF Send
  <2>2. Append(rx[c], line) \in Seq({"line", "quit"})
    BY AppendProperties
  <2> QED
    BY <1>11, <2>1, <2>2 DEF Send
<1>12. ASSUME NEW c \in Clients, Finish(c) \/ Reset(c) PROVE TypeOK'
  <2>1. peer' \in [Clients -> {"none", "up", "fin", "rst"}]
    BY <1>12 DEF Finish, Reset
  <2>2. UNCHANGED <<pc, parent, sigchld, acceptfd, holds, buff, backlog, rx>>
    BY <1>12 DEF Finish, Reset
  <2> QED
    BY <2>1, <2>2
<1>13. ASSUME UNCHANGED vars PROVE TypeOK'
  BY <1>13 DEF vars
<1> QED
  BY <1>1, <1>2, <1>3, <1>4, <1>5, <1>6, <1>7, <1>8, <1>9, <1>10, <1>11, <1>12, <1>13
  DEF Next, Environment, Loop, Signal, Killed, AcceptInterrupted

-----------------------------------------------------------------------------
\* Families: parents live, and a zombie of a living parent has its signal.
LEMMA StepFamily ==
    ASSUME ForkInv, [Next]_vars
    PROVE  FamilyIsRight'
<1> USE DEF ForkInv, TypeOK, FamilyIsRight, Alive, Gone
<1>1. ASSUME NEW p \in Procs, Alive(p), Ends(p) PROVE FamilyIsRight'
  <2>1. /\ \A q \in Procs : pc'[q] = IF q = p THEN IF parent[p] = None THEN "reaped" ELSE "zombie"
                                     ELSE IF parent[q] = p /\ pc[q] = "zombie" THEN "reaped"
                                     ELSE pc[q]
        /\ \A q \in Procs : parent'[q] = IF parent[q] = p THEN None ELSE parent[q]
        /\ \A q \in Procs : sigchld'[q] = (q # p /\ (sigchld[q] \/ q = parent[p]))
    BY <1>1 DEF Ends, ZombiesOf
  <2>2. ASSUME NEW q \in Procs, parent'[q] # None
        PROVE  parent'[q] # q /\ Alive(parent[q])'
    BY <1>1, <2>1, <2>2
  <2>3. ASSUME NEW q \in Procs, parent'[q] # None, pc'[q] = "zombie"
        PROVE  sigchld'[parent'[q]]
    <3>1. parent[q] # p /\ parent'[q] = parent[q] /\ parent[q] \in Procs
      BY <2>1, <2>3
    <3>2. sigchld[parent[q]] \/ parent[q] = parent[p]
      BY <2>1, <2>3, <3>1
    <3> QED
      BY <2>1, <3>1, <3>2
  <2> QED
    BY <2>2, <2>3
<1>2. ASSUME NEW p \in Procs, ZombieClear(p) PROVE FamilyIsRight'
  <2>1. /\ \A q \in Procs : pc'[q] = IF parent[q] = p /\ pc[q] = "zombie" THEN "reaped"
                                     ELSE pc[q]
        /\ parent' = parent
        /\ \A q \in Procs \ {p} : sigchld'[q] = sigchld[q]
    BY <1>2 DEF ZombieClear, Cleared, ZombiesOf
  <2>2. \A q \in Procs : Alive(q) <=> Alive(q)'
    BY <2>1
  <2> QED
    BY <2>1, <2>2
<1>3. ASSUME NEW p \in Procs, Fork(p) PROVE FamilyIsRight'
  <2>1. PICK q \in Procs : q = NextChild /\ pc[q] = "unborn"
    BY <1>3, ForkedIsNew DEF Fork
  <2>2. /\ p # q /\ pc[p] = "fork" /\ pc' = [pc EXCEPT ![p] = "close", ![q] = "serve"]
        /\ parent' = [parent EXCEPT ![q] = p] /\ sigchld' = sigchld
    BY <1>3, <2>1 DEF Fork
  <2>3. \A r \in Procs : Alive(r) => Alive(r)'
    BY <2>2
  <2>4. pc'[q] # "zombie" /\ parent'[q] = p /\ Alive(p)
    BY <2>2
  <2>5. \A r \in Procs \ {q} : parent'[r] = parent[r] /\ (pc'[r] = "zombie" => pc[r] = "zombie")
    BY <2>2
  <2> QED
    BY <2>2, <2>3, <2>4, <2>5
<1>4. ASSUME NEW p \in Procs, NEW next \in Places \ Gone, Alive(p),
             pc' = [pc EXCEPT ![p] = next], UNCHANGED <<parent, sigchld>>
      PROVE  FamilyIsRight'
  BY <1>4 DEF Places
<1>5. ASSUME NEW p \in Procs, Accept(p) \/ ForkFails(p) \/ CloseAccepted(p) \/ Read(p)
                              \/ ReadEnd(p) \/ ReadFails(p) \/ WriteFails(p) \/ Leave(p)
      PROVE  FamilyIsRight'
  <2>1. /\ Alive(p) /\ UNCHANGED <<parent, sigchld>>
        /\ \E next \in {"accept", "fork", "close", "serve", "write", "leave"} :
             pc' = [pc EXCEPT ![p] = next]
    BY <1>5, Zenon
    DEF Accept, ForkFails, CloseAccepted, Read, ReadEnd, ReadFails, WriteFails, Leave, Goto
  <2> QED
    BY <2>1, <1>4 DEF Places
<1>6. ASSUME NEW p \in Procs, Write(p) PROVE FamilyIsRight'
  BY <1>4, <1>6 DEF Write, AfterWrite, Goto, Places
<1>7. CASE UNCHANGED <<pc, parent, sigchld>>
  BY <1>7
<1> QED
  BY <1>1, <1>2, <1>3, <1>5, <1>6, <1>7
  DEF Next, Environment, Loop, Signal, Killed, AcceptInterrupted, Connect, Send, Finish,
      Reset, procVars, vars

-----------------------------------------------------------------------------
\* Who waits to be accepted is new to every process.
LEMMA StepQueue ==
    ASSUME ForkInv, [Next]_vars
    PROVE  QueueIsFresh'
<1> USE DEF ForkInv, QueueIsFresh
<1>1. ASSUME NEW p \in Procs, Accept(p) PROVE QueueIsFresh'
  <2>1. /\ 1 \in DOMAIN backlog /\ Head(backlog) = backlog[1] /\ Head(backlog) \in Clients
        /\ \A i \in DOMAIN Tail(backlog) :
             i + 1 \in DOMAIN backlog /\ Tail(backlog)[i] = backlog[i + 1] /\ i + 1 # 1
    BY <1>1, QueueParts DEF Accept, TypeOK
  <2>2. /\ backlog' = Tail(backlog) /\ peer' = peer
        /\ acceptfd' = [acceptfd EXCEPT ![p] = backlog[1]]
    BY <1>1, <2>1 DEF Accept
  <2>3. \A q \in Procs : acceptfd'[q] = IF q = p THEN backlog[1] ELSE acceptfd[q]
    BY <2>2 DEF TypeOK
  <2>4. \A i, j \in DOMAIN Tail(backlog) : Tail(backlog)[i] = Tail(backlog)[j] => i = j
    <3>1. DOMAIN Tail(backlog) \subseteq Int
      BY <1>1, QueueParts, LenProperties DEF Accept, TypeOK
    <3> QED
      BY <2>1, <3>1
  <2> QED
    BY <2>1, <2>2, <2>3, <2>4
<1>2. ASSUME NEW p \in Procs, Fork(p) PROVE QueueIsFresh'
  <2>1. PICK q \in Procs : acceptfd' = [acceptfd EXCEPT ![q] = acceptfd[p]]
    BY <1>2, ForkedIsNew DEF Fork
  <2>2. \A r \in Procs : acceptfd'[r] \in {acceptfd[r], acceptfd[p]}
    BY <2>1 DEF TypeOK
  <2>3. UNCHANGED <<backlog, peer>>
    BY <1>2 DEF Fork, connVars
  <2> QED
    BY <2>2, <2>3
<1>3. ASSUME Connect PROVE QueueIsFresh'
  <2>1. PICK c \in Clients : /\ peer[c] = "none" /\ peer' = [peer EXCEPT ![c] = "up"]
                             /\ backlog' = Append(backlog, c) /\ acceptfd' = acceptfd
    BY <1>3 DEF Connect, Unconnected, procVars
  <2>2. backlog \in Seq(Clients) /\ Len(backlog) \in Nat /\ DOMAIN backlog = 1 .. Len(backlog)
        /\ \A i \in DOMAIN backlog : backlog[i] \in Clients
    BY LenProperties, ElementOfSeq DEF TypeOK
  <2>3. /\ DOMAIN backlog' = 1 .. Len(backlog) + 1
        /\ \A i \in DOMAIN backlog : backlog'[i] = backlog[i]
        /\ backlog'[Len(backlog) + 1] = c
    BY <2>1, <2>2, AppendProperties, LenProperties
  <2>4. \A d \in Clients : peer[d] # "none" => peer'[d] # "none" /\ d # c
    BY <2>1 DEF TypeOK
  <2>5. \A i \in DOMAIN backlog : backlog[i] # c
    BY <2>1
  <2>6. peer'[c] # "none"
    BY <2>1 DEF TypeOK
  <2>7. \A i \in DOMAIN backlog' : i \in DOMAIN backlog \/ (i = Len(backlog) + 1 /\ backlog'[i] = c)
    BY <2>2, <2>3
  <2>8. \A i \in DOMAIN backlog' : peer'[backlog'[i]] # "none"
    BY <2>2, <2>3, <2>4, <2>6, <2>7
  <2>9. \A i, j \in DOMAIN backlog' : backlog'[i] = backlog'[j] => i = j
    BY <2>3, <2>5, <2>7
  <2>10. \A p \in Procs : acceptfd[p] # c
    BY <2>1 DEF TypeOK
  <2>11. \A p \in Procs, i \in DOMAIN backlog' : acceptfd'[p] # backlog'[i]
    BY <2>1, <2>3, <2>7, <2>10
  <2>12. \A p \in Procs : acceptfd'[p] # None => peer'[acceptfd'[p]] # "none"
    BY <2>1, <2>4 DEF TypeOK
  <2> QED
    BY <2>8, <2>9, <2>11, <2>12
<1>4. ASSUME NEW c \in Clients, Finish(c) \/ Reset(c) PROVE QueueIsFresh'
  <2>1. \A d \in Clients : peer[d] # "none" => peer'[d] # "none"
    BY <1>4 DEF Finish, Reset, TypeOK
  <2>2. UNCHANGED <<backlog, acceptfd>>
    BY <1>4 DEF Finish, Reset, procVars
  <2>3. \A i \in DOMAIN backlog : backlog[i] \in Clients
    BY LenProperties, ElementOfSeq DEF TypeOK
  <2> QED
    BY <2>1, <2>2, <2>3 DEF TypeOK
<1>5. CASE UNCHANGED <<backlog, peer, acceptfd>>
  BY <1>5
<1> QED
  BY <1>1, <1>2, <1>3, <1>4, <1>5
  DEF Next, Environment, Loop, Signal, Killed, AcceptInterrupted, Ends, ZombieClear, Send,
      ForkFails, CloseAccepted, Read, ReadEnd, ReadFails, Write, WriteFails, Leave,
      procVars, connVars, vars

-----------------------------------------------------------------------------
\* Descriptors: one step per action that opens, hands on or closes one.
LEMMA StepOwn ==
    ASSUME ForkInv, [Next]_vars
    PROVE  OwnConnectionOnly' /\ ForkIsAlone'
<1> USE DEF ForkInv, OwnConnectionOnly, ForkIsAlone, Goto
<1> DEFINE Owned == OwnConnectionOnly' /\ ForkIsAlone'
<1>pc. pc \in [Procs -> Places] /\ parent \in [Procs -> Procs \cup {None}]
       /\ holds \in [Procs -> SUBSET Clients] /\ acceptfd \in [Procs -> Clients \cup {None}]
  BY DEF TypeOK, Places
<1>1. ASSUME NEW p \in Procs, Ends(p) PROVE Owned
  <2>1. /\ \A q \in Procs : pc'[q] = pc[q] \/ pc'[q] \in Gone
        /\ \A q \in Procs \ {p} : pc[q] = "close" => pc'[q] = "close"
        /\ \A q \in Procs : parent[q] # p => parent'[q] = parent[q]
        /\ acceptfd' = acceptfd
        /\ holds'[p] = {} /\ \A q \in Procs \ {p} : holds'[q] = holds[q]
    BY <1>1, <1>pc DEF Ends, ZombiesOf, Gone
  <2> QED
    BY <2>1 DEF Gone
<1>2. ASSUME NEW p \in Procs, ZombieClear(p) PROVE Owned
  <2>1. /\ \A q \in Procs : pc'[q] = pc[q] \/ pc'[q] \in Gone
        /\ \A q \in Procs : pc[q] = "close" => pc'[q] = "close"
        /\ UNCHANGED <<parent, acceptfd, holds>>
    BY <1>2 DEF ZombieClear, Cleared, ZombiesOf, Gone
  <2> QED
    BY <2>1 DEF Gone
<1>3. ASSUME NEW p \in Procs, Accept(p) PROVE Owned
  <2>1. PICK c \in Clients : c = Head(backlog) /\ \A q \in Procs : acceptfd[q] # c
    BY <1>3, QueueParts DEF Accept, TypeOK, QueueIsFresh
  <2>2. /\ pc[p] = "accept" /\ holds[p] = {} /\ parent' = parent
        /\ pc' = [pc EXCEPT ![p] = "fork"]
        /\ acceptfd' = [acceptfd EXCEPT ![p] = c]
        /\ holds' = [holds EXCEPT ![p] = {c}]
    <3>1. pc[p] = "accept" /\ holds' = [holds EXCEPT ![p] = holds[p] \cup {c}]
      BY <1>3, <2>1 DEF Accept
    <3>2. holds[p] = {}
      BY <3>1
    <3>3. holds[p] \cup {c} = {c}
      BY <3>2
    <3> QED
      BY <1>3, <2>1, <3>1, <3>2, <3>3 DEF Accept
  <2>3. \A q \in Procs : c \notin holds[q]
    BY <2>1
  <2> QED
    BY <2>1, <2>2, <2>3, <1>pc
<1>4. ASSUME NEW p \in Procs, Fork(p) PROVE Owned
  <2>1. PICK q \in Procs : q = NextChild /\ pc[q] = "unborn"
    BY <1>4, ForkedIsNew DEF Fork
  <2>2. /\ pc[p] = "fork" /\ p # q
        /\ pc' = [pc EXCEPT ![p] = "close", ![q] = "serve"]
        /\ parent' = [parent EXCEPT ![q] = p]
        /\ acceptfd' = [acceptfd EXCEPT ![q] = acceptfd[p]]
        /\ holds' = [holds EXCEPT ![q] = holds[p]]
    BY <1>4, <2>1 DEF Fork
  <2>3. \A r \in Procs : acceptfd[p] \in holds[r] => r = p
    BY <2>2
  <2>4. ASSUME NEW r \in Procs, pc[r] \in {"serve", "write", "leave", "fork"}, r # p
        PROVE  acceptfd[r] \notin holds[p]
    BY <2>2, <2>4
  <2> QED
    BY <2>2, <2>3, <2>4, <1>pc
<1>5. ASSUME NEW p \in Procs, pc[p] \in {"close", "leave"}, NEW next \in {"accept", "close"},
             pc' = [pc EXCEPT ![p] = next],
             holds' = [holds EXCEPT ![p] = holds[p] \ {acceptfd[p]}],
             UNCHANGED <<parent, acceptfd>>
      PROVE  Owned
  <2>1. holds'[p] = {} /\ \A q \in Procs \ {p} : holds'[q] = holds[q]
    BY <1>5, <1>pc
  <2> QED
    BY <1>5, <2>1, <1>pc
<1>6. ASSUME NEW p \in Procs, CloseAccepted(p) \/ Leave(p) PROVE Owned
  BY <1>5, <1>6 DEF CloseAccepted, Leave, Closed
<1>7. ASSUME NEW p \in Procs, ForkFails(p) PROVE Owned
  BY <1>7, <1>pc DEF ForkFails
<1>8. ASSUME NEW p \in Procs, pc[p] \in {"serve", "write"},
             NEW next \in {"serve", "write", "leave"}, pc' = [pc EXCEPT ![p] = next],
             UNCHANGED <<parent, acceptfd, holds>>
      PROVE  Owned
  BY <1>8, <1>pc
<1>9. ASSUME NEW p \in Procs, Read(p) \/ ReadEnd(p) \/ ReadFails(p) \/ Write(p) \/ WriteFails(p)
      PROVE  Owned
  <2>1. /\ pc[p] \in {"serve", "write"} /\ UNCHANGED <<parent, acceptfd, holds>>
        /\ \E next \in {"serve", "write", "leave"} : pc' = [pc EXCEPT ![p] = next]
    BY <1>9 DEF Read, ReadEnd, ReadFails, Write, WriteFails, AfterWrite
  <2> QED
    BY <1>8, <2>1
<1>10. CASE UNCHANGED <<pc, parent, acceptfd, holds>>
  BY <1>10
<1> QED
  BY <1>1, <1>2, <1>3, <1>4, <1>6, <1>7, <1>9, <1>10
  DEF Next, Environment, Loop, Signal, Killed, AcceptInterrupted, Connect, Send, Finish,
      Reset, procVars, vars

\* The fork server and its clients: one step per actor.
LEMMA StepFork == ASSUME ForkInv, [Next]_vars PROVE ForkInv'
  BY StepForkTypes, StepFamily, StepQueue, StepOwn DEF ForkInv

-----------------------------------------------------------------------------
(* A session with the client of the repository *)

\* A buffer cleared before k units were read into it holds just these.
LEMMA PrefixIsFound ==
    ASSUME Echo!TypeOK', NEW s \in Seq(Units), NEW k \in 0 .. W, k <= Len(s),
           piece' = [i \in 1 .. W |-> IF i <= k THEN s[i] ELSE 0]
    PROVE  Echo!Echo' = SubSeq(s, 1, k) /\ Echo!Echo' \in Seq(Units)
<1>1. /\ \A i \in 1 .. k : piece'[i] = s[i] /\ s[i] \in Units /\ s[i] # 0
      /\ \A i \in k + 1 .. W : piece'[i] = 0
  BY LenProperties DEF Units, Echo!Quit
<1>2. ASSUME NEW n \in 0 .. W,
             (\A i \in 1 .. n : piece'[i] # 0) /\ (n < W => piece'[n + 1] = 0)
      PROVE  n = k
  <2>1. ASSUME n < k PROVE FALSE
    <3>1. n + 1 \in 1 .. k /\ n < W
      BY <2>1
    <3>2. piece'[n + 1] = 0 /\ piece'[n + 1] # 0
      BY <1>1, <1>2, <3>1
    <3> QED
      BY <3>2
  <2>2. ASSUME n > k PROVE FALSE
    <3>1. k + 1 \in 1 .. n /\ k + 1 \in k + 1 .. W
      BY <2>2
    <3>2. piece'[k + 1] = 0 /\ piece'[k + 1] # 0
      BY <1>1, <1>2, <3>1
    <3> QED
      BY <3>2
  <2> QED
    BY <2>1, <2>2
<1>3. Echo!Strlen' = k
  <2> DEFINE Found(n) == (\A i \in 1 .. n : piece'[i] # 0) /\ (n < W => piece'[n + 1] = 0)
  <2>1. Found(k)
    <3>1. \A i \in 1 .. k : piece'[i] # 0
      BY <1>1
    <3>2. ASSUME k < W PROVE piece'[k + 1] = 0
      <4>1. k + 1 \in k + 1 .. W
        BY <3>2
      <4> QED
        BY <1>1, <4>1
    <3> QED
      BY <3>1, <3>2
  <2>2. \A n \in 0 .. W : Found(n) => n = k
    BY <1>2
  <2>3. Echo!Strlen' = CHOOSE n \in 0 .. W : Found(n)
    BY DEF Echo!Strlen
  <2> HIDE DEF Found
  <2> QED
    BY <2>1, <2>2, <2>3
<1>4. piece' \in Seq(0 .. Echo!Quit) /\ Len(piece') = W
  BY DEF Echo!TypeOK
<1>5. /\ SubSeq(s, 1, k) \in Seq(Units) /\ Len(SubSeq(s, 1, k)) = k
      /\ \A i \in 1 .. k : SubSeq(s, 1, k)[i] = s[i]
  BY LenProperties, SubSeqProperties
<1>6. /\ SubSeq(piece', 1, k) \in Seq(0 .. Echo!Quit) /\ Len(SubSeq(piece', 1, k)) = k
      /\ \A i \in 1 .. k : SubSeq(piece', 1, k)[i] = piece'[i]
  BY <1>4, LenProperties, SubSeqProperties
<1>7. SubSeq(s, 1, k) \in Seq(0 .. Echo!Quit)
  BY <1>5, SeqMonotonic DEF Units
<1>8. SubSeq(piece', 1, k) = SubSeq(s, 1, k)
  BY <1>1, <1>5, <1>6, <1>7, SeqEqual
<1> QED
  BY <1>3, <1>5, <1>8 DEF Echo!Echo

\* The first session begins with nothing read.
LEMMA InitSession == Echo!Init => SessionInv
<1> SUFFICES ASSUME Echo!Init PROVE SessionInv
  OBVIOUS
<1>1. <<>> \in Seq(Units) /\ <<>> \o <<>> = <<>>
  BY EmptySeq, ConcatEmptySeq
<1>2. Echo!TypeOK
  BY <1>1 DEF Echo!Init, Echo!TypeOK, Echo!Blank, Units, Echo!Quit
<1>3. Echo!EchoIsExact
  BY <1>1 DEF Echo!Init, Echo!EchoIsExact
<1> QED
  BY <1>2, <1>3 DEF SessionInv, Echo!Init

\* Pieces in a row are one.
LEMMA InARow == \A r, s \in Seq(Units) : r \o s \in Seq(Units)
  BY ConcatProperties

\* From either end: how they are bracketed does not matter.
LEMMA FromEitherEnd ==
    ASSUME NEW r \in Seq(Units), NEW s \in Seq(Units), NEW t \in Seq(Units)
    PROVE  r \o s \o t = r \o (s \o t)
  BY ConcatAssociative

\* Nothing is lost, doubled or swapped between the line typed and the screen: one
\* step per action.
LEMMA StepSession ==
    ASSUME SessionInv, [Echo!Next]_session
    PROVE  SessionInv'
<1> DEFINE written == IF child = "write" THEN Echo!Echo ELSE <<>>
<1>t. /\ typed \in Seq(Units) /\ toServer \in Seq(Units) /\ toClient \in Seq(Units)
      /\ sent \in Seq(Units) /\ shown \in Seq(Units) /\ piece \in [1 .. W -> 0 .. Echo!Quit]
      /\ cli \in {"type", "write", "read", "ended"} /\ child \in {"read", "write", "gone"}
  BY DEF SessionInv, Echo!TypeOK, Units
<1>e. <<>> \in Seq(Units)
  BY EmptySeq
<1>w. written \in Seq(Units)
  BY <1>e DEF SessionInv
<1>x. child # "gone" => shown \o toClient \o written \o toServer = sent
  BY DEF SessionInv, Echo!EchoIsExact
<1>1. ASSUME Echo!TypeLine PROVE SessionInv'
  <2>1. typed' \in Seq(Units)
    <3>1. ASSUME NEW n \in 0 .. MaxUnits - Len(sent), typed' = [i \in 1 .. n |-> Len(sent) + i]
          PROVE  typed' \in Seq(Units)
      <4>1. Len(sent) \in Nat /\ n \in Nat /\ \A i \in 1 .. n : Len(sent) + i \in Units
        BY <1>t, LenProperties DEF Units, Echo!Quit
      <4>2. typed' \in [1 .. n -> Units]
        BY <3>1, <4>1
      <4> QED
        BY <4>1, <4>2
    <3>2. CASE typed' = <<Echo!Quit>>
      <4>1. Echo!Quit \in Units
        BY DEF Units, Echo!Quit
      <4> QED
        BY <3>2, <4>1
    <3> QED
      BY <1>1, <3>1, <3>2 DEF Echo!TypeLine
  <2>2. UNCHANGED <<toServer, toClient, child, piece, sent, shown>> /\ cli' = "write"
    BY <1>1 DEF Echo!TypeLine
  <2> QED
    BY <1>t, <2>1, <2>2
    DEF SessionInv, Echo!TypeOK, Echo!EchoIsExact, Echo!Echo, Echo!Strlen, Units
<1>2. ASSUME Echo!WriteLine PROVE SessionInv'
  <2>1. /\ toServer' = toServer \o typed /\ sent' = sent \o typed /\ child # "gone"
        /\ UNCHANGED <<typed, toClient, child, piece, shown>>
        /\ cli' \in {"ended", "read"}
    BY <1>2 DEF Echo!WriteLine
  <2>2. toServer' \in Seq(Units) /\ sent' \in Seq(Units)
    BY <1>t, <2>1, InARow
  <2>3. written' = written
    BY <2>1 DEF Echo!Echo, Echo!Strlen
  <2>4. shown \o toClient \o written \in Seq(Units)
    BY <1>t, <1>w, InARow
  <2>5. shown \o toClient \o written \o (toServer \o typed) = sent \o typed
    <3> HIDE DEF written
    <3>1. shown \o toClient \o written \o (toServer \o typed)
            = shown \o toClient \o written \o toServer \o typed
      <4>1. toServer \in Seq(Units) /\ typed \in Seq(Units)
        BY <1>t
      <4> QED
        BY <4>1, <2>4, FromEitherEnd, Zenon
    <3> QED
      BY <1>x, <2>1, <3>1
  <2>6. Echo!EchoIsExact'
    BY <2>1, <2>3, <2>5 DEF Echo!EchoIsExact
  <2> QED
    BY <1>t, <2>1, <2>2, <2>6 DEF SessionInv, Echo!TypeOK, Echo!Echo, Echo!Strlen, Units
<1>3. ASSUME Echo!ReadEcho PROVE SessionInv'
  <2>1. /\ shown' = shown \o toClient /\ toClient' = <<>> /\ cli' = "type"
        /\ UNCHANGED <<typed, toServer, child, piece, sent>>
    BY <1>3 DEF Echo!ReadEcho
  <2>2. shown' \in Seq(Units) /\ shown' \o toClient' = shown \o toClient
    BY <1>t, <2>1, InARow
  <2>3. written' = written
    BY <2>1 DEF Echo!Echo, Echo!Strlen
  <2>4. Echo!EchoIsExact'
    BY <1>x, <2>1, <2>2, <2>3 DEF Echo!EchoIsExact
  <2> QED
    BY <1>t, <1>e, <2>1, <2>2, <2>4 DEF SessionInv, Echo!TypeOK, Echo!Echo, Echo!Strlen, Units
<1>4. ASSUME Echo!ChildRead PROVE SessionInv'
  <2>1. PICK k \in 1 .. W :
          /\ k <= Len(toServer)
          /\ piece' = [i \in 1 .. W |-> IF i <= k THEN toServer[i] ELSE 0]
          /\ toServer' = SubSeq(toServer, k + 1, Len(toServer))
    BY <1>4 DEF Echo!ChildRead, Echo!Cleared, Echo!Blank
  <2>2. child = "read" /\ child' = "write" /\ UNCHANGED <<cli, typed, toClient, sent, shown>>
    BY <1>4 DEF Echo!ChildRead
  <2>3. /\ SubSeq(toServer, 1, k) \in Seq(Units) /\ toServer' \in Seq(Units)
        /\ SubSeq(toServer, 1, k) \o toServer' = toServer
    <3>1. Len(toServer) \in Nat /\ \A i \in 1 .. Len(toServer) : toServer[i] \in Units
      BY <1>t, LenProperties
    <3>2. SubSeq(toServer, 1, k) \in Seq(Units)
      BY <2>1, <3>1, SubSeqProperties
    <3>3. toServer' \in Seq(Units)
      BY <2>1, <3>1, SubSeqProperties
    <3>4. SubSeq(toServer, 1, k) \o SubSeq(toServer, k + 1, Len(toServer))
            = SubSeq(toServer, 1, Len(toServer))
      BY <1>t, <2>1, <3>1, ConcatAdjacentSubSeq
    <3> QED
      BY <1>t, <2>1, <3>2, <3>3, <3>4, SubSeqFull
  <2>4. piece' \in [1 .. W -> 0 .. Echo!Quit]
    <3>1. \A i \in 1 .. k : toServer[i] \in 0 .. Echo!Quit
      <4>1. Len(toServer) \in Nat /\ \A i \in 1 .. Len(toServer) : toServer[i] \in Units
        BY <1>t, LenProperties
      <4>2. Units \subseteq 0 .. Echo!Quit
        BY DEF Units
      <4>3. k \in Nat /\ k <= Len(toServer)
        BY <2>1
      <4>4. \A i \in 1 .. k : i \in 1 .. Len(toServer)
        BY <4>1, <4>3
      <4> QED
        BY <4>1, <4>2, <4>4, Zenon
    <3>2. 0 \in 0 .. Echo!Quit
      BY DEF Echo!Quit
    <3> QED
      BY <2>1, <3>1, <3>2
  <2>5. Echo!TypeOK'
    BY <1>t, <2>2, <2>3, <2>4 DEF Echo!TypeOK, Units
  <2>6. Echo!Echo' = SubSeq(toServer, 1, k)
    BY <1>t, <2>1, <2>5, PrefixIsFound
  <2>7. shown \o toClient \o Echo!Echo' \o toServer' = shown \o toClient \o toServer
    <3>1. shown \o toClient \in Seq(Units)
      BY <1>t, InARow, Zenon
    <3>2. shown \o toClient \o SubSeq(toServer, 1, k) \o toServer'
            = shown \o toClient \o (SubSeq(toServer, 1, k) \o toServer')
      BY <2>3, <3>1, FromEitherEnd, Zenon
    <3> QED
      BY <2>3, <2>6, <3>2
  <2>8. shown \o toClient \o toServer = sent
    BY <1>t, <1>x, <2>2, InARow
  <2>9. Echo!EchoIsExact'
    BY <2>2, <2>7, <2>8 DEF Echo!EchoIsExact
  <2> QED
    BY <2>3, <2>5, <2>6, <2>9 DEF SessionInv
<1>5. ASSUME Echo!ChildReadsEnd PROVE SessionInv'
  <2>1. /\ piece' = [i \in 1 .. W |-> IF i <= 0 THEN toServer[i] ELSE 0]
        /\ toServer = <<>> /\ child = "read" /\ child' = "write"
        /\ UNCHANGED <<cli, typed, toServer, toClient, sent, shown>>
    BY <1>5 DEF Echo!ChildReadsEnd, Echo!Cleared, Echo!Blank
  <2>2. Echo!TypeOK'
    BY <1>t, <2>1 DEF Echo!TypeOK, Units, Echo!Quit
  <2>3. Len(toServer) \in Nat
    BY <1>t, LenProperties
  <2>4. Echo!Echo' = <<>> /\ Echo!Echo' \in Seq(Units)
    BY <1>t, <2>1, <2>2, <2>3, PrefixIsFound, SubSeqEmpty
  <2>5. Echo!EchoIsExact'
    BY <1>x, <2>1, <2>4 DEF Echo!EchoIsExact
  <2> QED
    BY <2>2, <2>4, <2>5 DEF SessionInv
<1>6. ASSUME Echo!ChildWrite PROVE SessionInv'
  <2>1. /\ child = "write" /\ child' \in {"gone", "read"} /\ toClient' = toClient \o Echo!Echo
        /\ UNCHANGED <<cli, typed, toServer, piece, sent, shown>>
    BY <1>6 DEF Echo!ChildWrite
  <2>2. /\ written = Echo!Echo /\ toClient' \in Seq(Units)
        /\ shown \o toClient' = shown \o toClient \o written
        /\ shown \o toClient' \in Seq(Units)
    <3>1. written = Echo!Echo
      BY <2>1
    <3>2. toClient' = toClient \o written
      BY <2>1, <3>1
    <3> HIDE DEF written
    <3>3. /\ toClient \o written \in Seq(Units)
          /\ shown \o (toClient \o written) = shown \o toClient \o written
          /\ shown \o toClient \o written \in Seq(Units)
      <4>1. toClient \o written \in Seq(Units) /\ shown \o toClient \in Seq(Units)
        BY <1>t, <1>w, InARow
      <4>2. shown \o toClient \o written \in Seq(Units)
        BY <1>w, <4>1, InARow
      <4>3. shown \in Seq(Units) /\ toClient \in Seq(Units)
        BY <1>t
      <4>4. shown \o toClient \o written = shown \o (toClient \o written)
        <5>1. \A r, t \in Seq(Units) : shown \o r \o t = shown \o (r \o t)
          BY <4>3, FromEitherEnd, Zenon
        <5>2. \A t \in Seq(Units) : shown \o toClient \o t = shown \o (toClient \o t)
          BY <4>3, <5>1, Zenon
        <5> QED
          BY <1>w, <5>2, Zenon
      <4> QED
        BY <4>1, <4>2, <4>4
    <3> QED
      BY <3>1, <3>2, <3>3
  <2>3. shown \o toClient' \o <<>> \o toServer = sent
    BY <1>x, <2>1, <2>2, ConcatEmptySeq
  <2>4. Echo!EchoIsExact'
    BY <2>1, <2>3 DEF Echo!EchoIsExact
  <2> QED
    BY <1>t, <2>1, <2>2, <2>4 DEF SessionInv, Echo!TypeOK, Units
<1>7. CASE \/ Echo!WriteFails \/ Echo!ReadNothing \/ Echo!ChildFails \/ Echo!ChildKilled
           \/ UNCHANGED session
  <2>1. /\ UNCHANGED <<typed, toServer, toClient, piece, sent, shown>>
        /\ child' \in {child, "gone"} /\ cli' \in {cli, "ended", "type"}
    BY <1>7
    DEF Echo!WriteFails, Echo!ReadNothing, Echo!ChildFails, Echo!ChildKilled, session
  <2> QED
    BY <1>t, <2>1
    DEF SessionInv, Echo!TypeOK, Echo!EchoIsExact, Echo!Echo, Echo!Strlen, Units
<1> QED
  BY <1>1, <1>2, <1>3, <1>4, <1>5, <1>6, <1>7 DEF Echo!Next, Echo!ClientStep, Echo!ChildStep

-----------------------------------------------------------------------------
(* The iterative server with its clients *)

\* The order in which a client goes about a line.
LEMMA AfterIsNext ==
    /\ Iterative!After("type") = "connect" /\ Iterative!After("connect") = "write"
    /\ Iterative!After("read") = "type"
<1> DEFINE at(here) == CHOOSE i \in 1 .. 4 : Iterative!LineFirst[i] = here
<1>1. at("type") = 1 /\ at("connect") = 2 /\ at("read") = 4
  BY DEF Iterative!LineFirst
<1>2. 1 % 4 = 1 /\ 2 % 4 = 2 /\ 4 % 4 = 0
  OBVIOUS
<1>3. \A here : Iterative!After(here) = Iterative!LineFirst[(at(here) % 4) + 1]
  BY DEF Iterative!After
<1> HIDE DEF at
<1> QED
  BY <1>1, <1>2, <1>3 DEF Iterative!LineFirst

\* The iterative server begins with no connection.
LEMMA InitIter == Iterative!Init => IterInv
<1> SUFFICES ASSUME Iterative!Init PROVE IterInv
  OBVIOUS
<1>1. queue \in Seq(Users) /\ DOMAIN queue = {}
  BY EmptySeq DEF Iterative!Init
<1>2. Iterative!TypeOK
  BY <1>1 DEF Iterative!Init, Iterative!TypeOK, Iterative!LineFirst, Iterative!Nobody
<1>3. WaitersWait
  BY <1>1 DEF Iterative!Init, WaitersWait, Iterative!Nobody
<1> QED
  BY <1>1, <1>2, <1>3 DEF IterInv

\* Nobody waits twice, nor while being served or before the last answer has been
\* read: one step per action.
LEMMA StepIter ==
    ASSUME IterInv, [Iterative!Next]_service
    PROVE  IterInv'
<1> DEFINE Waiting(u) == u = served \/ \E i \in DOMAIN queue : queue[i] = u
<1> USE DEF IterInv, Iterative!TypeOK, Iterative!Nobody
<1>1. ASSUME NEW u \in Users, Iterative!TypesLine(u) PROVE IterInv'
  BY <1>1, AfterIsNext
  DEF Iterative!TypesLine, Iterative!Moves, Iterative!serverVars, Iterative!wires, WaitersWait
<1>2. ASSUME NEW u \in Users, Iterative!Connects(u) PROVE IterInv'
  <2>1. /\ server # "gone" /\ place[u] = "connect" /\ queue' = Append(queue, u)
        /\ place' = [place EXCEPT ![u] = "write"]
        /\ request' = [request EXCEPT ![u] = "open"] /\ reply' = [reply EXCEPT ![u] = "none"]
        /\ UNCHANGED <<server, served, rxbuff, input, left>>
    BY <1>2, AfterIsNext DEF Iterative!Connects, Iterative!Moves, Iterative!serverVars
  <2>2. ~ Waiting(u)
    BY <2>1 DEF WaitersWait
  <2>3. /\ queue' \in Seq(Users) /\ Len(queue) \in Nat /\ Len(queue') = Len(queue) + 1
        /\ DOMAIN queue = 1 .. Len(queue) /\ DOMAIN queue' = 1 .. Len(queue')
        /\ \A i \in 1 .. Len(queue) : queue'[i] = queue[i]
        /\ queue'[Len(queue) + 1] = u
    BY <2>1, AppendProperties, LenProperties
  <2>4. \A i \in DOMAIN queue' :
          \/ i \in DOMAIN queue /\ queue'[i] = queue[i]
          \/ i \notin DOMAIN queue /\ i = Len(queue) + 1 /\ queue'[i] = u
    BY <2>3
  <2>5. /\ \A i, j \in DOMAIN queue' : queue'[i] = queue'[j] => i = j
        /\ \A i \in DOMAIN queue' : queue'[i] \in Users \ {served'}
    BY <2>1, <2>2, <2>4
  <2>6. WaitersWait'
    BY <2>1, <2>4 DEF WaitersWait
  <2> QED
    BY <2>1, <2>3, <2>5, <2>6
<1>3. ASSUME NEW u \in Users,
             \/ Iterative!ConnectRefused(u) \/ Iterative!Writes(u)
             \/ Iterative!Broken(u) \/ Iterative!Interrupted(u)
      PROVE  IterInv'
  <2>1. UNCHANGED <<server, served, rxbuff, input, left, queue, reply>>
    BY <1>3
    DEF Iterative!ConnectRefused, Iterative!Writes, Iterative!Broken, Iterative!Interrupted,
        Iterative!serverVars, Iterative!wires
  <2>2. /\ request' \in [Users -> {"open", "line", "quit", "empty"}]
        /\ \E next \in {"write", "read", "ended"} : place' = [place EXCEPT ![u] = next]
    BY <1>3
    DEF Iterative!ConnectRefused, Iterative!Writes, Iterative!Broken, Iterative!Interrupted,
        Iterative!Moves, Iterative!wires
  <2> QED
    BY <2>1, <2>2 DEF WaitersWait
<1>4. ASSUME NEW u \in Users, Iterative!ReadsReply(u) PROVE IterInv'
  <2>1. /\ reply[u] = "input" /\ place' = [place EXCEPT ![u] = "type"]
        /\ UNCHANGED <<server, served, rxbuff, input, left, queue, request, reply>>
    BY <1>4, AfterIsNext
    DEF Iterative!ReadsReply, Iterative!Moves, Iterative!serverVars, Iterative!wires
  <2>2. ~ Waiting(u)
    BY <2>1 DEF WaitersWait
  <2> QED
    BY <2>1, <2>2 DEF WaitersWait
<1>5. ASSUME Iterative!Ends PROVE IterInv'
  <2>1. /\ server' = "gone" /\ served' = "nobody" /\ rxbuff' = "empty" /\ queue' = <<>>
        /\ reply' \in [Users -> {"none", "input", "broken"}]
        /\ UNCHANGED <<place, input, left, request>>
    BY <1>5 DEF Iterative!Ends, Iterative!clientVars
  <2>2. queue' \in Seq(Users) /\ DOMAIN queue' = {}
    BY <2>1, EmptySeq
  <2> QED
    BY <2>1, <2>2 DEF WaitersWait
<1>6. ASSUME Iterative!Accepts PROVE IterInv'
  <2>1. /\ queue # <<>> /\ server' = "read" /\ served' = Head(queue) /\ queue' = Tail(queue)
        /\ UNCHANGED <<rxbuff, place, input, left, request, reply>>
    BY <1>6 DEF Iterative!Accepts, Iterative!clientVars
  <2>2. /\ Head(queue) \in Users /\ Tail(queue) \in Seq(Users)
        /\ 1 \in DOMAIN queue /\ Head(queue) = queue[1]
        /\ \A i \in DOMAIN Tail(queue) :
             i + 1 \in DOMAIN queue /\ Tail(queue)[i] = queue[i + 1] /\ i + 1 # 1
    BY <2>1, QueueParts
  <2>3. /\ \A i, j \in DOMAIN queue' : queue'[i] = queue'[j] => i = j
        /\ \A i \in DOMAIN queue' : queue'[i] \in Users \ {served'}
    <3>1. \A i, j \in DOMAIN queue' : i + 1 = j + 1 => i = j
      BY <2>1, <2>2, LenProperties
    <3> QED
      BY <2>1, <2>2, <3>1
  <2>4. WaitersWait'
    BY <2>1, <2>2 DEF WaitersWait
  <2> QED
    BY <2>1, <2>2, <2>3, <2>4
<1>7. ASSUME Iterative!Reads PROVE IterInv'
  BY <1>7
  DEF Iterative!Reads, Iterative!clientVars, Iterative!wires, WaitersWait
<1>8. ASSUME Iterative!Replies PROVE IterInv'
  <2>1. /\ served \in Users /\ server' = "compare" /\ served' = "nobody"
        /\ reply' = [reply EXCEPT ![served] = "input"]
        /\ UNCHANGED <<rxbuff, queue, place, input, left, request>>
    BY <1>8 DEF Iterative!Replies, Iterative!clientVars, WaitersWait
  <2> QED
    BY <2>1 DEF WaitersWait
<1>9. ASSUME Iterative!Compares PROVE IterInv'
  <2>1. CASE Iterative!Ends
    BY <1>5, <2>1
  <2>2. CASE /\ server' = "accept" /\ rxbuff' = "empty"
             /\ UNCHANGED <<place, input, left, served, queue, request, reply>>
    BY <2>2 DEF WaitersWait
  <2> QED
    BY <1>9, <2>1, <2>2 DEF Iterative!Compares, Iterative!clientVars, Iterative!wires
<1>10. CASE UNCHANGED service
  BY <1>10 DEF service, WaitersWait
<1> QED
  BY <1>1, <1>2, <1>3, <1>4, <1>5, <1>6, <1>7, <1>8, <1>9, <1>10
  DEF Iterative!Next, Iterative!ServerProgram, Iterative!ServerFails, Iterative!ClientProgram

-----------------------------------------------------------------------------
(* Together *)

\* What each system keeps is kept: the two that do not run stand still.
LEMMA IInvInvariant == NetSpec => []IInv
<1>1. NetInit => IInv
  BY InitFork, InitSession, InitIter DEF NetInit, IInv
<1>2. IInv /\ [NetNext]_netVars => IInv'
  <2> SUFFICES ASSUME IInv, [NetNext]_netVars PROVE IInv'
    OBVIOUS
  <2>1. [Next]_vars /\ [Echo!Next]_session /\ [Iterative!Next]_service
    BY DEF NetNext, InFork, InSession, InIterative, netVars
  <2> QED
    BY <2>1, StepFork, StepSession, StepIter DEF IInv
<1> QED
  BY <1>1, <1>2, PTL DEF NetSpec

\* The family is right, so no zombie is forgotten: whatever children of server.c end at
\* the same time, their parent has a signal coming that clears every one of them.
THEOREM NetworkNoZombieForgotten == NetSpec => []NoZombieForgotten
<1>1. IInv => NoZombieForgotten
  BY DEF IInv, ForkInv, TypeOK, FamilyIsRight, NoZombieForgotten, ZombiesOf, Alive, Gone
<1> QED
  BY <1>1, IInvInvariant, PTL

\* A process of server.c has the connection it serves and no other, and every variable of
\* the three systems has its type.
THEOREM NetworkConnectionsAreOwned == NetSpec => []ConnectionsAreOwned
<1>1. IInv => ConnectionsAreOwned
  BY DEF IInv, ForkInv, SessionInv, IterInv, ConnectionsAreOwned, NetTypeOK
<1> QED
  BY <1>1, IInvInvariant, PTL

\* The user of network/client.c sees what was typed, although client and child get out of
\* step and lines come in pieces.
THEOREM NetworkEchoIsExact == NetSpec => []EchoIsExact
<1>1. IInv => EchoIsExact
  BY DEF IInv, SessionInv, EchoIsExact
<1> QED
  BY <1>1, IInvInvariant, PTL
=============================================================================
