----------------------------- MODULE LoopProofs -----------------------------
(***************************************************************************)
(* Proofs about the loops of socketpoll/Socket.cpp that serve everybody in *)
(* one thread: select, poll and epoll, for any set of descriptors, any     *)
(* number of clients and chunks, and any size of the table, of the array   *)
(* and of a batch.                                                         *)
(***************************************************************************)
EXTENDS LoopServers, SocketsProofs, SequenceTheorems

-----------------------------------------------------------------------------
(* Socket::select *)

\* The table between two steps: what is in it is open, once, and within maxi.
TableIsRight ==
    Running =>
      /\ {client[k] : k \in Table} = open
      /\ \A j, k \in Table : client[j] = client[k] => j = k
      /\ \A k \in Table : k <= maxi

\* What select looks at, and the count of the clients.
WatchIsRight ==
    Running =>
      /\ allset = open \cup {listenfd, infd}
      /\ \A x \in allset : x <= maxfd
      /\ allconnfd = Cardinality(open)

\* The report while it is being worked through. A descriptor accepted
\* meanwhile was closed when the report was made, so it is not in it.
ReportSoFar ==
    /\ pc = "listen" /\ listenfd \in rset => backlog > 0
    /\ pc \in {"listen", "tty"} => \A x \in rset \cap Fd : x \in open /\ Ready(x)
    /\ pc = "clients" => \A k \in i .. maxi : Reported(k) => Ready(client[k])
    /\ pc = "echo" =>
         /\ i \in Slots
         /\ \A k \in i + 1 .. maxi : Reported(k) => Ready(client[k])

Left(k) == {j \in k .. maxi : Reported(j)}

\* nready covers what is left of the report; the terminal may make it more.
CountCovers ==
    /\ pc = "listen" => nready = Cardinality(rset)
    /\ pc = "tty" => nready >= Cardinality(rset \ {listenfd})
    /\ pc = "clients" => nready >= Cardinality(Left(i))
    /\ pc = "echo" => nready >= 1 + Cardinality(Left(i + 1))

IInv == TypeOK /\ TableIsRight /\ WatchIsRight /\ ReportSoFar /\ CountCovers

USE SocketsAssumption, SelectAssumption

-----------------------------------------------------------------------------
\* The sets of select have a place for every descriptor, and -1 is none.
LEMMA SizePositive == FD_SETSIZE \in Nat \ {0} /\ Fd \subseteq Slots /\ None \notin Fd
  BY DEF Slots, None

\* Sets of places are finite and not larger than the table.
LEMMA SlotSets ==
    ASSUME NEW S \in SUBSET Slots
    PROVE  IsFiniteSet(S) /\ Cardinality(S) \in 0 .. FD_SETSIZE
<1>1. IsFiniteSet(Slots) /\ Cardinality(Slots) = FD_SETSIZE
  BY SizePositive, FS_Interval DEF Slots
<1> QED
  BY <1>1, FS_Subset, FS_CardinalityType

\* What is left of the report is one less after each client the loop serves.
LEMMA LeftSizes ==
    ASSUME TypeOK, NEW k \in Nat
    PROVE  /\ Left(k) \subseteq Slots
           /\ IsFiniteSet(Left(k)) /\ Cardinality(Left(k)) \in Nat
<1>1. Left(k) \subseteq Slots
  BY DEF Left, TypeOK, Slots
<1> QED
  BY <1>1, SlotSets

\* The client that is served next is the only one the rest of the report loses.
LEMMA LeftAfterNext ==
    ASSUME TypeOK, NEW k \in Slots, NextClient(k)
    PROVE  Cardinality(Left(i)) = 1 + Cardinality(Left(k + 1))
<1>1. /\ i \in Nat /\ k >= i /\ k <= maxi /\ maxi \in Int /\ Reported(k)
      /\ \A j \in i .. k - 1 : ~Reported(j)
  BY DEF NextClient, TypeOK
<1>2. Left(i) = Left(k + 1) \cup {k} /\ k \notin Left(k + 1)
  BY <1>1 DEF Left, Slots
<1>3. k + 1 \in Nat
  BY DEF Slots
<1>4. IsFiniteSet(Left(k + 1)) /\ Cardinality(Left(k + 1)) \in Nat
  BY <1>3, LeftSizes
<1>5. Cardinality(Left(k + 1) \cup {k}) = Cardinality(Left(k + 1)) + 1
  BY <1>2, <1>4, FS_AddElement, Zenon
<1> QED
  BY <1>2, <1>4, <1>5

\* The table is empty and only the listening socket watched.
LEMMA InitIInv == Init => IInv
<1> SUFFICES ASSUME Init PROVE IInv
  OBVIOUS
<1> USE SizePositive DEF Init, SockInit, Quiet, AllUp
<1>1. TypeOK
  BY DEF TypeOK, SockTypeOK, Slots, Larger
<1>2. TableIsRight
  BY DEF TableIsRight, Table
<1>3. WatchIsRight
  BY FS_EmptySet DEF WatchIsRight, Larger
<1>4. ReportSoFar /\ CountCovers
  BY DEF ReportSoFar, CountCovers
<1> QED
  BY <1>1, <1>2, <1>3, <1>4 DEF IInv

-----------------------------------------------------------------------------
\* The count of the connections around an accept and a close.
LEMMA AcceptCounts ==
    ASSUME SockTypeOK, NEW f \in Fd, SysAccept(f)
    PROVE  /\ SockTypeOK' /\ open' = open \cup {f} /\ f \notin open
           /\ Cardinality(open') = Cardinality(open) + 1
<1>1. open' = open \cup {f} /\ f \notin open
  BY DEF SysAccept
<1>2. Cardinality(open') = Cardinality(open) + 1
  BY <1>1, OpenIsFinite, FS_AddElement
<1> QED
  BY <1>1, <1>2 DEF SysAccept, SockTypeOK

\* close takes one descriptor away.
LEMMA CloseCounts ==
    ASSUME SockTypeOK, NEW f \in open, SysClose(f)
    PROVE  /\ SockTypeOK' /\ open' = open \ {f}
           /\ Cardinality(open') = Cardinality(open) - 1
<1>1. f \in Fd /\ open' = open \ {f} /\ SockTypeOK'
  BY CloseStep DEF SockTypeOK
<1> QED
  BY <1>1, OpenIsFinite, FS_RemoveElement

-----------------------------------------------------------------------------
\* Types: one step per action.
LEMMA StepTypes ==
    ASSUME IInv, [Next]_vars
    PROVE  TypeOK'
<1> USE SizePositive DEF IInv, TypeOK
<1>s. SockTypeOK
  OBVIOUS
<1>t. TypeOK
  OBVIOUS
<1>1. ASSUME SelectReturns PROVE TypeOK'
  <2> DEFINE report == {x \in allset : x <= maxfd /\ Readable(x)}
  <2>1. Cardinality(report) \in 0 .. FD_SETSIZE
    BY SlotSets DEF Slots
  <2>2. rset' = report /\ nready' = Cardinality(report)
    BY <1>1 DEF SelectReturns
  <2> QED
    BY <1>1, <2>1, <2>2 DEF SelectReturns, sockVars, SockTypeOK
<1>2. ASSUME NoNewClient PROVE TypeOK'
  BY <1>2 DEF NoNewClient, sockVars, SockTypeOK
<1>3. ASSUME NEW f \in Fd, NewClient(f) PROVE TypeOK'
  <2>1. SockTypeOK' /\ open' \subseteq Slots /\ Cardinality(open') = Cardinality(open) + 1
    BY <1>3, <1>s, AcceptCounts DEF NewClient, SockTypeOK
  <2>2. allconnfd' \in 0 .. FD_SETSIZE
    BY <1>3, <2>1, SlotSets DEF NewClient, WatchIsRight, Running
  <2>3. nready >= 1
    <3>1. rset \subseteq Slots /\ listenfd \in rset
      BY <1>3 DEF NewClient, Slots
    <3>2. Cardinality(rset) # 0
      BY <3>1, SlotSets, FS_EmptySet
    <3> QED
      BY <1>3, <3>1, <3>2, SlotSets DEF NewClient, CountCovers
  <2>4. /\ client' \in [Slots -> Fd \cup {None}] /\ maxi' \in -1 .. FD_SETSIZE - 1
        /\ maxfd' \in 0 .. FD_SETSIZE - 1
    BY <1>3 DEF NewClient, Larger, MaxfdWith, Slots
  <2> QED
    BY <1>3, <2>1, <2>2, <2>3, <2>4 DEF NewClient, RsetAfterAccept
<1>4. ASSUME AcceptFails PROVE TypeOK'
  BY <1>4 DEF AcceptFails, sockVars, SockTypeOK
<1>5. ASSUME Terminal PROVE TypeOK'
  BY <1>5 DEF Terminal, sockVars, SockTypeOK
<1>6. ASSUME TableDone PROVE TypeOK'
  BY <1>6 DEF TableDone, sockVars, SockTypeOK
<1>7. ASSUME NEW k \in Slots, ReadClient(k) PROVE TypeOK'
  <2>1. client[k] \in Fd
    BY <1>7 DEF ReadClient, NextClient, Reported
  <2>2. SockTypeOK'
    BY <1>7, <1>s, <2>1, ReadStep DEF ReadClient
  <2> QED
    BY <1>7, <2>2 DEF ReadClient, Slots
<1>8. ASSUME NEW k \in Slots, DropClient(k) PROVE TypeOK'
  <2>1. client[k] \in open
    BY <1>8 DEF DropClient, NextClient, Reported, TableIsRight, Table, Running
  <2>2. SockTypeOK' /\ open' \subseteq Slots /\ Cardinality(open') = Cardinality(open) - 1
    BY <1>8, <1>s, <2>1, CloseCounts DEF DropClient, SockTypeOK
  <2>3. allconnfd' \in 0 .. FD_SETSIZE
    BY <1>8, <2>2, SlotSets DEF DropClient, NextClient, WatchIsRight, Running
  <2>4. nready >= 1
    <3>1. Cardinality(Left(i)) = 1 + Cardinality(Left(k + 1)) /\ pc = "clients"
      BY <1>8, <1>t, LeftAfterNext DEF DropClient, NextClient
    <3>2. Cardinality(Left(k + 1)) \in Nat
      BY <1>t, LeftSizes DEF Slots
    <3> QED
      BY <3>1, <3>2 DEF CountCovers
  <2>5. client' \in [Slots -> Fd \cup {None}]
    BY <1>8 DEF DropClient
  <2>6. nready' \in 0 .. FD_SETSIZE /\ i' \in 0 .. FD_SETSIZE
    BY <1>8, <2>4 DEF DropClient, AfterClient, Slots
  <2> QED
    BY <1>8, <2>2, <2>3, <2>5, <2>6 DEF DropClient, AfterClient, FdClr
<1>9. ASSUME Echo PROVE TypeOK'
  <2>1. nready >= 1 /\ i \in Slots
    BY <1>9, LeftSizes DEF Echo, CountCovers, ReportSoFar
  <2> QED
    BY <1>9, <2>1 DEF Echo, AfterClient, sockVars, SockTypeOK, Slots
<1>10. ASSUME EchoKills PROVE TypeOK'
  <2>1. SockTypeOK'
    BY <1>10, <1>s, ClosingTypes DEF EchoKills, SockExit
  <2> QED
    BY <1>10, <2>1 DEF EchoKills
<1>11. ASSUME EndMain PROVE TypeOK'
  <2>1. SockTypeOK'
    BY <1>11, <1>s, ClosingTypes DEF EndMain
  <2> QED
    BY <1>11, <2>1 DEF EndMain
<1>12. ASSUME Environment PROVE TypeOK'
  <2>1. SockTypeOK'
    <3>1. CASE sockVars' = sockVars
      BY <3>1 DEF sockVars, SockTypeOK
    <3>2. CASE Connect \/ \E f \in Fd : Send(f) \/ Finish(f) \/ Reset(f)
      BY <3>2, <1>s, ClientStep
    <3> QED
      BY <1>12, <3>1, <3>2 DEF Environment, Type
  <2> QED
    BY <1>12, <2>1 DEF Environment, serverVars, Type
<1>13. ASSUME UNCHANGED vars PROVE TypeOK'
  BY <1>13 DEF vars, serverVars, sockVars, SockTypeOK
<1> QED
  BY <1>1, <1>2, <1>3, <1>4, <1>5, <1>6, <1>7, <1>8, <1>9, <1>10, <1>11, <1>12, <1>13
  DEF Next, Server

-----------------------------------------------------------------------------
\* The table: accept adds one connection and close takes one away.
LEMMA StepTable ==
    ASSUME IInv, TypeOK', [Next]_vars
    PROVE  TableIsRight'
<1> USE SizePositive DEF IInv, TypeOK, TableIsRight, Table, Running
<1>s. SockTypeOK
  OBVIOUS
<1>1. ASSUME NEW f \in Fd, NewClient(f) PROVE TableIsRight'
  <2>1. f \notin open /\ open' = open \cup {f} /\ Running
    BY <1>1 DEF NewClient, SysAccept
  <2>2. PICK k \in Slots : FreeSlot(k) /\ client' = [client EXCEPT ![k] = f]
                            /\ maxi' = Larger(k, maxi)
    BY <1>1 DEF NewClient
  <2>3. client'[k] = f /\ \A j \in Slots \ {k} : client'[j] = client[j]
    BY <2>2
  <2>4. Table' = Table \cup {k} /\ k \notin Table
    BY <2>2, <2>3 DEF FreeSlot
  <2>5. \A j \in Table : client[j] \in open
    BY <2>1
  <2>6. {client[j] : j \in Table}' = open'
    BY <2>1, <2>3, <2>4
  <2>7. \A j, l \in Table' : client'[j] = client'[l] => j = l
    BY <2>1, <2>3, <2>4, <2>5
  <2>8. \A j \in Table' : j <= maxi'
    BY <2>1, <2>2, <2>4 DEF Larger, Slots
  <2> QED
    BY <2>6, <2>7, <2>8
<1>2. ASSUME NEW k \in Slots, DropClient(k) PROVE TableIsRight'
  <2>1. k \in Table /\ client[k] \in Fd /\ Running
    BY <1>2 DEF DropClient, NextClient, Reported
  <2>2. open' = open \ {client[k]}
    BY <1>2, <1>s, <2>1, CloseStep DEF DropClient
  <2>3. client'[k] = None /\ \A j \in Slots \ {k} : client'[j] = client[j]
    BY <1>2 DEF DropClient
  <2>4. Table' = Table \ {k}
    BY <2>3
  <2>5. {client[j] : j \in Table}' = open'
    BY <2>1, <2>2, <2>3, <2>4
  <2> QED
    BY <1>2, <2>1, <2>3, <2>4, <2>5 DEF DropClient
<1>3. CASE EchoKills \/ EndMain
  BY <1>3 DEF EchoKills, EndMain
<1>4. CASE Environment
  <2>1. open' = open
    <3>1. CASE Connect \/ \E f \in Fd : Send(f) \/ Finish(f) \/ Reset(f)
      BY <3>1, <1>s, ClientStep
    <3> QED
      BY <1>4, <3>1 DEF Environment, Type, sockVars
  <2> QED
    BY <1>4, <2>1 DEF Environment, serverVars, Type
<1>5. CASE UNCHANGED <<client, maxi, open>> /\ Running
  BY <1>5
<1>6. CASE UNCHANGED vars
  BY <1>6 DEF vars, serverVars, sockVars
<1> QED
  BY <1>1, <1>2, <1>3, <1>4, <1>5, <1>6
  DEF Next, Server, SelectReturns, NoNewClient, AcceptFails, Terminal, TableDone, Echo,
      ReadClient, NextClient, ReadChunk, sockVars

-----------------------------------------------------------------------------
\* What select is told to watch, and the number of clients, follow the table.
LEMMA StepWatch ==
    ASSUME IInv, TypeOK', [Next]_vars
    PROVE  WatchIsRight'
<1> USE SizePositive DEF IInv, TypeOK, WatchIsRight, Running
<1>s. SockTypeOK
  OBVIOUS
<1>1. ASSUME NEW f \in Fd, NewClient(f) PROVE WatchIsRight'
  <2>1. open' = open \cup {f} /\ Cardinality(open') = Cardinality(open) + 1
    BY <1>1, <1>s, AcceptCounts DEF NewClient
  <2>2. allset' = open' \cup {listenfd, infd} /\ allconnfd' = Cardinality(open')
    BY <1>1, <2>1 DEF NewClient
  <2>3. \A x \in allset' : x <= maxfd'
    BY <1>1 DEF NewClient, MaxfdWith, Larger, Slots
  <2> QED
    BY <2>2, <2>3
<1>2. ASSUME NEW k \in Slots, DropClient(k) PROVE WatchIsRight'
  <2>1. client[k] \in open /\ client[k] \notin {listenfd, infd}
    BY <1>2 DEF DropClient, NextClient, Reported, TableIsRight, Table
  <2>2. open' = open \ {client[k]} /\ Cardinality(open') = Cardinality(open) - 1
    BY <1>2, <1>s, <2>1, CloseCounts DEF DropClient
  <2>3. allset' = open' \cup {listenfd, infd} /\ allconnfd' = Cardinality(open')
    BY <1>2, <2>1, <2>2 DEF DropClient, NextClient, FdClr
  <2>4. \A x \in allset' : x <= maxfd'
    BY <1>2 DEF DropClient, NextClient, FdClr
  <2> QED
    BY <2>3, <2>4
<1>3. CASE EchoKills \/ EndMain
  BY <1>3 DEF EchoKills, EndMain
<1>4. CASE Environment
  <2>1. open' = open
    <3>1. CASE Connect \/ \E f \in Fd : Send(f) \/ Finish(f) \/ Reset(f)
      BY <3>1, <1>s, ClientStep
    <3> QED
      BY <1>4, <3>1 DEF Environment, Type, sockVars
  <2> QED
    BY <1>4, <2>1 DEF Environment, serverVars, Type
<1>5. CASE UNCHANGED <<allset, maxfd, allconnfd, open>> /\ Running
  BY <1>5
<1>6. CASE UNCHANGED vars
  BY <1>6 DEF vars, serverVars, sockVars
<1> QED
  BY <1>1, <1>2, <1>3, <1>4, <1>5, <1>6
  DEF Next, Server, SelectReturns, NoNewClient, AcceptFails, Terminal, TableDone, Echo,
      ReadClient, NextClient, ReadChunk, sockVars

-----------------------------------------------------------------------------
\* The report: select makes it true of open descriptors; the one accept returns was
\* closed then; a read or a close takes away from its own connection only, which no
\* other entry names.
LEMMA StepReport ==
    ASSUME IInv, TypeOK', [Next]_vars
    PROVE  ReportSoFar'
<1> USE SizePositive DEF IInv, TypeOK
<1>s. SockTypeOK
  OBVIOUS
<1>u. \A k \in Slots : client[k] # None => client[k] \in Fd
  OBVIOUS
<1>r. \A k \in Nat : (k .. maxi) \subseteq Slots
  BY DEF Slots
<1>1. CASE SelectReturns
  <2>1. \A x \in rset' : x \in allset /\ Readable(x)
    BY <1>1 DEF SelectReturns
  <2>2. allset = open \cup {listenfd, infd}
    BY <1>1 DEF WatchIsRight, Running, SelectReturns
  <2>3. \A x \in rset' \cap Fd : x \in open /\ Ready(x)
    BY <2>1, <2>2, SelectAssumption DEF Readable
  <2>4. listenfd \in rset' => backlog > 0
    BY <2>1 DEF Readable
  <2> QED
    BY <1>1, <2>3, <2>4 DEF ReportSoFar, SelectReturns, sockVars, Ready
<1>2. CASE NoNewClient
  BY <1>2 DEF NoNewClient, ReportSoFar, Ready, sockVars
<1>3. ASSUME NEW f \in Fd, NewClient(f) PROVE ReportSoFar'
  BY <1>3 DEF NewClient, SysAccept, RsetAfterAccept, ReportSoFar, Ready
<1>4. CASE AcceptFails \/ TableDone
  BY <1>4 DEF AcceptFails, TableDone, ReportSoFar
<1>5. CASE Terminal
  <2> SUFFICES ASSUME NEW k \in 0 .. maxi, Reported(k) PROVE Ready(client[k])
    BY <1>5 DEF Terminal, ReportSoFar, Reported, Ready, sockVars
  <2>1. client[k] \in rset \cap Fd
    BY <1>r, <1>u DEF Reported
  <2> QED
    BY <1>5, <2>1 DEF Terminal, ReportSoFar
<1>6. ASSUME NEW k \in Slots, ReadClient(k) PROVE ReportSoFar'
  <2>1. /\ pc = "clients" /\ k >= i /\ i' = k /\ pc' = "echo"
        /\ Running /\ UNCHANGED <<client, rset, maxi>> /\ k \in Table
    BY <1>6 DEF ReadClient, NextClient, Reported, Running, Table
  <2> SUFFICES ASSUME NEW j \in k + 1 .. maxi, Reported(j) PROVE Ready(client[j])'
    BY <2>1 DEF ReportSoFar, Reported
  <2>2. Ready(client[j]) /\ j # k /\ j \in Slots
    BY <2>1 DEF ReportSoFar, Slots
  <2>3. client[j] \in Fd /\ client[k] \in Fd /\ client[j] # client[k]
    BY <2>1, <2>2 DEF TableIsRight, Table, Reported
  <2>4. \A g \in Fd \ {client[k]} : Ready(g) => Ready(g)'
    BY <1>6, <1>s, <2>3, ReadStep DEF ReadClient
  <2> QED
    BY <2>1, <2>2, <2>3, <2>4 DEF Ready
<1>7. ASSUME NEW k \in Slots, DropClient(k) PROVE ReportSoFar'
  <2>1. /\ pc = "clients" /\ k >= i /\ i' = k + 1 /\ pc' \in {"select", "clients"}
        /\ Running /\ UNCHANGED <<rset, maxi>> /\ k \in Table
    BY <1>7 DEF DropClient, AfterClient, NextClient, Reported, Running, Table
  <2> SUFFICES ASSUME NEW j \in k + 1 .. maxi, Reported(j)' PROVE Ready(client[j])'
    BY <2>1 DEF ReportSoFar, Reported
  <2>2. j # k /\ j \in Slots /\ client'[j] = client[j]
    BY <1>7 DEF DropClient, Slots
  <2>3. Reported(j) /\ Ready(client[j])
    BY <2>1, <2>2 DEF ReportSoFar, Reported, Slots
  <2>4. client[j] \in Fd /\ client[k] \in Fd /\ client[j] # client[k]
    BY <2>1, <2>2, <2>3 DEF TableIsRight, Table, Reported
  <2>5. \A g \in Fd \ {client[k]} : Ready(g) => Ready(g)'
    BY <1>7, <1>s, <2>4, CloseStep DEF DropClient
  <2> QED
    BY <2>2, <2>3, <2>4, <2>5 DEF Ready
<1>8. CASE Echo
  BY <1>8 DEF Echo, AfterClient, ReportSoFar, Reported, Ready, sockVars
<1>9. CASE EchoKills \/ EndMain
  BY <1>9 DEF EchoKills, EndMain, ReportSoFar
<1>10. CASE Environment
  <2>1. UNCHANGED <<pc, client, maxi, rset, i, open>> /\ backlog' >= backlog
        /\ \A f \in Fd : Ready(f) => Ready(f)'
    <3>1. CASE (Connect \/ \E f \in Fd : Send(f) \/ Finish(f) \/ Reset(f))
               /\ UNCHANGED serverVars
      BY <3>1, <1>s, ClientStep DEF serverVars
    <3>2. CASE \E line \in {"quit", "client", "other"} : Type(line)
      BY <3>2 DEF Type, sockVars, Ready, SockTypeOK
    <3> QED
      BY <1>10, <3>1, <3>2 DEF Environment
  <2>2. \A k \in Slots : Reported(k) /\ Ready(client[k]) => Ready(client[k])'
    BY <2>1, <1>u DEF Reported, Ready
  <2>3. pc = "listen" /\ listenfd \in rset => backlog' > 0
    BY <2>1 DEF ReportSoFar, SockTypeOK
  <2>4. pc \in {"clients", "echo"} => \A k \in i + 1 .. maxi : Reported(k) => Ready(client[k])'
    BY <2>2, <1>r DEF ReportSoFar
  <2>5. pc = "clients" => \A k \in i .. maxi : Reported(k) => Ready(client[k])'
    BY <2>2, <1>r DEF ReportSoFar
  <2> QED
    BY <2>1, <2>3, <2>4, <2>5 DEF ReportSoFar, Reported
<1>11. CASE UNCHANGED vars
  BY <1>11 DEF vars, serverVars, sockVars, ReportSoFar, Reported, Ready
<1> QED
  BY <1>1, <1>2, <1>3, <1>4, <1>5, <1>6, <1>7, <1>8, <1>9, <1>10, <1>11 DEF Next, Server

-----------------------------------------------------------------------------
\* Different entries of the table that are reported are different descriptors of
\* the report, none of them the listening socket.
LEMMA ReportedAreInReport ==
    ASSUME IInv, Running
    PROVE  Cardinality(Left(0)) <= Cardinality(rset \ {listenfd})
<1> DEFINE named == [k \in Left(0) |-> client[k]]
<1>1. named \in Injection(Left(0), rset \ {listenfd})
  <2>1. Left(0) \subseteq Table
    BY DEF IInv, TypeOK, Left, Table, Reported, Slots
  <2>2. \A k \in Left(0) : client[k] \in rset \ {listenfd}
    BY <2>1 DEF IInv, TypeOK, Left, Reported, Table
  <2> QED
    BY <2>1, <2>2 DEF IInv, TableIsRight, Injection, IsInjective
<1>2. IsFiniteSet(rset \ {listenfd})
  BY SlotSets DEF IInv, TypeOK, Slots
<1> QED
  BY <1>1, <1>2, FS_Injection

\* nready covers what is left of the report, so the loop never stops before the last.
LEMMA StepCount ==
    ASSUME IInv, TypeOK', [Next]_vars
    PROVE  CountCovers'
<1> USE SizePositive DEF IInv
<1>1. CASE SelectReturns
  BY <1>1 DEF SelectReturns, CountCovers
<1>2. CASE NoNewClient
  <2>1. rset' \ {listenfd} = rset /\ pc' = "tty" /\ nready' = nready
    BY <1>2 DEF NoNewClient
  <2>2. nready \in Nat /\ nready = Cardinality(rset)
    BY <1>2 DEF TypeOK, CountCovers, NoNewClient
  <2>3. nready' >= Cardinality(rset' \ {listenfd})
    BY <2>1, <2>2
  <2> QED
    BY <2>1, <2>3 DEF CountCovers
<1>3. ASSUME NEW f \in Fd, NewClient(f) PROVE CountCovers'
  <2>1. IsFiniteSet(rset) /\ Cardinality(rset) \in Nat
    BY SlotSets DEF TypeOK, Slots
  <2>2. Cardinality(rset \ {listenfd}) = Cardinality(rset) - 1
    BY <1>3, <2>1, FS_RemoveElement DEF NewClient
  <2> QED
    BY <1>3, <2>1, <2>2 DEF NewClient, CountCovers, RsetAfterAccept
<1>4. CASE AcceptFails \/ TableDone \/ EchoKills \/ EndMain
  BY <1>4 DEF AcceptFails, TableDone, EchoKills, EndMain, CountCovers
<1>5. CASE Terminal
  <2>1. nready >= Cardinality(Left(0))
    <3>1. Cardinality(Left(0)) <= Cardinality(rset \ {listenfd})
      BY <1>5, ReportedAreInReport DEF Terminal, Running
    <3>2. /\ Cardinality(Left(0)) \in Nat /\ Cardinality(rset \ {listenfd}) \in Nat
          /\ nready \in Nat /\ nready >= Cardinality(rset \ {listenfd})
      BY <1>5, LeftSizes, SlotSets DEF Terminal, TypeOK, Slots, CountCovers
    <3> QED
      BY <3>1, <3>2
  <2>2. Left(0)' = Left(0) /\ nready' = nready /\ i' = 0 /\ pc' \in {"clients", "endmain"}
    BY <1>5 DEF Terminal, Left, Reported
  <2>3. pc' = "clients" => nready' >= Cardinality(Left(0)')
    BY <2>1, <2>2
  <2> QED
    BY <2>2, <2>3 DEF CountCovers, Left, Reported
<1>6. ASSUME NEW k \in Slots, ReadClient(k) PROVE CountCovers'
  <2>1. Cardinality(Left(i)) = 1 + Cardinality(Left(k + 1)) /\ pc = "clients"
    BY <1>6, LeftAfterNext DEF ReadClient, NextClient
  <2>2. UNCHANGED <<client, rset, maxi, nready>> /\ i' = k /\ pc' = "echo"
    BY <1>6 DEF ReadClient
  <2>3. Left(i + 1)' = Left(k + 1)
    BY <2>2 DEF Left, Reported
  <2> QED
    BY <2>1, <2>2, <2>3 DEF CountCovers
<1>7. ASSUME NEW k \in Slots, DropClient(k) PROVE CountCovers'
  <2>1. Cardinality(Left(i)) = 1 + Cardinality(Left(k + 1)) /\ pc = "clients"
    BY <1>7, LeftAfterNext DEF DropClient, NextClient
  <2>2. /\ UNCHANGED <<rset, maxi>> /\ i' = k + 1 /\ nready' = nready - 1
        /\ pc' \in {"clients", "select"} /\ client' = [client EXCEPT ![k] = None]
    BY <1>7 DEF DropClient, AfterClient
  <2>3. Left(i)' = Left(k + 1)
    BY <2>2 DEF Left, Reported, TypeOK, Slots
  <2>4. Cardinality(Left(k + 1)) \in Nat
    <3>1. k + 1 \in Nat
      BY DEF Slots
    <3> QED
      BY <3>1, LeftSizes
  <2>5. nready \in Nat
    BY DEF TypeOK
  <2> QED
    BY <2>1, <2>2, <2>3, <2>4, <2>5 DEF CountCovers
<1>8. CASE Echo
  <2>1. /\ UNCHANGED <<client, rset, maxi>> /\ i' = i + 1 /\ nready' = nready - 1
        /\ pc' \in {"clients", "select"} /\ pc = "echo"
    BY <1>8 DEF Echo, AfterClient
  <2>2. Left(i)' = Left(i + 1)
    BY <2>1 DEF Left, Reported
  <2>3. Cardinality(Left(i + 1)) \in Nat /\ nready \in Nat
    BY LeftSizes DEF TypeOK
  <2> QED
    BY <2>1, <2>2, <2>3 DEF CountCovers
<1>9. CASE UNCHANGED <<pc, client, rset, maxi, i, nready>>
  BY <1>9 DEF CountCovers, Left, Reported
<1> QED
  BY <1>1, <1>2, <1>3, <1>4, <1>5, <1>6, <1>7, <1>8, <1>9
  DEF Next, Server, Environment, Type, vars, serverVars

-----------------------------------------------------------------------------
\* The table, the watched set and the report stay right in every state.
LEMMA IInvInvariant == Spec => []IInv
<1>1. IInv /\ [Next]_vars => IInv'
  BY StepTypes, StepTable, StepWatch, StepReport, StepCount DEF IInv
<1> QED
  BY <1>1, InitIInv, PTL DEF Spec

\* A table that names each open connection once has as many used entries.
LEMMA TableAsLarge ==
    ASSUME IInv, Running
    PROVE  Cardinality(Table) = Cardinality(open)
<1> DEFINE named == [k \in Table |-> client[k]]
<1>1. IsFiniteSet(Table)
  BY SlotSets DEF Table
<1>2. named \in Surjection(Table, open) /\ named \in Injection(Table, open)
  BY DEF IInv, TableIsRight, Surjection, Injection, IsInjective
<1>3. ExistsBijection(Table, open)
  BY <1>2 DEF ExistsBijection, Bijection
<1> QED
  BY <1>1, <1>3, FS_Bijection

\* Socket::select never loses a connection, never watches a closed descriptor and never
\* miscounts its clients, whatever they do.
THEOREM SelectEveryConnectionIsWatched == Spec => []EveryConnectionIsWatched
<1>1. IInv => EveryConnectionIsWatched
  BY TableAsLarge DEF EveryConnectionIsWatched, IInv, TableIsRight, WatchIsRight
<1> QED
  BY <1>1, IInvInvariant, PTL

\* What select has reported is still true when Socket::select acts on it, and its
\* count does not end the loop before the last client reported.
THEOREM SelectReportStaysTrue == Spec => []ReportStaysTrue
<1>1. IInv => ReportStaysTrue
  BY DEF IInv, ReportSoFar, CountCovers, Left, ReportStaysTrue
<1> QED
  BY <1>1, IInvInvariant, PTL

-----------------------------------------------------------------------------
(* Socket::poll *)

HIDE SelectAssumption

\* The table between two steps: what is used is open, once, and within maxi.
PollTable ==
    Poll!Running =>
      /\ {fds[k] : k \in Poll!Used} = open
      /\ \A j, k \in Poll!Used : fds[j] = fds[k] => j = k
      /\ \A k \in Poll!Used : k <= maxi

\* After a failed poll nready goes down with every client of the loop.
PollCounts ==
    /\ pc = "listen" => nready >= -1
    /\ pc \in {"clients", "echo"} => nready >= -i
    /\ pc = "echo" => i \in Poll!Entries

\* Until an accept, revents is set for used entries up to maxi only; after it,
\* entries above the bound of the loop may carry anything.
PollReport ==
    nready > 0 =>
      /\ pc = "listen" /\ revents[0] => backlog > 0
      /\ pc = "listen" =>
           \A k \in 1 .. maxi : revents[k] => fds[k] # Poll!None /\ Poll!Ready(fds[k])
      /\ pc = "clients" =>
           \A k \in 1 .. maxi - 1 : k >= i /\ Poll!Reported(k) => Poll!Ready(fds[k])
      /\ pc = "echo" =>
           \A k \in 1 .. maxi - 1 : k > i /\ Poll!Reported(k) => Poll!Ready(fds[k])

PollInv == Poll!PollAssumption /\ Poll!TypeOK /\ PollTable /\ PollCounts /\ PollReport

-----------------------------------------------------------------------------
(* Socket::poll: what its proofs need to know of the sockets, and of the array *)

\* The sockets of Poll are the sockets: what the lemmas about them say holds there.
LEMMA PollSizes == \A S : Poll!Cardinality(S) = Cardinality(S)
  BY DEF Poll!Cardinality, Poll!IsFiniteSet, Cardinality, IsFiniteSet

\* Clients take nothing away.
LEMMA PollClientStep ==
    ASSUME Poll!SockTypeOK,
           Poll!Connect \/ \E f \in Fd : Poll!Send(f) \/ Poll!Finish(f) \/ Poll!Reset(f)
    PROVE  /\ Poll!SockTypeOK'
           /\ open' = open /\ backlog' >= backlog
           /\ \A f \in Fd : Poll!Ready(f) => Poll!Ready(f)'
<1>1. SockTypeOK /\ (SockTypeOK' => Poll!SockTypeOK')
  BY DEF Poll!SockTypeOK, SockTypeOK
<1>2. Connect \/ \E f \in Fd : Send(f) \/ Finish(f) \/ Reset(f)
  BY PollSizes DEF Poll!Connect, Poll!Send, Poll!Finish, Poll!Reset, Connect, Send, Finish, Reset
<1> QED
  BY <1>1, <1>2, ClientStep DEF Poll!Ready, Ready

\* A read takes away from its own connection only ...
LEMMA PollReadStep ==
    ASSUME Poll!SockTypeOK, NEW f \in Fd, Poll!ReadChunk(f)
    PROVE  /\ Poll!SockTypeOK'
           /\ open' = open /\ backlog' = backlog
           /\ \A g \in Fd \ {f} : Poll!Ready(g) => Poll!Ready(g)'
<1>1. SockTypeOK /\ (SockTypeOK' => Poll!SockTypeOK') /\ ReadChunk(f)
  BY DEF Poll!SockTypeOK, SockTypeOK, Poll!ReadChunk, ReadChunk
<1> QED
  BY <1>1, ReadStep DEF Poll!Ready, Ready

\* ... and so does a close.
LEMMA PollCloseStep ==
    ASSUME Poll!SockTypeOK, NEW f \in Fd, Poll!SysClose(f)
    PROVE  /\ Poll!SockTypeOK'
           /\ open' = open \ {f} /\ backlog' = backlog
           /\ \A g \in Fd \ {f} : Poll!Ready(g) => Poll!Ready(g)'
<1>1. SockTypeOK /\ (SockTypeOK' => Poll!SockTypeOK')
  BY DEF Poll!SockTypeOK, SockTypeOK
<1>2. SysClose(f)
  BY DEF Poll!SysClose, Poll!Closing, SysClose, Closing
<1> QED
  BY <1>1, <1>2, CloseStep DEF Poll!Ready, Ready

\* The table has room for the listening socket.
LEMMA PollSizePositive ==
    ASSUME Poll!PollAssumption PROVE PollSize \in Nat \ {0}
  BY PollSizes, FS_CardinalityType DEF Poll!PollAssumption

\* -1, which marks an empty place, is no descriptor.
LEMMA PollNoneIsNoFd == Poll!None \notin Fd
  BY DEF Poll!None

\* Only the listening socket is in the table.
LEMMA PollStarts == Poll!PollAssumption /\ Poll!Init => PollInv
<1> SUFFICES ASSUME Poll!PollAssumption, Poll!Init PROVE PollInv
  OBVIOUS
<1> USE DEF Poll!Init, Poll!SockInit, Poll!Quiet, Poll!AllUp
<1>1. Poll!TypeOK
  BY PollSizePositive DEF Poll!TypeOK, Poll!SockTypeOK, Poll!Entries
<1>2. PollTable
  BY DEF PollTable, Poll!Used
<1>3. PollCounts /\ PollReport
  BY DEF PollCounts, PollReport
<1> QED
  BY <1>1, <1>2, <1>3 DEF PollInv

\* poll reports no more than there are entries.
LEMMA PollReportSize ==
    ASSUME Poll!PollAssumption, Poll!TypeOK, NEW S \in SUBSET (0 .. maxi)
    PROVE  Cardinality(S) \in 0 .. PollSize
<1>1. IsFiniteSet(0 .. maxi) /\ Cardinality(0 .. maxi) = maxi + 1
  <2>1. maxi \in Nat /\ maxi + 1 >= 0
    BY DEF Poll!TypeOK
  <2> QED
    BY <2>1, FS_Interval
<1>2. Cardinality(S) \in Nat /\ Cardinality(S) <= maxi + 1
  BY <1>1, FS_Subset, FS_CardinalityType
<1> QED
  BY <1>2, PollSizePositive DEF Poll!TypeOK

-----------------------------------------------------------------------------
\* Types, and the bounds of nready: one step per action.
LEMMA PollStepTypes ==
    ASSUME PollInv, [Poll!Next]_(Poll!vars)
    PROVE  Poll!TypeOK' /\ PollCounts'
<1>s. PollSize \in Nat \ {0}
  BY PollSizePositive DEF PollInv
<1> USE <1>s DEF PollInv, Poll!TypeOK, PollCounts, Poll!Entries
<1>1. ASSUME Poll!PollReturns PROVE Poll!TypeOK' /\ PollCounts'
  <2> DEFINE report == {k \in 0 .. maxi : Poll!Polled(k)}
  <2>1. Cardinality(report) \in 0 .. PollSize
    BY PollReportSize
  <2>2. revents' = [k \in 0 .. PollSize - 1 |->
                      IF k <= maxi THEN k \in report ELSE revents[k]]
    <3>1. DOMAIN revents = 0 .. PollSize - 1
      OBVIOUS
    <3> QED
      BY <1>1, <3>1, Zenon DEF Poll!PollReturns
  <2>4. revents' \in [0 .. PollSize - 1 -> BOOLEAN]
    <3> HIDE DEF report
    <3>1. \A k \in 0 .. PollSize - 1 :
            revents[k] \in BOOLEAN /\ (k \in report) \in BOOLEAN
      OBVIOUS
    <3>2. \A k \in 0 .. PollSize - 1 :
            (IF k <= maxi THEN k \in report ELSE revents[k]) \in BOOLEAN
      BY <3>1, Zenon
    <3> QED
      BY <2>2, <3>2, Zenon
  <2>3. nready' \in 0 .. PollSize
    <3>1. nready' = Cardinality(report)
      BY <1>1, PollSizes, Zenon DEF Poll!PollReturns
    <3> QED
      BY <2>1, <3>1
  <2> QED
    BY <1>1, <2>4, <2>3 DEF Poll!PollReturns, Poll!sockVars, Poll!SockTypeOK
<1>2. ASSUME Poll!PollFails PROVE Poll!TypeOK' /\ PollCounts'
  BY <1>2 DEF Poll!PollFails, Poll!sockVars, Poll!SockTypeOK
<1>3. ASSUME Poll!NoNewClient PROVE Poll!TypeOK' /\ PollCounts'
  BY <1>3 DEF Poll!NoNewClient, Poll!sockVars, Poll!SockTypeOK
<1>4. ASSUME NEW f \in Fd, Poll!NewClient(f) PROVE Poll!TypeOK' /\ PollCounts'
  BY <1>4 DEF Poll!NewClient, Poll!SysAccept, Poll!FreeEntry, Poll!MaxiWith, Poll!SockTypeOK
<1>5. ASSUME Poll!AcceptFails PROVE Poll!TypeOK' /\ PollCounts'
  BY <1>5 DEF Poll!AcceptFails, Poll!SockExit, Poll!Closing, Poll!SockTypeOK
<1>6. ASSUME Poll!LoopDone PROVE Poll!TypeOK' /\ PollCounts'
  BY <1>6 DEF Poll!LoopDone, Poll!sockVars, Poll!SockTypeOK
<1>7. ASSUME NEW k \in Poll!Entries, Poll!ReadClient(k) PROVE Poll!TypeOK' /\ PollCounts'
  <2>1. fds[k] \in Fd
    BY <1>7 DEF Poll!ReadClient, Poll!NextClient, Poll!Reported
  <2>2. Poll!SockTypeOK'
    BY <1>7, <2>1, PollReadStep DEF Poll!ReadClient
  <2> QED
    BY <1>7, <2>2 DEF Poll!ReadClient, Poll!NextClient
<1>8. ASSUME NEW k \in Poll!Entries, Poll!DropClient(k) PROVE Poll!TypeOK' /\ PollCounts'
  <2>1. fds[k] \in Fd
    BY <1>8 DEF Poll!DropClient, Poll!NextClient, Poll!Reported
  <2>2. Poll!SockTypeOK'
    BY <1>8, <2>1, PollCloseStep DEF Poll!DropClient
  <2>3. fds' \in [Poll!Entries -> Fd \cup {Poll!None}]
    BY <1>8 DEF Poll!DropClient, Poll!Freed
  <2> QED
    BY <1>8, <2>2, <2>3 DEF Poll!DropClient, Poll!NextClient, Poll!AfterClient
<1>9. ASSUME Poll!Echo PROVE Poll!TypeOK' /\ PollCounts'
  BY <1>9 DEF Poll!Echo, Poll!AfterClient, Poll!sockVars, Poll!SockTypeOK
<1>10. ASSUME Poll!Environment PROVE Poll!TypeOK' /\ PollCounts'
  BY <1>10, PollClientStep DEF Poll!Environment, Poll!serverVars
<1>11. ASSUME UNCHANGED Poll!vars PROVE Poll!TypeOK' /\ PollCounts'
  BY <1>11 DEF Poll!vars, Poll!serverVars, Poll!sockVars, Poll!SockTypeOK
<1> QED
  BY <1>1, <1>2, <1>3, <1>4, <1>5, <1>6, <1>7, <1>8, <1>9, <1>10, <1>11
  DEF Poll!Next, Poll!Server

-----------------------------------------------------------------------------
\* The table: accept adds one connection and close takes one away.
LEMMA PollStepTable ==
    ASSUME PollInv, Poll!TypeOK', [Poll!Next]_(Poll!vars)
    PROVE  PollTable'
<1>s. PollSize \in Nat \ {0} /\ Poll!None \notin Fd
  BY PollSizePositive, PollNoneIsNoFd DEF PollInv
<1> USE <1>s DEF PollInv, Poll!TypeOK, Poll!SockTypeOK, PollTable, Poll!Used, Poll!Running
<1>1. ASSUME NEW f \in Fd, Poll!NewClient(f) PROVE PollTable'
  <2>1. f \notin open /\ open' = open \cup {f} /\ Poll!Running
    BY <1>1 DEF Poll!NewClient, Poll!SysAccept
  <2>2. PICK k \in Poll!Entries : Poll!FreeEntry(k) /\ fds' = [fds EXCEPT ![k] = f]
                              /\ maxi' = Poll!MaxiWith(k)
    BY <1>1 DEF Poll!NewClient
  <2>3. fds'[k] = f /\ \A j \in Poll!Entries \ {k} : fds'[j] = fds[j]
    BY <2>2
  <2>4. Poll!Used' = Poll!Used \cup {k} /\ k \notin Poll!Used
    BY <2>2, <2>3 DEF Poll!FreeEntry
  <2>5. \A j \in Poll!Used : fds[j] \in open
    BY <2>1
  <2>6. {fds[j] : j \in Poll!Used}' = open'
    <3>1. {fds[j] : j \in Poll!Used} = open /\ \A j \in Poll!Used : j \in Poll!Entries
      BY <2>1
    <3> HIDE DEF PollInv, Poll!TypeOK, Poll!SockTypeOK, PollTable, Poll!Used
    <3> QED
      BY <2>1, <2>3, <2>4, <3>1
  <2>7. \A j, l \in Poll!Used' : fds'[j] = fds'[l] => j = l
    BY <2>1, <2>3, <2>4, <2>5
  <2>8. \A j \in Poll!Used' : j <= maxi'
    BY <2>1, <2>2, <2>4 DEF Poll!MaxiWith, Poll!Entries
  <2> QED
    BY <2>6, <2>7, <2>8
<1>2. ASSUME NEW k \in Poll!Entries, Poll!DropClient(k) PROVE PollTable'
  <2>1. k \in Poll!Used /\ fds[k] \in Fd /\ Poll!Running
    BY <1>2 DEF Poll!DropClient, Poll!NextClient, Poll!Reported
  <2>2. open' = open \ {fds[k]}
    BY <1>2, <2>1, PollCloseStep DEF Poll!DropClient
  <2>3. fds'[k] = Poll!None /\ \A j \in Poll!Entries \ {k} : fds'[j] = fds[j]
    BY <1>2 DEF Poll!DropClient, Poll!Freed
  <2>4. Poll!Used' = Poll!Used \ {k}
    BY <2>3
  <2>5. {fds[j] : j \in Poll!Used}' = open'
    <3>1. /\ {fds[j] : j \in Poll!Used} = open
          /\ \A j \in Poll!Used : j \in Poll!Entries /\ (fds[j] = fds[k] => j = k)
      BY <2>1
    <3> HIDE DEF PollInv, Poll!TypeOK, Poll!SockTypeOK, PollTable, Poll!Used
    <3> QED
      BY <2>1, <2>2, <2>3, <2>4, <3>1
  <2> QED
    BY <1>2, <2>1, <2>3, <2>4, <2>5 DEF Poll!DropClient
<1>3. CASE Poll!AcceptFails
  BY <1>3 DEF Poll!AcceptFails
<1>4. CASE Poll!Environment
  <2>1. Poll!SockTypeOK
    OBVIOUS
  <2>2. open' = open
    BY <1>4, <2>1, PollClientStep, Zenon DEF Poll!Environment
  <2> QED
    BY <1>4, <2>2 DEF Poll!Environment, Poll!serverVars
<1>5. CASE UNCHANGED <<fds, maxi, open>> /\ Poll!Running
  BY <1>5
<1>6. CASE UNCHANGED Poll!vars
  BY <1>6 DEF Poll!vars, Poll!serverVars, Poll!sockVars
<1> QED
  BY <1>1, <1>2, <1>3, <1>4, <1>5, <1>6
  DEF Poll!Next, Poll!Server, Poll!PollReturns, Poll!PollFails, Poll!NoNewClient,
      Poll!LoopDone, Poll!Echo, Poll!ReadClient,
      Poll!NextClient, Poll!ReadChunk, Poll!sockVars

-----------------------------------------------------------------------------
\* The report: poll makes it true, an accept adds an entry poll has not reported, and a
\* read or a close takes away from its own connection only, which no other entry names.
LEMMA PollStepReport ==
    ASSUME PollInv, Poll!TypeOK', [Poll!Next]_(Poll!vars)
    PROVE  PollReport'
<1>s. PollSize \in Nat \ {0} /\ Poll!None \notin Fd
  BY PollSizePositive, PollNoneIsNoFd DEF PollInv
<1> USE <1>s DEF PollInv, Poll!TypeOK
<1>u. \A k \in Poll!Entries : fds[k] # Poll!None => fds[k] \in Fd
  OBVIOUS
<1>r. (0 .. maxi) \subseteq 0 .. PollSize - 1 /\ (1 .. maxi) \subseteq Poll!Entries
  BY DEF Poll!Entries
<1>1. CASE Poll!PollReturns
  <2> DEFINE report == {k \in 0 .. maxi : Poll!Polled(k)}
  <2>1. \A k \in 0 .. maxi : revents'[k] = (k \in report)
    <3>1. DOMAIN revents = 0 .. PollSize - 1
      OBVIOUS
    <3> QED
      BY <1>1, <1>r, <3>1 DEF Poll!PollReturns
  <2>2. pc' = "listen" /\ UNCHANGED <<fds, maxi, backlog, rx, peer>>
    BY <1>1 DEF Poll!PollReturns, Poll!sockVars
  <2>3. revents'[0] => backlog' > 0
    BY <2>1, <2>2 DEF Poll!Polled
  <2>4. \A k \in 1 .. maxi' : revents'[k] => fds'[k] # Poll!None /\ Poll!Ready(fds[k])'
    BY <2>1, <2>2 DEF Poll!Polled, Poll!Ready
  <2> QED
    BY <2>2, <2>3, <2>4 DEF PollReport
<1>2. CASE Poll!PollFails
  BY <1>2 DEF Poll!PollFails, PollReport
<1>3. CASE Poll!NoNewClient
  BY <1>3 DEF Poll!NoNewClient, PollReport, Poll!Reported, Poll!Ready, Poll!sockVars
<1>4. ASSUME NEW f \in Fd, Poll!NewClient(f) PROVE PollReport'
  <2>1. PICK k \in Poll!Entries : Poll!FreeEntry(k) /\ fds' = [fds EXCEPT ![k] = f]
                              /\ maxi' = Poll!MaxiWith(k)
    BY <1>4 DEF Poll!NewClient
  <2>2. k <= maxi + 1
    <3> SUFFICES ASSUME k > maxi + 1 PROVE FALSE
      BY DEF Poll!Entries
    <3>1. maxi + 1 \in Poll!Entries /\ fds[maxi + 1] = Poll!None
      BY <1>4 DEF PollTable, Poll!Used, Poll!Running, Poll!NewClient, Poll!Entries
    <3> QED
      BY <2>1, <3>1 DEF Poll!FreeEntry, Poll!Entries
  <2> SUFFICES ASSUME nready' > 0, NEW j \in 1 .. maxi' - 1, Poll!Reported(j)'
               PROVE  Poll!Ready(fds[j])'
    BY <1>4 DEF PollReport, Poll!NewClient
  <2>3. nready > 0 /\ pc = "listen" /\ UNCHANGED <<revents, rx, peer>>
    BY <1>4 DEF Poll!NewClient, Poll!SysAccept
  <2>4. j \in 1 .. maxi
    BY <2>1, <2>2 DEF Poll!MaxiWith, Poll!Entries
  <2>5. fds[j] # Poll!None /\ Poll!Ready(fds[j])
    BY <2>3, <2>4 DEF PollReport, Poll!Reported
  <2>6. j # k
    BY <2>1, <2>5 DEF Poll!FreeEntry
  <2>7. fds'[j] = fds[j]
    BY <2>1, <2>4, <2>6, <1>r
  <2> QED
    BY <2>3, <2>5, <2>7 DEF Poll!Ready
<1>5. CASE Poll!AcceptFails \/ Poll!LoopDone
  BY <1>5 DEF Poll!AcceptFails, Poll!LoopDone, PollReport
<1>6. ASSUME NEW k \in Poll!Entries, Poll!ReadClient(k) PROVE PollReport'
  <2> SUFFICES ASSUME nready' > 0, NEW j \in 1 .. maxi' - 1, j > i', Poll!Reported(j)'
               PROVE  Poll!Ready(fds[j])'
    BY <1>6 DEF PollReport, Poll!ReadClient
  <2>1. /\ pc = "clients" /\ nready > 0 /\ k >= i /\ i' = k
        /\ Poll!Running /\ UNCHANGED <<fds, revents, maxi>> /\ k \in Poll!Used
    BY <1>6 DEF Poll!ReadClient, Poll!NextClient, Poll!Reported, Poll!Running, Poll!Used
  <2>2. Poll!Reported(j) /\ Poll!Ready(fds[j]) /\ j # k /\ j \in Poll!Entries
    BY <2>1, <1>r DEF PollReport, Poll!Reported, Poll!Entries
  <2>3. fds[j] \in Fd /\ fds[k] \in Fd /\ fds[j] # fds[k]
    BY <2>1, <2>2 DEF PollTable, Poll!Used, Poll!Reported
  <2>4. \A g \in Fd \ {fds[k]} : Poll!Ready(g) => Poll!Ready(g)'
    BY <1>6, <2>3, PollReadStep DEF Poll!ReadClient
  <2>5. Poll!Ready(fds[j])'
    BY <2>1, <2>2, <2>3, <2>4 DEF Poll!Ready
  <2> QED
    BY <2>5
<1>7. ASSUME NEW k \in Poll!Entries, Poll!DropClient(k) PROVE PollReport'
  <2> SUFFICES ASSUME nready' > 0, pc' = "clients",
                      NEW j \in 1 .. maxi' - 1, j >= i', Poll!Reported(j)'
               PROVE  Poll!Ready(fds[j])'
    BY <1>7 DEF PollReport, Poll!DropClient, Poll!AfterClient
  <2>1. /\ pc = "clients" /\ nready > 0 /\ k >= i /\ i' = k + 1
        /\ Poll!Running /\ UNCHANGED <<revents, maxi>> /\ k \in Poll!Used
    BY <1>7 
    DEF Poll!DropClient, Poll!NextClient, Poll!AfterClient, Poll!Reported, Poll!Running, Poll!Used
  <2>2. j # k /\ j \in Poll!Entries /\ fds'[j] = fds[j]
    BY <1>7, <2>1, <1>r DEF Poll!DropClient, Poll!Freed, Poll!Entries
  <2>3. Poll!Reported(j) /\ Poll!Ready(fds[j])
    BY <2>1, <2>2 DEF PollReport, Poll!Reported, Poll!Entries
  <2>4. fds[j] \in Fd /\ fds[k] \in Fd /\ fds[j] # fds[k]
    BY <2>1, <2>2, <2>3 DEF PollTable, Poll!Used, Poll!Reported
  <2>5. \A g \in Fd \ {fds[k]} : Poll!Ready(g) => Poll!Ready(g)'
    BY <1>7, <2>4, PollCloseStep DEF Poll!DropClient
  <2> QED
    BY <2>2, <2>3, <2>4, <2>5 DEF Poll!Ready
<1>8. CASE Poll!Echo
  BY <1>8 DEF Poll!Echo, Poll!AfterClient, PollReport, Poll!Reported, Poll!Ready, Poll!sockVars
<1>9. CASE Poll!Environment
  <2>1. UNCHANGED <<pc, fds, revents, maxi, nready, i>> /\ backlog' >= backlog
    BY <1>9, PollClientStep DEF Poll!Environment, Poll!serverVars
  <2>2. \A f \in Fd : Poll!Ready(f) => Poll!Ready(f)'
    BY <1>9, PollClientStep DEF Poll!Environment
  <2>3. \A k \in 1 .. maxi : fds[k] # Poll!None /\ Poll!Ready(fds[k]) => Poll!Ready(fds[k])'
    BY <2>1, <2>2, <1>u, <1>r DEF Poll!Ready
  <2> QED
    BY <2>1, <2>3 DEF PollReport, Poll!Reported, Poll!SockTypeOK
<1>10. CASE UNCHANGED Poll!vars
  BY <1>10 DEF Poll!vars, Poll!serverVars, Poll!sockVars, PollReport, Poll!Reported, Poll!Ready
<1> QED
  BY <1>1, <1>2, <1>3, <1>4, <1>5, <1>6, <1>7, <1>8, <1>9, <1>10 DEF Poll!Next, Poll!Server

-----------------------------------------------------------------------------
\* The table and the report stay right in every state.
LEMMA PollInvariant == PollSpec => []PollInv
<1>1. PollInv /\ [Poll!Next]_(Poll!vars) => PollInv'
  BY PollStepTypes, PollStepTable, PollStepReport
  DEF PollInv, Poll!PollAssumption, Poll!Cardinality, Poll!IsFiniteSet
<1> QED
  <2>1. PollInit => PollInv
    BY LoopAssumption, PollStarts DEF PollInit
  <2>2. [PollNext]_loopVars => [Poll!Next]_(Poll!vars)
    BY DEF PollNext, loopVars, vars, serverVars, sockVars, pollOnly,
           Poll!vars, Poll!serverVars, Poll!sockVars
  <2> QED
    BY <1>1, <2>1, <2>2, PTL DEF PollSpec

\* A table that names each open connection once has as many used entries.
LEMMA PollUsedAsMany ==
    ASSUME PollInv, Poll!Running
    PROVE  Cardinality(Poll!Used) = Cardinality(open)
<1> DEFINE named == [k \in Poll!Used |-> fds[k]]
<1>1. IsFiniteSet(Poll!Used)
  <2>1. IsFiniteSet(Poll!Entries)
    BY PollSizePositive, FS_Interval DEF PollInv, Poll!Entries
  <2> QED
    BY <2>1, FS_Subset DEF Poll!Used
<1>2. named \in Surjection(Poll!Used, open) /\ named \in Injection(Poll!Used, open)
  BY DEF PollInv, PollTable, Surjection, Injection, IsInjective
<1>3. ExistsBijection(Poll!Used, open)
  BY <1>2 DEF ExistsBijection, Bijection
<1> QED
  BY <1>1, <1>3, FS_Bijection

\* Socket::poll never loses a connection and never closes one twice: whatever the
\* clients do, its table and the open descriptors are the same set.
THEOREM PollEveryConnectionIsPolled == PollSpec => []EveryConnectionIsPolled
<1>1. PollInv => EveryConnectionIsPolled
  BY PollUsedAsMany, PollSizes
  DEF EveryConnectionIsPolled, Poll!EveryConnectionIsPolled, PollInv, PollTable
<1> QED
  BY <1>1, PollInvariant, PTL

\* Socket::poll acts on what this poll has reported, never on what is left in
\* revents: it blocks in none of its calls while reports are left.
THEOREM PollReportIsFresh == PollSpec => []ReportIsFresh
<1>1. PollInv => ReportIsFresh
  BY DEF ReportIsFresh, PollInv, PollReport, Poll!ReportIsFresh, Poll!Looped
<1> QED
  BY <1>1, PollInvariant, PTL

-----------------------------------------------------------------------------
(* Socket::epoll *)

\* The connection that task has been called for, until it is closed.
InTask(x) == pc \in {"write", "close"} /\ event[n] = x

Once(s) == \A j, k \in 1 .. Len(s) : s[j] = s[k] => j = k

\* The kernel's list: nothing is in it twice, and a connection that is in it is
\* open and can be read, but for the one in task.
EpollListed ==
    Epoll!Running =>
      /\ Once(ready)
      /\ \A f \in Fd : Epoll!Contains(ready, f) /\ ~InTask(f) => f \in open /\ Epoll!Ready(f)

\* The batch: it has been gone through before the next one, and what is left of
\* it names nothing twice.
EpollBatch ==
    Epoll!Running =>
      /\ pc = "wait" => n > Len(event)
      /\ \A j, k \in n .. Len(event) : event[j] = event[k] => j = k
      /\ pc \in {"write", "close"} => n <= Len(event) /\ event[n] \in open

\* A number that is given to a new connection carries nothing of an old one.
EpollQuiet == \A f \in Fd \ open : ~Epoll!Ready(f)

\* What is asked of the events themselves.
EpollEvents ==
    \A k \in Epoll!Left : IF event[k] = listenfd THEN backlog > 0
                          ELSE event[k] \in open /\ Epoll!Ready(event[k])

EpollInv ==
    /\ Epoll!EpollAssumption /\ Epoll!TypeOK
    /\ EpollListed /\ EpollBatch /\ EpollQuiet
    /\ EpollEvents /\ Epoll!NoEventLost

-----------------------------------------------------------------------------
(* What can be in the kernel's list *)

EpollFds == Fd \cup {listenfd}

\* One descriptor is taken out of it ...
LEMMA EpollWithout ==
    ASSUME ready \in Seq(EpollFds), Once(ready), NEW x
    PROVE  /\ Epoll!Without(x) \in Seq(EpollFds) /\ Once(Epoll!Without(x))
           /\ \A y : Epoll!Contains(Epoll!Without(x), y) <=> Epoll!Contains(ready, y) /\ y # x
<1> DEFINE r == Epoll!Without(x)
<1>1. CASE ~Epoll!Contains(ready, x)
  <2>1. r = ready
    BY <1>1 DEF Epoll!Without
  <2>2. \A y : Epoll!Contains(ready, y) => y # x
    BY <1>1
  <2> HIDE DEF r
  <2> QED
    BY <2>1, <2>2 DEF r
<1>2. CASE Epoll!Contains(ready, x)
  <2> DEFINE k == Epoll!Place(x)
             m == Len(ready)
  <2>1. k \in 1 .. m /\ ready[k] = x /\ m \in Nat
    BY <1>2 DEF Epoll!Place, Epoll!Contains
  <2>2. r = SubSeq(ready, 1, k - 1) \o SubSeq(ready, k + 1, m)
    BY <1>2 DEF Epoll!Without, Epoll!RemoveAt
  <2> HIDE DEF k
  <2>3. /\ r \in Seq(EpollFds) /\ Len(r) = m - 1
        /\ \A j \in 1 .. m - 1 : r[j] = IF j < k THEN ready[j] ELSE ready[j + 1]
    <3>1. /\ SubSeq(ready, 1, k - 1) \in Seq(EpollFds) /\ Len(SubSeq(ready, 1, k - 1)) = k - 1
          /\ \A j \in 1 .. k - 1 : SubSeq(ready, 1, k - 1)[j] = ready[j]
      BY <2>1
    <3>2. /\ SubSeq(ready, k + 1, m) \in Seq(EpollFds) /\ Len(SubSeq(ready, k + 1, m)) = m - k
          /\ \A j \in 1 .. m - k : SubSeq(ready, k + 1, m)[j] = ready[k + j]
      BY <2>1
    <3> DEFINE a == SubSeq(ready, 1, k - 1)
               b == SubSeq(ready, k + 1, m)
    <3> HIDE DEF a, b
    <3>3. /\ a \in Seq(EpollFds) /\ Len(a) = k - 1 /\ \A j \in 1 .. k - 1 : a[j] = ready[j]
          /\ b \in Seq(EpollFds) /\ Len(b) = m - k /\ \A j \in 1 .. m - k : b[j] = ready[k + j]
          /\ r = a \o b
      BY <2>2, <3>1, <3>2 DEF a, b
    <3> HIDE DEF r, m
    <3>4. r \in Seq(EpollFds) /\ Len(r) = m - 1
      <4>1. r \in Seq(EpollFds) /\ Len(r) = Len(a) + Len(b)
        BY <3>3, ConcatProperties
      <4> QED
        BY <2>1, <3>3, <4>1
    <3>5. ASSUME NEW j \in 1 .. m - 1 PROVE r[j] = IF j < k THEN ready[j] ELSE ready[j + 1]
      BY <2>1, <3>3
    <3> QED
      BY <3>4, <3>5
  <2> HIDE DEF r, m
  <2>4. Len(ready) = m
    BY DEF m
  <2>5. Once(r)
    <3> SUFFICES ASSUME NEW i1 \in 1 .. m - 1, NEW i2 \in 1 .. m - 1, r[i1] = r[i2] PROVE i1 = i2
      BY <2>3 DEF Once
    <3>1. \A j \in 1 .. m - 1 :
            /\ j < k => j \in 1 .. m /\ r[j] = ready[j]
            /\ j >= k => j + 1 \in 1 .. m /\ r[j] = ready[j + 1]
      BY <2>1, <2>3
    <3>2. \A j1, j2 \in 1 .. m : ready[j1] = ready[j2] => j1 = j2
      BY <2>4 DEF Once
    <3>3. CASE i1 < k /\ i2 < k
      BY <3>1, <3>2, <3>3
    <3>4. CASE i1 >= k /\ i2 >= k
      <4>1. i1 + 1 = i2 + 1
        BY <3>1, <3>2, <3>4
      <4> QED
        BY <4>1
    <3>5. CASE i1 < k /\ i2 >= k
      <4>1. i1 = i2 + 1
        BY <3>1, <3>2, <3>5
      <4> QED
        BY <2>1, <3>5, <4>1
    <3>6. CASE i1 >= k /\ i2 < k
      <4>1. i1 + 1 = i2
        BY <3>1, <3>2, <3>6
      <4> QED
        BY <2>1, <3>6, <4>1
    <3> QED
      BY <2>1, <3>3, <3>4, <3>5, <3>6
  <2>6. ASSUME NEW y PROVE Epoll!Contains(r, y) <=> Epoll!Contains(ready, y) /\ y # x
    <3>1. ASSUME NEW j \in 1 .. m - 1, r[j] = y PROVE Epoll!Contains(ready, y) /\ y # x
      BY <2>1, <2>3, <2>4, <3>1 DEF Once, Epoll!Contains
    <3>2. ASSUME NEW j \in 1 .. m, ready[j] = y, y # x PROVE Epoll!Contains(r, y)
      <4>1. CASE j < k
        <5>1. j \in 1 .. m - 1 /\ r[j] = y
          BY <2>1, <2>3, <3>2, <4>1
        <5> QED
          BY <2>3, <5>1 DEF Epoll!Contains
      <4>2. CASE j > k
        <5>1. j - 1 \in 1 .. m - 1 /\ r[j - 1] = y
          BY <2>1, <2>3, <3>2, <4>2
        <5> QED
          BY <2>3, <5>1 DEF Epoll!Contains
      <4> QED
        BY <2>1, <3>2, <4>1, <4>2
    <3> QED
      BY <2>3, <2>4, <3>1, <3>2 DEF Epoll!Contains
  <2> QED
    BY <2>3, <2>5, <2>6 DEF r
<1> QED
  BY <1>1, <1>2

\* ... or put at its end.
LEMMA EpollAppended ==
    ASSUME NEW s \in Seq(EpollFds), NEW x \in EpollFds
    PROVE  /\ Append(s, x) \in Seq(EpollFds)
           /\ Once(s) /\ ~Epoll!Contains(s, x) => Once(Append(s, x))
           /\ \A y : Epoll!Contains(Append(s, x), y) <=> Epoll!Contains(s, y) \/ y = x
<1> DEFINE r == Append(s, x)
           m == Len(s)
<1>1. /\ r \in Seq(EpollFds) /\ Len(r) = m + 1 /\ m \in Nat /\ r[m + 1] = x
      /\ \A k \in 1 .. m : r[k] = s[k]
  OBVIOUS
<1> HIDE DEF r
<1>2. Once(s) /\ ~Epoll!Contains(s, x) => Once(r)
  BY <1>1 DEF Once, Epoll!Contains
<1>3. ASSUME NEW y PROVE Epoll!Contains(r, y) <=> Epoll!Contains(s, y) \/ y = x
  BY <1>1 DEF Epoll!Contains
<1> QED
  BY <1>1, <1>2, <1>3 DEF r

\* What a client's step puts into it is there afterwards.
LEMMA EpollNoted ==
    ASSUME ready \in Seq(EpollFds), Once(ready), NEW x \in EpollFds
    PROVE  /\ Epoll!Noted(x) \in Seq(EpollFds) /\ Once(Epoll!Noted(x))
           /\ \A y : Epoll!Contains(Epoll!Noted(x), y) <=> Epoll!Contains(ready, y) \/ y = x
<1>1. CASE Epoll!Contains(ready, x)
  <2>1. Epoll!Noted(x) = ready
    BY <1>1 DEF Epoll!Noted
  <2> QED
    BY <1>1, <2>1
<1>2. CASE ~Epoll!Contains(ready, x)
  <2>1. Epoll!Noted(x) = Append(ready, x)
    BY <1>2 DEF Epoll!Noted
  <2> QED
    BY <1>2, <2>1, EpollAppended
<1> QED
  BY <1>1, <1>2

\* The first k of it and the others.
LEMMA EpollParts ==
    ASSUME ready \in Seq(EpollFds), Once(ready), NEW k \in 0 .. Len(ready),
           NEW a, NEW b, a = SubSeq(ready, 1, k), b = SubSeq(ready, k + 1, Len(ready))
    PROVE  /\ a \in Seq(EpollFds) /\ Len(a) = k /\ \A j \in 1 .. k : a[j] = ready[j]
           /\ b \in Seq(EpollFds) /\ Once(a) /\ Once(b)
           /\ \A y : Epoll!Contains(ready, y) <=> Epoll!Contains(a, y) \/ Epoll!Contains(b, y)
           /\ \A y : ~(Epoll!Contains(a, y) /\ Epoll!Contains(b, y))
<1> DEFINE m == Len(ready)
<1>1. m \in Nat /\ k \in Nat /\ k <= m
  OBVIOUS
<1>2. a \in Seq(EpollFds) /\ Len(a) = k /\ \A j \in 1 .. k : a[j] = ready[j]
  BY <1>1
<1>3. b \in Seq(EpollFds) /\ Len(b) = m - k /\ \A j \in 1 .. m - k : b[j] = ready[k + j]
  BY <1>1
<1>4. \A j1, j2 \in 1 .. m : ready[j1] = ready[j2] => j1 = j2
  BY DEF Once
<1> HIDE DEF m
<1>5. Once(a)
  BY <1>1, <1>2, <1>4 DEF Once
<1>6. Once(b)
  <2> SUFFICES ASSUME NEW j1 \in 1 .. m - k, NEW j2 \in 1 .. m - k, b[j1] = b[j2] PROVE j1 = j2
    BY <1>3 DEF Once
  <2>1. k + j1 \in 1 .. m /\ k + j2 \in 1 .. m /\ ready[k + j1] = ready[k + j2]
    BY <1>1, <1>3
  <2>2. k + j1 = k + j2
    BY <2>1, <1>4
  <2> QED
    BY <1>1, <2>2
<1>7. ASSUME NEW j \in 1 .. m, j > k PROVE j - k \in 1 .. m - k /\ b[j - k] = ready[j]
  <2>1. j - k \in 1 .. m - k /\ k + (j - k) = j
    BY <1>1, <1>7
  <2> QED
    BY <2>1, <1>3
<1>8. ASSUME NEW y, Epoll!Contains(b, y) PROVE \E j \in 1 .. m : j > k /\ ready[j] = y
  <2>1. PICK l \in 1 .. m - k : b[l] = y
    BY <1>3, <1>8 DEF Epoll!Contains
  <2>2. k + l \in 1 .. m /\ k + l > k /\ ready[k + l] = y
    BY <1>1, <1>3, <2>1
  <2> QED
    BY <2>2
<1>9. ASSUME NEW y, Epoll!Contains(a, y) PROVE \E j \in 1 .. m : j <= k /\ ready[j] = y
  BY <1>1, <1>2, <1>9 DEF Epoll!Contains
<1>10. ASSUME NEW y, Epoll!Contains(ready, y) PROVE Epoll!Contains(a, y) \/ Epoll!Contains(b, y)
  <2>1. PICK j \in 1 .. m : ready[j] = y
    BY <1>10 DEF Epoll!Contains, m
  <2>2. CASE j <= k
    <3>1. j \in 1 .. k /\ a[j] = y
      BY <1>1, <1>2, <2>1, <2>2
    <3> QED
      BY <1>2, <3>1 DEF Epoll!Contains
  <2>3. CASE j > k
    <3>1. j - k \in 1 .. m - k /\ b[j - k] = y
      BY <1>7, <2>1, <2>3
    <3> QED
      BY <1>3, <3>1 DEF Epoll!Contains
  <2> QED
    BY <1>1, <2>2, <2>3
<1>11. ASSUME NEW y, Epoll!Contains(a, y) \/ Epoll!Contains(b, y) PROVE Epoll!Contains(ready, y)
  BY <1>8, <1>9, <1>11 DEF Epoll!Contains, m
<1>12. ASSUME NEW y, Epoll!Contains(a, y), Epoll!Contains(b, y) PROVE FALSE
  <2>1. PICK j1 \in 1 .. m : j1 <= k /\ ready[j1] = y
    BY <1>9, <1>12
  <2>2. PICK j2 \in 1 .. m : j2 > k /\ ready[j2] = y
    BY <1>8, <1>12
  <2>3. j1 = j2
    BY <1>4, <2>1, <2>2
  <2> QED
    BY <1>1, <2>1, <2>2, <2>3
<1> QED
  BY <1>2, <1>3, <1>5, <1>6, <1>10, <1>11, <1>12

\* A client's step is about one connection, which it leaves with something to read.
LEMMA EpollClient ==
    ASSUME Epoll!SockTypeOK, NEW f \in Fd, Epoll!Send(f) \/ Epoll!Finish(f) \/ Epoll!Reset(f)
    PROVE  /\ f \in open /\ UNCHANGED <<backlog, open>>
           /\ Epoll!SockTypeOK' /\ Epoll!Ready(f)'
           /\ \A g \in Fd \ {f} : Epoll!Ready(g)' <=> Epoll!Ready(g)
<1> USE DEF Epoll!SockTypeOK, Epoll!Ready
<1>1. CASE Epoll!Send(f)
  <2>1. rx[f] + 1 \in 0 .. MaxRx /\ rx[f] + 1 > 0 /\ rx' = [rx EXCEPT ![f] = rx[f] + 1]
    BY <1>1 DEF Epoll!Send
  <2>2. rx' \in [Fd -> 0 .. MaxRx]
    BY <2>1
  <2> QED
    BY <1>1, <2>1, <2>2 DEF Epoll!Send
<1>2. CASE Epoll!Finish(f) \/ Epoll!Reset(f)
  BY <1>2 DEF Epoll!Finish, Epoll!Reset
<1> QED
  BY <1>1, <1>2

\* A closed connection carries nothing, and the others what they did.
LEMMA EpollClose ==
    ASSUME Epoll!SockTypeOK, NEW f \in Fd, Epoll!SysClose(f)
    PROVE  /\ Epoll!SockTypeOK' /\ open' = open \ {f} /\ backlog' = backlog
           /\ ~Epoll!Ready(f)' /\ \A g \in Fd \ {f} : Epoll!Ready(g)' <=> Epoll!Ready(g)
<1>1. /\ open' = open \ {f} /\ backlog' = backlog
      /\ rx' = [g \in Fd |-> IF g \in {f} THEN 0 ELSE rx[g]]
      /\ peer' = [g \in Fd |-> IF g \in {f} THEN "up" ELSE peer[g]]
  BY Zenon DEF Epoll!SysClose, Epoll!Closing
<1>2. rx' \in [Fd -> 0 .. MaxRx] /\ rx'[f] = 0 /\ \A g \in Fd \ {f} : rx'[g] = rx[g]
  BY <1>1 DEF Epoll!SockTypeOK
<1>3. /\ peer' \in [Fd -> {"up", "fin", "rst"}] /\ peer'[f] = "up"
      /\ \A g \in Fd \ {f} : peer'[g] = peer[g]
  BY <1>1 DEF Epoll!SockTypeOK
<1> QED
  BY <1>1, <1>2, <1>3 DEF Epoll!SockTypeOK, Epoll!Ready

\* At the end of the process none is left.
LEMMA EpollExit ==
    ASSUME Epoll!SockTypeOK, Epoll!SockExit
    PROVE  Epoll!SockTypeOK' /\ \A f \in Fd : ~Epoll!Ready(f)'
<1>1. /\ open' = open \ Fd /\ backlog' = 0
      /\ rx' = [g \in Fd |-> IF g \in Fd THEN 0 ELSE rx[g]]
      /\ peer' = [g \in Fd |-> IF g \in Fd THEN "up" ELSE peer[g]]
  BY Zenon DEF Epoll!SockExit, Epoll!Closing
<1>2. rx' = [g \in Fd |-> 0] /\ peer' = [g \in Fd |-> "up"]
  BY <1>1
<1> QED
  BY <1>1, <1>2 DEF Epoll!SockTypeOK, Epoll!Ready

-----------------------------------------------------------------------------
(* What a step of Socket::epoll makes of it all *)

\* Nothing has happened: the list and the batch are empty.
LEMMA EpollStarts == Epoll!EpollAssumption /\ Epoll!Init => EpollInv
<1> SUFFICES ASSUME Epoll!EpollAssumption, Epoll!Init PROVE EpollInv
  OBVIOUS
<1> USE DEF Epoll!Init, Epoll!SockInit, Epoll!Quiet, Epoll!AllUp, Epoll!EpollAssumption
<1>1. Epoll!TypeOK
  BY EmptySeq DEF Epoll!TypeOK, Epoll!SockTypeOK
<1>2. EpollListed /\ EpollBatch /\ EpollQuiet
  BY DEF EpollListed, EpollBatch, EpollQuiet, Once, Epoll!Contains, Epoll!Ready
<1>3. EpollEvents /\ Epoll!NoEventLost
  BY DEF EpollEvents, Epoll!Left, Epoll!NoEventLost
<1> QED
  BY <1>1, <1>2, <1>3 DEF EpollInv

\* What the invariant says of the events, without the definitions.
LEMMA EpollKnown ==
    ASSUME EpollInv
    PROVE  /\ ready \in Seq(EpollFds) /\ event \in Seq(EpollFds)
           /\ MAX_EVENT \in Nat \ {0} /\ n \in 1 .. MAX_EVENT + 1
           /\ Len(event) \in Nat /\ Len(event) <= MAX_EVENT
           /\ listenfd \notin Fd
           /\ \A k \in n .. Len(event) : event[k] \in EpollFds
<1>1. /\ ready \in Seq(EpollFds) /\ event \in Seq(EpollFds)
      /\ MAX_EVENT \in Nat \ {0} /\ n \in 1 .. MAX_EVENT + 1
      /\ Len(event) <= MAX_EVENT /\ listenfd \notin Fd
  BY DEF EpollInv, Epoll!TypeOK, Epoll!EpollAssumption, EpollFds
<1>2. Len(event) \in Nat
  BY <1>1
<1>3. ASSUME NEW k \in n .. Len(event) PROVE event[k] \in EpollFds
  <2>1. k \in 1 .. Len(event)
    BY <1>1, <1>2
  <2> QED
    BY <1>1, <2>1, ElementOfSeq
<1> QED
  BY <1>1, <1>2, <1>3

\* An entry of the list that turns out not to be ready is no loss.
LEMMA EpollSkipsStep ==
    ASSUME EpollInv, NEW x \in EpollFds, Epoll!EpollSkips(x)
    PROVE  EpollInv'
<1> DEFINE r == Epoll!Without(x)
<1>1. /\ pc = "wait" /\ ~Epoll!HasEvent(x) /\ ready' = r
      /\ UNCHANGED <<pc, event, n, backlog, open, rx, peer>>
  BY DEF Epoll!EpollSkips, Epoll!sockVars
<1>2. Epoll!Running /\ Epoll!Running'
  BY <1>1 DEF Epoll!Running
<1>3. ready \in Seq(EpollFds) /\ Once(ready) /\ listenfd \notin Fd
  BY <1>2, EpollKnown DEF EpollInv, EpollListed
<1>4. /\ r \in Seq(EpollFds) /\ Once(r)
      /\ \A y : Epoll!Contains(r, y) <=> Epoll!Contains(ready, y) /\ y # x
  BY <1>3, EpollWithout
<1> HIDE DEF r
<1>5. Epoll!EpollAssumption' /\ Epoll!TypeOK'
  BY <1>1, <1>4 DEF EpollInv, Epoll!TypeOK, Epoll!SockTypeOK, Epoll!EpollAssumption, EpollFds
<1>6. EpollListed'
  BY <1>1, <1>2, <1>4 DEF EpollInv, EpollListed, InTask, Epoll!Ready, Once, Epoll!Contains
<1>7. EpollBatch' /\ EpollQuiet' /\ EpollEvents'
  BY <1>1, <1>2
  DEF EpollInv, EpollBatch, EpollQuiet, EpollEvents, Epoll!Left, Epoll!Ready
<1>8. Epoll!NoEventLost'
  <2>1. ASSUME NEW f \in open, Epoll!Ready(f) PROVE f # x /\ f # listenfd
    BY <1>1, <1>3, <2>1 DEF Epoll!HasEvent, EpollInv, Epoll!TypeOK, Epoll!SockTypeOK
  <2>2. backlog > 0 => x # listenfd
    BY <1>1 DEF Epoll!HasEvent
  <2>3. \A f \in open : Epoll!Ready(f) =>
          Epoll!Contains(r, f) \/ \E k \in n .. Len(event) : event[k] = f
    BY <1>2, <1>4, <2>1 DEF EpollInv, Epoll!NoEventLost
  <2>4. backlog > 0 => Epoll!Contains(r, listenfd)
    BY <1>2, <1>4, <2>2 DEF EpollInv, Epoll!NoEventLost
  <2> QED
    BY <1>1, <2>3, <2>4 DEF Epoll!NoEventLost, Epoll!Ready, Epoll!Contains
<1> QED
  BY <1>5, <1>6, <1>7, <1>8 DEF EpollInv

\* epoll_wait moves a part of the list into the batch.
LEMMA EpollWaitStep ==
    ASSUME EpollInv, Epoll!EpollWait
    PROVE  EpollInv'
<1> DEFINE m == Epoll!BatchSize
           a == SubSeq(ready, 1, m)
           b == SubSeq(ready, m + 1, Len(ready))
<1>0. Epoll!Running /\ Epoll!Running'
  BY DEF Epoll!EpollWait, Epoll!Running
<1>1. /\ ready # <<>> /\ \A k \in 1 .. m : Epoll!HasEvent(ready[k])
      /\ event' = a /\ n' = 1 /\ pc = "wait" /\ pc' = "batch"
      /\ ready' = IF Epoll!Contains(a, listenfd) THEN Append(b, listenfd) ELSE b
      /\ UNCHANGED <<backlog, open, rx, peer>>
  BY DEF Epoll!EpollWait, Epoll!sockVars
<1>2. ready \in Seq(EpollFds) /\ Once(ready) /\ MAX_EVENT \in Nat \ {0} /\ listenfd \notin Fd
  BY <1>0, EpollKnown DEF EpollInv, EpollListed
<1>3. m \in 0 .. Len(ready) /\ m <= MAX_EVENT
  BY <1>2 DEF Epoll!BatchSize
<1> HIDE DEF m
<1>4. /\ a \in Seq(EpollFds) /\ Len(a) = m /\ \A j \in 1 .. m : a[j] = ready[j]
      /\ b \in Seq(EpollFds) /\ Once(a) /\ Once(b)
      /\ \A y : Epoll!Contains(ready, y) <=> Epoll!Contains(a, y) \/ Epoll!Contains(b, y)
      /\ \A y : ~(Epoll!Contains(a, y) /\ Epoll!Contains(b, y))
  BY <1>2, <1>3, EpollParts, ZenonT(60)
<1> HIDE DEF a, b
<1>5. /\ ready' \in Seq(EpollFds) /\ Once(ready')
      /\ \A y : Epoll!Contains(b, y) => Epoll!Contains(ready', y)
      /\ \A y : Epoll!Contains(ready', y) => Epoll!Contains(ready, y)
      /\ Epoll!Contains(ready, listenfd) => Epoll!Contains(ready', listenfd)
  <2>1. CASE Epoll!Contains(a, listenfd)
    <3>1. ready' = Append(b, listenfd) /\ ~Epoll!Contains(b, listenfd) /\ listenfd \in EpollFds
      BY <1>1, <1>4, <2>1 DEF EpollFds
    <3> QED
      BY <1>4, <2>1, <3>1, EpollAppended
  <2>2. CASE ~Epoll!Contains(a, listenfd)
    BY <1>1, <1>4, <2>2
  <2> QED
    BY <2>1, <2>2
<1>6. Epoll!EpollAssumption' /\ Epoll!TypeOK'
  BY <1>1, <1>2, <1>3, <1>4, <1>5
  DEF EpollInv, Epoll!TypeOK, Epoll!SockTypeOK, Epoll!EpollAssumption, EpollFds
<1>7. \A f \in Fd : Epoll!Contains(ready, f) => f \in open /\ Epoll!Ready(f)
  BY <1>0, <1>1 DEF EpollInv, EpollListed, InTask
<1>8. EpollListed'
  <2>1. Once(ready)'
    BY <1>5 DEF Once
  <2>2. ASSUME NEW f \in Fd, Epoll!Contains(ready, f)' PROVE f \in open' /\ Epoll!Ready(f)'
    <3>1. Epoll!Contains(ready', f)
      BY <2>2 DEF Epoll!Contains
    <3> QED
      BY <1>1, <1>5, <1>7, <3>1 DEF Epoll!Ready
  <2> QED
    BY <2>1, <2>2 DEF EpollListed
<1>9. EpollBatch'
  BY <1>1, <1>4 DEF EpollBatch, Once
<1>10. EpollQuiet'
  BY <1>1 DEF EpollInv, EpollQuiet, Epoll!Ready
<1>11. EpollEvents'
  <2> SUFFICES ASSUME NEW k \in 1 .. m
               PROVE  IF a[k] = listenfd THEN backlog > 0 ELSE a[k] \in open /\ Epoll!Ready(a[k])
    BY <1>1, <1>4 DEF EpollEvents, Epoll!Left, Epoll!Ready
  <2>1. a[k] \in EpollFds /\ Epoll!HasEvent(a[k]) /\ Epoll!Contains(ready, a[k])
    <3>1. k \in 1 .. Len(a) /\ k \in 1 .. Len(ready) /\ a[k] = ready[k]
      BY <1>3, <1>4
    <3>2. a[k] \in EpollFds
      BY <1>4, <3>1, ElementOfSeq
    <3> QED
      BY <1>1, <3>1, <3>2 DEF Epoll!Contains
  <2> QED
    BY <1>7, <2>1 DEF Epoll!HasEvent, EpollFds
<1>12. Epoll!NoEventLost'
  <2>1. n > Len(event) /\ n \in Int /\ Len(event) \in Int
    BY <1>0, <1>1, EpollKnown DEF EpollInv, EpollBatch
  <2>2. \A f \in open : Epoll!Ready(f) => Epoll!Contains(ready, f)
    BY <1>0, <2>1 DEF EpollInv, Epoll!NoEventLost
  <2>3. \A f \in open : Epoll!Ready(f) => Epoll!Contains(ready', f) \/ Epoll!Contains(a, f)
    BY <1>4, <1>5, <2>2
  <2>4. backlog > 0 => Epoll!Contains(ready', listenfd)
    BY <1>0, <1>5 DEF EpollInv, Epoll!NoEventLost
  <2> QED
    BY <1>1, <2>3, <2>4 DEF Epoll!NoEventLost, Epoll!Ready, Epoll!Contains
<1> QED
  BY <1>6, <1>8, <1>9, <1>10, <1>11, <1>12 DEF EpollInv

\* The batch has been gone through.
LEMMA EpollBatchDoneStep ==
    ASSUME EpollInv, Epoll!BatchDone
    PROVE  EpollInv'
<1>1. /\ pc = "batch" /\ n > Len(event) /\ pc' = "wait"
      /\ UNCHANGED <<ready, event, n, backlog, open, rx, peer>>
  BY DEF Epoll!BatchDone, Epoll!sockVars
<1> QED
  BY <1>1
  DEF EpollInv, Epoll!EpollAssumption, Epoll!TypeOK, Epoll!SockTypeOK, EpollListed, EpollBatch,
      EpollQuiet, EpollEvents, Epoll!Left, Epoll!NoEventLost, Epoll!Running, InTask, Once,
      Epoll!Contains, Epoll!Ready

\* accept takes one client away, and no other event of the batch is about them; the
\* number it returns was closed, so that no event is about that one either.
LEMMA EpollNewClientStep ==
    ASSUME EpollInv, NEW f \in Fd, Epoll!NewClient(f)
    PROVE  EpollInv'
<1>1. /\ pc = "batch" /\ n <= Len(event) /\ event[n] = listenfd /\ n' = n + 1
      /\ backlog > 0 /\ backlog' = backlog - 1 /\ f \notin open /\ open' = open \cup {f}
      /\ UNCHANGED <<pc, ready, event, rx, peer>>
  BY DEF Epoll!NewClient, Epoll!Current, Epoll!SysAccept
<1>2. Epoll!Running /\ Epoll!Running'
  BY <1>1 DEF Epoll!Running
<1>3. /\ Len(event) \in Nat /\ n \in Nat \ {0} /\ Len(event) <= MAX_EVENT /\ MAX_EVENT \in Nat
      /\ listenfd \notin Fd /\ n \in n .. Len(event)
  BY <1>1, EpollKnown
<1>4. Epoll!EpollAssumption' /\ Epoll!TypeOK'
  BY <1>1, <1>3 DEF EpollInv, Epoll!EpollAssumption, Epoll!TypeOK, Epoll!SockTypeOK
<1>5. EpollListed'
  <2>1. Once(ready)'
    BY <1>1, <1>2 DEF EpollInv, EpollListed, Once
  <2>2. ASSUME NEW g \in Fd, Epoll!Contains(ready, g)' PROVE g \in open' /\ Epoll!Ready(g)'
    <3>1. Epoll!Contains(ready, g) /\ ~InTask(g)
      BY <1>1, <2>2 DEF Epoll!Contains, InTask
    <3>2. g \in open /\ Epoll!Ready(g)
      BY <1>2, <3>1 DEF EpollInv, EpollListed
    <3> QED
      BY <1>1, <3>2 DEF Epoll!Ready
  <2> QED
    BY <2>1, <2>2 DEF EpollListed
<1>6. EpollBatch'
  BY <1>1, <1>2, <1>3 DEF EpollInv, EpollBatch
<1>7. EpollQuiet'
  BY <1>1 DEF EpollInv, EpollQuiet, Epoll!Ready
<1>8. EpollEvents'
  <2> SUFFICES ASSUME NEW k \in n + 1 .. Len(event)
               PROVE  event[k] # listenfd /\ event[k] \in open /\ Epoll!Ready(event[k])
    BY <1>1 DEF EpollEvents, Epoll!Left, Epoll!Ready
  <2>1. k \in n .. Len(event) /\ k # n
    BY <1>3
  <2>2. event[k] # event[n]
    BY <1>2, <1>3, <2>1 DEF EpollInv, EpollBatch
  <2> QED
    BY <1>1, <2>1, <2>2 DEF EpollInv, EpollEvents, Epoll!Left
<1>9. Epoll!NoEventLost'
  <2>1. ~Epoll!Ready(f)
    BY <1>1 DEF EpollInv, EpollQuiet
  <2>2. ASSUME NEW g \in open, Epoll!Ready(g)
        PROVE  Epoll!Contains(ready, g) \/ \E k \in n + 1 .. Len(event) : event[k] = g
    <3>1. CASE \E k \in n .. Len(event) : event[k] = g
      <4>1. g # listenfd
        BY <1>3 DEF EpollInv, Epoll!TypeOK, Epoll!SockTypeOK
      <4>2. PICK k \in n .. Len(event) : event[k] = g
        BY <3>1
      <4>3. k # n
        BY <1>1, <4>1, <4>2
      <4>4. k \in n + 1 .. Len(event)
        BY <1>3, <4>2, <4>3
      <4> QED
        BY <4>2, <4>4
    <3> QED
      BY <1>2, <2>2, <3>1 DEF EpollInv, Epoll!NoEventLost
  <2>3. backlog > 0 => Epoll!Contains(ready, listenfd)
    BY <1>2 DEF EpollInv, Epoll!NoEventLost
  <2> QED
    BY <1>1, <2>1, <2>2, <2>3 DEF Epoll!NoEventLost, Epoll!Ready, Epoll!Contains
<1> QED
  BY <1>4, <1>5, <1>6, <1>7, <1>8, <1>9 DEF EpollInv

\* The process ends: nothing is promised of what it leaves.
LEMMA EpollEndStep ==
    ASSUME EpollInv, Epoll!AcceptFails \/ Epoll!TaskKilled
    PROVE  EpollInv'
<1>1. pc' \in {"exited", "killed"} /\ Epoll!SockExit /\ UNCHANGED <<ready, event, n>>
  BY DEF Epoll!AcceptFails, Epoll!TaskKilled
<1>2. Epoll!SockTypeOK' /\ \A f \in Fd : ~Epoll!Ready(f)'
  BY <1>1, EpollExit DEF EpollInv, Epoll!TypeOK
<1>3. Epoll!EpollAssumption' /\ Epoll!TypeOK'
  BY <1>1, <1>2 DEF EpollInv, Epoll!TypeOK, Epoll!EpollAssumption
<1>4. EpollListed' /\ EpollBatch' /\ Epoll!NoEventLost'
  BY <1>1 DEF EpollListed, EpollBatch, Epoll!NoEventLost, Epoll!Running
<1>5. EpollQuiet' /\ EpollEvents'
  BY <1>1, <1>2 DEF EpollQuiet, EpollEvents, Epoll!Left
<1> QED
  BY <1>3, <1>4, <1>5 DEF EpollInv

\* task reads what its event was about.
LEMMA EpollTaskReadStep ==
    ASSUME EpollInv, NEW f \in Fd, Epoll!TaskRead(f)
    PROVE  EpollInv'
<1>1. /\ pc = "batch" /\ pc' = "write" /\ n <= Len(event) /\ event[n] = f
      /\ rx' = [rx EXCEPT ![f] = 0]
      /\ UNCHANGED <<backlog, open, peer, ready, event, n>>
  BY DEF Epoll!TaskRead, Epoll!Current
<1>2. Epoll!Running /\ Epoll!Running'
  BY <1>1 DEF Epoll!Running
<1>3. Len(event) \in Nat /\ n \in Nat \ {0} /\ listenfd \notin Fd /\ n \in n .. Len(event)
  BY <1>1, EpollKnown
<1>4. f \in open
  BY <1>1, <1>3 DEF EpollInv, EpollEvents, Epoll!Left
<1>5. rx' \in [Fd -> 0 .. MaxRx] /\ \A g \in Fd \ {f} : Epoll!Ready(g)' <=> Epoll!Ready(g)
  BY <1>1 DEF EpollInv, Epoll!TypeOK, Epoll!SockTypeOK, Epoll!Ready
<1>6. Epoll!EpollAssumption' /\ Epoll!TypeOK'
  BY <1>1, <1>5 DEF EpollInv, Epoll!EpollAssumption, Epoll!TypeOK, Epoll!SockTypeOK
<1>7. EpollListed'
  <2>1. Once(ready)'
    BY <1>1, <1>2 DEF EpollInv, EpollListed, Once
  <2>2. ASSUME NEW g \in Fd, Epoll!Contains(ready, g)', ~InTask(g)'
        PROVE  g \in open' /\ Epoll!Ready(g)'
    <3>1. Epoll!Contains(ready, g) /\ ~InTask(g) /\ g # f
      BY <1>1, <2>2 DEF Epoll!Contains, InTask
    <3>2. g \in open /\ Epoll!Ready(g)
      BY <1>2, <3>1 DEF EpollInv, EpollListed
    <3> QED
      BY <1>1, <1>5, <3>1, <3>2
  <2> QED
    BY <2>1, <2>2 DEF EpollListed
<1>8. EpollBatch'
  BY <1>1, <1>2, <1>4 DEF EpollInv, EpollBatch
<1>9. EpollQuiet'
  BY <1>1, <1>4, <1>5 DEF EpollInv, EpollQuiet
<1>10. EpollEvents'
  <2> SUFFICES ASSUME NEW k \in n .. Len(event), k > n
               PROVE  IF event[k] = listenfd THEN backlog > 0
                      ELSE event[k] \in open /\ Epoll!Ready(event[k])'
    BY <1>1 DEF EpollEvents, Epoll!Left, Epoll!Ready
  <2>1. event[k] # f
    BY <1>1, <1>2, <1>3 DEF EpollInv, EpollBatch
  <2>2. event[k] \in EpollFds
    BY EpollKnown
  <2> QED
    BY <1>1, <1>5, <2>1, <2>2 DEF EpollInv, EpollEvents, Epoll!Left, EpollFds
<1>11. Epoll!NoEventLost'
  <2>1. ASSUME NEW g \in open, Epoll!Ready(g)'
        PROVE  Epoll!Contains(ready, g) \/ \E k \in n .. Len(event) : event[k] = g
    <3>1. CASE g = f
      BY <1>1, <1>3, <3>1
    <3>2. CASE g # f
      <4>1. g \in Fd /\ Epoll!Ready(g)
        BY <1>5, <2>1, <3>2 DEF EpollInv, Epoll!TypeOK, Epoll!SockTypeOK
      <4> QED
        BY <1>2, <4>1 DEF EpollInv, Epoll!NoEventLost
    <3> QED
      BY <3>1, <3>2
  <2>2. backlog > 0 => Epoll!Contains(ready, listenfd)
    BY <1>2 DEF EpollInv, Epoll!NoEventLost
  <2> QED
    BY <1>1, <2>1, <2>2 DEF Epoll!NoEventLost, Epoll!Contains
<1> QED
  BY <1>6, <1>7, <1>8, <1>9, <1>10, <1>11 DEF EpollInv

\* The answer changes nothing here.
LEMMA EpollTaskWriteStep ==
    ASSUME EpollInv, Epoll!TaskWrite
    PROVE  EpollInv'
<1>1. /\ pc = "write" /\ pc' = "close"
      /\ UNCHANGED <<ready, event, n, backlog, open, rx, peer>>
  BY DEF Epoll!TaskWrite, Epoll!sockVars
<1> QED
  BY <1>1
  DEF EpollInv, Epoll!EpollAssumption, Epoll!TypeOK, Epoll!SockTypeOK, EpollListed, EpollBatch,
      EpollQuiet, EpollEvents, Epoll!Left, Epoll!NoEventLost, Epoll!Running, InTask, Once,
      Epoll!Contains, Epoll!Ready

\* close ends the connection and takes it out of the list; no later event of the batch
\* is about it.
LEMMA EpollTaskCloseStep ==
    ASSUME EpollInv, Epoll!TaskClose
    PROVE  EpollInv'
<1>0. PICK f : f = event[n]
  OBVIOUS
<1> DEFINE r == Epoll!Without(f)
<1>1. /\ pc = "close" /\ pc' = "batch" /\ Epoll!SysClose(f) /\ ready' = r
      /\ n' = n + 1 /\ event' = event
  BY <1>0 DEF Epoll!TaskClose
<1>2. Epoll!Running /\ Epoll!Running'
  BY <1>1 DEF Epoll!Running
<1>3. n <= Len(event) /\ f \in open /\ f \in Fd
  BY <1>0, <1>1, <1>2 DEF EpollInv, EpollBatch, Epoll!TypeOK, Epoll!SockTypeOK
<1>4. /\ ready \in Seq(EpollFds) /\ Once(ready) /\ listenfd \notin Fd /\ Len(event) \in Nat
      /\ n \in Nat \ {0} /\ Len(event) <= MAX_EVENT /\ MAX_EVENT \in Nat /\ n \in n .. Len(event)
  BY <1>2, <1>3, EpollKnown DEF EpollInv, EpollListed
<1>5. /\ r \in Seq(EpollFds) /\ Once(r)
      /\ \A y : Epoll!Contains(r, y) <=> Epoll!Contains(ready, y) /\ y # f
  BY <1>4, EpollWithout
<1>6. /\ Epoll!SockTypeOK' /\ open' = open \ {f} /\ backlog' = backlog
      /\ ~Epoll!Ready(f)' /\ \A g \in Fd \ {f} : Epoll!Ready(g)' <=> Epoll!Ready(g)
  BY <1>1, <1>3, EpollClose DEF EpollInv, Epoll!TypeOK
<1>n. InTask(f) /\ \A y : InTask(y) => y = f
  BY <1>0, <1>1 DEF InTask
<1>v. \A k \in n + 1 .. Len(event) :
        k \in n .. Len(event) /\ k # n /\ event[k] # f /\ event[k] \in EpollFds
  BY <1>0, <1>2, <1>4, EpollKnown DEF EpollInv, EpollBatch
<1> HIDE DEF r
<1>7. Epoll!EpollAssumption' /\ Epoll!TypeOK'
  BY <1>1, <1>3, <1>4, <1>5, <1>6 DEF EpollInv, Epoll!EpollAssumption, Epoll!TypeOK, EpollFds
<1>8. EpollListed'
  <2>1. Once(ready)'
    BY <1>1, <1>5 DEF Once
  <2>2. ASSUME NEW g \in Fd, Epoll!Contains(ready, g)' PROVE g \in open' /\ Epoll!Ready(g)'
    <3>1. Epoll!Contains(r, g)
      BY <1>1, <2>2 DEF Epoll!Contains
    <3>2. Epoll!Contains(ready, g) /\ g # f
      BY <1>5, <3>1
    <3>3. g \in open /\ Epoll!Ready(g)
      BY <1>2, <1>n, <3>2 DEF EpollInv, EpollListed
    <3> QED
      BY <1>6, <3>2, <3>3
  <2> QED
    BY <2>1, <2>2 DEF EpollListed
<1>9. EpollBatch'
  BY <1>1, <1>2, <1>v DEF EpollInv, EpollBatch
<1>10. EpollQuiet'
  BY <1>6 DEF EpollInv, EpollQuiet
<1>11. EpollEvents'
  <2> SUFFICES ASSUME NEW k \in n + 1 .. Len(event)
               PROVE  IF event[k] = listenfd THEN backlog > 0
                      ELSE event[k] \in open' /\ Epoll!Ready(event[k])'
    BY <1>1, <1>6 DEF EpollEvents, Epoll!Left, Epoll!Ready
  <2>1. k \in Epoll!Left
    BY <1>1, <1>4, <1>v DEF Epoll!Left
  <2>2. IF event[k] = listenfd THEN backlog > 0 ELSE event[k] \in open /\ Epoll!Ready(event[k])
    BY <2>1 DEF EpollInv, EpollEvents
  <2>3. event[k] # f /\ event[k] \in EpollFds /\ event' = event
    BY <1>1, <1>v
  <2>4. event[k] # listenfd => event[k] \in open' /\ Epoll!Ready(event[k])'
    BY <1>6, <2>2, <2>3 DEF EpollFds, Epoll!Ready
  <2> QED
    BY <1>6, <2>2, <2>4
<1>12. Epoll!NoEventLost'
  <2>1. ASSUME NEW g \in open', Epoll!Ready(g)'
        PROVE  Epoll!Contains(r, g) \/ \E k \in n + 1 .. Len(event) : event[k] = g
    <3>1. g \in open /\ g # f /\ Epoll!Ready(g)
      BY <1>6, <2>1 DEF EpollInv, Epoll!TypeOK, Epoll!SockTypeOK
    <3>2. CASE Epoll!Contains(ready, g)
      BY <1>5, <3>1, <3>2
    <3>3. CASE \E k \in n .. Len(event) : event[k] = g
      <4>1. PICK k \in n .. Len(event) : event[k] = g
        BY <3>3
      <4>2. k # n
        BY <1>0, <3>1, <4>1
      <4>3. k \in n + 1 .. Len(event)
        BY <1>4, <4>1, <4>2
      <4> QED
        BY <4>1, <4>3
    <3> QED
      BY <1>2, <3>1, <3>2, <3>3 DEF EpollInv, Epoll!NoEventLost
  <2>2. backlog > 0 => Epoll!Contains(r, listenfd)
    BY <1>2, <1>3, <1>4, <1>5 DEF EpollInv, Epoll!NoEventLost
  <2> QED
    BY <1>1, <1>6, <2>1, <2>2 DEF Epoll!NoEventLost, Epoll!Contains
<1> QED
  BY <1>7, <1>8, <1>9, <1>10, <1>11, <1>12 DEF EpollInv

\* Whoever has connected is noted ...
LEMMA EpollConnectStep ==
    ASSUME EpollInv, Epoll!Running, Epoll!Connect, ready' = Epoll!Noted(listenfd),
           UNCHANGED <<pc, event, n>>
    PROVE  EpollInv'
<1> DEFINE r == Epoll!Noted(listenfd)
<1>1. /\ backlog' = backlog + 1 /\ UNCHANGED <<open, rx, peer, pc, event, n>>
      /\ backlog + Cardinality(open) < MaxClients /\ Epoll!Running'
  <2>1. \A S : Epoll!Cardinality(S) = Cardinality(S)
    BY DEF Epoll!Cardinality, Epoll!IsFiniteSet, Cardinality, IsFiniteSet
  <2> QED
    BY <2>1 DEF Epoll!Connect, Epoll!Running
<1>2. ready \in Seq(EpollFds) /\ Once(ready) /\ listenfd \in EpollFds /\ listenfd \notin Fd
  BY EpollKnown DEF EpollInv, EpollListed, EpollFds
<1>3. /\ r \in Seq(EpollFds) /\ Once(r)
      /\ \A y : Epoll!Contains(r, y) <=> Epoll!Contains(ready, y) \/ y = listenfd
  BY <1>2, EpollNoted
<1> HIDE DEF r
<1>4. ready' = r
  BY DEF r
<1>5. backlog + 1 \in 0 .. MaxClients
  <2>1. Cardinality(open) \in Nat /\ backlog \in Nat
    <3>1. open \subseteq Fd /\ backlog \in Nat
      BY DEF EpollInv, Epoll!TypeOK, Epoll!SockTypeOK
    <3> QED
      BY <3>1, FS_Subset, FS_CardinalityType
  <2> QED
    BY <1>1, <2>1
<1>6. Epoll!EpollAssumption' /\ Epoll!TypeOK'
  BY <1>1, <1>3, <1>4, <1>5
  DEF EpollInv, Epoll!EpollAssumption, Epoll!TypeOK, Epoll!SockTypeOK, EpollFds
<1>7. EpollListed'
  <2>1. Once(ready)'
    BY <1>3, <1>4 DEF Once
  <2>2. ASSUME NEW g \in Fd, Epoll!Contains(ready, g)', ~InTask(g)'
        PROVE  g \in open' /\ Epoll!Ready(g)'
    <3>1. Epoll!Contains(r, g) /\ ~InTask(g)
      BY <1>1, <1>4, <2>2 DEF Epoll!Contains, InTask
    <3>2. Epoll!Contains(ready, g)
      BY <1>2, <1>3, <3>1
    <3> QED
      BY <1>1, <3>1, <3>2 DEF EpollInv, EpollListed, Epoll!Ready
  <2> QED
    BY <2>1, <2>2 DEF EpollListed
<1>8. EpollBatch' /\ EpollQuiet'
  BY <1>1 DEF EpollInv, EpollBatch, EpollQuiet, Epoll!Ready
<1>9. EpollEvents'
  BY <1>1, <1>5 DEF EpollInv, EpollEvents, Epoll!Left, Epoll!Ready, Epoll!TypeOK, Epoll!SockTypeOK
<1>10. Epoll!NoEventLost'
  <2>1. \A g \in open : Epoll!Ready(g) =>
          Epoll!Contains(r, g) \/ \E k \in n .. Len(event) : event[k] = g
    BY <1>3 DEF EpollInv, Epoll!NoEventLost
  <2>2. Epoll!Contains(r, listenfd)
    BY <1>3
  <2> QED
    BY <1>1, <1>4, <2>1, <2>2 DEF Epoll!NoEventLost, Epoll!Ready, Epoll!Contains
<1> QED
  BY <1>6, <1>7, <1>8, <1>9, <1>10 DEF EpollInv

\* ... and so is a connection on which something has happened.
LEMMA EpollClientStep ==
    ASSUME EpollInv, Epoll!Running, NEW f \in Fd, Epoll!Send(f) \/ Epoll!Finish(f) \/ Epoll!Reset(f),
           ready' = Epoll!Noted(f), UNCHANGED <<pc, event, n>>
    PROVE  EpollInv'
<1> DEFINE r == Epoll!Noted(f)
<1>1. /\ f \in open /\ UNCHANGED <<backlog, open, pc, event, n>>
      /\ Epoll!SockTypeOK' /\ Epoll!Ready(f)'
      /\ \A g \in Fd \ {f} : Epoll!Ready(g)' <=> Epoll!Ready(g)
  BY EpollClient DEF EpollInv, Epoll!TypeOK
<1>2. ready \in Seq(EpollFds) /\ Once(ready) /\ f \in EpollFds /\ listenfd \notin Fd /\ Epoll!Running'
  BY EpollKnown DEF EpollInv, EpollListed, EpollFds, Epoll!Running
<1>3. /\ r \in Seq(EpollFds) /\ Once(r)
      /\ \A y : Epoll!Contains(r, y) <=> Epoll!Contains(ready, y) \/ y = f
  BY <1>2, EpollNoted
<1> HIDE DEF r
<1>4. ready' = r
  BY DEF r
<1>5. Epoll!EpollAssumption' /\ Epoll!TypeOK'
  BY <1>1, <1>3, <1>4 DEF EpollInv, Epoll!EpollAssumption, Epoll!TypeOK, EpollFds
<1>6. EpollListed'
  <2>1. Once(ready)'
    BY <1>3, <1>4 DEF Once
  <2>2. ASSUME NEW g \in Fd, Epoll!Contains(ready, g)', ~InTask(g)'
        PROVE  g \in open' /\ Epoll!Ready(g)'
    <3>1. Epoll!Contains(r, g) /\ ~InTask(g)
      BY <1>1, <1>4, <2>2 DEF Epoll!Contains, InTask
    <3>2. g # f => g \in open /\ Epoll!Ready(g)
      BY <1>3, <3>1 DEF EpollInv, EpollListed
    <3> QED
      BY <1>1, <3>2
  <2> QED
    BY <2>1, <2>2 DEF EpollListed
<1>7. EpollBatch' /\ EpollQuiet'
  <2>1. EpollBatch'
    BY <1>1, <1>2 DEF EpollInv, EpollBatch
  <2>2. EpollQuiet'
    BY <1>1 DEF EpollInv, EpollQuiet
  <2> QED
    BY <2>1, <2>2
<1>8. EpollEvents'
  <2> SUFFICES ASSUME NEW k \in Epoll!Left
               PROVE  IF event[k] = listenfd THEN backlog > 0
                      ELSE event[k] \in open /\ Epoll!Ready(event[k])'
    BY <1>1 DEF EpollEvents, Epoll!Left, Epoll!Ready
  <2>1. event[k] \in EpollFds
    BY EpollKnown DEF Epoll!Left
  <2>2. IF event[k] = listenfd THEN backlog > 0 ELSE event[k] \in open /\ Epoll!Ready(event[k])
    BY DEF EpollInv, EpollEvents
  <2> QED
    BY <1>1, <2>1, <2>2 DEF EpollFds
<1>9. Epoll!NoEventLost'
  <2>1. ASSUME NEW g \in open, Epoll!Ready(g)'
        PROVE  Epoll!Contains(r, g) \/ \E k \in n .. Len(event) : event[k] = g
    <3>1. CASE g = f
      BY <1>3, <3>1
    <3>2. CASE g # f
      <4>1. g \in Fd /\ Epoll!Ready(g)
        BY <1>1, <2>1, <3>2 DEF EpollInv, Epoll!TypeOK, Epoll!SockTypeOK
      <4> QED
        BY <1>3, <4>1 DEF EpollInv, Epoll!NoEventLost
    <3> QED
      BY <3>1, <3>2
  <2>2. backlog > 0 => Epoll!Contains(r, listenfd)
    BY <1>3 DEF EpollInv, Epoll!NoEventLost
  <2> QED
    BY <1>1, <1>4, <2>1, <2>2 DEF Epoll!NoEventLost, Epoll!Contains
<1> QED
  BY <1>5, <1>6, <1>7, <1>8, <1>9 DEF EpollInv

-----------------------------------------------------------------------------
\* The list, the batch and the connections fit together in every state.
LEMMA EpollInvariant == EpollSpec => []EpollInv
<1>1. EpollInv /\ [Epoll!Next]_(Epoll!vars) => EpollInv'
  <2> SUFFICES ASSUME EpollInv, [Epoll!Next]_(Epoll!vars) PROVE EpollInv'
    OBVIOUS
  <2>1. ASSUME NEW x \in Fd \cup {listenfd}, Epoll!EpollSkips(x) PROVE EpollInv'
    BY <2>1, EpollSkipsStep DEF EpollFds
  <2>2. ASSUME NEW f \in Fd, Epoll!NewClient(f) \/ Epoll!TaskRead(f) PROVE EpollInv'
    BY <2>2, EpollNewClientStep, EpollTaskReadStep
  <2>3. CASE Epoll!Environment
    <3>1. CASE Epoll!Connect /\ ready' = Epoll!Noted(listenfd)
      BY <2>3, <3>1, EpollConnectStep DEF Epoll!Environment
    <3>2. ASSUME NEW f \in Fd, Epoll!Send(f) \/ Epoll!Finish(f) \/ Epoll!Reset(f),
                 ready' = Epoll!Noted(f)
          PROVE  EpollInv'
      BY <2>3, <3>2, EpollClientStep DEF Epoll!Environment
    <3> QED
      BY <2>3, <3>1, <3>2 DEF Epoll!Environment
  <2>4. CASE UNCHANGED Epoll!vars
    <3>1. UNCHANGED <<pc, ready, event, n, backlog, open, rx, peer>>
      BY <2>4 DEF Epoll!vars, Epoll!serverVars, Epoll!sockVars
    <3> QED
      BY <3>1
      DEF EpollInv, Epoll!EpollAssumption, Epoll!TypeOK, Epoll!SockTypeOK, EpollListed, EpollBatch,
          EpollQuiet, EpollEvents, Epoll!Left, Epoll!NoEventLost, Epoll!Running, InTask, Once,
          Epoll!Contains, Epoll!Ready
  <2> QED
    BY <2>1, <2>2, <2>3, <2>4, EpollWaitStep, EpollBatchDoneStep, EpollEndStep, EpollTaskWriteStep,
       EpollTaskCloseStep
    DEF Epoll!Next, Epoll!Server
<1> QED
  <2>1. EpollInit => EpollInv
    BY LoopAssumption, EpollStarts DEF EpollInit
  <2>2. [EpollNext]_loopVars => [Epoll!Next]_(Epoll!vars)
    BY DEF EpollNext, loopVars, vars, serverVars, sockVars, epollOnly,
           Epoll!vars, Epoll!serverVars, Epoll!sockVars
  <2> QED
    BY <1>1, <2>1, <2>2, PTL DEF EpollSpec

\* Socket::epoll never works on an event that has become about another connection, or
\* about none, and never waits for a client in accept or in read.
THEOREM EpollEventsStayTrue == EpollSpec => []EventsStayTrue
<1>1. EpollInv => EventsStayTrue
  BY DEF EpollInv, EpollEvents, EventsStayTrue, Epoll!EventsStayTrue
<1> QED
  BY <1>1, EpollInvariant, PTL

\* Although a connection is watched edge-triggered, Socket::epoll forgets none of which
\* there is something to read, and no client that waits to be accepted.
THEOREM EpollNoEventLost == EpollSpec => []NoEventLost
<1>1. EpollInv => NoEventLost
  BY DEF EpollInv, NoEventLost
<1> QED
  BY <1>1, EpollInvariant, PTL
=============================================================================
