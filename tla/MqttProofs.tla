----------------------------- MODULE MqttProofs -----------------------------
(***************************************************************************)
(* What MqttPrograms promises of the asynchronous clients, of the log in   *)
(* shared memory and of the synchronous client holds for any number of     *)
(* callbacks that may be due, of messages that wait and of pipes; and what *)
(* it promises of the options for any configuration and any keys.          *)
(*                                                                         *)
(* The programs share the callbacks and the library, of which ClientInv    *)
(* says what all of them rely on; each adds what its own main thread       *)
(* keeps.                                                                  *)
(***************************************************************************)
EXTENDS MqttPrograms, TLAPS, SequenceTheorems

USE MqttAssumption

-----------------------------------------------------------------------------
(* What callbacks that are due will make of the flag *)

Names == {"connected", "connectFailed", "subscribed", "subscribeFailed", "lost",
          "disconnected", "message"}

\* Callbacks that set or clear connected.
Links == {"connected", "connectFailed", "lost"}

\* The flag after the callbacks of q, which finds it as c.
FlagAfter(q, c) ==
    \/ \E i \in 1 .. Len(q) : q[i] = "connected" /\ \A j \in 1 .. Len(q) : j > i => q[j] \notin Links
    \/ c /\ \A i \in 1 .. Len(q) : q[i] \notin Links

\* What one callback makes of it.
Made(x, c) == IF x \in Links THEN x = "connected" ELSE c

\* Without callbacks it stays.
LEMMA FlagStays == ASSUME NEW c \in BOOLEAN PROVE FlagAfter(<<>>, c) <=> c
BY DEF FlagAfter

\* The elements of a sequence with one more.
LEMMA OneMore ==
    ASSUME NEW q \in Seq(Names), NEW x \in Names
    PROVE  /\ q \o <<x>> \in Seq(Names) /\ Len(q \o <<x>>) = Len(q) + 1 /\ Len(q) \in Nat
           /\ (q \o <<x>>)[Len(q) + 1] = x
           /\ \A i \in 1 .. Len(q) : (q \o <<x>>)[i] = q[i]
  OBVIOUS

\* A callback that becomes due decides on the flag if it is about the link.
LEMMA FlagWithOneMore ==
    ASSUME NEW q \in Seq(Names), NEW x \in Names, NEW c \in BOOLEAN
    PROVE  FlagAfter(q \o <<x>>, c) <=>
             IF x \in Links THEN x = "connected" ELSE FlagAfter(q, c)
<1> DEFINE r == q \o <<x>>
           m == Len(q) + 1
<1>1. /\ Len(r) = m /\ m - 1 = Len(q) /\ m \in Nat \ {0} /\ r[m] = x
      /\ \A i \in 1 .. m - 1 : r[i] = q[i]
  BY OneMore
<1> HIDE DEF r, m
<1>2. CASE x \in Links
  <2>1. ~\A i \in 1 .. m : r[i] \notin Links
    BY <1>1, <1>2
  <2>2. ASSUME NEW i \in 1 .. m, r[i] = "connected", \A j \in 1 .. m : j > i => r[j] \notin Links
        PROVE  x = "connected"
    <3>1. i = m
      BY <1>1, <1>2, <2>2
    <3> QED
      BY <1>1, <2>2, <3>1
  <2>3. x = "connected" => \E i \in 1 .. m : r[i] = "connected" /\ \A j \in 1 .. m : j > i => r[j] \notin Links
    BY <1>1
  <2>4. FlagAfter(r, c) <=> x = "connected"
    BY <1>1, <2>1, <2>2, <2>3 DEF FlagAfter
  <2> QED
    BY <1>2, <2>4 DEF r
<1>3. CASE x \notin Links
  <2>1. (\A i \in 1 .. m : r[i] \notin Links) <=> (\A i \in 1 .. m - 1 : q[i] \notin Links)
    BY <1>1, <1>3
  <2>2. ASSUME NEW i \in 1 .. m, r[i] = "connected", \A j \in 1 .. m : j > i => r[j] \notin Links
        PROVE  FlagAfter(q, c)
    <3>1. i \in 1 .. m - 1
      BY <1>1, <1>3, <2>2 DEF Links
    <3> QED
      BY <1>1, <2>2, <3>1 DEF FlagAfter
  <2>3. ASSUME NEW i \in 1 .. m - 1, q[i] = "connected",
               \A j \in 1 .. m - 1 : j > i => q[j] \notin Links
        PROVE  \E k \in 1 .. m : r[k] = "connected" /\ \A j \in 1 .. m : j > k => r[j] \notin Links
    BY <1>1, <1>3, <2>3
  <2>4. FlagAfter(r, c) <=> FlagAfter(q, c)
    BY <1>1, <2>1, <2>2, <2>3 DEF FlagAfter
  <2> QED
    BY <1>3, <2>4 DEF r
<1> QED
  BY <1>2, <1>3

\* A callback that runs leaves to the others what it made of the flag.
LEMMA FlagWithOneLess ==
    ASSUME NEW q \in Seq(Names), q # <<>>, NEW c \in BOOLEAN
    PROVE  /\ Tail(q) \in Seq(Names) /\ Len(Tail(q)) = Len(q) - 1 /\ Head(q) \in Names
           /\ FlagAfter(q, c) <=>
                FlagAfter(Tail(q), Made(Head(q), c))
<1> DEFINE t == Tail(q)
           m == Len(q)
<1>1. /\ t \in Seq(Names) /\ Len(t) = m - 1 /\ m \in Nat \ {0} /\ Head(q) = q[1]
      /\ q[1] \in Names /\ \A i \in 1 .. m - 1 : t[i] = q[i + 1]
  OBVIOUS
<1> HIDE DEF t, m
<1> DEFINE d == IF q[1] \in Links THEN q[1] = "connected" ELSE c
<1>2. \A i \in 2 .. m : q[i] = t[i - 1] /\ i - 1 \in 1 .. m - 1
  BY <1>1
<1>3. ASSUME NEW i \in 1 .. m, q[i] = "connected", \A j \in 1 .. m : j > i => q[j] \notin Links
      PROVE  FlagAfter(t, d)
  <2>1. CASE i = 1
    <3>1. \A j \in 1 .. m - 1 : t[j] \notin Links
      BY <1>1, <1>3, <2>1
    <3>2. d
      BY <1>3, <2>1 DEF Links
    <3> QED
      BY <1>1, <3>1, <3>2 DEF FlagAfter
  <2>2. CASE i # 1
    <3>1. i - 1 \in 1 .. m - 1 /\ t[i - 1] = "connected"
      BY <1>1, <1>2, <1>3, <2>2
    <3>2. ASSUME NEW j \in 1 .. m - 1, j > i - 1 PROVE t[j] \notin Links
      <4>1. j + 1 \in 1 .. m /\ j + 1 > i /\ t[j] = q[j + 1]
        BY <1>1, <3>2
      <4> QED
        BY <1>3, <4>1
    <3> QED
      BY <1>1, <3>1, <3>2 DEF FlagAfter
  <2> QED
    BY <2>1, <2>2
<1>4. ASSUME c, \A i \in 1 .. m : q[i] \notin Links PROVE FlagAfter(t, d)
  <2>1. d /\ \A i \in 1 .. m - 1 : t[i] \notin Links
    BY <1>1, <1>4
  <2> QED
    BY <1>1, <2>1 DEF FlagAfter
<1>5. ASSUME NEW i \in 1 .. m - 1, t[i] = "connected", \A j \in 1 .. m - 1 : j > i => t[j] \notin Links
      PROVE  \E k \in 1 .. m : q[k] = "connected" /\ \A j \in 1 .. m : j > k => q[j] \notin Links
  <2>1. i + 1 \in 1 .. m /\ q[i + 1] = "connected"
    BY <1>1, <1>5
  <2>2. ASSUME NEW j \in 1 .. m, j > i + 1 PROVE q[j] \notin Links
    <3>1. j - 1 \in 1 .. m - 1 /\ j - 1 > i /\ q[j] = t[j - 1]
      BY <1>1, <1>2, <2>2
    <3> QED
      BY <1>5, <3>1
  <2> QED
    BY <2>1, <2>2
<1>6. ASSUME d, \A i \in 1 .. m - 1 : t[i] \notin Links PROVE FlagAfter(q, c)
  <2>1. \A i \in 2 .. m : q[i] \notin Links
    BY <1>2, <1>6
  <2>2. CASE q[1] \in Links
    BY <1>1, <1>6, <2>1, <2>2 DEF FlagAfter, m
  <2>3. CASE q[1] \notin Links
    BY <1>1, <1>6, <2>1, <2>3 DEF FlagAfter, m
  <2> QED
    BY <2>2, <2>3
<1>7. FlagAfter(q, c) <=> FlagAfter(t, d)
  BY <1>1, <1>3, <1>4, <1>5, <1>6 DEF FlagAfter, m
<1>8. d = Made(Head(q), c)
  BY <1>1 DEF Made
<1> HIDE DEF d
<1> QED
  BY <1>1, <1>7, <1>8 DEF t, m

-----------------------------------------------------------------------------
(* The clients *)

\* Where main has not connected yet or is past its client, and where it is leaving.
Idle == {"none", "create", "start", "connect", "refused", "returned", "ended"}
Closed == {"disconnecting", "destroy", "returned"}

\* The client has been told to finish, or will be.
Doomed == finished \/ \E i \in 1 .. Len(due) : due[i] = "connectFailed"

\* Flags and callbacks have their types, of which BOOLEAN ones one by one.
ClientTypes ==
    /\ ClientTypeOK /\ due \in Seq(Names)
    /\ connected \in BOOLEAN /\ finished \in BOOLEAN

\* No link and no callback without a client; who asks for a disconnect leaves; unless it
\* is doomed, a client without a link hears of the next one; and when all callbacks have
\* run its flag will be what the link is.
ClientInv ==
    /\ ClientTypes
    /\ pc \in Idle => link = "down" /\ due = <<>>
    /\ closing => pc \in Closed
    /\ link # "up" /\ ~armed => Doomed \/ pc \in Idle \cup Closed
    /\ Alive /\ pc \notin Closed /\ ~Doomed => (FlagAfter(due, connected) <=> link = "up")
    /\ sigint = "default" => finished

\* A client that has just been started.
LEMMA InitClient ==
    ASSUME NEW here \in Idle, ClientInit(here)
    PROVE  ClientInv
<1> USE DEF ClientInit
<1>1. ClientTypes
  <2>1. <<>> \in Seq(Names) /\ Len(<<>>) <= MaxDue
    OBVIOUS
  <2>2. {connected, subscribed, finished, disconnected} \subseteq BOOLEAN
        /\ {armed, subscribing, closing} \subseteq BOOLEAN
    OBVIOUS
  <2> QED
    BY <2>1, <2>2 DEF ClientTypes, ClientTypeOK
<1>2. ~FlagAfter(due, connected)
  BY FlagStays
<1> QED
  BY <1>1, <1>2 DEF ClientInv, Idle

\* A callback that becomes due.
LEMMA OneMoreDue ==
    ASSUME ClientInv, NEW x \in Names, due' = due \o <<x>>, UNCHANGED <<finished, connected>>
    PROVE  /\ due' \in Seq(Names)
           /\ Doomed' <=> Doomed \/ x = "connectFailed"
           /\ FlagAfter(due, connected)' <=>
                IF x \in Links THEN x = "connected" ELSE FlagAfter(due, connected)
<1>1. due \in Seq(Names) /\ connected \in BOOLEAN /\ finished \in BOOLEAN
  BY DEF ClientInv, ClientTypes
<1>2. /\ due' \in Seq(Names) /\ Len(due') = Len(due) + 1 /\ Len(due) \in Nat
      /\ due'[Len(due) + 1] = x /\ \A i \in 1 .. Len(due) : due'[i] = due[i]
  BY <1>1, OneMore
<1>3. (\E i \in 1 .. Len(due') : due'[i] = "connectFailed")
        <=> (\E i \in 1 .. Len(due) : due[i] = "connectFailed") \/ x = "connectFailed"
  <2> DEFINE m == Len(due)
  <2>1. m \in Nat /\ Len(due') = m + 1 /\ due'[m + 1] = x /\ \A i \in 1 .. m : due'[i] = due[i]
    BY <1>2
  <2> HIDE DEF m
  <2>2. \A i \in 1 .. m + 1 : i \in 1 .. m \/ i = m + 1
    BY <2>1
  <2>3. 1 .. m \subseteq 1 .. m + 1 /\ m + 1 \in 1 .. m + 1
    BY <2>1
  <2>4. (\E i \in 1 .. m + 1 : due'[i] = "connectFailed")
          <=> (\E i \in 1 .. m : due[i] = "connectFailed") \/ x = "connectFailed"
    BY <2>1, <2>2, <2>3
  <2> QED
    BY <2>1, <2>4 DEF m
<1>4. FlagAfter(due', connected) <=>
        IF x \in Links THEN x = "connected" ELSE FlagAfter(due, connected)
  BY <1>1, FlagWithOneMore
<1> QED
  BY <1>1, <1>2, <1>3, <1>4 DEF Doomed

\* A callback that runs.
LEMMA OneDueLess ==
    ASSUME ClientInv, due # <<>>, due' = Tail(due), finished' \in BOOLEAN, finished => finished',
           Head(due) = "connectFailed" => finished',
           connected' = Made(Head(due), connected)
    PROVE  /\ due' \in Seq(Names) /\ Len(due') <= MaxDue /\ connected' \in BOOLEAN
           /\ Doomed => Doomed'
           /\ FlagAfter(due, connected)' <=> FlagAfter(due, connected)
<1>1. due \in Seq(Names) /\ connected \in BOOLEAN /\ Len(due) <= MaxDue
  BY DEF ClientInv, ClientTypes, ClientTypeOK
<1>2. /\ due' \in Seq(Names) /\ Len(due') = Len(due) - 1
      /\ FlagAfter(due, connected) <=> FlagAfter(due', Made(Head(due), connected))
  BY <1>1, FlagWithOneLess
<1>3. ASSUME NEW i \in 1 .. Len(due), due[i] = "connectFailed", i # 1
      PROVE  \E k \in 1 .. Len(due') : due'[k] = "connectFailed"
  <2>1. i - 1 \in 1 .. Len(due') /\ due'[i - 1] = due[i]
    BY <1>1, <1>2, <1>3
  <2> QED
    BY <1>3, <2>1
<1>4. Doomed => Doomed'
  <2>1. Head(due) = due[1]
    BY <1>1
  <2> QED
    BY <1>3, <2>1 DEF Doomed
<1>5. connected' \in BOOLEAN
  BY <1>1 DEF Made
<1>6. FlagAfter(due, connected)' <=> FlagAfter(due, connected)
  BY <1>2
<1>7. Len(due') <= MaxDue
  BY <1>1, <1>2
<1> QED
  BY <1>2, <1>4, <1>5, <1>6, <1>7

\* A callback, of those that all clients have.
LEMMA CallbackKeeps == ASSUME ClientInv, Callback PROVE ClientInv'
<1>1. due # <<>> /\ due' = Tail(due) /\ UNCHANGED <<pc, rc, sigint>>
  BY DEF Callback, Called, onConnect, onConnectFailure, onSubscribeSuccess, onSubscribeFailure,
         connectionLost, onDisconnect
<1>2. pc \notin Idle
  BY <1>1 DEF ClientInv
<1>3. /\ finished' \in BOOLEAN
      /\ finished => finished'
      /\ Head(due) = "connectFailed" => finished'
      /\ connected' = Made(Head(due), connected)
  BY DEF Made, Callback, Called, onConnect, onConnectFailure, onSubscribeSuccess, onSubscribeFailure,
         connectionLost, onDisconnect, FlagAfterLoss, Links, ClientInv, ClientTypes
<1>4. /\ due' \in Seq(Names) /\ Len(due') <= MaxDue /\ connected' \in BOOLEAN
      /\ Doomed => Doomed'
      /\ FlagAfter(due, connected)' <=> FlagAfter(due, connected)
  BY <1>1, <1>3, OneDueLess
<1>5. /\ subscribed' \in BOOLEAN /\ disconnected' \in BOOLEAN /\ subscribing' \in BOOLEAN
      /\ armed' \in BOOLEAN /\ closing' = closing
      /\ \/ link' = link /\ armed' = armed
         \/ link' = Connecting /\ armed'
  BY DEF Callback, onConnect, onConnectFailure, onSubscribeSuccess, onSubscribeFailure,
         connectionLost, onDisconnect, ClientInv, ClientTypes, ClientTypeOK, SubscriptionNoted,
         Reconnecting
<1>6. /\ link' \in {"down", "connecting", "up"} /\ (link' = "up" <=> link = "up")
      /\ (link' # "up" /\ ~armed') => (link # "up" /\ ~armed)
  BY <1>5 DEF Connecting, ClientInv, ClientTypes, ClientTypeOK
<1>7. ClientTypes'
  BY <1>1, <1>2, <1>3, <1>4, <1>5, <1>6 DEF ClientInv, ClientTypes, ClientTypeOK, Idle
<1> QED
  BY <1>1, <1>2, <1>3, <1>4, <1>5, <1>6, <1>7 DEF ClientInv, Alive, Idle

\* Messages that a client only shows change nothing.
LEMMA MessageKeeps ==
    ASSUME ClientInv, due # <<>>, Head(due) = "message", due' = Tail(due),
           UNCHANGED <<pc, rc, flags, link, armed, subscribing, closing>>
    PROVE  ClientInv'
<1>1. /\ due' \in Seq(Names) /\ Len(due') <= MaxDue /\ connected' \in BOOLEAN
      /\ Doomed => Doomed'
      /\ FlagAfter(due, connected)' <=> FlagAfter(due, connected)
  <2>1. /\ finished' \in BOOLEAN
        /\ finished => finished'
    BY DEF flags, ClientInv, ClientTypes
  <2>2. connected' = Made(Head(due), connected)
    BY DEF flags, Made, Links
  <2>3. Head(due) = "connectFailed" => finished'
    OBVIOUS
  <2> QED
    BY <2>1, <2>2, <2>3, OneDueLess
<1>2. pc \notin Idle
  BY DEF ClientInv
<1>3. ClientTypes'
  BY <1>1, <1>2 DEF ClientInv, ClientTypes, ClientTypeOK, Idle, flags
<1> QED
  BY <1>1, <1>2, <1>3 DEF ClientInv, Alive, flags

\* The library: a link comes, fails to, is tried again, breaks, or is given up.
LEMMA LibraryKeeps ==
    ASSUME ClientInv, Progress \/ Retry \/ Drop
    PROVE  ClientInv'
<1> USE DEF ClientInv, ClientTypes, ClientTypeOK
<1>0. /\ due \in Seq(Names) /\ due \o <<>> = due
      /\ \A x, y \in Names : due \o <<x, y>> = (due \o <<x>>) \o <<y>>
  <2>1. due \in Seq(Names)
    OBVIOUS
  <2>2. due \o <<>> = due
    BY <2>1
  <2>3. ASSUME NEW x \in Names, NEW y \in Names
        PROVE  due \o <<x, y>> = (due \o <<x>>) \o <<y>>
    <3>1. <<x, y>> = <<x>> \o <<y>>
      <4>1. /\ <<x>> \in Seq(Names) /\ <<x, y>> \in Seq(Names)
            /\ Len(<<x>>) = 1 /\ Len(<<x, y>>) = 2 /\ <<x>>[1] = x
            /\ <<x, y>>[1] = x /\ <<x, y>>[2] = y
        OBVIOUS
      <4>2. /\ <<x>> \o <<y>> \in Seq(Names) /\ Len(<<x>> \o <<y>>) = 2
            /\ (<<x>> \o <<y>>)[1] = x /\ (<<x>> \o <<y>>)[2] = y
        BY <4>1, OneMore
      <4>3. \A i \in 1 .. Len(<<x, y>>) : <<x, y>>[i] = (<<x>> \o <<y>>)[i]
        BY <4>1, <4>2
      <4> QED
        BY <4>1, <4>2, <4>3, SeqEqual
    <3> QED
      BY <2>1, <3>1, ConcatAssociative
  <2> QED
    BY <2>1, <2>2, <2>3
<1>1. CASE Established
  <2>1. /\ link = "connecting" /\ link' = "up" /\ armed' = FALSE
        /\ UNCHANGED <<pc, rc, flags, subscribing, closing>> /\ Len(due') <= MaxDue
        /\ due' = due \o <<"connected">> \/ (~armed /\ due' = due)
    BY <1>0, <1>1 DEF Established, Due, Library
  <2>2. CASE due' = due \o <<"connected">>
    <3>1. due' \in Seq(Names) /\ (Doomed' <=> Doomed) /\ FlagAfter(due, connected)'
      BY <2>1, <2>2, OneMoreDue DEF flags, Links, Names
    <3> QED
      BY <2>1, <3>1 DEF flags, Alive, Idle
  <2>3. CASE ~armed /\ due' = due
    <3>1. Doomed' <=> Doomed
      BY <2>1, <2>3 DEF Doomed, flags
    <3> QED
      BY <2>1, <2>3, <3>1 DEF flags, Alive, Idle
  <2> QED
    BY <2>1, <2>2, <2>3
<1>2. CASE Refused
  <2>1. /\ link = "connecting" /\ link' = "down" /\ armed' = FALSE
        /\ UNCHANGED <<pc, rc, flags, subscribing, closing>> /\ Len(due') <= MaxDue
        /\ due' = due \o <<"connectFailed">> \/ (~armed /\ due' = due)
    BY <1>0, <1>2 DEF Refused, Due, Library
  <2>2. CASE due' = due \o <<"connectFailed">>
    <3>1. due' \in Seq(Names) /\ Doomed'
      BY <2>1, <2>2, OneMoreDue DEF flags, Links, Names
    <3> QED
      BY <2>1, <3>1 DEF flags, Alive, Idle
  <2>3. CASE ~armed /\ due' = due
    <3>1. Doomed' <=> Doomed
      BY <2>1, <2>3 DEF Doomed, flags
    <3> QED
      BY <2>1, <2>3, <3>1 DEF flags, Alive, Idle
  <2> QED
    BY <2>1, <2>2, <2>3
<1>3. CASE Answered
  <2>1. PICK x \in {"subscribed", "subscribeFailed"} :
          /\ link = "up" /\ due' = due \o <<x>> /\ Len(due') <= MaxDue /\ subscribing' = FALSE
          /\ UNCHANGED <<pc, rc, flags, link, armed, closing>>
    BY <1>3 DEF Answered, Due, Library
  <2>2. /\ due' \in Seq(Names) /\ (Doomed' <=> Doomed)
        /\ FlagAfter(due, connected)' <=> FlagAfter(due, connected)
    BY <2>1, OneMoreDue DEF flags, Links, Names
  <2> QED
    BY <2>1, <2>2 DEF flags, Alive, Idle
<1>4. CASE Disconnected
  <2>1. /\ closing /\ link = "up" /\ link' = "down" /\ due' = due \o <<"disconnected">>
        /\ Len(due') <= MaxDue /\ armed' = FALSE /\ subscribing' = FALSE /\ closing' = FALSE
        /\ UNCHANGED <<pc, rc, flags>>
    BY <1>4 DEF Disconnected, Due, Library
  <2>2. due' \in Seq(Names)
    BY <2>1, OneMoreDue DEF flags, Names
  <2> QED
    BY <2>1, <2>2 DEF flags, Alive, Idle, Closed
<1>5. CASE Retry
  <2>1. Doomed' <=> Doomed
    BY <1>5 DEF Retry, Library, Doomed, flags
  <2> QED
    BY <1>5, <2>1 DEF Retry, Library, flags, Alive, Idle
<1>6. CASE Drop
  <2>1. /\ link = "up" /\ link' = "down" /\ armed' = TRUE /\ Len(due') <= MaxDue
        /\ subscribing' = FALSE /\ closing' = FALSE
        /\ UNCHANGED <<pc, rc, flags>>
        /\ \/ due' = due \o <<"lost">>
           \/ due' = (due \o <<"subscribeFailed">>) \o <<"lost">>
    BY <1>0, <1>6 DEF Drop, Due, Library, Names
  <2>2. due' \in Seq(Names) /\ ~FlagAfter(due', connected) /\ (Doomed => Doomed')
    <3>1. due \o <<"subscribeFailed">> \in Seq(Names)
      BY <1>0, OneMore DEF Names
    <3>2. PICK q \in Seq(Names) : due' = q \o <<"lost">> /\ (q = due \/ q = due \o <<"subscribeFailed">>)
      BY <1>0, <2>1, <3>1
    <3>3. due' \in Seq(Names) /\ ~FlagAfter(due', connected)
      BY <3>2, OneMore, FlagWithOneMore DEF Names, Links
    <3>4. ASSUME NEW i \in 1 .. Len(due), due[i] = "connectFailed"
          PROVE  \E k \in 1 .. Len(due') : due'[k] = "connectFailed"
      <4>1. i \in 1 .. Len(q) /\ q[i] = "connectFailed"
        BY <1>0, <3>2, <3>4, OneMore DEF Names
      <4>2. i \in 1 .. Len(due') /\ due'[i] = "connectFailed"
        BY <3>2, <4>1, OneMore DEF Names
      <4> QED
        BY <4>2
    <3> QED
      BY <2>1, <3>3, <3>4 DEF Doomed, flags
  <2>3. connected' = connected
    BY <2>1 DEF flags
  <2> QED
    BY <2>1, <2>2, <2>3 DEF flags, Alive, Idle
<1> QED
  BY <1>1, <1>2, <1>3, <1>4, <1>5, <1>6 DEF Progress

\* A message that comes.
LEMMA ArrivalKeeps ==
    ASSUME ClientInv, link = "up", due' = due \o <<"message">>, Len(due') <= MaxDue,
           UNCHANGED <<pc, rc, flags, link, armed, subscribing, closing>>
    PROVE  ClientInv'
<1>1. /\ due' \in Seq(Names) /\ (Doomed' <=> Doomed)
      /\ FlagAfter(due, connected)' <=> FlagAfter(due, connected)
  BY OneMoreDue DEF flags, Links, Names
<1> QED
  BY <1>1 DEF flags, Alive, Idle, ClientInv, ClientTypes, ClientTypeOK

\* Main moves on, with its link and its flags as they were.
MovesFrom(p, q) ==
    \/ p \notin Idle \cup Closed /\ q \notin Idle
    \/ p \in Closed \ Idle /\ q \in Closed \ Idle
    \/ p \in Idle \ Closed /\ q \in Idle \ Closed /\ (p \in {"none", "ended"} => q \in {"none", "ended"})
    \/ p = q
LEMMA MoveKeeps ==
    ASSUME ClientInv, MovesFrom(pc, pc'), rc' \in {"ok", "failed"}, UNCHANGED <<flags, library>>
    PROVE  ClientInv'
<1>1. UNCHANGED <<connected, subscribed, finished, disconnected, sigint,
                  link, due, armed, subscribing, closing>>
  BY DEF flags, library
<1>2. (Doomed' <=> Doomed) /\ (FlagAfter(due, connected)' <=> FlagAfter(due, connected))
  BY <1>1 DEF Doomed
<1>3. ClientTypes'
  BY <1>1 DEF ClientInv, ClientTypes, ClientTypeOK, MovesFrom, Idle, Closed
<1> QED
  BY <1>1, <1>2, <1>3 DEF ClientInv, MovesFrom, Alive, Idle, Closed

\* The process ends, or has destroyed its client.
LEMMA EndKeeps ==
    ASSUME ClientInv, pc' \in {"ended", "returned"}, LibraryGone, UNCHANGED <<rc, flags>>
    PROVE  ClientInv'
<1>1. ClientTypes'
  <2>1. <<>> \in Seq(Names) /\ Len(<<>>) <= MaxDue
    OBVIOUS
  <2>2. {armed', subscribing', closing'} \subseteq BOOLEAN
    BY DEF LibraryGone
  <2> QED
    BY <2>1, <2>2 DEF LibraryGone, ClientInv, ClientTypes, ClientTypeOK, flags
<1> QED
  BY <1>1 DEF ClientInv, LibraryGone, Alive, Idle, Closed, flags

\* myconnect, in its two steps and in the one of those that have no flag to clear; and
\* one that the library has refused.
LEMMA ConnectKeeps ==
    ASSUME ClientInv,
           \/ ClearConnected \/ MyConnect
           \/ /\ At("refused", "subscribe") /\ finished' = TRUE
              /\ UNCHANGED <<rc, connected, subscribed, disconnected, sigint, library>>
    PROVE  ClientInv'
<1> USE DEF ClientInv, ClientTypes, ClientTypeOK, At
<1>1. pc \in Idle /\ pc \notin Closed /\ Alive /\ link = "down" /\ due = <<>>
  BY DEF ClearConnected, MyConnect, Idle, Closed, Alive
<1>2. \A c \in BOOLEAN : FlagAfter(<<>>, c) <=> c
  BY FlagStays
<1>3. Doomed <=> finished
  BY <1>1 DEF Doomed
<1>4. CASE ClearConnected
  <2>1. UNCHANGED <<rc, subscribed, finished, disconnected, sigint,
                    link, due, armed, subscribing, closing>> /\ connected' = FALSE
        /\ pc' = "connect"
    BY <1>4 DEF ClearConnected, library
  <2> QED
    BY <1>1, <1>2, <2>1 DEF Idle, Closed, Alive
<1>5. CASE MyConnect \/ ~ClearConnected
  <2>1. /\ UNCHANGED <<rc, connected, subscribed, disconnected, sigint, due, subscribing, closing>>
        /\ pc' = "subscribe" /\ armed' \in BOOLEAN
        /\ finished' \in BOOLEAN /\ (finished => finished')
        /\ \/ link' = "connecting" /\ armed' /\ finished' = finished
           \/ link' = "down" /\ finished'
    BY <1>1, <1>5 DEF MyConnect, RequestConnect, Connecting, library
  <2>2. Doomed' <=> finished'
    BY <1>1, <2>1 DEF Doomed
  <2> QED
    BY <1>1, <1>2, <1>3, <2>1, <2>2 DEF Idle, Closed, Alive
<1> QED
  BY <1>4, <1>5

\* The disconnect is asked for.
LEMMA DisconnectKeeps ==
    ASSUME ClientInv, pc \notin Idle, pc' = "disconnecting", closing' = TRUE,
           UNCHANGED <<rc, flags, link, due, armed, subscribing>>
    PROVE  ClientInv'
<1>1. (Doomed' <=> Doomed)
  BY DEF Doomed, flags
<1> QED
  BY <1>1 DEF ClientInv, ClientTypes, ClientTypeOK, Idle, Closed, flags

\* The signal.
LEMMA SignalKeeps == ASSUME ClientInv, ClientSignal PROVE ClientInv'
<1>1. Doomed' /\ UNCHANGED <<pc, rc, connected, subscribed, disconnected, link, due, armed,
                             subscribing, closing>>
      /\ finished' = TRUE /\ sigint' = "default"
  BY DEF ClientSignal, Doomed, library
<1> QED
  BY <1>1 DEF ClientInv, ClientTypes, ClientTypeOK, Alive

\* Steps of others.
LEMMA ClientStands == ASSUME ClientInv, UNCHANGED client PROVE ClientInv'
<1>1. UNCHANGED <<flags, library>> /\ pc' = pc /\ rc' = rc
  BY DEF client
<1> QED
  BY <1>1, MoveKeeps DEF MovesFrom, ClientInv, ClientTypes, ClientTypeOK

\* What the library, the callbacks and a signal do, and what is common to the mains.
LEMMA EnvironmentKeeps ==
    ASSUME ClientInv, Callback \/ Progress \/ Retry \/ Drop \/ ClientSignal
    PROVE  ClientInv' /\ UNCHANGED <<pc, rc>>
<1>1. CASE Callback
  BY <1>1, CallbackKeeps DEF Callback, Called, onConnect, onConnectFailure, onSubscribeSuccess,
     onSubscribeFailure, connectionLost, onDisconnect
<1>2. CASE Progress \/ Retry \/ Drop
  BY <1>2, LibraryKeeps DEF Progress, Established, Refused, Answered, Disconnected, Retry, Drop, Library
<1>3. CASE ClientSignal
  BY <1>3, SignalKeeps DEF ClientSignal
<1> QED
  BY <1>1, <1>2, <1>3

LEMMA MainKeeps ==
    ASSUME ClientInv, ClearConnected \/ MyConnect \/ Disconnect
    PROVE  ClientInv'
BY ConnectKeeps, DisconnectKeeps DEF Disconnect, At, Idle

LEMMA GotoKeeps ==
    ASSUME ClientInv, NEW p, NEW q, MovesFrom(p, q),
           \/ Goto(p, q)
           \/ At(p, q) /\ Sending /\ UNCHANGED <<flags, library>>
    PROVE  ClientInv'
<1>1. rc \in {"ok", "failed"}
  BY DEF ClientInv, ClientTypes, ClientTypeOK
<1> QED
  BY <1>1, MoveKeeps DEF Goto, At, Sending

LEMMA EndsKeeps == ASSUME ClientInv, NEW p, Ends(p) PROVE ClientInv'
BY EndKeeps DEF Ends, At

-----------------------------------------------------------------------------
(* The publisher under its supervisor *)

\* There is no client but the one that is waited for.
PubInv ==
    /\ supervisor \in {"loop", "fork", "wait", "sleep", "done"} /\ toStop \in BOOLEAN
    /\ pc \in {"none", "start", "connect", "subscribe", "loop", "sleep", "produce", "try",
               "send", "sent", "exit", "disconnecting", "returned", "ended"}
    /\ supervisor # "wait" => pc = "none"

\* The instance has the shared steps.
LEMMA PubShares ==
    /\ Pub!Callback <=> Callback
    /\ Pub!Progress <=> Progress
    /\ Pub!Retry <=> Retry
    /\ Pub!Drop <=> Drop
    /\ Pub!ClientSignal <=> ClientSignal
    /\ Pub!ClearConnected <=> ClearConnected
    /\ Pub!MyConnect <=> MyConnect
    /\ Pub!Disconnect <=> Disconnect
    /\ Pub!DisconnectFails <=> DisconnectFails
    /\ Pub!SecondInterrupt <=> SecondInterrupt
    /\ \A p, q : Pub!Goto(p, q) <=> Goto(p, q)
    /\ \A p : Pub!Ends(p) <=> Ends(p)
    /\ Pub!ClientTypeOK <=> ClientTypeOK
BY DEF Pub!Callback, Pub!Called, Pub!onConnect, Pub!onConnectFailure, Pub!onSubscribeSuccess,
       Pub!onSubscribeFailure, Pub!connectionLost, Pub!onDisconnect, Pub!SubscriptionNoted,
       Pub!FlagAfterLoss, Pub!Reconnecting, Pub!Connecting, Pub!Progress, Pub!Established,
       Pub!Refused, Pub!Answered, Pub!Disconnected, Pub!Retry, Pub!Drop, Pub!Due, Pub!Library,
       Pub!ClientSignal, Pub!Alive, Pub!flags, Pub!library, Pub!At, Pub!Goto, Pub!Ends,
       Pub!LibraryGone, Pub!RequestConnect, Pub!ClearConnected, Pub!MyConnect, Pub!Disconnect,
       Pub!DisconnectFails, Pub!NextTry, Pub!Sending, Pub!AfterSend, Pub!SecondInterrupt,
       Pub!ClientTypeOK, Callback, Called, onConnect, onConnectFailure, onSubscribeSuccess,
       onSubscribeFailure, connectionLost, onDisconnect, SubscriptionNoted, FlagAfterLoss,
       Reconnecting, Connecting, Progress, Established, Refused, Answered, Disconnected, Retry,
       Drop, Due, Library, ClientSignal, Alive, flags, library, At, Goto, Ends, LibraryGone,
       RequestConnect, ClearConnected, MyConnect, Disconnect, DisconnectFails, NextTry, Sending,
       AfterSend, SecondInterrupt, ClientTypeOK

\* A client that is forked, with the flags of its parent.
LEMMA ForkKeeps ==
    ASSUME ClientInv, PubInv, Pub!ForkClient
    PROVE  ClientInv'
<1>1. /\ pc = "none" /\ pc' = "start" /\ rc' = "ok" /\ connected' = FALSE /\ subscribed' = FALSE
      /\ disconnected' = FALSE /\ finished' = toStop
      /\ sigint' \in {"default", "caught"} /\ (sigint' = "default" => finished')
      /\ UNCHANGED <<link, due, armed, subscribing, closing>>
  BY DEF PubInv, Pub!ForkClient, Pub!Parent, Pub!InheritFlags, Pub!library
<1>2. link = "down" /\ due = <<>> /\ ~closing
  BY <1>1 DEF ClientInv, Idle, Closed
<1>3. ClientTypes'
  <2>1. finished' \in BOOLEAN
    BY <1>1 DEF PubInv
  <2> QED
    BY <1>1, <2>1 DEF ClientInv, ClientTypes, ClientTypeOK
<1>4. ~FlagAfter(due', connected')
  BY <1>1, <1>2, FlagStays
<1> QED
  BY <1>1, <1>2, <1>3, <1>4 DEF ClientInv, Idle

LEMMA PubStep ==
    ASSUME ClientInv, PubInv, Pub!Next
    PROVE  ClientInv' /\ PubInv'
<1>1. CASE Pub!Main
  <2>1. /\ UNCHANGED <<supervisor, toStop>>
        /\ pc # "none" /\ pc' # "none"
        /\ pc' \in {"connect", "subscribe", "loop", "sleep", "produce", "try",
                   "send", "sent", "exit", "disconnecting", "returned", "ended"}
    BY <1>1 DEF Pub!Main, Pub!parent, Pub!ClearConnected, Pub!MyConnect, Pub!Subscribed, Pub!Loop,
       Pub!Slept, Pub!Produce, Pub!ProducerFails, Pub!Try, Pub!Send, Pub!Sent, Pub!Disconnect,
       Pub!DisconnectFails, Pub!Destroy, Pub!Returned, Pub!At, Pub!Goto, Pub!Ends, Pub!AfterTest,
       Pub!NextTry, Pub!AfterSend
  <2>2. PubInv'
    BY <2>1 DEF PubInv
  <2>3. CASE Pub!ClearConnected \/ Pub!MyConnect \/ Pub!Disconnect
    BY <2>2, <2>3, PubShares, MainKeeps
  <2>4. CASE Pub!DisconnectFails \/ Pub!ProducerFails \/ Pub!Returned
    <3>1. Ends("exit") \/ Ends("produce") \/ Ends("returned")
      BY <2>4, PubShares DEF Pub!ProducerFails, Pub!Returned, DisconnectFails
    <3> QED
      BY <2>2, <3>1, EndsKeeps
  <2>5. CASE Pub!Subscribed \/ Pub!Loop \/ Pub!Slept \/ Pub!Produce \/ Pub!Try \/ Pub!Sent
    <3>1. PICK p, q \in {"subscribe", "loop", "sleep", "produce", "try", "send", "sent", "exit"} :
            Goto(p, q)
      BY <2>5, PubShares DEF Pub!Subscribed, Pub!Loop, Pub!Slept, Pub!Produce, Pub!Try, Pub!Sent,
         Pub!AfterTest, Pub!NextTry
    <3>2. MovesFrom(p, q)
      BY <3>1 DEF MovesFrom, Idle, Closed
    <3> QED
      BY <2>2, <3>1, <3>2, GotoKeeps
  <2>6. CASE Pub!Send
    <3>1. PICK q \in {"sent", "try"} :
            At("send", q) /\ Sending /\ UNCHANGED <<flags, library>>
      BY <2>6 DEF Pub!Send, Pub!At, Pub!AfterSend, Pub!Sending, Pub!flags, Pub!library,
         At, Sending, flags, library
    <3>2. MovesFrom("send", q)
      BY <3>1 DEF MovesFrom, Idle, Closed
    <3> QED
      BY <2>2, <3>1, <3>2, GotoKeeps
  <2>7. CASE Pub!Destroy
    BY <2>2, <2>7, EndKeeps DEF Pub!Destroy, Pub!Destroyed, Pub!LibraryGone, Pub!flags, Pub!At,
       LibraryGone, flags
  <2> QED
    BY <1>1, <2>2, <2>3, <2>4, <2>5, <2>6, <2>7 DEF Pub!Main
<1>2. CASE Pub!Supervisor \/ Pub!ParentSignal
  <2>1. CASE Pub!TestToStop \/ Pub!ForkFails \/ Pub!Slept300 \/ Pub!ParentSignal
    <3>1. UNCHANGED client
      BY <2>1 DEF Pub!TestToStop, Pub!ForkFails, Pub!Slept300, Pub!ParentSignal, Pub!client,
         Pub!flags, Pub!library, client, flags, library
    <3>2. PubInv'
      BY <2>1, <3>1 DEF Pub!TestToStop, Pub!ForkFails, Pub!Slept300, Pub!ParentSignal, Pub!Parent,
         PubInv, client
    <3> QED
      BY <3>1, <3>2, ClientStands
  <2>2. CASE Pub!ForkClient
    <3>1. PubInv'
      BY <2>2 DEF Pub!ForkClient, Pub!Parent, PubInv
    <3> QED
      BY <2>2, <3>1, ForkKeeps
  <2>3. CASE Pub!WaitReturns
    <3>1. Goto("ended", "none")
      BY <2>3, PubShares DEF Pub!WaitReturns
    <3>2. PubInv'
      BY <2>3, <3>1 DEF Pub!WaitReturns, Pub!Parent, PubInv, Goto, At
    <3>3. MovesFrom("ended", "none")
      BY DEF MovesFrom, Idle, Closed
    <3> QED
      BY <3>1, <3>2, <3>3, GotoKeeps
  <2> QED
    BY <1>2, <2>1, <2>2, <2>3 DEF Pub!Supervisor
<1>3. CASE Pub!Environment
  <2>1. UNCHANGED <<supervisor, toStop>>
    BY <1>3 DEF Pub!Environment, Pub!parent
  <2>2. CASE SecondInterrupt
    <3>1. Ends(pc) /\ pc # "none"
      BY <2>2 DEF SecondInterrupt, Alive
    <3>2. PubInv'
      BY <2>1, <3>1 DEF PubInv, Ends, At
    <3> QED
      BY <3>1, <3>2, EndsKeeps
  <2>3. CASE Callback \/ Progress \/ Retry \/ Drop \/ ClientSignal
    <3>1. PubInv'
      BY <2>1, <2>3, EnvironmentKeeps DEF PubInv
    <3> QED
      BY <2>3, <3>1, EnvironmentKeeps
  <2> QED
    BY <1>3, <2>2, <2>3, PubShares DEF Pub!Environment
<1> QED
  BY <1>1, <1>2, <1>3 DEF Pub!Next

-----------------------------------------------------------------------------
(* The publisher that closes no pipe *)

\* What its producers are.
Producers ==
    /\ pipes \in 0 .. MaxPipes /\ running \in Nat /\ zombies \in Nat
    /\ running + zombies <= pipes

CopyInv ==
    /\ Producers
    /\ pc \in {"start", "connect", "subscribe", "loop", "sleep", "produce", "try", "send",
               "sent", "exit", "disconnecting", "ended"}

\* The instance has the shared steps.
LEMMA CopyShares ==
    /\ Copy!Callback <=> Callback
    /\ Copy!Progress <=> Progress
    /\ Copy!Retry <=> Retry
    /\ Copy!Drop <=> Drop
    /\ Copy!ClientSignal <=> ClientSignal
    /\ Copy!ClearConnected <=> ClearConnected
    /\ Copy!MyConnect <=> MyConnect
    /\ Copy!Disconnect <=> Disconnect
    /\ Copy!DisconnectFails <=> DisconnectFails
    /\ Copy!SecondInterrupt <=> SecondInterrupt
    /\ Copy!client = client
    /\ \A p, q : Copy!Goto(p, q) <=> Goto(p, q)
    /\ \A p : Copy!Ends(p) <=> Ends(p)
    /\ Copy!ClientTypeOK <=> ClientTypeOK
BY DEF Copy!ClientTypeOK, ClientTypeOK, Copy!Callback, Copy!Called, Copy!onConnect, Copy!onConnectFailure, Copy!onSubscribeSuccess,
       Copy!onSubscribeFailure, Copy!connectionLost, Copy!onDisconnect, Copy!SubscriptionNoted,
       Copy!FlagAfterLoss, Copy!Reconnecting, Copy!Connecting, Copy!Progress, Copy!Established,
       Copy!Refused, Copy!Answered, Copy!Disconnected, Copy!Retry, Copy!Drop, Copy!Due,
       Copy!Library, Copy!ClientSignal, Copy!Alive, Copy!flags, Copy!library, Copy!At, Copy!Goto,
       Copy!Ends, Copy!LibraryGone, Copy!RequestConnect, Copy!ClearConnected, Copy!MyConnect,
       Copy!Disconnect, Copy!DisconnectFails, Copy!NextTry, Copy!Sending, Copy!AfterSend,
       Copy!SecondInterrupt, Copy!client, Callback, Called, onConnect, onConnectFailure,
       onSubscribeSuccess, onSubscribeFailure, connectionLost, onDisconnect, SubscriptionNoted,
       FlagAfterLoss, Reconnecting, Connecting, Progress, Established, Refused, Answered,
       Disconnected, Retry, Drop, Due, Library, ClientSignal, Alive, flags, library, At, Goto, Ends,
       LibraryGone, RequestConnect, ClearConnected, MyConnect, Disconnect, DisconnectFails, NextTry,
       Sending, AfterSend, SecondInterrupt, client

LEMMA CopyStep ==
    ASSUME ClientInv, CopyInv, Copy!Next
    PROVE  ClientInv' /\ CopyInv'
<1>1. Producers'
  BY DEF CopyInv, Producers, Copy!Next, Copy!CopyMain, Copy!CopySubscribed, Copy!CopyLoop,
     Copy!CopySlept, Copy!CopyProduce, Copy!CopyProducerFails, Copy!CopyTry, Copy!CopySend,
     Copy!CopySent, Copy!CopyWaitDisconnected, Copy!CopyDestroy, Copy!CopyEnds,
     Copy!CopyCallback, Copy!CopySignal, Copy!ProducerEnds, Copy!producers
<1>2. CASE Copy!CopyMain
  <2>1. CASE ClearConnected \/ MyConnect \/ Disconnect
    <3>1. CopyInv'
      BY <1>1, <2>1 DEF CopyInv, ClearConnected, MyConnect, Disconnect, At
    <3> QED
      BY <2>1, <3>1, MainKeeps
  <2>2. CASE \E p \in {"exit", "produce", "disconnecting"} : Copy!CopyEnds(p)
    <3>1. PICK p \in {"exit", "produce", "disconnecting"} : Ends(p)
      BY <2>2, CopyShares DEF Copy!CopyEnds
    <3>2. CopyInv'
      BY <1>1, <3>1 DEF CopyInv, Ends, At
    <3> QED
      BY <3>1, <3>2, EndsKeeps
  <2>3. CASE Copy!CopySubscribed \/ Copy!CopyLoop \/ Copy!CopySlept \/ Copy!CopyProduce
             \/ Copy!CopyTry \/ Copy!CopySent
    <3>1. PICK p, q \in {"subscribe", "loop", "sleep", "produce", "try", "send", "sent", "exit"} :
            Goto(p, q)
      BY <2>3, CopyShares DEF Copy!CopySubscribed, Copy!CopyLoop, Copy!CopySlept,
         Copy!CopyProduce, Copy!CopyTry, Copy!CopySent, Copy!NextTry
    <3>2. MovesFrom(p, q)
      BY <3>1 DEF MovesFrom, Idle, Closed
    <3>3. CopyInv'
      BY <1>1, <3>1 DEF CopyInv, Goto, At
    <3> QED
      BY <3>1, <3>2, <3>3, GotoKeeps
  <2>4. CASE Copy!CopySend
    <3>1. PICK q \in {"sent", "try"} :
            At("send", q) /\ Sending /\ UNCHANGED <<flags, library>>
      BY <2>4 DEF Copy!CopySend, Copy!At, Copy!AfterSend, Copy!Sending, Copy!flags, Copy!library,
         At, Sending, flags, library
    <3>2. MovesFrom("send", q)
      BY <3>1 DEF MovesFrom, Idle, Closed
    <3>3. CopyInv'
      BY <1>1, <3>1 DEF CopyInv, At
    <3> QED
      BY <3>1, <3>2, <3>3, GotoKeeps
  <2>5. CASE Copy!CopyWaitDisconnected
    <3>1. UNCHANGED client
      BY <2>5 DEF Copy!CopyWaitDisconnected, Copy!client, Copy!flags, Copy!library,
         client, flags, library
    <3>2. CopyInv'
      BY <1>1, <3>1 DEF CopyInv, client
    <3> QED
      BY <3>1, <3>2, ClientStands
  <2> QED
    BY <1>2, <2>1, <2>2, <2>3, <2>4, <2>5, CopyShares
       DEF Copy!CopyMain, Copy!CopyProducerFails, Copy!CopyDestroy
<1>3. CASE Callback \/ Progress \/ Retry \/ Drop \/ ClientSignal
  <2>1. CopyInv'
    BY <1>1, <1>3, EnvironmentKeeps DEF CopyInv
  <2> QED
    BY <1>3, <2>1, EnvironmentKeeps
<1>4. CASE SecondInterrupt
  <2>1. Ends(pc)
    BY <1>4 DEF SecondInterrupt
  <2>2. CopyInv'
    BY <1>1, <2>1 DEF CopyInv, Ends, At
  <2> QED
    BY <2>1, <2>2, EndsKeeps
<1>5. CASE Copy!ProducerEnds
  <2>1. UNCHANGED client
    BY <1>5 DEF Copy!ProducerEnds, Copy!client, Copy!flags, Copy!library, client, flags, library
  <2>2. CopyInv'
    BY <1>1, <2>1 DEF CopyInv, client
  <2> QED
    BY <2>1, <2>2, ClientStands
<1> QED
  BY <1>2, <1>3, <1>4, <1>5, CopyShares DEF Copy!Next, Copy!CopyCallback, Copy!CopySignal

-----------------------------------------------------------------------------
(* The subscriber that prints *)

SubInv == pc \in {"connect", "subscribe", "receive", "exit", "disconnecting", "destroy", "ended"}

\* The instance has the shared steps.
LEMMA SubShares ==
    /\ Sub!Callback <=> Callback
    /\ Sub!Progress <=> Progress
    /\ Sub!Drop <=> Drop
    /\ Sub!ClientSignal <=> ClientSignal
    /\ Sub!Disconnect <=> Disconnect
    /\ Sub!DisconnectFails <=> DisconnectFails
    /\ Sub!SecondInterrupt <=> SecondInterrupt
    /\ \A p, q : Sub!Goto(p, q) <=> Goto(p, q)
    /\ \A p : Sub!Ends(p) <=> Ends(p)
    /\ Sub!ClientTypeOK <=> ClientTypeOK
BY DEF Sub!ClientTypeOK, ClientTypeOK, Sub!Callback, Sub!Called, Sub!onConnect, Sub!onConnectFailure, Sub!onSubscribeSuccess,
       Sub!onSubscribeFailure, Sub!connectionLost, Sub!onDisconnect, Sub!SubscriptionNoted,
       Sub!FlagAfterLoss, Sub!Reconnecting, Sub!Connecting, Sub!Progress, Sub!Established,
       Sub!Refused, Sub!Answered, Sub!Disconnected, Sub!Retry, Sub!Drop, Sub!Due, Sub!Library,
       Sub!ClientSignal, Sub!Alive, Sub!flags, Sub!library, Sub!At, Sub!Goto, Sub!Ends,
       Sub!LibraryGone, Sub!RequestConnect, Sub!ClearConnected, Sub!MyConnect, Sub!Disconnect,
       Sub!DisconnectFails, Sub!NextTry, Sub!Sending, Sub!AfterSend, Sub!SecondInterrupt, Callback,
       Called, onConnect, onConnectFailure, onSubscribeSuccess, onSubscribeFailure, connectionLost,
       onDisconnect, SubscriptionNoted, FlagAfterLoss, Reconnecting, Connecting, Progress,
       Established, Refused, Answered, Disconnected, Retry, Drop, Due, Library, ClientSignal, Alive,
       flags, library, At, Goto, Ends, LibraryGone, RequestConnect, ClearConnected, MyConnect,
       Disconnect, DisconnectFails, NextTry, Sending, AfterSend, SecondInterrupt

LEMMA SubStep ==
    ASSUME ClientInv, SubInv, Sub!Next
    PROVE  ClientInv' /\ SubInv'
<1>1. CASE Sub!SubConnect
  <2>1. MyConnect
    BY <1>1 DEF Sub!SubConnect, Sub!RequestConnect, Sub!Connecting, Sub!At, Sub!flags,
       MyConnect, RequestConnect, Connecting, At, flags
  <2>2. SubInv'
    BY <2>1 DEF SubInv, MyConnect, At
  <2> QED
    BY <2>1, <2>2, MainKeeps
<1>2. CASE Disconnect
  <2>1. SubInv'
    BY <1>2 DEF SubInv, Disconnect, At
  <2> QED
    BY <1>2, <2>1, MainKeeps
<1>3. CASE Sub!SubConnectFails \/ DisconnectFails \/ Sub!SubDestroy \/ SecondInterrupt
  <2>1. Ends("connect") \/ Ends("exit") \/ Ends("destroy") \/ Ends(pc)
    BY <1>3, SubShares DEF Sub!SubConnectFails, DisconnectFails, Sub!SubDestroy, SecondInterrupt
  <2>2. SubInv'
    BY <2>1 DEF SubInv, Ends, At
  <2> QED
    BY <2>1, <2>2, EndsKeeps
<1>4. CASE Sub!SubSubscribed \/ Sub!SubFinished \/ Sub!SubDisconnected
  <2>1. PICK p, q \in {"subscribe", "receive", "exit", "disconnecting", "destroy"} :
          /\ Goto(p, q)
          /\ <<p, q>> \in {<<"subscribe", "receive">>, <<"subscribe", "destroy">>,
                           <<"receive", "exit">>, <<"disconnecting", "destroy">>}
    BY <1>4, SubShares DEF Sub!SubSubscribed, Sub!SubFinished, Sub!SubDisconnected
  <2>2. MovesFrom(p, q)
    BY <2>1 DEF MovesFrom, Idle, Closed
  <2>3. SubInv'
    BY <2>1 DEF SubInv, Goto, At
  <2> QED
    BY <2>1, <2>2, <2>3, GotoKeeps
<1>5. CASE Callback \/ Progress \/ Drop \/ ClientSignal
  <2>1. SubInv'
    BY <1>5, EnvironmentKeeps DEF SubInv
  <2> QED
    BY <1>5, <2>1, EnvironmentKeeps
<1> QED
  BY <1>1, <1>2, <1>3, <1>4, <1>5, SubShares
     DEF Sub!Next, Sub!SubMain, Sub!SubCallback, Sub!SubSignal

-----------------------------------------------------------------------------
(* The publisher with a thread of its own for sending *)

ThreadInv ==
    /\ Producers
    /\ pc \in {"start", "connect", "subscribe", "createThread", "join", "exit", "disconnecting", "ended"}
    /\ sender \in {"none", "loop", "sleep", "produce", "try", "send", "sent", "done"}
    /\ sendRc \in {"ok", "failed"}
    /\ sender \in {"none", "done"} \/ pc = "join"

\* The instance has the shared steps, and so has the instance in it.
LEMMA ThreadShares ==
    /\ Thread!Callback <=> Callback
    /\ Thread!Progress <=> Progress
    /\ Thread!Retry <=> Retry
    /\ Thread!Drop <=> Drop
    /\ Thread!ClientSignal <=> ClientSignal
    /\ Thread!ClearConnected <=> ClearConnected
    /\ Thread!MyConnect <=> MyConnect
    /\ Thread!Disconnect <=> Disconnect
    /\ Thread!DisconnectFails <=> DisconnectFails
    /\ Thread!SecondInterrupt <=> SecondInterrupt
    /\ \A p, q : Thread!Goto(p, q) <=> Goto(p, q)
    /\ \A p : Thread!Ends(p) <=> Ends(p)
    /\ Thread!ClientTypeOK <=> ClientTypeOK
BY DEF Thread!ClientTypeOK, ClientTypeOK, Thread!Callback, Thread!Called, Thread!onConnect, Thread!onConnectFailure,
       Thread!onSubscribeSuccess, Thread!onSubscribeFailure, Thread!connectionLost,
       Thread!onDisconnect, Thread!SubscriptionNoted, Thread!FlagAfterLoss, Thread!Reconnecting,
       Thread!Connecting, Thread!Progress, Thread!Established, Thread!Refused, Thread!Answered,
       Thread!Disconnected, Thread!Retry, Thread!Drop, Thread!Due, Thread!Library,
       Thread!ClientSignal, Thread!Alive, Thread!flags, Thread!library, Thread!At, Thread!Goto,
       Thread!Ends, Thread!LibraryGone, Thread!RequestConnect, Thread!ClearConnected,
       Thread!MyConnect, Thread!Disconnect, Thread!DisconnectFails, Thread!NextTry, Thread!Sending,
       Thread!AfterSend, Thread!SecondInterrupt, Callback, Called, onConnect, onConnectFailure,
       onSubscribeSuccess, onSubscribeFailure, connectionLost, onDisconnect, SubscriptionNoted,
       FlagAfterLoss, Reconnecting, Connecting, Progress, Established, Refused, Answered,
       Disconnected, Retry, Drop, Due, Library, ClientSignal, Alive, flags, library, At, Goto, Ends,
       LibraryGone, RequestConnect, ClearConnected, MyConnect, Disconnect, DisconnectFails, NextTry,
       Sending, AfterSend, SecondInterrupt

LEMMA ThreadCopyShares == \A p : Thread!Copy!Ends(p) <=> Ends(p)
BY DEF Thread!Copy!Ends, Thread!Copy!At, Thread!Copy!LibraryGone, Thread!Copy!flags,
       Ends, At, LibraryGone, flags

\* A step with which its process ends.
LEMMA ThreadEndsKeeps ==
    ASSUME ClientInv, ThreadInv, NEW p, Thread!ThreadEnds(p)
    PROVE  ClientInv' /\ ThreadInv'
<1>1. Ends(p) /\ pipes' = 0 /\ running' = 0 /\ zombies' = 0 /\ sender' = "none" /\ sendRc' = "ok"
  BY ThreadCopyShares DEF Thread!ThreadEnds, Thread!Copy!CopyEnds
<1>2. ThreadInv'
  BY <1>1 DEF ThreadInv, Producers, Ends, At
<1> QED
  BY <1>1, <1>2, EndsKeeps

LEMMA ThreadStep ==
    ASSUME ClientInv, ThreadInv, Thread!Next
    PROVE  ClientInv' /\ ThreadInv'
<1>1. CASE Thread!ThreadMain
  <2>1. CASE (ClearConnected \/ MyConnect \/ Disconnect) /\ UNCHANGED <<pipes, running, zombies, sender, sendRc>>
    <3>1. ThreadInv'
      BY <2>1 DEF ThreadInv, Producers, ClearConnected, MyConnect, Disconnect, At
    <3> QED
      BY <2>1, <3>1, MainKeeps
  <2>2. CASE Thread!ThreadEnds("exit") \/ Thread!ThreadEnds("disconnecting")
    BY <2>2, ThreadEndsKeeps
  <2>3. CASE Thread!Copy!CopyWaitDisconnected /\ UNCHANGED <<sender, sendRc>>
    <3>1. UNCHANGED client /\ UNCHANGED <<pipes, running>> /\ zombies > 0 /\ zombies' = zombies - 1
      BY <2>3 DEF Thread!Copy!CopyWaitDisconnected, Thread!Copy!client, Thread!Copy!flags,
         Thread!Copy!library, client, flags, library
    <3>2. ThreadInv'
      BY <2>3, <3>1 DEF ThreadInv, Producers, client
    <3> QED
      BY <3>1, <3>2, ClientStands
  <2>4. CASE Thread!ThreadSubscribed \/ Thread!CreateThread \/ Thread!JoinThread
    <3>1. PICK p, q \in {"subscribe", "exit", "createThread", "join"} : Goto(p, q)
      BY <2>4, ThreadShares DEF Thread!ThreadSubscribed, Thread!CreateThread, Thread!JoinThread
    <3>2. MovesFrom(p, q)
      BY <3>1 DEF MovesFrom, Idle, Closed
    <3>3. ThreadInv'
      BY <2>4, ThreadShares DEF ThreadInv, Producers, Thread!ThreadSubscribed, Thread!CreateThread,
         Thread!JoinThread, Thread!producers, Thread!thread, Goto, At
    <3> QED
      BY <3>1, <3>2, <3>3, GotoKeeps
  <2> QED
    BY <1>1, <2>1, <2>2, <2>3, <2>4, ThreadShares
       DEF Thread!ThreadMain, Thread!producers, Thread!thread
<1>2. CASE Thread!SenderStep
  <2>1. CASE Thread!SenderDies
    BY <2>1, ThreadEndsKeeps DEF Thread!SenderDies
  <2>2. CASE \/ Thread!SenderLoop \/ Thread!SenderSlept \/ Thread!SenderProduce
             \/ Thread!SenderTry \/ Thread!SenderSend \/ Thread!SenderSent
    <3>1. UNCHANGED client /\ sender \notin {"none", "done"}
      BY <2>2 DEF Thread!SenderLoop, Thread!SenderSlept, Thread!SenderProduce,
         Thread!SenderTry, Thread!SenderSend, Thread!SenderSent, Thread!SenderGoes, Thread!client,
         Thread!flags, Thread!library, client, flags, library
    <3>2. Producers'
      BY <2>2 DEF ThreadInv, Producers, Thread!SenderLoop, Thread!SenderSlept,
         Thread!SenderProduce, Thread!SenderTry, Thread!SenderSend, Thread!SenderSent,
         Thread!producers
    <3>3. /\ sender' \in {"loop", "sleep", "produce", "try", "send", "sent", "done"}
          /\ sendRc' \in {"ok", "failed"}
      BY <2>2 DEF ThreadInv, Thread!SenderLoop, Thread!SenderSlept, Thread!SenderProduce,
         Thread!SenderTry, Thread!SenderSend, Thread!SenderSent, Thread!SenderGoes,
         Thread!AfterSend
    <3>4. ThreadInv'
      BY <3>1, <3>2, <3>3 DEF ThreadInv, client
    <3> QED
      BY <3>1, <3>4, ClientStands
  <2> QED
    BY <1>2, <2>1, <2>2 DEF Thread!SenderStep
<1>3. CASE (Callback \/ Progress \/ Retry \/ Drop \/ ClientSignal)
           /\ UNCHANGED <<pipes, running, zombies, sender, sendRc>>
  <2>1. ThreadInv'
    BY <1>3, EnvironmentKeeps DEF ThreadInv, Producers
  <2> QED
    BY <1>3, <2>1, EnvironmentKeeps
<1>4. CASE Thread!ThreadEnds(pc)
  BY <1>4, ThreadEndsKeeps
<1>5. CASE Thread!Copy!ProducerEnds /\ UNCHANGED <<sender, sendRc>>
  <2>1. UNCHANGED client
    BY <1>5 DEF Thread!Copy!ProducerEnds, Thread!Copy!client, Thread!Copy!flags,
       Thread!Copy!library, client, flags, library
  <2>2. ThreadInv'
    BY <1>5, <2>1 DEF ThreadInv, Producers, Thread!Copy!ProducerEnds, client
  <2> QED
    BY <2>1, <2>2, ClientStands
<1> QED
  BY <1>1, <1>2, <1>3, <1>4, <1>5, ThreadShares
     DEF Thread!Next, Thread!ThreadCallback, Thread!ThreadSignal, Thread!producers, Thread!thread

-----------------------------------------------------------------------------
(* The synchronous client *)

\* Sync!TypeOK holds by itself.
LEMMA SyncStep ==
    ASSUME Sync!TypeOK, Sync!Next
    PROVE  Sync!TypeOK'
<1> USE DEF Sync!TypeOK
<1>0. ASSUME Sync!Over PROVE Sync!TypeOK'
  <2>1. arrived' \in 0 .. MaxArrived
    <3>1. MaxArrived \in Nat
      OBVIOUS
    <3> QED
      BY <1>0, <3>1 DEF Sync!Over
  <2>2. {stop', fdLog'} \subseteq BOOLEAN
    <3>1. stop' = stop /\ fdLog' = FALSE
      BY <1>0 DEF Sync!Over
    <3>2. {stop, fdLog} \subseteq BOOLEAN
      OBVIOUS
    <3> QED
      BY <3>1, <3>2, Zenon
  <2>3. task' \in [Sync!Threads -> {"out", "test", "set", "produce", "publish"}]
    BY <1>0 DEF Sync!Over, Sync!Out
  <2> QED
    BY <1>0, <2>1, <2>2, <2>3 DEF Sync!Over
<1>1. CASE \E t \in Sync!Threads : Sync!SendTask(t)
  <2>1. PICK t \in Sync!Threads : Sync!SendTask(t)
    BY <1>1
  <2>2. CASE Sync!TestFlag(t)
    BY <2>2 DEF Sync!TestFlag, Sync!Stage
  <2>3. CASE Sync!SetFlag(t)
    BY <2>3 DEF Sync!SetFlag, Sync!Stage
  <2>4. CASE Sync!FillMessage(t)
    BY <2>4 DEF Sync!FillMessage, Sync!Stage
  <2>5. CASE Sync!ProducerDies(t)
    BY <1>0, <2>5 DEF Sync!ProducerDies
  <2>6. CASE Sync!Publish(t)
    BY <2>6 DEF Sync!Publish, Sync!FlagTaken, Sync!Stage
  <2> QED
    BY <2>1, <2>2, <2>3, <2>4, <2>5, <2>6 DEF Sync!SendTask
<1>2. CASE Sync!SyncConnectFails \/ Sync!Finish \/ Sync!ArrivedEarly
  BY <1>0, <1>2 DEF Sync!SyncConnectFails, Sync!Finish, Sync!ArrivedEarly
<1>3. CASE Sync!SyncConnect \/ Sync!OpenLog \/ Sync!TestStop \/ Sync!disconnect \/ Sync!MessageComes
  <2>1. /\ place' \in {"connect", "openLog", "loop", "test", "unsubscribe", "ended"}
        /\ UNCHANGED <<task, sendCompleteOK, pubmsg>>
        /\ stop' \in {stop, TRUE} /\ fdLog' \in {fdLog, TRUE}
    BY <1>3 DEF Sync!SyncConnect, Sync!OpenLog, Sync!TestStop, Sync!disconnect, Sync!MessageComes,
       Sync!Place
  <2>2. arrived' \in 0 .. MaxArrived
    BY <1>3 DEF Sync!SyncConnect, Sync!OpenLog, Sync!TestStop, Sync!disconnect, Sync!MessageComes
  <2>3. {stop', fdLog'} \subseteq BOOLEAN
    BY <2>1
  <2> QED
    BY <2>1, <2>2, <2>3
<1>4. CASE Sync!CallTask \/ Sync!msgarrvd
  BY <1>4 DEF Sync!CallTask, Sync!msgarrvd, Sync!Place, Sync!Stage
<1> QED
  BY <1>1, <1>2, <1>3, <1>4 DEF Sync!Next, Sync!SyncMain, Sync!SyncCallback, Sync!Threads

-----------------------------------------------------------------------------
(* The subscriber with a log in shared memory *)

LogLines == Cloud!Callers \cup {"empty", "mixed"}

LogTypes ==
    /\ stage \in [Cloud!Callers -> {"out", "compose", "copy", "copying", "done"}]
    /\ msg_buf \in LogLines /\ mm \in LogLines \X LogLines
    /\ mapped \in {"no", "yes", "null", "gone"}
    /\ reader \in LogLines \cup {"idle", "overtaken"}

\* Callbacks log for what is due; main logs before it has a link, or when it has been
\* told to finish, which it has where it leaves.
LogTurns ==
    /\ stage["callback"] # "out" => due # <<>>
    /\ stage["main"] # "out" => finished \/ pc \in {"start", "refused"}
    /\ pc \in {"stopping", "failed", "disconnecting", "destroy"} => finished

\* While one caller at a time is in MyLog the buffer is its own, and the halves of the
\* segment differ only while it copies.
LogWhole ==
    /\ \A c \in Cloud!Callers : stage[c] \in {"copy", "copying"} => msg_buf = c
    /\ \A c \in Cloud!Callers : stage[c] = "copying" => mm[1] = msg_buf
    /\ (\A c \in Cloud!Callers : stage[c] # "copying") => mm[1] = mm[2]
    /\ "mixed" \notin {mm[1], mm[2]}
    /\ reader \notin {"idle", "overtaken"} =>
         reader = mm[2] /\ \A c \in Cloud!Callers : stage[c] # "copying"

CloudPlaces ==
    {"create", "start", "connect", "refused", "subscribe", "receive", "stopping", "failed",
     "disconnecting", "destroy", "ended"}

CloudInv ==
    /\ LogTypes /\ pc \in CloudPlaces
    /\ LogTurns
    /\ ~finished => LogWhole

\* The instance has the shared steps.
LEMMA CloudShares ==
    /\ Cloud!Callback <=> Callback
    /\ Cloud!Progress <=> Progress
    /\ Cloud!Retry <=> Retry
    /\ Cloud!Drop <=> Drop
    /\ Cloud!ClientSignal <=> ClientSignal
    /\ Cloud!ClearConnected <=> ClearConnected
    /\ \A p, q : Cloud!Goto(p, q) <=> Goto(p, q)
    /\ \A p : Cloud!Ends(p) <=> Ends(p)
    /\ Cloud!ClientTypeOK <=> ClientTypeOK
BY DEF Cloud!ClientTypeOK, ClientTypeOK, Cloud!Callback, Cloud!Called, Cloud!onConnect, Cloud!onConnectFailure,
       Cloud!onSubscribeSuccess, Cloud!onSubscribeFailure, Cloud!connectionLost, Cloud!onDisconnect,
       Cloud!SubscriptionNoted, Cloud!FlagAfterLoss, Cloud!Reconnecting, Cloud!Connecting,
       Cloud!Progress, Cloud!Established, Cloud!Refused, Cloud!Answered, Cloud!Disconnected,
       Cloud!Retry, Cloud!Drop, Cloud!Due, Cloud!Library, Cloud!ClientSignal, Cloud!Alive,
       Cloud!flags, Cloud!library, Cloud!At, Cloud!Goto, Cloud!Ends, Cloud!LibraryGone,
       Cloud!RequestConnect, Cloud!ClearConnected, Cloud!MyConnect, Cloud!Disconnect,
       Cloud!DisconnectFails, Cloud!NextTry, Cloud!Sending, Cloud!AfterSend, Cloud!SecondInterrupt,
       Cloud!client, Callback, Called, onConnect, onConnectFailure, onSubscribeSuccess,
       onSubscribeFailure, connectionLost, onDisconnect, SubscriptionNoted, FlagAfterLoss,
       Reconnecting, Connecting, Progress, Established, Refused, Answered, Disconnected, Retry,
       Drop, Due, Library, ClientSignal, Alive, flags, library, At, Goto, Ends, LibraryGone,
       RequestConnect, ClearConnected, MyConnect, Disconnect, DisconnectFails, NextTry, Sending,
       AfterSend, SecondInterrupt, client

\* As long as the client has not been told to finish one caller at a time is in MyLog.
LEMMA OneInside ==
    ASSUME ClientInv, CloudInv, ~finished,
           NEW c \in Cloud!Callers, stage[c] # "out",
           NEW d \in Cloud!Callers, d # c
    PROVE  stage[d] = "out"
BY DEF ClientInv, CloudInv, LogTurns, Cloud!Callers, Idle

\* Who is called or returns, and who only looks on, leaves the lines as they are.
LEMMA LogStands ==
    ASSUME CloudInv, finished => finished', UNCHANGED <<msg_buf, mm, reader>>,
           mapped' \in {"no", "yes", "null", "gone"},
           stage' \in [Cloud!Callers -> {"out", "compose", "copy", "copying", "done"}],
           \A c \in Cloud!Callers :
             stage'[c] # stage[c] => stage[c] \in {"out", "done"} /\ stage'[c] \in {"out", "compose"}
    PROVE  LogTypes' /\ (~finished' => LogWhole')
<1>1. LogTypes'
  BY DEF CloudInv, LogTypes
<1>2. ASSUME ~finished' PROVE LogWhole'
  <2>1. \A c \in Cloud!Callers : stage'[c] \in {"copy", "copying"} => stage'[c] = stage[c]
    OBVIOUS
  <2>2. \A c \in Cloud!Callers : stage[c] \in {"copy", "copying"} => stage'[c] = stage[c]
    OBVIOUS
  <2> QED
    BY <1>2, <2>1, <2>2 DEF CloudInv, LogWhole
<1> QED
  BY <1>1, <1>2

\* A call and a return.
LEMMA LogsAndReturns ==
    ASSUME CloudInv, NEW c \in Cloud!Callers,
           \/ Cloud!Logs(c) \/ Cloud!Logged(c)
           \/ stage[c] = "done" /\ stage' = [stage EXCEPT ![c] = "compose"]
    PROVE  /\ stage' \in [Cloud!Callers -> {"out", "compose", "copy", "copying", "done"}]
           /\ \A d \in Cloud!Callers :
                stage'[d] # stage[d] => stage[d] \in {"out", "done"} /\ stage'[d] \in {"out", "compose"}
           /\ \A d \in Cloud!Callers \ {c} : stage'[d] = stage[d]
           /\ Cloud!Logged(c) => stage'[c] = "out"
BY DEF CloudInv, LogTypes, Cloud!Logs, Cloud!Logged

\* MyLog, unless it kills.
LEMMA MyLogKeeps ==
    ASSUME ClientInv, CloudInv, NEW c \in Cloud!Callers,
           Cloud!Compose(c) \/ Cloud!CopyBegins(c) \/ Cloud!CopyEnds(c)
    PROVE  ClientInv' /\ CloudInv'
<1>0. UNCHANGED client /\ mapped' = mapped
  BY DEF Cloud!Compose, Cloud!CopyBegins, Cloud!CopyEnds, Cloud!client, Cloud!flags, Cloud!library,
     client, flags, library
<1>1. /\ UNCHANGED <<pc, finished, due, mapped>>
      /\ stage' \in [Cloud!Callers -> {"out", "compose", "copy", "copying", "done"}]
      /\ \A d \in Cloud!Callers \ {c} : stage'[d] = stage[d]
      /\ stage[c] # "out"
  <2>1. UNCHANGED <<pc, finished, due>>
    BY <1>0 DEF client, flags, library
  <2> QED
    BY <1>0, <2>1 DEF Cloud!Compose, Cloud!CopyBegins, Cloud!CopyEnds, CloudInv, LogTypes
<1>2. LogTurns'
  BY <1>1 DEF CloudInv, LogTurns, Cloud!Callers
<1>3. CASE Cloud!Compose(c)
  <2>1. /\ stage[c] = "compose" /\ stage'[c] = "copy" /\ UNCHANGED <<mm, reader>>
        /\ msg_buf' = IF \E d \in Cloud!Callers \ {c} : stage[d] \in {"copy", "copying"}
                      THEN "mixed" ELSE c
    BY <1>3 DEF Cloud!Compose, Cloud!memory, CloudInv, LogTypes
  <2>2. LogTypes'
    BY <1>1, <2>1 DEF CloudInv, LogTypes, LogLines
  <2>3. ASSUME ~finished PROVE LogWhole'
    <3>1. \A d \in Cloud!Callers \ {c} : stage[d] = "out" /\ stage'[d] = "out"
      BY <1>1, <2>3, OneInside
    <3> QED
      BY <2>1, <2>3, <3>1 DEF CloudInv, LogWhole
  <2> QED
    BY <1>0, <1>1, <1>2, <2>2, <2>3, ClientStands DEF CloudInv
<1>4. CASE Cloud!CopyBegins(c)
  <2>1. /\ stage[c] = "copy" /\ stage'[c] = "copying" /\ msg_buf' = msg_buf
        /\ mm' = [mm EXCEPT ![1] = msg_buf]
        /\ reader' = IF reader = "idle" THEN "idle" ELSE "overtaken"
    BY <1>4 DEF Cloud!CopyBegins, CloudInv, LogTypes
  <2>2. LogTypes' /\ mm'[1] = msg_buf /\ mm'[2] = mm[2]
    BY <1>1, <2>1 DEF CloudInv, LogTypes
  <2>3. ASSUME ~finished PROVE LogWhole'
    <3>1. \A d \in Cloud!Callers \ {c} : stage[d] = "out" /\ stage'[d] = "out"
      BY <1>1, <2>3, OneInside
    <3>2. msg_buf = c /\ "mixed" # c /\ mm[2] # "mixed"
      BY <2>1, <2>3 DEF CloudInv, LogWhole, Cloud!Callers
    <3> QED
      BY <2>1, <2>2, <3>1, <3>2 DEF LogWhole
  <2> QED
    BY <1>0, <1>1, <1>2, <2>2, <2>3, ClientStands DEF CloudInv
<1>5. CASE Cloud!CopyEnds(c)
  <2>1. /\ stage[c] = "copying" /\ stage'[c] = "done" /\ UNCHANGED <<msg_buf, reader>>
        /\ mm' = [mm EXCEPT ![2] = msg_buf]
    BY <1>5 DEF Cloud!CopyEnds, CloudInv, LogTypes
  <2>2. LogTypes' /\ mm'[1] = mm[1] /\ mm'[2] = msg_buf
    BY <1>1, <2>1 DEF CloudInv, LogTypes
  <2>3. ASSUME ~finished PROVE LogWhole'
    <3>1. \A d \in Cloud!Callers \ {c} : stage[d] = "out" /\ stage'[d] = "out"
      BY <1>1, <2>3, OneInside
    <3>2. mm[1] = msg_buf /\ mm[1] # "mixed" /\ reader \in {"idle", "overtaken"}
      BY <2>1, <2>3 DEF CloudInv, LogWhole
    <3> QED
      BY <2>1, <2>2, <3>1, <3>2 DEF LogWhole
  <2> QED
    BY <1>0, <1>1, <1>2, <2>2, <2>3, ClientStands DEF CloudInv
<1> QED
  BY <1>3, <1>4, <1>5

\* The end of the process, while nobody copies or when the client has been told to finish.
LEMMA CloudEndsKeeps ==
    ASSUME ClientInv, CloudInv, NEW p, Cloud!ProcessEnds(p),
           finished \/ \A c \in Cloud!Callers : stage[c] # "copying"
    PROVE  ClientInv' /\ CloudInv'
<1>1. /\ Ends(p) /\ stage' = Cloud!Outside /\ msg_buf' = "empty" /\ mapped' = "no"
      /\ UNCHANGED <<mm, reader>>
  BY CloudShares DEF Cloud!ProcessEnds, Cloud!memory
<1>2. pc' = "ended" /\ due' = <<>> /\ finished' = finished
  BY <1>1 DEF Ends, At, LibraryGone, flags
<1>3. stage' \in [Cloud!Callers -> {"out"}]
  BY <1>1 DEF Cloud!Outside
<1>4. LogTypes' /\ pc' \in CloudPlaces /\ LogTurns'
  BY <1>1, <1>2, <1>3 DEF CloudInv, LogTypes, LogTurns, LogLines, CloudPlaces, Cloud!Callers
<1>5. ASSUME ~finished PROVE LogWhole'
  BY <1>1, <1>3, <1>5 DEF CloudInv, LogWhole
<1> QED
  BY <1>1, <1>2, <1>4, <1>5, EndsKeeps DEF CloudInv

\* What runs beside the log, and the reader of the segment.
LEMMA CloudStep ==
    ASSUME ClientInv, CloudInv, Cloud!Next
    PROVE  ClientInv' /\ CloudInv'
<1> DEFINE Alike ==
      /\ finished => finished'
      /\ UNCHANGED <<msg_buf, mm, reader>>
      /\ mapped' \in {"no", "yes", "null", "gone"}
      /\ stage' \in [Cloud!Callers -> {"out", "compose", "copy", "copying", "done"}]
      /\ \A c \in Cloud!Callers :
           stage'[c] # stage[c] => stage[c] \in {"out", "done"} /\ stage'[c] \in {"out", "compose"}
<1>0. /\ stage \in [Cloud!Callers -> {"out", "compose", "copy", "copying", "done"}]
      /\ mapped \in {"no", "yes", "null", "gone"}
      /\ "main" \in Cloud!Callers /\ "callback" \in Cloud!Callers
      /\ pc \in CloudPlaces
  BY DEF CloudInv, LogTypes, Cloud!Callers
<1>1. CASE \E c \in Cloud!Callers : Cloud!MyLog(c)
  <2>1. PICK c \in Cloud!Callers : Cloud!MyLog(c)
    BY <1>1
  <2>2. CASE Cloud!CopyKills(c)
    <3>1. stage[c] = "copy" /\ Cloud!ProcessEnds(pc)
      BY <2>2 DEF Cloud!CopyKills
    <3>2. finished \/ \A d \in Cloud!Callers : stage[d] # "copying"
      BY <2>1, <3>1, OneInside
    <3> QED
      BY <3>1, <3>2, CloudEndsKeeps
  <2> QED
    BY <2>1, <2>2, MyLogKeeps DEF Cloud!MyLog
<1>2. CASE \/ Cloud!CloudExit \/ Cloud!CloudDestroy
           \/ sigint = "default" /\ Cloud!ProcessEnds(pc)
  <2>1. PICK p \in {"failed", "destroy", pc} : Cloud!ProcessEnds(p)
    BY <1>2 DEF Cloud!CloudExit, Cloud!CloudDestroy
  <2>2. finished
    BY <1>2, CloudShares DEF Cloud!CloudExit, Cloud!CloudDestroy, Cloud!ProcessEnds, Ends, At,
       ClientInv, CloudInv, LogTurns
  <2> QED
    BY <2>1, <2>2, CloudEndsKeeps
<1>3. CASE Cloud!ShmRead
  <2>1. UNCHANGED client /\ UNCHANGED <<stage, msg_buf, mm, mapped>>
    BY <1>3 DEF Cloud!ShmRead, Cloud!ReadsFirstHalf, Cloud!ReadsSecondHalf, Cloud!log,
       Cloud!client, Cloud!flags, Cloud!library, client, flags, library
  <2>2. UNCHANGED <<pc, finished, due>>
    BY <2>1 DEF client, flags, library
  <2>3. reader' \in {"idle", mm[1], "overtaken"}
        /\ (reader' \notin {"idle", "overtaken"} =>
              reader' = mm[1] /\ \A c \in Cloud!Callers : stage[c] # "copying")
    BY <1>3 DEF Cloud!ShmRead, Cloud!ReadsFirstHalf, Cloud!ReadsSecondHalf
  <2>4. CloudInv'
    <3>1. LogTypes' /\ LogTurns'
      BY <2>1, <2>2, <2>3 DEF CloudInv, LogTypes, LogTurns
    <3>2. ~finished => LogWhole'
      BY <2>1, <2>3 DEF CloudInv, LogWhole
    <3> QED
      BY <2>2, <3>1, <3>2 DEF CloudInv
  <2> QED
    BY <2>1, <2>4, ClientStands
<1>4. CASE \/ (Progress \/ Retry \/ Drop \/ Cloud!Arrives \/ ClientSignal) /\ Cloud!NotLogging
  <2>1. UNCHANGED <<stage, msg_buf, mm, mapped, reader>>
    BY <1>4 DEF Cloud!NotLogging, Cloud!log, Cloud!memory
  <2>2. ClientInv' /\ pc' = pc
    <3>1. CASE Progress \/ Retry \/ Drop \/ ClientSignal
      BY <3>1, EnvironmentKeeps
    <3>2. CASE Cloud!Arrives
      <4>1. /\ link = "up" /\ due' = due \o <<"message">> /\ Len(due') <= MaxDue
            /\ UNCHANGED <<pc, rc, flags, link, armed, subscribing, closing>>
        BY <3>2 DEF Cloud!Arrives, Cloud!Due, Cloud!Library, Cloud!flags, flags
      <4> QED
        BY <4>1, ArrivalKeeps
    <3> QED
      BY <1>4, <3>1, <3>2
  <2>3. (finished => finished') /\ (due # <<>> => due' # <<>>)
    <3>1. due \in Seq(Names)
      BY DEF ClientInv, ClientTypes
    <3>2. CASE ClientSignal \/ Retry
      BY <3>2 DEF ClientSignal, Retry, Library, flags, library
    <3>3. CASE Progress \/ Drop \/ Cloud!Arrives
      <4>1. finished' = finished
            /\ \E q \in Seq(Names) : due' = due \o q
        <5>1. \A x, y \in Names : <<x, y>> \in Seq(Names) /\ <<x>> \in Seq(Names) /\ <<>> \in Seq(Names)
          OBVIOUS
        <5> QED
          BY <3>3, <5>1 DEF Progress, Established, Refused, Answered, Disconnected, Drop, Library,
             Due, flags, Names, Cloud!Arrives, Cloud!Due, Cloud!Library, Cloud!flags
      <4> QED
        BY <3>1, <4>1, ConcatEqualIffEmpty
    <3> QED
      BY <1>4, <3>2, <3>3
  <2>4. Alike
    BY <1>0, <2>1, <2>3
  <2>5. LogTypes' /\ (~finished' => LogWhole')
    BY <2>4, LogStands
  <2>6. LogTurns'
    BY <2>1, <2>2, <2>3 DEF CloudInv, LogTurns
  <2> QED
    BY <1>0, <2>2, <2>5, <2>6 DEF CloudInv
<1>5. CASE Cloud!CloudCallback /\ ~Cloud!MyLog("callback")
  <2>1. CASE Cloud!CallbackLogs
    <3>1. /\ due # <<>> /\ Cloud!Logs("callback") /\ UNCHANGED client
          /\ UNCHANGED <<msg_buf, mapped, mm, reader>>
      BY <2>1 DEF Cloud!CallbackLogs, Cloud!memory, Cloud!client, Cloud!flags, Cloud!library,
         client, flags, library
    <3>2. UNCHANGED <<pc, finished, due>>
      BY <3>1 DEF client, flags, library
    <3>3. Alike /\ stage'["main"] = stage["main"]
      BY <1>0, <3>1, <3>2, LogsAndReturns
    <3>4. LogTypes' /\ (~finished' => LogWhole')
      BY <3>3, LogStands
    <3>5. LogTurns'
      BY <3>1, <3>2, <3>3 DEF CloudInv, LogTurns
    <3> QED
      BY <1>0, <3>1, <3>2, <3>4, <3>5, ClientStands DEF CloudInv
  <2>2. CASE (Callback \/ Cloud!messageArrived) /\ Cloud!Logged("callback")
             /\ UNCHANGED <<msg_buf, mapped, mm, reader>>
    <3>1. ClientInv' /\ pc' = pc /\ (finished => finished')
      <4>1. CASE Callback
        <5>1. finished => finished'
          BY <4>1 DEF Callback, onConnect, onConnectFailure, onSubscribeSuccess,
             onSubscribeFailure, connectionLost, onDisconnect
        <5> QED
          BY <4>1, <5>1, EnvironmentKeeps
      <4>2. CASE Cloud!messageArrived
        <5>1. /\ due # <<>> /\ Head(due) = "message" /\ due' = Tail(due)
              /\ UNCHANGED <<pc, rc, flags, link, armed, subscribing, closing>>
          BY <4>2 DEF Cloud!messageArrived, Cloud!Called, flags
        <5> QED
          BY <5>1, MessageKeeps DEF flags
      <4> QED
        BY <2>2, <4>1, <4>2
    <3>2. Alike /\ stage'["main"] = stage["main"] /\ stage'["callback"] = "out"
      BY <1>0, <2>2, <3>1, LogsAndReturns
    <3>3. LogTypes' /\ (~finished' => LogWhole')
      BY <3>2, LogStands
    <3>4. LogTurns'
      BY <3>1, <3>2 DEF CloudInv, LogTurns
    <3> QED
      BY <1>0, <3>1, <3>3, <3>4 DEF CloudInv
  <2> QED
    BY <1>5, <2>1, <2>2, CloudShares DEF Cloud!CloudCallback, Cloud!memory
<1>6. CASE \/ Cloud!MmCreate \/ Cloud!LogConnecting \/ Cloud!Connect \/ Cloud!ConnectBegins
           \/ Cloud!ConnectFails \/ Cloud!Refusal \/ Cloud!CloudSubscribed \/ Cloud!Stopping
           \/ Cloud!CloudDisconnect \/ Cloud!CloudDisconnectFails \/ Cloud!MmRelease
  <2> DEFINE Logging == \/ stage' = stage
                        \/ Cloud!Logs("main") \/ Cloud!Logged("main")
                        \/ stage["main"] = "done" /\ stage' = [stage EXCEPT !["main"] = "compose"]
             Turns == /\ stage'["main"] # "out" => finished' \/ pc' \in {"start", "refused"}
                      /\ pc' \in {"stopping", "failed", "disconnecting", "destroy"} => finished'
  <2>1. ASSUME ClientInv', Logging, Turns, pc' \in CloudPlaces, due' = due, finished => finished',
               UNCHANGED <<msg_buf, mm, reader>>, mapped' \in {"yes", "null", "gone", mapped}
        PROVE  ClientInv' /\ CloudInv'
    <3>1. Alike /\ stage'["callback"] = stage["callback"]
      BY <1>0, <2>1, LogsAndReturns DEF Cloud!Callers
    <3>2. LogTypes' /\ (~finished' => LogWhole')
      BY <3>1, LogStands
    <3>3. LogTurns'
      BY <2>1, <3>1 DEF CloudInv, LogTurns
    <3> QED
      BY <2>1, <3>2, <3>3 DEF CloudInv
  <2>2. stage["main"] # "out" => finished \/ pc \in {"start", "refused"}
    BY DEF CloudInv, LogTurns
  <2>3. pc \in {"stopping", "failed", "disconnecting", "destroy"} => finished
    BY DEF CloudInv, LogTurns
  <2>4. CASE Cloud!MmCreate \/ Cloud!CloudSubscribed \/ Cloud!MmRelease
    <3>1. PICK p \in {"create", "subscribe", "disconnecting"}, q \in {"start", "receive", "destroy"} :
            /\ Goto(p, q) /\ <<p, q>> \in {<<"create", "start">>, <<"subscribe", "receive">>,
                                           <<"disconnecting", "destroy">>}
            /\ UNCHANGED <<stage, msg_buf, mm, reader>>
            /\ mapped' \in {"yes", "null", "gone", mapped}
      BY <2>4 DEF Cloud!MmCreate, Cloud!CloudSubscribed, Cloud!MmRelease, Cloud!Goto, Cloud!At,
         Cloud!flags, Cloud!library, Cloud!memory, Cloud!NotLogging, Cloud!log, Goto, At, flags, library
    <3>2. MovesFrom(p, q)
      BY <3>1 DEF MovesFrom, Idle, Closed
    <3>3. ClientInv'
      BY <3>1, <3>2, GotoKeeps
    <3>4. /\ pc = p /\ pc' = q /\ UNCHANGED <<finished, due>>
      BY <3>1 DEF Goto, At, flags, library
    <3> QED
      BY <2>1, <2>2, <2>3, <3>1, <3>3, <3>4 DEF CloudPlaces
  <2>5. CASE Cloud!LogConnecting
    <3>1. UNCHANGED client /\ pc = "start" /\ Cloud!Logs("main")
          /\ UNCHANGED <<msg_buf, mapped, mm, reader>>
      BY <2>5 DEF Cloud!LogConnecting, Cloud!memory, Cloud!client, Cloud!flags, Cloud!library,
         client, flags, library
    <3>2. UNCHANGED <<pc, finished, due>>
      BY <3>1 DEF client, flags, library
    <3> QED
      BY <2>1, <3>1, <3>2, ClientStands DEF CloudPlaces
  <2>6. CASE Cloud!Connect
    <3>1. ClearConnected /\ Cloud!Logged("main") /\ UNCHANGED <<msg_buf, mapped, mm, reader>>
      BY <2>6, CloudShares DEF Cloud!Connect, Cloud!memory
    <3>2. pc' = "connect" /\ UNCHANGED <<finished, due>>
      BY <3>1 DEF ClearConnected, At, library
    <3>3. stage'["main"] = "out"
      BY <1>0, <3>1, LogsAndReturns
    <3> QED
      BY <2>1, <3>1, <3>2, <3>3, MainKeeps DEF CloudPlaces
  <2>7. CASE Cloud!ConnectBegins
    <3>1. MyConnect /\ UNCHANGED <<finished, due, stage, msg_buf, mapped, mm, reader>>
      BY <2>7 DEF Cloud!ConnectBegins, Cloud!At, Cloud!RequestConnect, Cloud!Connecting,
         Cloud!flags, Cloud!log, Cloud!memory, MyConnect, At, RequestConnect, Connecting
    <3>2. pc = "connect" /\ pc' = "subscribe"
      BY <3>1 DEF MyConnect, At
    <3> QED
      BY <2>1, <2>2, <3>1, <3>2, MainKeeps DEF CloudPlaces
  <2>8. CASE Cloud!Refusal
    <3>1. /\ At("refused", "subscribe") /\ finished' = TRUE
          /\ UNCHANGED <<rc, connected, subscribed, disconnected, sigint, library>>
          /\ UNCHANGED <<msg_buf, mapped, mm, reader>> /\ Cloud!Logged("main")
      BY <2>8 DEF Cloud!Refusal, Cloud!At, Cloud!library, Cloud!memory, At, library
    <3>2. pc' = "subscribe" /\ due' = due
      BY <3>1 DEF At, library
    <3> QED
      BY <2>1, <3>1, <3>2, ConnectKeeps DEF CloudPlaces
  <2>9. CASE Cloud!ConnectFails \/ Cloud!Stopping \/ Cloud!CloudDisconnectFails
    <3>1. PICK p \in {"connect", "receive", "stopping"}, q \in {"refused", "stopping", "failed"} :
            /\ Goto(p, q) /\ <<p, q>> \in {<<"connect", "refused">>, <<"receive", "stopping">>,
                                           <<"stopping", "failed">>}
            /\ p = "receive" => finished
            /\ Logging /\ UNCHANGED <<msg_buf, mapped, mm, reader>>
      BY <2>9, CloudShares DEF Cloud!ConnectFails, Cloud!Stopping, Cloud!CloudDisconnectFails,
         Cloud!ToldToStop, Cloud!memory
    <3>2. MovesFrom(p, q)
      BY <3>1 DEF MovesFrom, Idle, Closed
    <3>3. ClientInv'
      BY <3>1, <3>2, GotoKeeps
    <3>4. /\ pc = p /\ pc' = q /\ UNCHANGED <<finished, due>>
      BY <3>1 DEF Goto, At, flags, library
    <3> QED
      BY <2>1, <2>3, <3>1, <3>3, <3>4 DEF CloudPlaces
  <2>10. CASE Cloud!CloudDisconnect
    <3>1. /\ pc = "stopping" /\ pc' = "disconnecting" /\ closing' = TRUE
          /\ UNCHANGED <<rc, flags, link, due, armed, subscribing>>
          /\ Cloud!Logged("main") /\ UNCHANGED <<msg_buf, mapped, mm, reader>>
      BY <2>10 DEF Cloud!CloudDisconnect, Cloud!At, Cloud!flags, Cloud!memory, flags
    <3>2. finished' = finished
      BY <3>1 DEF flags
    <3>3. ClientInv'
      BY <3>1, DisconnectKeeps DEF Idle
    <3> QED
      BY <2>1, <2>3, <3>1, <3>2, <3>3 DEF CloudPlaces
  <2> QED
    BY <1>6, <2>4, <2>5, <2>6, <2>7, <2>8, <2>9, <2>10
<1> HIDE DEF Alike
<1> QED
  <2>1. \/ Cloud!CloudMain \/ Cloud!CloudCallback \/ Cloud!CloudSignal \/ Cloud!ShmRead
        \/ (Progress \/ Retry \/ Drop \/ Cloud!Arrives) /\ Cloud!NotLogging
    BY CloudShares DEF Cloud!Next
  <2>2. CASE Cloud!CloudMain
    BY <1>0, <1>1, <1>2, <1>6, <2>2 DEF Cloud!CloudMain
  <2>3. CASE Cloud!CloudCallback
    BY <1>0, <1>1, <1>5, <2>3
  <2>4. CASE Cloud!CloudSignal
    BY <1>2, <1>4, <2>4, CloudShares DEF Cloud!CloudSignal
  <2> QED
    BY <1>3, <1>4, <2>1, <2>2, <2>3, <2>4

-----------------------------------------------------------------------------
(* All programs *)

IInv ==
    /\ phase \in {"start", "read", "run", "over"}
    /\ ClientInv
    /\ program = "publisher" => PubInv
    /\ program = "copy" => CopyInv
    /\ program = "thread" => ThreadInv
    /\ program = "stdout" => SubInv
    /\ program = "subscriber" => CloudInv
    /\ program = "synchronous" => Sync!TypeOK

\* The start of each program.
LEMMA InitKeeps == ASSUME Init PROVE IInv
<1>1. PICK here \in {"none", "connect", "create", "start"} :
        /\ ClientInit(here)
        /\ program = "publisher" => here = "none"
        /\ program = "stdout" => here = "connect"
        /\ program = "subscriber" => here = "create"
        /\ program \in {"copy", "thread"} => here = "start"
  BY DEF Init, Programs, FromFile
<1>2. ClientInv
  BY <1>1, InitClient DEF Idle
<1>3. pc = here
  BY <1>1 DEF ClientInit
<1>4. MaxPipes \in Nat /\ MaxArrived \in Nat
  OBVIOUS
<1>5. Producers /\ sender = "none" /\ sendRc = "ok"
  BY <1>4 DEF Init, Copy!NoProducers, Thread!NoThread, Producers
<1>6. LogTypes /\ LogWhole /\ \A c \in Cloud!Callers : stage[c] = "out"
  BY DEF Init, Cloud!NoLog, Cloud!Outside, LogTypes, LogWhole, LogLines
<1>7. Sync!TypeOK
  <2>1. {stop, fdLog} \subseteq BOOLEAN
    BY DEF Init, Sync!Init
  <2>2. task \in [Sync!Threads -> {"out", "test", "set", "produce", "publish"}]
    BY DEF Init, Sync!Init, Sync!Out
  <2> QED
    BY <1>4, <2>1, <2>2 DEF Init, Sync!Init, Sync!TypeOK
<1>8. program = "publisher" => PubInv
  BY <1>1, <1>3 DEF Init, PubInv
<1>9. program = "subscriber" => CloudInv
  BY <1>1, <1>3, <1>6 DEF CloudInv, CloudPlaces, LogTurns, Cloud!Callers
<1> QED
  BY <1>1, <1>2, <1>3, <1>5, <1>7, <1>8, <1>9 DEF Init, IInv, CopyInv, ThreadInv, SubInv

\* The reading of the options, and steps of nobody.
LEMMA OthersKeep ==
    ASSUME IInv, phase' \in {"start", "read", "run", "over"}, UNCHANGED Program
    PROVE  IInv'
<1>1. UNCHANGED <<program, client, supervisor, toStop, pipes, running, zombies, sender, sendRc>>
      /\ UNCHANGED <<stage, msg_buf, mm, mapped, reader>>
      /\ UNCHANGED <<place, task, sendCompleteOK, stop, pubmsg, arrived, fdLog>>
  BY DEF Program, parentVars, producerVars, threadVars, shmVars, sync
<1>2. UNCHANGED <<pc, due, finished>>
  BY <1>1 DEF client, flags, library
<1>3. ClientInv'
  BY <1>1, ClientStands DEF IInv
<1>4. /\ PubInv => PubInv'
      /\ CopyInv => CopyInv'
      /\ ThreadInv => ThreadInv'
      /\ SubInv => SubInv'
  BY <1>1, <1>2 DEF PubInv, CopyInv, ThreadInv, SubInv, Producers
<1>5. CloudInv => CloudInv'
  BY <1>1, <1>2 DEF CloudInv, LogTypes, LogTurns, LogWhole
<1>6. Sync!TypeOK => Sync!TypeOK'
  BY <1>1 DEF Sync!TypeOK
<1> QED
  BY <1>1, <1>3, <1>4, <1>5, <1>6 DEF IInv

LEMMA NextKeeps == ASSUME IInv, [Next]_vars PROVE IInv'
<1>1. CASE Starting
  <2>1. phase' \in {"start", "read", "run", "over"} /\ UNCHANGED Program
    BY <1>1 DEF IInv, Starting, NoConfiguration, ReadOptions, OptionsRead, NameOverflows, Begin
  <2> QED
    BY <2>1, OthersKeep
<1>2. CASE UNCHANGED vars
  <2>1. phase' \in {"start", "read", "run", "over"} /\ UNCHANGED Program
    BY <1>2 DEF vars, start, Program, IInv
  <2> QED
    BY <2>1, OthersKeep
<1>3. CASE Publisher /\ Pub!Next
  <2>1. program = "publisher" /\ program' = program /\ phase' = phase
    BY <1>3 DEF Publisher, Runs, start
  <2> QED
    BY <1>3, <2>1, PubStep DEF IInv
<1>4. CASE CopyOfIt /\ Copy!Next
  <2>1. program = "copy" /\ program' = program /\ phase' = phase
    BY <1>4 DEF CopyOfIt, Runs, start
  <2> QED
    BY <1>4, <2>1, CopyStep DEF IInv
<1>5. CASE Threaded /\ Thread!Next
  <2>1. program = "thread" /\ program' = program /\ phase' = phase
    BY <1>5 DEF Threaded, Runs, start
  <2> QED
    BY <1>5, <2>1, ThreadStep DEF IInv
<1>6. CASE Stdout /\ Sub!Next
  <2>1. program = "stdout" /\ program' = program /\ phase' = phase
    BY <1>6 DEF Stdout, Runs, start
  <2> QED
    BY <1>6, <2>1, SubStep DEF IInv
<1>7. CASE Subscriber /\ Cloud!Next
  <2>1. program = "subscriber" /\ program' = program /\ phase' = phase
    BY <1>7 DEF Subscriber, Runs, start
  <2> QED
    BY <1>7, <2>1, CloudStep DEF IInv
<1>8. CASE Synchronous /\ Sync!Next
  <2>1. program = "synchronous" /\ program' = program /\ phase' = phase /\ UNCHANGED client
    BY <1>8 DEF Synchronous, Runs, start
  <2> QED
    BY <1>8, <2>1, SyncStep, ClientStands DEF IInv
<1> QED
  BY <1>1, <1>2, <1>3, <1>4, <1>5, <1>6, <1>7, <1>8 DEF Next

LEMMA Inductive == Spec => []IInv
<1>1. Init => IInv
  BY InitKeeps
<1>2. IInv /\ [Next]_vars => IInv'
  BY NextKeeps
<1> QED
  BY <1>1, <1>2, PTL DEF Spec

-----------------------------------------------------------------------------
(* What holds of the programs *)

\* Every program keeps to the places and values of its own: no callback comes to a
\* client that is destroyed, no producer is without its pipe, main is not past a thread
\* that sends, and SendTask lets the next one in after those that were in it.
THEOREM MqttTypeOK == Spec => []TypeOK
<1>1. IInv => TypeOK
  <2> SUFFICES ASSUME IInv PROVE TypeOK
    OBVIOUS
  <2>1. ClientTypeOK
    BY DEF IInv, ClientInv, ClientTypes
  <2>2. program = "publisher" => Pub!TypeOK
    BY <2>1, PubShares DEF IInv, PubInv, Pub!TypeOK
  <2>3. program = "copy" => Copy!TypeOK
    BY <2>1, CopyShares DEF IInv, CopyInv, Producers, Copy!TypeOK
  <2>4. program = "thread" => Thread!TypeOK
    BY <2>1, ThreadShares DEF IInv, ThreadInv, Producers, Thread!TypeOK
  <2>5. program = "stdout" => Sub!TypeOK
    BY <2>1, SubShares DEF IInv, SubInv, Sub!TypeOK
  <2>6. program = "subscriber" => Cloud!TypeOK
    BY <2>1, CloudShares DEF IInv, CloudInv, LogTypes, LogLines, Cloud!TypeOK
  <2> QED
    BY <2>2, <2>3, <2>4, <2>5, <2>6 DEF IInv, TypeOK
<1> QED
  BY <1>1, Inductive, PTL

\* When no callback is due the flag connected of a publisher says whether there is a
\* link, until the client disconnects or has been told to finish.
THEOREM MqttFlagFollowsLink == Spec => []FlagFollowsLink
<1>1. IInv => FlagFollowsLink
  <2> SUFFICES ASSUME IInv, program \in {"publisher", "copy", "thread"}, Alive, ~finished,
                      pc \notin {"disconnecting", "returned"}, due = <<>>
               PROVE  connected <=> link = "up"
    BY DEF FlagFollowsLink
  <2>1. pc \notin Closed
    BY DEF IInv, PubInv, CopyInv, ThreadInv, Closed
  <2>2. ~Doomed
    BY DEF Doomed
  <2>3. FlagAfter(<<>>, connected) <=> connected
    BY FlagStays DEF IInv, ClientInv, ClientTypes
  <2> QED
    BY <2>1, <2>2, <2>3 DEF IInv, ClientInv
<1> QED
  BY <1>1, Inductive, PTL

\* Until the client is told to finish the segment holds one line of one caller, except
\* for the time it is copied, and a reader that is not overtaken gets one line.
THEOREM MqttLinesAreWhole == Spec => []LinesAreWhole
<1>1. IInv => LinesAreWhole
  BY DEF IInv, CloudInv, LogWhole, LinesAreWhole, Cloud!LinesAreWhole
<1> QED
  BY <1>1, Inductive, PTL

-----------------------------------------------------------------------------
(* The options *)

\* A key is set to a word of a line.
Words == STRING
Read == [exited : BOOLEAN, opt : [Keys -> Words \cup {Unset}]]

\* The lines that have been read and set k.
Earlier(k) == {i \in 1 .. turn - 1 : Len(input[i]) > 1 /\ input[i][1] = k}

\* What the loop has made of them: the last one counts.
SetByLast(k) ==
    \/ Earlier(k) = {} /\ options.opt[k] = Unset
    \/ \E i \in Earlier(k) : options.opt[k] = input[i][2] /\ \A j \in Earlier(k) : j <= i

\* A file whose lines fit into the buffer is read line by line, and after each the
\* options are what the lines so far say.
ReadSoFar ==
    (phase = "start" /\ program # "stdout" /\ input # NoFile /\ LinesFit(input)) =>
      /\ input \in Seq(Seq(Words))
      /\ options \in Read
      /\ turn \in 1 .. Len(input) + 1 /\ word = 1
      /\ options.exited <=> \E i \in 1 .. turn - 1 : ~IsUnderstood(input[i])
      /\ ~options.exited => \A k \in Keys : SetByLast(k)

ReadingIsRight == ReadSoFar /\ OptionsAsWritten

\* Nothing has been read.
LEMMA ReadingStarts == ASSUME Init PROVE ReadingIsRight
<1>1. program # "stdout" /\ input # NoFile => input \in Seq(Seq(Words))
  BY FilesAssumption DEF Init, Words
<1>2. options \in Read
  <2>1. Fresh \in Read
    <3>1. [k \in Keys |-> Unset] \in [Keys -> Words \cup {Unset}]
      OBVIOUS
    <3>2. Fresh.exited \in BOOLEAN /\ Fresh.opt \in [Keys -> Words \cup {Unset}]
      BY <3>1 DEF Fresh
    <3> QED
      BY <3>2 DEF Fresh, Read
  <2> QED
    BY <2>1 DEF Init
<1>3. phase = "start" /\ turn = 1 /\ word = 1 /\ ~options.exited
      /\ \A k \in Keys : options.opt[k] = Unset
  BY DEF Init, Fresh
<1>4. \A k \in Keys : SetByLast(k)
  BY <1>3 DEF SetByLast, Earlier
<1>5. ReadSoFar
  BY <1>1, <1>2, <1>3, <1>4 DEF ReadSoFar
<1> QED
  BY <1>3, <1>5 DEF ReadingIsRight, OptionsAsWritten

\* A line that fits into the buffer is read in one turn.
LEMMA WholeLine ==
    ASSUME NEW line \in Seq(Words), Len(line) <= BUFF, word = 1
    PROVE  LastWord(line) = Len(line) /\ SubSeq(line, word, LastWord(line)) = line
<1>1. Len(line) \in Nat /\ BUFF \in Nat
  BY ConfigAssumption
<1>2. LastWord(line) = Len(line)
  BY <1>1 DEF LastWord
<1>3. SubSeq(line, 1, Len(line)) = line
  OBVIOUS
<1> QED
  BY <1>2, <1>3

\* What a line makes of the options.
LEMMA LineParsed ==
    ASSUME NEW o \in Read, ~o.exited,
           NEW line \in Seq(Words)
    PROVE  /\ ParseLine(o, line) \in Read
           /\ ParseLine(o, line).exited <=> ~IsUnderstood(line)
           /\ \A k \in Keys : ParseLine(o, line).opt[k] =
                IF Len(line) > 1 /\ line[1] = k THEN line[2] ELSE o.opt[k]
<1> USE ConfigAssumption DEF ParseLine, IsUnderstood, Read
<1>0. Len(line) \in Nat /\ (line = <<>> <=> Len(line) = 0)
  BY EmptySeq
<1>1. CASE line = <<>> \/ line[1] = Comment
  BY <1>0, <1>1
<1>2. CASE ~(line = <<>> \/ line[1] = Comment) /\ line[1] \notin Keys
  BY <1>2
<1>3. CASE line # <<>> /\ line[1] \in Keys /\ Len(line) = 1
  BY <1>3
<1>4. CASE line # <<>> /\ line[1] \in Keys /\ Len(line) > 1
  <2>1. line[1] # Comment /\ line[2] \in Words
    BY <1>4
  <2>2. ParseLine(o, line) = [o EXCEPT !.opt[line[1]] = line[2]]
    BY <1>4, <2>1 DEF Assigned
  <2> QED
    BY <1>4, <2>1, <2>2
<1>5. \/ line = <<>> \/ line[1] = Comment
      \/ line[1] \notin Keys
      \/ line # <<>> /\ line[1] \in Keys /\ (Len(line) = 1 \/ Len(line) > 1)
  <2>1. \A m \in Nat : m = 0 \/ m = 1 \/ m > 1
    OBVIOUS
  <2> QED
    BY <1>0, <2>1, Zenon
<1> HIDE DEF ParseLine, IsUnderstood, Read
<1> QED
  BY <1>1, <1>2, <1>3, <1>4, <1>5

\* One more line.
LEMMA ReadLineKeeps ==
    ASSUME ReadSoFar, phase = "start", program # "stdout", input # NoFile, ReadLine,
           UNCHANGED <<phase, program>>
    PROVE  ReadSoFar'
<1> SUFFICES ASSUME LinesFit(input) PROVE ReadSoFar'
  BY DEF ReadSoFar, ReadLine
<1> DEFINE line == input[turn]
<1>1. /\ input \in Seq(Seq(Words)) /\ word = 1 /\ input' = input /\ Len(input) \in Nat
      /\ options \in Read /\ ~options.exited
      /\ turn \in 1 .. Len(input)
      /\ \A i \in 1 .. turn - 1 : IsUnderstood(input[i])
      /\ \A k \in Keys : SetByLast(k)
  BY DEF ReadSoFar, ReadLine, MoreToRead
<1>2. line \in Seq(Words) /\ Len(line) <= BUFF
  BY <1>1 DEF LinesFit
<1>3. options' = ParseLine(options, line) /\ turn' = turn + 1 /\ word' = 1
  BY <1>1, <1>2, WholeLine DEF ReadLine
<1>4. /\ options' \in Read
      /\ options'.exited <=> ~IsUnderstood(line)
      /\ \A k \in Keys : options'.opt[k] =
           IF Len(line) > 1 /\ line[1] = k THEN line[2] ELSE options.opt[k]
  BY <1>1, <1>2, <1>3, LineParsed
<1>5. options'.exited <=> \E i \in 1 .. turn' - 1 : ~IsUnderstood(input'[i])
  <2>1. \A i \in 1 .. turn : i = turn \/ i \in 1 .. turn - 1
    BY <1>1
  <2>2. turn' - 1 = turn /\ turn \in 1 .. turn
    BY <1>1, <1>3
  <2>3. (\E i \in 1 .. turn : ~IsUnderstood(input[i])) <=> ~IsUnderstood(line)
    BY <1>1, <2>1, <2>2
  <2> QED
    BY <1>1, <1>4, <2>2, <2>3, Zenon
<1>6. ASSUME NEW k \in Keys PROVE SetByLast(k)'
  <2>1. Earlier(k)' = IF Len(line) > 1 /\ line[1] = k THEN Earlier(k) \cup {turn} ELSE Earlier(k)
    BY <1>1, <1>3 DEF Earlier
  <2>2. \A j \in Earlier(k) : j < turn
    BY <1>1 DEF Earlier
  <2>3. CASE Len(line) > 1 /\ line[1] = k
    <3>1. turn \in Earlier(k)' /\ \A j \in Earlier(k)' : j <= turn
      <4>1. Earlier(k)' = Earlier(k) \cup {turn} /\ turn \in Nat /\ turn <= turn
        BY <1>1, <2>1, <2>3
      <4>2. \A j \in Earlier(k) : j <= turn
        BY <1>1, <2>2 DEF Earlier
      <4> QED
        BY <4>1, <4>2
    <3>2. options'.opt[k] = input'[turn][2]
      BY <1>1, <1>4, <2>3
    <3> QED
      BY <3>1, <3>2 DEF SetByLast
  <2>4. CASE ~(Len(line) > 1 /\ line[1] = k)
    <3>1. Earlier(k)' = Earlier(k) /\ options'.opt[k] = options.opt[k] /\ input' = input
      BY <1>1, <1>4, <2>1, <2>4
    <3> QED
      BY <1>1, <3>1 DEF SetByLast
  <2> QED
    BY <2>3, <2>4
<1> QED
  BY <1>1, <1>3, <1>4, <1>5, <1>6 DEF ReadSoFar

\* The file is at its end, or not understood.
LEMMA FileEnds ==
    ASSUME ReadSoFar, OptionsRead PROVE OptionsAsWritten'
<1> SUFFICES ASSUME program # "stdout", LinesFit(input) PROVE OptionsAsWritten'
  BY DEF OptionsAsWritten, OptionsRead, Program
<1>1. /\ input \in Seq(Seq(Words)) /\ input' = input /\ Len(input) \in Nat
      /\ options \in Read
      /\ turn \in 1 .. Len(input) + 1
      /\ options.exited <=> \E i \in 1 .. turn - 1 : ~IsUnderstood(input[i])
      /\ ~options.exited => \A k \in Keys : SetByLast(k)
      /\ options.exited \/ turn > Len(input)
      /\ options' = IF options.exited THEN options ELSE WithDefaults(options, Defaulted)
      /\ DOMAIN input = 1 .. Len(input)
  BY DEF ReadSoFar, OptionsRead, MoreToRead
<1>2. options.exited <=> ~Understood(input)
  <2>1. CASE options.exited
    <3>1. PICK i \in 1 .. turn - 1 : ~IsUnderstood(input[i])
      BY <1>1, <2>1
    <3>2. i \in DOMAIN input
      BY <1>1
    <3> QED
      BY <2>1, <3>1, <3>2, Zenon DEF Understood
  <2>2. CASE ~options.exited
    <3>1. turn - 1 = Len(input)
      BY <1>1, <2>2
    <3> QED
      BY <1>1, <2>2, <3>1 DEF Understood
  <2> QED
    BY <2>1, <2>2
<1>3. options'.exited <=> options.exited
  BY <1>1 DEF WithDefaults, Read
<1>4. ASSUME ~options.exited, NEW k \in Keys PROVE options.opt[k] = LastSetting(input, k)
  <2>1. Setting(input, k) = Earlier(k) /\ Earlier(k) \subseteq Nat
    BY <1>1, <1>4 DEF Setting, Earlier
  <2>2. CASE Earlier(k) = {}
    BY <1>1, <1>4, <2>1, <2>2 DEF SetByLast, LastSetting
  <2>3. CASE Earlier(k) # {}
    <3>1. PICK i \in Earlier(k) : options.opt[k] = input[i][2] /\ \A j \in Earlier(k) : j <= i
      BY <1>1, <1>4, <2>3 DEF SetByLast
    <3> DEFINE top == CHOOSE m \in Earlier(k) : \A j \in Earlier(k) : j <= m
    <3>2. top \in Earlier(k) /\ \A j \in Earlier(k) : j <= top
      BY <3>1
    <3>3. top = i
      BY <2>1, <3>1, <3>2
    <3>4. LastSetting(input, k) = input[top][2]
      BY <2>1, <2>3 DEF LastSetting
    <3> QED
      BY <3>1, <3>3, <3>4
  <2> QED
    BY <2>2, <2>3
<1>5. ASSUME ~options.exited, NEW k \in Keys
      PROVE  options'.opt[k] = LET v == LastSetting(input, k)
                               IN  IF v = Unset /\ k \in Defaulted THEN Default ELSE v
  <2>1. options'.opt[k] =
          IF k \in Defaulted /\ options.opt[k] = Unset THEN Default ELSE options.opt[k]
    BY <1>1, <1>5 DEF WithDefaults, Read
  <2> QED
    BY <1>4, <1>5, <2>1
<1> QED
  BY <1>1, <1>2, <1>3, <1>5 DEF OptionsAsWritten

\* Steps of reading, and of programs that have read.
LEMMA ReadingKeeps == ASSUME ReadingIsRight, [Next]_vars PROVE ReadingIsRight'
<1> USE DEF ReadingIsRight
<1>1. CASE NoConfiguration \/ NameOverflows \/ Begin
  <2>1. phase' \in {"over", "run"}
    BY <1>1 DEF NoConfiguration, NameOverflows, Begin
  <2> QED
    BY <2>1 DEF ReadSoFar, OptionsAsWritten
<1>2. CASE ReadOptions
  <2>1. phase = "start" /\ phase' = "start" /\ input # NoFile /\ program' = program
    BY <1>2 DEF ReadOptions, Program
  <2>2. CASE program = "stdout"
    BY <2>1, <2>2 DEF ReadSoFar, OptionsAsWritten
  <2>3. CASE program # "stdout"
    BY <1>2, <2>1, <2>3, ReadLineKeeps DEF ReadOptions, OptionsAsWritten
  <2> QED
    BY <2>2, <2>3
<1>3. CASE OptionsRead
  <2>1. phase' = "read"
    BY <1>3 DEF OptionsRead
  <2> QED
    BY <1>3, <2>1, FileEnds DEF ReadSoFar
<1>4. CASE \E p \in Programs : Runs(p)
  <2>1. phase' = "run"
    BY <1>4 DEF Runs, start
  <2> QED
    BY <2>1 DEF ReadSoFar, OptionsAsWritten
<1>5. CASE UNCHANGED vars
  <2>1. UNCHANGED <<program, phase, input, options, turn, word>>
    BY <1>5 DEF vars, start
  <2> QED
    <3>1. \A k \in Keys : SetByLast(k) => SetByLast(k)'
      BY <2>1 DEF SetByLast, Earlier
    <3>2. ReadSoFar'
      BY <2>1, <3>1 DEF ReadSoFar
    <3>3. OptionsAsWritten'
      BY <2>1 DEF OptionsAsWritten
    <3> QED
      BY <3>2, <3>3
<1> QED
  BY <1>1, <1>2, <1>3, <1>4, <1>5
  DEF Next, Starting, Programs, FromFile, Publisher, CopyOfIt, Threaded, Stdout, Subscriber,
      Synchronous

\* Of a configuration of any length whose lines fit into the buffer, with any keys, the
\* options are what it says: the last line that sets a key counts, what it does not set
\* has its default, and one line that is not understood ends the program.
THEOREM MqttOptionsAsWritten == Spec => []OptionsAsWritten
<1>1. Init => ReadingIsRight
  BY ReadingStarts
<1>2. ReadingIsRight /\ [Next]_vars => ReadingIsRight'
  BY ReadingKeeps
<1>3. ReadingIsRight => OptionsAsWritten
  BY DEF ReadingIsRight
<1> QED
  BY <1>1, <1>2, <1>3, PTL DEF Spec
=============================================================================
