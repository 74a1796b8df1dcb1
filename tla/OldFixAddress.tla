---------------------------- MODULE OldFixAddress ----------------------------
(***************************************************************************)
(* The address fixer as it was, network/back_socket/fixaddress/main.c: it  *)
(* finds the interface its file names in what ifconfig prints, takes the   *)
(* address that follows, changes the last part to 200 and prints the       *)
(* command that would set it. All of it is one pass over lines of text.    *)
(*                                                                         *)
(* A line is a record: the head of an interface, or its address, which may *)
(* be zero. An address is named by its interface and its last part.        *)
(***************************************************************************)
EXTENDS Integers, Sequences, SequencesExt

VARIABLES fix,         \* "start", "named", "listed", "asked", "printed" or "crashed"
          list,        \* what ifconfig prints
          interface,   \* what the file names
          hostip

ovars == <<fix, list, interface, hostip>>

Head1(i) == [kind |-> "head", of |-> i]
Address(i, value) == [kind |-> "inet addr", of |-> i, value |-> value]

Ifaces == {"wlan", "other"}

\* What is printed of an interface (external).
Block(i) ==
    {<<Head1(i)>>} \cup {<<Head1(i), Address(i, v)>> : v \in {"own", "0.0.0.0"}}

Outputs ==
    {<<>>} \cup (UNION {Block(i) : i \in Ifaces})
    \cup {a \o b : a \in Block("wlan"), b \in Block("other")}
    \cup {b \o a : a \in Block("wlan"), b \in Block("other")}

Nothing == <<"", "">>

Start == fix = "start" /\ list = <<>> /\ interface = "" /\ hostip = Nothing

-----------------------------------------------------------------------------
\* A name runs up to the next blank: without one it takes the end of its line with
\* it. No file, or a line that ends after the key, is read beyond what is there.
parseConfig ==
    /\ fix = "start"
    /\ \/ fix' = "crashed" /\ interface' = interface
       \/ fix' = "named" /\ interface' \in {"", "wlan", "wlan\n"}
    /\ UNCHANGED <<list, hostip>>

\* popen of ifconfig.
popenIfconfig ==
    /\ fix = "named"
    /\ fix' = "listed" /\ list' \in Outputs
    /\ UNCHANGED <<interface, hostip>>

\* strstr: everything has an empty name in it.
Names(line) == interface = "" \/ (interface = line.of /\ line.kind = "head")

NameAt == SelectInSeq(list, Names)

\* The first address after the name, whose ever it is.
AddressAt == SelectInSubSeq(list, NameAt + 1, Len(list), LAMBDA line : line.kind = "inet addr")

Fixed(line) ==
    IF line.value = "0.0.0.0" THEN <<line.of, "0.0.0.0">> ELSE <<line.of, "200">>

\* When the name is on the last line, or ifconfig prints nothing and what was on the
\* stack is no null pointer, the change is made through a null pointer.
getIP ==
    /\ fix = "listed"
    /\ \/ NameAt # 0 /\ AddressAt # 0 /\ fix' = "asked" /\ hostip' = Fixed(list[AddressAt])
       \/ /\ NameAt = 0 \/ (AddressAt = 0 /\ NameAt < Len(list))
          /\ fix' = "asked" /\ hostip' = Nothing
       \/ /\ list = <<>> \/ (AddressAt = 0 /\ NameAt = Len(list))
          /\ fix' = "crashed" /\ hostip' = Nothing
    /\ UNCHANGED <<list, interface>>

-----------------------------------------------------------------------------
(* setIP is given the size of a pointer for that of its buffer, from which  *)
(* the length of what is written already is subtracted, without a sign.     *)

Sizes == 65536     \* bound: how many numbers size_t has
PointerSize == 8
Buffer == 126
Prefix == 10       \* sizeof("ifconfig ")
NameLength == 31   \* the longest that interface and hostip hold
AddressLength == 31

\* Mutant: the room does not go below zero.
RoomIsOver == 0

Room == (PointerSize - Prefix) % Sizes

setIP ==
    /\ fix = "asked"
    /\ fix' = "printed"
    /\ UNCHANGED <<list, interface, hostip>>

OldFixNext == parseConfig \/ popenIfconfig \/ getIP \/ setIP

-----------------------------------------------------------------------------
TypeOK ==
    /\ fix \in {"start", "named", "listed", "asked", "printed", "crashed"}
    /\ list \in Outputs /\ interface \in {"", "wlan", "wlan\n"}
    /\ hostip \in {Nothing} \cup (Ifaces \X {"0.0.0.0", "200"})

HasAddress(i) == \E k \in 1 .. Len(list) - 1 : list[k] = Head1(i) /\ list[k + 1] = Address(i, "own")

\* What is printed is the whole command, which fits only because the subtraction
\* wraps; and it sets the address README.md:4 tells of, that of the interface
\* with 200 for its last part, when the interface has one. (When it has none, it
\* is given that of the interface listed next.)
CommandIsRight ==
    fix = "printed" =>
        /\ Room >= NameLength + 1 + AddressLength
        /\ Prefix + NameLength + 1 + AddressLength <= Buffer
        /\ interface = "wlan" /\ HasAddress("wlan") => hostip = <<"wlan", "200">>
=============================================================================
