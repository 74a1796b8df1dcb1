----------------------------- MODULE ConfigParse -----------------------------
(***************************************************************************)
(* The options of the MQTT clients: the configuration file that            *)
(* ConfigParse.c reads, and the command line of paho-sub.c. A line is the  *)
(* sequence of words that strtok finds in it; what a word says is kept,    *)
(* how it is spelled is not.                                               *)
(***************************************************************************)
EXTENDS Integers, Sequences

CONSTANTS Keys,      \* the keys that are known and taken from the file
          Values,    \* what they can be set to
          Checked,   \* the keys whose values getopts compares with those it knows
          BUFF       \* words that fit into buff (BUFF_SIZE)

Comment == "#"        \* a word that begins with it
Unknown == "unknown"  \* a word that is no key
Unset == "unset"      \* NULL, or the number the code starts from
Default == "default"

\* A turn of fgets gets on, and no key begins like a comment.
ASSUME ConfigAssumption == BUFF \in Nat \ {0} /\ Comment \notin Keys

VARIABLES input,       \* the lines of the file, or the words of the command line
          options,     \* what has been understood of them
          turn, word   \* the line and its word, or the argument, that comes next

Fresh == [exited |-> FALSE, opt |-> [k \in Keys |-> Unset]]

\* Mutant: the first assignment stays.
FirstStays(o, k, v) == IF o.opt[k] = Unset THEN [o EXCEPT !.opt[k] = v] ELSE o

Assigned(o, k, v) == [o EXCEPT !.opt[k] = v]

MoreToRead == ~options.exited /\ turn <= Len(input)

-----------------------------------------------------------------------------
(* GetOptFromFile *)

\* What fgets gets of a line that is longer than the buffer ends with the buffer.
LastWord(line) == IF word + BUFF > Len(line) THEN Len(line) ELSE word + BUFF - 1

\* An empty line and a comment are passed over, a key takes the next word if
\* there is one, anything else prints the usage and leaves the program. What
\* follows on the line is not looked at.
ParseLine(o, line) ==
    IF line = <<>> \/ line[1] = Comment THEN o
    ELSE IF line[1] \notin Keys THEN [o EXCEPT !.exited = TRUE]
    ELSE IF Len(line) = 1 THEN o
    ELSE Assigned(o, line[1], line[2])

\* One turn of the loop.
ReadLine ==
    LET line == input[turn]
        last == LastWord(line)
    IN
    /\ MoreToRead
    /\ options' = ParseLine(options, SubSeq(line, word, last))
    /\ turn' = IF last = Len(line) THEN turn + 1 ELSE turn
    /\ word' = IF last = Len(line) THEN 1 ELSE last + 1
    /\ UNCHANGED input

\* Four of the strings get a default when the file has left them out; the
\* numbers had theirs before, topic_pub and the rest stay NULL.
WithDefaults(o, defaulted) ==
    [o EXCEPT !.opt = [k \in Keys |->
        IF k \in defaulted /\ o.opt[k] = Unset THEN Default ELSE o.opt[k]]]

-----------------------------------------------------------------------------
(* getopts of paho-sub.c: every key wants a value, some one of a few; other *)
(* words are passed over; a key may be the value of the key before it.      *)

ValueFollows ==
    /\ turn < Len(input)
    /\ input[turn] \in Checked => input[turn + 1] \in Values

PassOver ==
    /\ input[turn] \notin Keys
    /\ turn' = turn + 1 /\ UNCHANGED options

TakeValue ==
    /\ input[turn] \in Keys /\ ValueFollows
    /\ turn' = turn + 2 /\ options' = Assigned(options, input[turn], input[turn + 1])

Usage ==
    /\ input[turn] \in Keys /\ ~ValueFollows
    /\ options' = [options EXCEPT !.exited = TRUE] /\ UNCHANGED turn

\* One turn of the loop.
ReadArgument ==
    /\ MoreToRead
    /\ PassOver \/ TakeValue \/ Usage
    /\ UNCHANGED <<input, word>>

-----------------------------------------------------------------------------
LinesFit(file) == \A i \in DOMAIN file : Len(file[i]) <= BUFF

\* The options a reader of the file expects: the last line that sets a key
\* counts; a key set by no line has its default.
Setting(file, k) == {i \in DOMAIN file : Len(file[i]) > 1 /\ file[i][1] = k}

LastSetting(file, k) ==
    IF Setting(file, k) = {} THEN Unset
    ELSE file[CHOOSE i \in Setting(file, k) : \A j \in Setting(file, k) : j <= i][2]

IsUnderstood(line) == line = <<>> \/ line[1] \in Keys \cup {Comment}

Understood(file) == \A i \in DOMAIN file : IsUnderstood(file[i])
=============================================================================
