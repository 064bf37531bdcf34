------------------------------- MODULE Lines -------------------------------
(***************************************************************************)
(* What a terminal promises the programs that read from it: the characters *)
(* typed on it, in order, less the ones erased, delivered to the first     *)
(* read after Enter and to no other.                                       *)
(***************************************************************************)
EXTENDS Naturals, Sequences

CONSTANTS
    Terms,     \* the terminals
    Chars,     \* what can be typed, Enter included
    Enter,
    Capacity,  \* the longest line
    Sizes      \* how many characters a read may ask for

VARIABLES
    typed,    \* the characters of each terminal no read has had yet
    entered,  \* the terminals on which Enter waits to be answered
    asked,    \* how many characters each terminal's program waits for, 0: none
    got       \* what its last read returned, until it asks again

Init ==
    /\ typed = [t \in Terms |-> <<>>]
    /\ entered = {}
    /\ asked = [t \in Terms |-> 0]
    /\ got = [t \in Terms |-> <<>>]

Type(t, c) ==
    /\ Len(typed[t]) < Capacity
    /\ typed' = [typed EXCEPT ![t] = Append(@, c)]
    /\ entered' = IF c = Enter THEN entered \cup {t} ELSE entered
    /\ UNCHANGED <<asked, got>>

\* A line that was entered is not edited any more.
Erase(t) ==
    /\ typed[t] # <<>> /\ typed[t][Len(typed[t])] # Enter
    /\ typed' = [typed EXCEPT ![t] = SubSeq(@, 1, Len(@) - 1)]
    /\ UNCHANGED <<entered, asked, got>>

Ask(t, n) ==
    /\ asked[t] = 0
    /\ asked' = [asked EXCEPT ![t] = n]
    /\ got' = [got EXCEPT ![t] = <<>>]
    /\ UNCHANGED <<typed, entered>>

Deliver(t) ==
    /\ asked[t] # 0 /\ t \in entered
    /\ got' = [got EXCEPT ![t] =
                  SubSeq(typed[t], 1, IF asked[t] < Len(typed[t]) THEN asked[t]
                                      ELSE Len(typed[t]))]
    /\ typed' = [typed EXCEPT ![t] = <<>>]
    /\ entered' = entered \ {t}
    /\ asked' = [asked EXCEPT ![t] = 0]

Next == \E t \in Terms : \/ \E c \in Chars : Type(t, c)
                         \/ Erase(t)
                         \/ \E n \in Sizes : Ask(t, n)
                         \/ Deliver(t)

Spec == Init /\ [][Next]_<<typed, entered, asked, got>>
=============================================================================
