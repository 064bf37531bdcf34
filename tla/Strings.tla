------------------------------ MODULE Strings ------------------------------
(***************************************************************************)
(* The string routines of the kernel and of the programs:                  *)
(*   student-distrib/lib.c         strlen, strrev, itoa, strncmp, strcpy,  *)
(*                                 strncpy                                 *)
(*   syscalls/ece391support.c      the programs' versions of the same      *)
(* A buffer is a sequence of characters; a string in it ends before its    *)
(* first NUL.  Characters are of the ASCII half.                           *)
(***************************************************************************)
EXTENDS Integers, Sequences

NUL == 0
-----------------------------------------------------------------------------
(* Strings *)

Terminated(b) == \E i \in 1 .. Len(b) : b[i] = NUL

\* strlen: up to the first NUL.
strlen(b) == (CHOOSE i \in 1 .. Len(b) : b[i] = NUL /\ \A j \in 1 .. (i - 1) : b[j] # NUL) - 1
String(b) == SubSeq(b, 1, strlen(b))

\* strrev: characters are exchanged from both ends, until these meet.
strrev(s) ==
    LET n == Len(s)
        swapped[k \in 0 .. n] ==
            IF k = 0 THEN s
            ELSE LET t == swapped[k - 1]
                     end == n + 1 - k
                 IN  IF k < end THEN [t EXCEPT ![k] = t[end], ![end] = t[k]] ELSE t
    IN  swapped[n]

\* itoa: digits from the lowest up, then turned round.
itoa(value, radix) ==
    LET digits[v \in Nat] ==
            IF v = 0 THEN <<>> ELSE <<v % radix>> \o digits[v \div radix]
    IN  IF value = 0 THEN <<0>> ELSE strrev(digits[value])

\* [seeded fault] a character equal in both ends no comparison, not even NUL.
strncmp_past_nul(s1, s2, n) ==
    LET differ == {i \in 1 .. n : s1[i] # s2[i]}
        i == CHOOSE k \in differ : \A j \in differ : k <= j
    IN  IF differ = {} THEN 0 ELSE s1[i] - s2[i]

\* strncmp of the kernel and of the programs: the first place, of n, where the
\* strings differ or both end.
strncmp(s1, s2, n) ==
    LET stops == {i \in 1 .. n : s1[i] # s2[i] \/ s1[i] = NUL}
        i == CHOOSE k \in stops : \A j \in stops : k <= j
    IN  IF stops = {} THEN 0 ELSE s1[i] - s2[i]

\* ece391_strcmp.
strcmp(s1, s2) == strncmp(s1, s2, IF Len(s1) < Len(s2) THEN Len(s1) ELSE Len(s2))

\* strcpy: characters up to the NUL, and the NUL.
strcpy(dest, src) == [i \in 1 .. Len(dest) |-> IF i <= strlen(src) + 1 THEN src[i] ELSE dest[i]]

\* strncpy: n characters, NULs after the end of the source.
strncpy(dest, src, n) ==
    LET end == strlen(src)
    IN  [i \in 1 .. Len(dest) |-> IF i > n THEN dest[i]
                                  ELSE IF i <= end THEN src[i] ELSE NUL]
=============================================================================
