-------------------------------- MODULE Text --------------------------------
(***************************************************************************)
(* Numbers and strings, in the kernel and in the programs: the routines of *)
(* module Strings and the number conversions of printf in                  *)
(* student-distrib/lib.c, one call after the other.                        *)
(* Digits are their values, other characters are codes.                    *)
(***************************************************************************)
EXTENDS Strings

CONSTANTS
    BITS,          \* of an integer, 32 in the code
    MAX_LEN        \* bound: bytes of a buffer

pow2[n \in Nat] == IF n = 0 THEN 1 ELSE 2 * pow2[n - 1]
UNSIGNED == 0 .. (pow2[BITS] - 1)
INT_MIN == -pow2[BITS - 1]
SIGNED == INT_MIN .. (pow2[BITS - 1] - 1)
Unsigned(v) == v % pow2[BITS]       \* the cast of an int32_t
HEX_DIGITS == BITS \div 4           \* 8 in printf

\* Above the digits 0 .. 35 of itoa's table:
Minus == 36
Letter == 37

-----------------------------------------------------------------------------
(* printf, one conversion *)

Conversions == {"x", "#x", "u", "d"}

\* [seeded fault] the zeros go before all of the digits there is room for.
alternate_pad_all(v) ==
    LET digits == itoa(v, 16) IN [i \in 1 .. HEX_DIGITS |-> 0] \o digits

\* %#x: in conv_buf the digits are from HEX_DIGITS on; zeros are written before
\* them from the place of their number, where puts begins.
alternate(v) ==
    LET digits == itoa(v, 16)
        start == Len(digits)
    IN  [i \in 1 .. (HEX_DIGITS - start) |-> 0] \o digits

printf(conversion, v) ==
    CASE conversion = "x" -> itoa(Unsigned(v), 16)
      [] conversion = "#x" -> alternate(Unsigned(v))
      [] conversion = "u" -> itoa(Unsigned(v), 10)
      [] conversion = "d" -> IF v < 0 THEN <<Minus>> \o itoa(Unsigned(-v), 10) ELSE itoa(v, 10)

-----------------------------------------------------------------------------
(* One call after the other *)

VARIABLES call, result     \* the last call and what it gave

vars == <<call, result>>

Bytes == {NUL, Letter, Letter + 1}
Buffers == UNION {[1 .. n -> Bytes] : n \in 1 .. MAX_LEN}
Strings == {b \in Buffers : Terminated(b)}
Counts == 0 .. MAX_LEN
NoCall == [of |-> "none"]

Init == call = NoCall /\ result = <<>>

Format == \E c \in Conversions, v \in SIGNED :
            /\ call' = [of |-> "printf", conversion |-> c, value |-> v]
            /\ result' = printf(c, v)

\* Both strings have room for the n bytes, or end before.
Compare == \E a \in Strings, b \in Strings, n \in Counts :
            /\ Len(a) = MAX_LEN /\ Len(b) = MAX_LEN
            /\ call' = [of |-> "strncmp", s1 |-> a, s2 |-> b, n |-> n]
            /\ result' = <<strncmp(a, b, n)>>

CompareAll == \E a \in Strings, b \in Strings :
            /\ call' = [of |-> "strcmp", s1 |-> a, s2 |-> b]
            /\ result' = <<strcmp(a, b)>>

Copy == \E d \in Buffers, s \in Strings :
            /\ Len(d) > strlen(s)
            /\ call' = [of |-> "strcpy", dest |-> d, src |-> s]
            /\ result' = strcpy(d, s)

CopyN == \E d \in Buffers, s \in Strings, n \in Counts :
            /\ n <= Len(d)
            /\ call' = [of |-> "strncpy", dest |-> d, src |-> s, n |-> n]
            /\ result' = strncpy(d, s, n)

Turn == \E s \in Strings :
            /\ call' = [of |-> "strrev", s |-> String(s)]
            /\ result' = strrev(String(s))

Next == \/ call = NoCall /\ (Format \/ Compare \/ CompareAll \/ Copy \/ CopyN \/ Turn)
        \/ call # NoCall /\ call' = NoCall /\ result' = <<>>

-----------------------------------------------------------------------------
(* What must hold *)

\* What a reader makes of digits.
ValueOf(digits, radix) ==
    LET upto[i \in 0 .. Len(digits)] ==
            IF i = 0 THEN 0 ELSE upto[i - 1] * radix + digits[i]
    IN  upto[Len(digits)]
Radix == IF call.conversion \in {"x", "#x"} THEN 16 ELSE 10
Numeral(s) == Len(s) > 0 /\ \A i \in 1 .. Len(s) : s[i] \in 0 .. (Radix - 1)
NoZeroAhead(s) == Len(s) > 1 => s[1] # 0

\* What printf prints of a number is read back as that number, for each
\* conversion and each value, the lowest negative one included; %#x prints as
\* many digits as a word has, the others no zero ahead.
NumbersReadBack ==
    call.of = "printf" =>
        LET negative == call.conversion = "d" /\ call.value < 0
            digits == IF negative THEN Tail(result) ELSE result
            value == IF call.conversion = "d" THEN call.value ELSE Unsigned(call.value)
        IN  /\ negative => Head(result) = Minus
            /\ Numeral(digits)
            /\ ValueOf(digits, Radix) = IF negative THEN -value ELSE value
            /\ IF call.conversion = "#x" THEN Len(digits) = HEX_DIGITS
               ELSE NoZeroAhead(digits)

\* strncmp and ece391_strcmp give 0 exactly for strings that are the same as
\* far as the count goes, whatever follows their NULs; otherwise the sign tells
\* which comes first.
Prefix(s, n) == SubSeq(String(s), 1, IF n < strlen(s) THEN n ELSE strlen(s))
SameUpTo(n) == Prefix(call.s1, n) = Prefix(call.s2, n)
ComparesStrings ==
    call.of \in {"strncmp", "strcmp"} =>
        LET n == IF call.of = "strcmp" THEN MAX_LEN ELSE call.n
        IN  /\ (result[1] = 0) = SameUpTo(n)
            /\ result[1] < 0 =>
                  \E i \in 1 .. n : /\ SubSeq(call.s1, 1, i - 1) = SubSeq(call.s2, 1, i - 1)
                                    /\ call.s1[i] < call.s2[i]

\* A copy is the string it was made of, cut at the count: strcpy always leaves
\* a NUL, strncpy one only if there was room, and nothing behind the count
\* changes.
CopiesStrings ==
    /\ call.of = "strcpy" =>
          /\ Terminated(result) /\ String(result) = String(call.src)
          /\ \A i \in (strlen(call.src) + 2) .. Len(result) : result[i] = call.dest[i]
    /\ call.of = "strncpy" =>
          LET n == call.n
              kept == SubSeq(result, 1, n)
          IN  /\ IF strlen(call.src) < n THEN String(kept) = String(call.src)
                 ELSE kept = SubSeq(call.src, 1, n)
              /\ \A i \in 1 .. n : i > strlen(call.src) => result[i] = NUL
              /\ \A i \in (n + 1) .. Len(result) : result[i] = call.dest[i]

\* strrev turns a string round, of even and odd length and the empty one.
TurnsRound ==
    call.of = "strrev" =>
        /\ Len(result) = Len(call.s)
        /\ \A i \in 1 .. Len(result) : result[i] = call.s[Len(call.s) + 1 - i]
=============================================================================
