------------------------------ MODULE Library ------------------------------
(***************************************************************************)
(* student-distrib/lib.c and syscalls/ece391support.c: the memory routines *)
(* (module Memory) and the ones for strings and numbers (module Text), one *)
(* call after the other.  The two share the processor: a call of a string  *)
(* routine leaves the direction flag as memmove may have set it.           *)
(***************************************************************************)
EXTENDS Memory, Sequences

CONSTANTS BITS, MAX_LEN       \* of Text

ASSUME LibraryAssumption == BITS \in Nat \ {0} /\ BITS % 4 = 0 /\ MAX_LEN \in Nat \ {0}

VARIABLES text_call, result

libraryVars == <<vars, text_call, result>>

T == INSTANCE Text WITH call <- text_call

LibraryInit == Init /\ T!Init

MemoryRuns == text_call = T!NoCall /\ Next /\ UNCHANGED <<text_call, result>>
TextRuns   == at = "idle" /\ T!Next /\ UNCHANGED vars

LibraryNext == MemoryRuns \/ TextRuns
LibrarySpec == LibraryInit /\ [][LibraryNext]_libraryVars
-----------------------------------------------------------------------------
(* What must hold *)

\* A call of a memory routine, once over, has copied or set exactly the bytes it
\* was asked for and no other, whatever alignment, count and overlap, and in
\* whatever direction the call before it left the processor; counts and addresses
\* stay in range on the way.
MemoryRight == TypeOK /\ BytesAsAsked

\* What printf prints of a number is read back as that number, for each
\* conversion and each value, the lowest negative one included; %#x prints as
\* many digits as a word has, the others no zero ahead.
NumbersReadBack == T!NumbersReadBack

\* strncmp and ece391_strcmp tell strings apart exactly as far as the count goes
\* and no further than their NULs; a copy is the string it was made of, cut at the
\* count, and nothing behind the count changes; strrev turns a string round.
StringsRight == T!ComparesStrings /\ T!CopiesStrings /\ T!TurnsRound
=============================================================================
