------------------------------- MODULE Memory -------------------------------
(***************************************************************************)
(* The kernel's memory routines, student-distrib/lib.c: memset,            *)
(* memset_word, memset_dword, memcpy and memmove.  All are assembly: the   *)
(* registers and the direction flag are those of the processor, and a call *)
(* finds the flag as the last one left it.  One step is one turn of a loop *)
(* or one repetition of a string instruction.                              *)
(***************************************************************************)
EXTENDS Integers

CONSTANTS
    SIZE,      \* bytes of memory
    MAX_N      \* bound: the count given to a call

ASSUME MemoryAssumption == SIZE \in Nat \ {0} /\ MAX_N \in Nat

Address == 0 .. (SIZE - 1)
\* What a byte holds: the byte that was at an address before the call, or a
\* byte of the value that the call sets, 0 the lowest.
Old(a) == [from |-> "old", at |-> a]
Set(i) == [from |-> "value", at |-> i]
DWORD == 4

Routines == {"memset", "memset_word", "memset_dword", "memcpy", "memmove"}
Points == {"idle", "cmp", "top", "aligned", "rep", "bottom", "done"}

VARIABLES
    mem,                  \* [Address -> what it holds]
    edi, esi, ecx, edx,   \* dest, src, counts
    df,                   \* the direction flag: string instructions go down
    at,                   \* where in the routine
    call                  \* history: the routine and its arguments

vars == <<mem, edi, esi, ecx, edx, df, at, call>>

NoCall == [routine |-> "none", dest |-> 0, src |-> 0, n |-> 0]

TypeOK ==
    /\ \A a \in Address : mem[a] \in [from : {"old", "value"}, at : Address \cup 0 .. 3]
    /\ edi \in -1 .. SIZE /\ esi \in -1 .. SIZE
    /\ ecx \in 0 .. MAX_N /\ edx \in 0 .. MAX_N
    /\ df \in BOOLEAN /\ at \in Points
    /\ call.routine \in Routines \cup {"none"}

Init ==
    /\ mem = [a \in Address |-> Old(a)]
    /\ edi = 0 /\ esi = 0 /\ ecx = 0 /\ edx = 0
    /\ df = FALSE /\ at = "idle" /\ call = NoCall

-----------------------------------------------------------------------------
(* Calls *)

\* Bytes that one of the n units is made of.
Unit(r) == CASE r = "memset_word" -> 2 [] r = "memset_dword" -> DWORD [] OTHER -> 1

Overlap(d, s, n) == d < s + n /\ s < d + n
Entry(r) == CASE r \in {"memset", "memcpy"} -> "top"
              [] r = "memmove" -> "cmp"
              [] OTHER -> "rep"

\* memcpy is for areas that do not overlap, or whose destination is the lower.
Call(r, d, s, n) ==
    /\ at = "idle"
    /\ d + n * Unit(r) <= SIZE /\ s + n <= SIZE
    /\ r = "memcpy" => (d <= s \/ ~Overlap(d, s, n))
    /\ r \notin {"memcpy", "memmove"} => s = 0
    /\ UNCHANGED mem
    /\ edi' = d /\ esi' = s /\ ecx' = n /\ edx' = 0
    /\ at' = Entry(r)
    /\ df' = IF Entry(r) = "rep" THEN FALSE ELSE df        \* cld
    /\ call' = [routine |-> r, dest |-> d, src |-> s, n |-> n]

\* Back to the caller, for whom the bytes are the old ones of its next call.
Return ==
    /\ at = "done" /\ at' = "idle"
    /\ mem' = [a \in Address |-> Old(a)]
    /\ edi' = 0 /\ esi' = 0 /\ ecx' = 0 /\ edx' = 0 /\ call' = NoCall
    /\ UNCHANGED df

-----------------------------------------------------------------------------
(* The loops *)

Copies == call.routine \in {"memcpy", "memmove"}

\* What byte i of a unit at edi becomes.
Stored(i) == IF Copies THEN mem[esi + i]
             ELSE Set(IF call.routine = "memset" THEN 0 ELSE i)
Store(k) == mem' = [a \in Address |-> IF a \in edi .. (edi + k - 1) THEN Stored(a - edi)
                                      ELSE mem[a]]
Step(k) == IF df THEN -k ELSE k
Advance(k) == edi' = edi + k /\ esi' = IF Copies THEN esi + k ELSE esi
Done == at' = "done" /\ UNCHANGED <<mem, edi, esi, ecx, edx, df>>

\* .memset_top, .memcpy_top: bytes up to an aligned destination.
Top ==
    /\ at = "top" /\ UNCHANGED call
    /\ \/ ecx = 0 /\ Done
       \/ /\ ecx # 0 /\ edi % DWORD = 0
          /\ at' = "aligned" /\ UNCHANGED <<mem, edi, esi, ecx, edx, df>>
       \/ /\ ecx # 0 /\ edi % DWORD # 0
          /\ Store(1) /\ Advance(1) /\ ecx' = ecx - 1
          /\ UNCHANGED <<edx, df, at>>

\* .memset_aligned, .memcpy_aligned, with its cld.
Aligned ==
    /\ at = "aligned" /\ at' = "rep"
    /\ edx' = ecx % DWORD /\ ecx' = ecx \div DWORD
    /\ df' = FALSE
    /\ UNCHANGED <<mem, edi, esi, call>>

\* [seeded fault] memmove goes up whatever overlaps.
Compare_up ==
    /\ at = "cmp" /\ at' = "rep"
    /\ df' = FALSE
    /\ UNCHANGED <<mem, edi, esi, ecx, edx, call>>

\* memmove: cld, and down from the last byte (std) for a higher destination.
Compare ==
    /\ at = "cmp" /\ at' = "rep"
    /\ df' = (esi < edi)
    /\ esi' = IF esi < edi THEN esi + ecx - 1 ELSE esi
    /\ edi' = IF esi < edi THEN edi + ecx - 1 ELSE edi
    /\ UNCHANGED <<mem, ecx, edx, call>>

\* One repetition of rep stosb, stosw, stosl, movsb or movsl.
RepSize == CASE call.routine = "memmove" -> 1
             [] call.routine = "memset_word" -> 2
             [] OTHER -> DWORD
Rep ==
    /\ at = "rep" /\ ecx # 0
    /\ Store(RepSize) /\ Advance(Step(RepSize)) /\ ecx' = ecx - 1
    /\ UNCHANGED <<edx, df, at, call>>

RepEnd ==
    /\ at = "rep" /\ ecx = 0 /\ UNCHANGED call
    /\ IF Entry(call.routine) = "top"
       THEN at' = "bottom" /\ UNCHANGED <<mem, edi, esi, ecx, edx, df>>
       ELSE Done

\* .memset_bottom, .memcpy_bottom: the bytes left over.
Bottom ==
    /\ at = "bottom" /\ UNCHANGED call
    /\ \/ edx = 0 /\ Done
       \/ /\ edx # 0
          /\ Store(1) /\ Advance(1) /\ edx' = edx - 1
          /\ UNCHANGED <<ecx, df, at>>

Next ==
    \/ \E r \in Routines, d \in Address, s \in Address, n \in 0 .. MAX_N : Call(r, d, s, n)
    \/ Return
    \/ Top \/ Aligned \/ Compare \/ Rep \/ RepEnd \/ Bottom

Spec == Init /\ [][Next]_vars

-----------------------------------------------------------------------------
(* What must hold *)

Target == call.dest .. (call.dest + call.n * Unit(call.routine) - 1)
Expected(a) == IF Copies THEN Old(call.src + (a - call.dest))
               ELSE Set((a - call.dest) % Unit(call.routine))

\* A call, once over, has copied or set exactly the bytes it was asked for and
\* no other, for every alignment, every count and every overlap it allows, and
\* in whatever direction the call before it left the processor: memmove comes
\* back with the direction flag set.
BytesAsAsked ==
    at = "done" =>
        \A a \in Address : mem[a] = IF a \in Target THEN Expected(a) ELSE Old(a)
=============================================================================
