---------------------------- MODULE LibraryProof ----------------------------
(***************************************************************************)
(* Theorems about the string, number and memory routines (module Library): *)
(*   MemoryIsRight       exactly the bytes asked for are copied or set     *)
(*   NumbersAreReadBack  what printf prints of a number is that number     *)
(*   StringsAreRight     what strings are compared, copied and turned to   *)
(* The loops of itoa, strrev and pow2 are recursive functions of their     *)
(* turns; what they give is proved with the lemmas of module Induction.    *)
(***************************************************************************)
EXTENDS Library, Induction

-----------------------------------------------------------------------------
(* The memory routines *)

Top2 == {"memset", "memcpy"}          \* the routines with a loop up to an alignment
LIMIT == call.dest + call.n * Unit(call.routine)
\* memmove on its way down.
Down == call.routine = "memmove" /\ df /\ at \in {"rep", "done"}

\* The arguments of a call.
Called ==
    /\ call.routine \in Routines /\ call.dest \in Address /\ call.src \in Address
    /\ call.n \in 0 .. MAX_N
    /\ LIMIT <= SIZE /\ call.src + call.n <= SIZE
    /\ call.routine = "memcpy" =>
          (call.dest <= call.src \/ ~Overlap(call.dest, call.src, call.n))
    /\ ~Copies => call.src = 0

\* The registers point at the same byte of both areas.
Pointed ==
    /\ edi \in Int /\ esi \in Int /\ ecx \in 0 .. MAX_N /\ edx \in 0 .. MAX_N
    /\ Copies => esi - call.src = edi - call.dest
    /\ ~Copies => esi = 0
    /\ edi >= call.dest - 1 /\ edi <= LIMIT
    /\ ~Down => edi >= call.dest

\* What is left is what the counts say.
AtTop == call.routine \in Top2 /\ edi + ecx = LIMIT /\ edx = 0
AtRep ==
    /\ call.routine \in Top2 => df = FALSE /\ edi + 4 * ecx + edx = LIMIT
    /\ call.routine = "memmove" =>
          /\ edx = 0 /\ (df <=> call.src < call.dest)
          /\ df => edi + 1 = call.dest + ecx /\ ecx <= call.n
          /\ ~df => edi + ecx = LIMIT
    /\ call.routine = "memset_word" =>
          /\ edx = 0 /\ df = FALSE
          /\ edi + 2 * ecx = LIMIT /\ (edi - call.dest) % 2 = 0
    /\ call.routine = "memset_dword" =>
          /\ edx = 0 /\ df = FALSE
          /\ edi + 4 * ecx = LIMIT /\ (edi - call.dest) % 4 = 0
Counted ==
    /\ at = "cmp" => /\ call.routine = "memmove" /\ edi = call.dest
                     /\ ecx = call.n /\ edx = 0
    /\ at \in {"top", "aligned"} => AtTop
    /\ at = "rep" => AtRep
    /\ at = "bottom" => call.routine \in Top2 /\ edi + edx = LIMIT
    /\ at = "done" => IF Down THEN edi + 1 = call.dest ELSE edi = LIMIT

\* The bytes behind the registers are as they were asked for, the others as
\* they were.
Passed(a) == a \in Target /\ IF Down THEN a > edi ELSE a < edi
Written == \A a \in Address : mem[a] = IF Passed(a) THEN Expected(a) ELSE Old(a)

\* What a byte may hold.
Values == [from : {"old", "value"}, at : Address \cup 0 .. 3]

\* The inductive invariant: between two steps of a call, the bytes passed are as
\* asked for, the others as before, and what is left is what the counts say.
MemInv ==
    /\ at \in Points /\ df \in BOOLEAN
    /\ mem \in [Address -> Values]
    /\ at = "idle" => /\ edi = 0 /\ esi = 0 /\ ecx = 0 /\ edx = 0
                      /\ call.routine = "none"
                      /\ \A a \in Address : mem[a] = Old(a)
    /\ at # "idle" => Called /\ Pointed /\ Counted /\ Written

\* The sizes of the units.
LEMMA Units ==
    /\ Unit("memset") = 1 /\ Unit("memcpy") = 1 /\ Unit("memmove") = 1
    /\ Unit("memset_word") = 2 /\ Unit("memset_dword") = 4
    /\ Entry("memset") = "top" /\ Entry("memcpy") = "top" /\ Entry("memmove") = "cmp"
    /\ Entry("memset_word") = "rep" /\ Entry("memset_dword") = "rep"
BY DEF Unit, Entry, DWORD

\* Where a call ends, and what it may write.
LEMMA Ends ==
    ASSUME Called
    PROVE  /\ SIZE \in Nat /\ call.dest \in Nat /\ call.src \in Nat /\ call.n \in Nat
           /\ LIMIT \in Nat /\ call.dest <= LIMIT /\ LIMIT <= SIZE
           /\ Unit(call.routine) \in {1, 2, 4}
           /\ Copies => LIMIT = call.dest + call.n /\ Unit(call.routine) = 1
           /\ \A a \in Target : a \in Address
           /\ \A a \in Address : a \in Target <=> (call.dest <= a /\ a < LIMIT)
<1>0. SIZE \in Nat /\ MAX_N \in Nat BY MemoryAssumption
<1>1. call.dest \in Nat /\ call.src \in Nat /\ call.n \in Nat /\ LIMIT <= SIZE
  BY <1>0 DEF Called, Address
<1>2. Unit(call.routine) \in {1, 2, 4} /\ (Copies => Unit(call.routine) = 1)
  BY Units DEF Called, Routines, Copies
<1> DEFINE u == Unit(call.routine)
           n == call.n
           d == call.dest
<1>3. LIMIT = d + n * u BY DEF LIMIT
<1>4. Target = d .. (d + n * u - 1) BY DEF Target
<1> HIDE DEF u, n, d
<1>5. u \in {1, 2, 4} /\ n \in Nat /\ d \in Nat BY <1>1, <1>2 DEF u, n, d
<1>6. n * u \in Nat
  <2>1. CASE u = 1 BY <1>5, <2>1
  <2>2. CASE u = 2 BY <1>5, <2>2
  <2>3. CASE u = 4 BY <1>5, <2>3
  <2> QED BY <1>5, <2>1, <2>2, <2>3
<1> DEFINE m == n * u
<1>7. m \in Nat /\ LIMIT = d + m /\ Target = d .. (d + m - 1) BY <1>3, <1>4, <1>6
<1>8. u = 1 => m = n BY <1>5
<1> HIDE DEF m
<1>9. LIMIT \in Nat /\ d <= LIMIT /\ Target = d .. (LIMIT - 1) BY <1>5, <1>7
<1>10. /\ \A a \in Target : a \in Address
       /\ \A a \in Address : a \in Target <=> (d <= a /\ a < LIMIT)
  BY <1>0, <1>1, <1>5, <1>9 DEF Address
<1> QED BY <1>0, <1>1, <1>2, <1>5, <1>7, <1>8, <1>9, <1>10 DEF u, n, d

\* What a byte is asked to be is something a byte can hold.
LEMMA ExpectedType ==
    ASSUME Called, NEW a \in Target
    PROVE  Expected(a) \in Values
<1>1. a \in Nat /\ call.dest <= a /\ a < LIMIT BY Ends DEF Address
<1>2. CASE Copies
  <2>1. call.src + (a - call.dest) \in Address BY <1>1, <1>2, Ends DEF Called, Address
  <2> QED BY <1>2, <2>1 DEF Expected, Old, Values
<1>3. CASE ~Copies
  <2> DEFINE x == a - call.dest
             u == Unit(call.routine)
  <2>1. x \in Nat /\ u \in {1, 2, 4} BY <1>1, Ends
  <2>2. Expected(a) = Set(x % u) BY <1>3 DEF Expected
  <2> HIDE DEF x, u
  <2>3. x % u \in 0 .. 3
    <3>1. CASE u = 1 BY <2>1, <3>1
    <3>2. CASE u = 2 BY <2>1, <3>2
    <3>3. CASE u = 4 BY <2>1, <3>3
    <3> QED BY <2>1, <3>1, <3>2, <3>3
  <2> QED BY <2>2, <2>3 DEF Set, Values
<1> QED BY <1>2, <1>3

\* What memory holds before the first call.
LEMMA OldType == ASSUME NEW a \in Address PROVE Old(a) \in Values
BY DEF Old, Values

\* A store writes what was asked for, of k bytes at edi.
LEMMA StoreWrites ==
    ASSUME Called, Written, NEW k \in {1, 2, 4}, Store(k),
           edi \in Int, edi >= call.dest, edi + k <= LIMIT,
           \A i \in 0 .. (k - 1) : Stored(i) = Expected(edi + i)
    PROVE  /\ mem' \in [Address -> Values]
           /\ \A a \in Address :
                 mem'[a] = IF a \in Target /\ (Passed(a) \/ (edi <= a /\ a < edi + k))
                           THEN Expected(a) ELSE Old(a)
<1>1. mem' = [a \in Address |-> IF a \in edi .. (edi + k - 1) THEN Stored(a - edi) ELSE mem[a]]
  BY DEF Store
<1>2. ASSUME NEW a \in Address
      PROVE  /\ mem'[a] = IF a \in Target /\ (Passed(a) \/ (edi <= a /\ a < edi + k))
                          THEN Expected(a) ELSE Old(a)
             /\ mem'[a] \in Values
  <2>0. a \in Int BY MemoryAssumption DEF Address
  <2>1. CASE edi <= a /\ a < edi + k
    <3>1. a - edi \in 0 .. (k - 1) /\ edi + (a - edi) = a BY <2>0, <2>1
    <3>2. mem'[a] = Stored(a - edi) BY <1>1, <2>0, <2>1
    <3>3. Stored(a - edi) = Expected(edi + (a - edi)) BY <3>1
    <3>4. mem'[a] = Expected(a) BY <3>1, <3>2, <3>3
    <3>5. a \in Target
      <4>1. call.dest <= a /\ a < LIMIT BY <2>0, <2>1, Ends
      <4> QED BY <4>1, Ends
    <3>6. Expected(a) \in Values BY <3>5, ExpectedType
    <3> QED BY <2>1, <3>4, <3>5, <3>6
  <2>2. CASE ~(edi <= a /\ a < edi + k)
    <3>1. mem'[a] = mem[a] BY <1>1, <2>0, <2>2
    <3>2. mem[a] = IF Passed(a) THEN Expected(a) ELSE Old(a) BY DEF Written
    <3>3. CASE Passed(a)
      <4>1. a \in Target BY <3>3 DEF Passed
      <4>2. Expected(a) \in Values BY <4>1, ExpectedType
      <4> QED BY <3>1, <3>2, <3>3, <4>1, <4>2
    <3>4. CASE ~Passed(a)
      <4>1. Old(a) \in Values BY OldType
      <4> QED BY <2>2, <3>1, <3>2, <3>4, <4>1
    <3> QED BY <3>3, <3>4
  <2> QED BY <2>1, <2>2
<1>3. mem' \in [Address -> Values] BY <1>1, <1>2
<1> QED BY <1>2, <1>3

\* A byte that is copied has not been written yet.
LEMMA CopiesOld ==
    ASSUME Called, Pointed, Written, Copies, NEW i \in Nat,
           edi >= call.dest, edi + i < LIMIT,
           \/ ~Down /\ (call.dest <= call.src \/ ~Overlap(call.dest, call.src, call.n))
           \/ Down /\ call.src < call.dest /\ i = 0
    PROVE  Stored(i) = Expected(edi + i)
<1>0. /\ call.dest \in Nat /\ call.src \in Nat /\ call.n \in Nat /\ edi \in Int /\ esi \in Int
      /\ LIMIT = call.dest + call.n /\ esi - call.src = edi - call.dest
  BY Ends DEF Pointed
<1> DEFINE a == esi + i
<1>1. a \in Int /\ a = call.src + ((edi + i) - call.dest) BY <1>0
<1>2. a \in Address BY <1>0, <1>1, Ends DEF Address, Called
<1>3. ~Passed(a)
  <2> SUFFICES ASSUME Passed(a) PROVE FALSE OBVIOUS
  <2>1. call.dest <= a /\ a < LIMIT BY <1>2, Ends DEF Passed
  <2>2. IF Down THEN a > edi ELSE a < edi BY DEF Passed
  <2>3. CASE Down BY <1>0, <1>1, <2>2, <2>3
  <2>4. CASE ~Down /\ call.dest <= call.src BY <1>0, <1>1, <2>2, <2>4
  <2>5. CASE ~Down /\ ~Overlap(call.dest, call.src, call.n)
    <3>1. ~(call.dest < call.src + call.n /\ call.src < call.dest + call.n)
      BY <2>5 DEF Overlap
    <3> QED BY <1>0, <1>1, <2>1, <2>2, <2>5, <3>1
  <2> QED BY <2>3, <2>4, <2>5
<1>4. mem[a] = Old(a) BY <1>2, <1>3 DEF Written
<1>5. Stored(i) = mem[a] BY DEF Stored
<1>6. Expected(edi + i) = Old(call.src + ((edi + i) - call.dest)) BY DEF Expected
<1> QED BY <1>1, <1>4, <1>5, <1>6

\* A byte that is set is one of the unit it belongs to.
LEMMA SetsUnit ==
    ASSUME Called, ~Copies, edi \in Int, edi >= call.dest, NEW i \in Nat,
           \/ call.routine = "memset"
           \/ call.routine = "memset_word" /\ (edi - call.dest) % 2 = 0 /\ i < 2
           \/ call.routine = "memset_dword" /\ (edi - call.dest) % 4 = 0 /\ i < 4
    PROVE  Stored(i) = Expected(edi + i)
<1> DEFINE x == edi - call.dest
<1>1. x \in Nat /\ (edi + i) - call.dest = x + i BY Ends
<1>2. Expected(edi + i) = Set((x + i) % Unit(call.routine)) BY <1>1 DEF Expected
<1>3. Stored(i) = Set(IF call.routine = "memset" THEN 0 ELSE i) BY DEF Stored
<1> HIDE DEF x
<1>4. CASE call.routine = "memset"
  <2>1. (x + i) % 1 = 0 BY <1>1
  <2> QED BY <1>2, <1>3, <1>4, <2>1, Units
<1>5. CASE call.routine = "memset_word"
  <2>1. x % 2 = 0 /\ i < 2 BY <1>5 DEF x
  <2>2. (x + i) % 2 = i BY <1>1, <2>1
  <2> QED BY <1>2, <1>3, <1>5, <2>2, Units
<1>6. CASE call.routine = "memset_dword"
  <2>1. x % 4 = 0 /\ i < 4 BY <1>6 DEF x
  <2>2. (x + i) % 4 = i BY <1>1, <2>1
  <2> QED BY <1>2, <1>3, <1>6, <2>2, Units
<1> QED BY <1>4, <1>5, <1>6
\* What a call keeps of its arguments.
LEMMA SameCall ==
    ASSUME call' = call
    PROVE  /\ Called' = Called /\ LIMIT' = LIMIT /\ Target' = Target /\ Copies' = Copies
           /\ \A a : Expected(a)' = Expected(a)
BY DEF Called, LIMIT, Target, Copies, Expected

\* The arguments are in place.
LEMMA CallKeeps ==
    ASSUME MemInv, NEW r \in Routines, NEW d \in Address, NEW s \in Address,
           NEW n \in 0 .. MAX_N, Call(r, d, s, n)
    PROVE  MemInv'
<1>0. SIZE \in Nat /\ MAX_N \in Nat BY MemoryAssumption
<1>1. /\ at = "idle" /\ d + n * Unit(r) <= SIZE /\ s + n <= SIZE
      /\ r = "memcpy" => (d <= s \/ ~Overlap(d, s, n))
      /\ r \notin {"memcpy", "memmove"} => s = 0
      /\ mem' = mem /\ edi' = d /\ esi' = s /\ ecx' = n /\ edx' = 0 /\ at' = Entry(r)
      /\ df' = IF Entry(r) = "rep" THEN FALSE ELSE df
      /\ call' = [routine |-> r, dest |-> d, src |-> s, n |-> n]
  BY DEF Call
<1>2. call'.routine = r /\ call'.dest = d /\ call'.src = s /\ call'.n = n BY <1>1
<1>3. LIMIT' = d + n * Unit(r) /\ Copies' = (r \in {"memcpy", "memmove"})
  BY <1>2 DEF LIMIT, Copies, Unit
<1>4. Called' BY <1>1, <1>2, <1>3 DEF Called
<1>5. /\ LIMIT' \in Nat /\ d <= LIMIT' /\ (r \in {"memcpy", "memmove"} => LIMIT' = d + n)
      /\ d \in Nat /\ n \in Nat /\ s \in Nat
  <2>1. d \in Nat /\ n \in Nat /\ s \in Nat BY <1>0 DEF Address
  <2>2. Unit(r) \in {1, 2, 4} /\ (r \in {"memcpy", "memmove"} => Unit(r) = 1) BY Units DEF Routines
  <2> DEFINE u == Unit(r)
             end == LIMIT'
  <2>3. end = d + n * u BY <1>3
  <2>4. u \in {1, 2, 4} BY <2>2
  <2>5. r \in {"memcpy", "memmove"} => u = 1 BY <2>2
  <2> HIDE DEF u, end
  <2>6. n * u \in Nat
    <3>1. CASE u = 1 BY <2>1, <3>1
    <3>2. CASE u = 2 BY <2>1, <3>2
    <3>3. CASE u = 4 BY <2>1, <3>3
    <3> QED BY <2>4, <3>1, <3>2, <3>3
  <2>7. end \in Nat /\ d <= end BY <2>1, <2>3, <2>6
  <2>8. r \in {"memcpy", "memmove"} => end = d + n BY <2>1, <2>3, <2>5
  <2> QED BY <2>1, <2>7, <2>8 DEF end
<1>6. Entry(r) \in {"cmp", "top", "rep"} BY Units DEF Routines
<1>7. ~Down' BY <1>1, <1>2, Units DEF Down
<1>8. at' \in Points /\ at' # "idle" BY <1>1, <1>6 DEF Points
<1>9. df' \in BOOLEAN
  <2>1. df \in BOOLEAN BY DEF MemInv
  <2> QED BY <1>1, <2>1, Zenon
<1>10. Pointed'
  <2>1. edi' \in Int /\ esi' \in Int /\ ecx' \in 0 .. MAX_N /\ edx' \in 0 .. MAX_N
    BY <1>0, <1>1, <1>5
  <2>2. esi' - call'.src = edi' - call'.dest BY <1>1, <1>2, <1>5
  <2>3. ~Copies' => esi' = 0 BY <1>1, <1>3
  <2>4. edi' >= call'.dest - 1 /\ edi' <= LIMIT' /\ edi' >= call'.dest BY <1>1, <1>2, <1>5
  <2> QED BY <2>1, <2>2, <2>3, <2>4 DEF Pointed
<1>11. Counted'
  <2>1. CASE r \in {"memset", "memcpy"}
    <3>1. at' = "top" BY <1>1, <2>1, Units
    <3>2. LIMIT' = d + n BY <1>3, <1>5, <2>1, Units
    <3>3. AtTop' BY <1>1, <1>2, <2>1, <3>2 DEF AtTop, Top2
    <3> QED BY <3>1, <3>3 DEF Counted
  <2>2. CASE r = "memmove"
    <3>1. at' = "cmp" BY <1>1, <2>2, Units
    <3> QED BY <1>1, <1>2, <2>2, <3>1 DEF Counted
  <2>3. CASE r = "memset_word"
    <3>1. at' = "rep" /\ df' = FALSE BY <1>1, <2>3, Units
    <3>2. LIMIT' = d + 2 * n BY <1>3, <1>5, <2>3, Units
    <3>3. (d - d) % 2 = 0 BY <1>5
    <3>4. AtRep' BY <1>1, <1>2, <2>3, <3>1, <3>2, <3>3 DEF AtRep, Top2
    <3> QED BY <3>1, <3>4 DEF Counted
  <2>4. CASE r = "memset_dword"
    <3>1. at' = "rep" /\ df' = FALSE BY <1>1, <2>4, Units
    <3>2. LIMIT' = d + 4 * n BY <1>3, <1>5, <2>4, Units
    <3>3. (d - d) % 4 = 0 BY <1>5
    <3>4. AtRep' BY <1>1, <1>2, <2>4, <3>1, <3>2, <3>3 DEF AtRep, Top2
    <3> QED BY <3>1, <3>4 DEF Counted
  <2> QED BY <2>1, <2>2, <2>3, <2>4 DEF Routines
<1>12. Written'
  <2>1. \A a \in Address : mem'[a] = Old(a) BY <1>1 DEF MemInv
  <2>2. ASSUME NEW a \in Address PROVE ~Passed(a)'
    <3>1. Passed(a)' => a \in Target' /\ a < d BY <1>1, <1>7 DEF Passed
    <3>2. a \in Target' => d <= a BY <1>2, <1>3, <1>5 DEF Target, Address
    <3> QED BY <1>5, <3>1, <3>2 DEF Address
  <2> QED BY <2>1, <2>2 DEF Written
<1> QED BY <1>1, <1>4, <1>8, <1>9, <1>10, <1>11, <1>12 DEF MemInv

\* The call is over.
LEMMA ReturnKeeps == ASSUME MemInv, Return PROVE MemInv'
<1>1. /\ at' = "idle" /\ mem' = [a \in Address |-> Old(a)] /\ edi' = 0 /\ esi' = 0
      /\ ecx' = 0 /\ edx' = 0 /\ call' = NoCall /\ df' = df
  BY DEF Return
<1>2. \A a \in Address : Old(a) \in Values BY OldType
<1>3. mem' \in [Address -> Values] BY <1>1, <1>2
<1>4. df' \in BOOLEAN BY <1>1, Zenon DEF MemInv
<1> QED BY <1>1, <1>3, <1>4 DEF MemInv, Points, NoCall
\* What is due when a loop is left alone: a step that only moves between points.
LEMMA Moves ==
    ASSUME MemInv, at # "idle", at' # "idle", at' \in Points, df' \in BOOLEAN,
           call' = call, mem' = mem, edi' = edi, esi' = esi,
           ecx' \in 0 .. MAX_N, edx' \in 0 .. MAX_N, Down' <=> Down, Counted'
    PROVE  MemInv'
<1>1. Called /\ Pointed /\ Written BY DEF MemInv
<1>2. /\ Called' = Called /\ LIMIT' = LIMIT /\ Target' = Target /\ Copies' = Copies
      /\ \A a : Expected(a)' = Expected(a)
  BY SameCall
<1>3. Pointed' BY <1>1, <1>2 DEF Pointed
<1>4. \A a \in Address : Passed(a)' = Passed(a) BY <1>2 DEF Passed
<1>5. Written' BY <1>1, <1>2, <1>4 DEF Written
<1>6. mem' \in [Address -> Values] BY DEF MemInv
<1> QED BY <1>1, <1>2, <1>3, <1>5, <1>6 DEF MemInv

\* A call of the routines with a loop is not memmove, and goes up.
LEMMA TopsGoUp ==
    ASSUME call.routine \in Top2
    PROVE  ~Down /\ (call.routine = "memcpy" <=> Copies) /\ RepSize = 4
BY DEF Top2, Down, Copies, RepSize, DWORD

\* A store on the way up: k bytes, and the registers k further.
LEMMA StoreUp ==
    ASSUME MemInv, at # "idle", at' = at, df' = df, call' = call, ~Down, NEW k \in {1, 2, 4},
           Store(k), Advance(k), ecx' \in 0 .. MAX_N, edx' \in 0 .. MAX_N, Counted',
           edi + k <= LIMIT,
           \/ call.routine \in Top2 \cup {"memmove"} /\ (Copies => call.routine = "memcpy" \/ call.dest <= call.src)
           \/ call.routine = "memset_word" /\ k = 2 /\ (edi - call.dest) % 2 = 0
           \/ call.routine = "memset_dword" /\ k = 4 /\ (edi - call.dest) % 4 = 0
    PROVE  MemInv'
<1>1. Called /\ Pointed /\ Written BY DEF MemInv
<1>2. /\ Called' = Called /\ LIMIT' = LIMIT /\ Target' = Target /\ Copies' = Copies
      /\ \A a : Expected(a)' = Expected(a)
  BY SameCall
<1>3. edi \in Int /\ edi >= call.dest /\ esi \in Int BY <1>1 DEF Pointed
<1>4. edi' = edi + k /\ esi' = IF Copies THEN esi + k ELSE esi BY DEF Advance
<1>5. ~Down' BY DEF Down
<1>6. ASSUME NEW i \in 0 .. (k - 1) PROVE Stored(i) = Expected(edi + i)
  <2>1. i \in Nat /\ edi + i < LIMIT BY <1>1, <1>3, Ends
  <2>2. CASE Copies
    <3>1. call.dest <= call.src \/ ~Overlap(call.dest, call.src, call.n)
      BY <1>1, <2>2 DEF Called, Copies
    <3> QED BY <1>1, <1>3, <2>1, <2>2, <3>1, CopiesOld
  <2>3. CASE ~Copies
    <3>1. \/ call.routine = "memset"
          \/ call.routine = "memset_word" /\ (edi - call.dest) % 2 = 0 /\ i < 2
          \/ call.routine = "memset_dword" /\ (edi - call.dest) % 4 = 0 /\ i < 4
      BY <2>3 DEF Copies, Top2
    <3> QED BY <1>1, <1>3, <2>1, <2>3, <3>1, SetsUnit
  <2> QED BY <2>2, <2>3
<1>7. /\ mem' \in [Address -> Values]
      /\ \A a \in Address :
            mem'[a] = IF a \in Target /\ (Passed(a) \/ (edi <= a /\ a < edi + k))
                      THEN Expected(a) ELSE Old(a)
  BY <1>1, <1>3, <1>6, StoreWrites
<1>8. ASSUME NEW a \in Address
      PROVE  Passed(a)' <=> (a \in Target /\ (Passed(a) \/ (edi <= a /\ a < edi + k)))
  <2>1. a \in Int BY MemoryAssumption DEF Address
  <2>2. Passed(a) <=> (a \in Target /\ a < edi) BY DEF Passed
  <2>3. Passed(a)' <=> (a \in Target /\ a < edi + k) BY <1>2, <1>4, <1>5 DEF Passed
  <2>4. a < edi + k <=> (a < edi \/ (edi <= a /\ a < edi + k)) BY <1>3, <2>1
  <2> QED BY <2>2, <2>3, <2>4
<1>9. Written' BY <1>2, <1>7, <1>8 DEF Written
<1>10. Pointed'
  <2>1. edi' \in Int /\ esi' \in Int BY <1>3, <1>4
  <2>2. Copies' => esi' - call'.src = edi' - call'.dest BY <1>1, <1>2, <1>3, <1>4, Ends DEF Pointed
  <2>3. ~Copies' => esi' = 0 BY <1>1, <1>2, <1>4 DEF Pointed
  <2>4. edi' >= call'.dest - 1 /\ edi' <= LIMIT' /\ edi' >= call'.dest
    BY <1>1, <1>2, <1>3, <1>4, Ends
  <2> QED BY <2>1, <2>2, <2>3, <2>4 DEF Pointed
<1>11. at' \in Points /\ df' \in BOOLEAN BY DEF MemInv
<1> QED BY <1>1, <1>2, <1>7, <1>9, <1>10, <1>11 DEF MemInv

\* A store on the way down, of memmove.
LEMMA StoreDown ==
    ASSUME MemInv, at = "rep", at' = at, df' = df, call' = call, Down,
           Store(1), Advance(-1), ecx' \in 0 .. MAX_N, edx' \in 0 .. MAX_N, Counted',
           edi >= call.dest, edi + 1 <= LIMIT, call.src < call.dest
    PROVE  MemInv'
<1>1. Called /\ Pointed /\ Written BY DEF MemInv
<1>2. /\ Called' = Called /\ LIMIT' = LIMIT /\ Target' = Target /\ Copies' = Copies
      /\ \A a : Expected(a)' = Expected(a)
  BY SameCall
<1>3. edi \in Int /\ esi \in Int /\ Copies BY <1>1 DEF Pointed, Down, Copies
<1>4. edi' = edi - 1 /\ esi' = esi - 1 BY <1>3 DEF Advance
<1>5. Down' BY DEF Down
<1>6. ASSUME NEW i \in 0 .. (1 - 1) PROVE Stored(i) = Expected(edi + i)
  <2>1. i = 0 /\ edi + i < LIMIT BY <1>1, <1>3, Ends
  <2> QED BY <1>1, <1>3, <2>1, CopiesOld
<1>7. /\ mem' \in [Address -> Values]
      /\ \A a \in Address :
            mem'[a] = IF a \in Target /\ (Passed(a) \/ (edi <= a /\ a < edi + 1))
                      THEN Expected(a) ELSE Old(a)
  BY <1>1, <1>3, <1>6, StoreWrites
<1>8. ASSUME NEW a \in Address
      PROVE  Passed(a)' <=> (a \in Target /\ (Passed(a) \/ (edi <= a /\ a < edi + 1)))
  <2>1. a \in Int BY MemoryAssumption DEF Address
  <2>2. Passed(a) <=> (a \in Target /\ a > edi) BY DEF Passed
  <2>3. Passed(a)' <=> (a \in Target /\ a > edi - 1) BY <1>2, <1>4, <1>5 DEF Passed
  <2>4. a > edi - 1 <=> (a > edi \/ (edi <= a /\ a < edi + 1)) BY <1>3, <2>1
  <2> QED BY <2>2, <2>3, <2>4
<1>9. Written' BY <1>2, <1>7, <1>8 DEF Written
<1>10. Pointed'
  <2>1. edi' \in Int /\ esi' \in Int BY <1>3, <1>4
  <2>2. esi' - call'.src = edi' - call'.dest BY <1>1, <1>3, <1>4, Ends DEF Pointed
  <2>3. edi' >= call'.dest - 1 /\ edi' <= LIMIT' BY <1>1, <1>2, <1>3, <1>4, Ends
  <2> QED BY <1>2, <1>3, <1>5, <2>1, <2>2, <2>3 DEF Pointed
<1>11. at' \in Points /\ df' \in BOOLEAN BY DEF MemInv
<1> QED BY <1>1, <1>2, <1>7, <1>9, <1>10, <1>11 DEF MemInv
\* What is known at every point.
LEMMA AtPoints ==
    ASSUME MemInv, at # "idle"
    PROVE  /\ Called /\ Pointed /\ Written /\ Counted
           /\ edi \in Int /\ LIMIT \in Nat /\ ecx \in Nat /\ edx \in Nat
           /\ MAX_N \in Nat /\ ecx <= MAX_N /\ edx <= MAX_N
           /\ df \in BOOLEAN /\ at \in Points
<1>1. Called /\ Pointed /\ Written /\ Counted /\ df \in BOOLEAN /\ at \in Points
  BY Zenon DEF MemInv
<1>2. MAX_N \in Nat BY MemoryAssumption
<1>3. LIMIT \in Nat BY <1>1, Ends
<1> QED BY <1>1, <1>2, <1>3 DEF Pointed

\* The bytes before an aligned destination.
LEMMA TopKeeps == ASSUME MemInv, Top PROVE MemInv'
<1>1. at = "top" /\ call' = call BY DEF Top
<1>2. AtTop BY <1>1, AtPoints DEF Counted
<1>3. ~Down /\ RepSize = 4 /\ (Copies => call.routine = "memcpy")
  BY <1>2, TopsGoUp DEF AtTop
<1>4. LIMIT' = LIMIT BY <1>1, SameCall
<1>5. CASE ecx = 0 /\ Done
  <2>1. /\ at' = "done" /\ mem' = mem /\ edi' = edi /\ esi' = esi /\ ecx' = ecx /\ edx' = edx
        /\ df' = df
    BY <1>5 DEF Done
  <2>2. ~Down' BY <1>1, <1>2 DEF Down, AtTop, Top2
  <2>3. Down' <=> Down BY <1>3, <2>2
  <2>4. edi' = LIMIT' BY <1>1, <1>2, <1>4, <1>5, <2>1, AtPoints DEF AtTop
  <2>5. Counted' BY <2>1, <2>2, <2>4 DEF Counted
  <2>6. ecx' \in 0 .. MAX_N /\ edx' \in 0 .. MAX_N BY <1>1, <2>1, AtPoints
  <2>7. at' \in Points /\ df' \in BOOLEAN BY <2>1, <1>1, AtPoints DEF Points
  <2> QED BY <1>1, <2>1, <2>3, <2>5, <2>6, <2>7, Moves
<1>6. CASE /\ ecx # 0 /\ edi % DWORD = 0
           /\ at' = "aligned" /\ UNCHANGED <<mem, edi, esi, ecx, edx, df>>
  <2>1. /\ at' = "aligned" /\ mem' = mem /\ edi' = edi /\ esi' = esi /\ ecx' = ecx
        /\ edx' = edx /\ df' = df
    BY <1>6
  <2>2. ~Down' BY <2>1 DEF Down
  <2>3. Down' <=> Down BY <1>3, <2>2
  <2>4. AtTop' BY <1>1, <1>2, <1>4, <2>1 DEF AtTop
  <2>5. Counted' BY <2>1, <2>4 DEF Counted
  <2>6. ecx' \in 0 .. MAX_N /\ edx' \in 0 .. MAX_N BY <1>1, <2>1, AtPoints
  <2>7. at' \in Points /\ df' \in BOOLEAN BY <2>1, <1>1, AtPoints DEF Points
  <2> QED BY <1>1, <2>1, <2>3, <2>5, <2>6, <2>7, Moves
<1>7. CASE /\ ecx # 0 /\ edi % DWORD # 0
           /\ Store(1) /\ Advance(1) /\ ecx' = ecx - 1
           /\ UNCHANGED <<edx, df, at>>
  <2>1. /\ Store(1) /\ Advance(1) /\ ecx' = ecx - 1 /\ edx' = edx /\ df' = df /\ at' = at
        /\ edi' = edi + 1
    BY <1>7 DEF Advance
  <2>2. edi + 1 <= LIMIT /\ edi' + ecx' = LIMIT' /\ ecx' \in 0 .. MAX_N /\ edx' \in 0 .. MAX_N
    BY <1>1, <1>2, <1>4, <1>7, <2>1, AtPoints DEF AtTop
  <2>3. AtTop' BY <1>1, <1>2, <2>1, <2>2 DEF AtTop
  <2>4. Counted' BY <1>1, <2>1, <2>3 DEF Counted
  <2>5. call.routine \in Top2 \cup {"memmove"} BY <1>2 DEF AtTop
  <2> QED BY <1>1, <1>3, <2>1, <2>2, <2>4, <2>5, StoreUp
<1> QED BY <1>5, <1>6, <1>7 DEF Top

\* Dwords and what is left over.
LEMMA AlignedKeeps == ASSUME MemInv, Aligned PROVE MemInv'
<1>1. /\ at = "aligned" /\ at' = "rep" /\ edx' = ecx % 4 /\ ecx' = ecx \div 4 /\ df' = FALSE
      /\ call' = call /\ mem' = mem /\ edi' = edi /\ esi' = esi
  BY DEF Aligned, DWORD
<1>2. AtTop BY <1>1, AtPoints DEF Counted
<1>3. ~Down BY <1>2, TopsGoUp DEF AtTop
<1>4. ~Down' BY <1>1 DEF Down
<1>5. LIMIT' = LIMIT BY <1>1, SameCall
<1>6. /\ ecx' \in 0 .. MAX_N /\ edx' \in 0 .. MAX_N /\ edi' + 4 * ecx' + edx' = LIMIT'
  <2>1. ecx \in Nat /\ ecx <= MAX_N /\ edi \in Int /\ MAX_N \in Nat BY <1>1, AtPoints
  <2>2. 4 * (ecx \div 4) + (ecx % 4) = ecx BY <2>1
  <2>3. ecx \div 4 \in Nat /\ ecx % 4 \in Nat BY <2>1
  <2>4. edi + ecx = LIMIT BY <1>2 DEF AtTop
  <2> QED BY <1>1, <1>5, <2>1, <2>2, <2>3, <2>4
<1>7. AtRep'
  <2>1. call'.routine \in {"memset", "memcpy"} BY <1>1, <1>2 DEF AtTop, Top2
  <2>2. call'.routine \notin {"memmove", "memset_word", "memset_dword"} BY <2>1
  <2> QED BY <1>1, <1>6, <2>2 DEF AtRep
<1>8. Counted' BY <1>1, <1>7 DEF Counted
<1>9. at' \in Points /\ df' \in BOOLEAN BY <1>1 DEF Points
<1>10. Down' <=> Down BY <1>3, <1>4
<1> QED BY <1>1, <1>6, <1>8, <1>9, <1>10, Moves

\* memmove chooses its direction.
LEMMA CompareKeeps == ASSUME MemInv, Compare PROVE MemInv'
<1>1. /\ at = "cmp" /\ at' = "rep" /\ df' = (esi < edi)
      /\ esi' = IF esi < edi THEN esi + ecx - 1 ELSE esi
      /\ edi' = IF esi < edi THEN edi + ecx - 1 ELSE edi
      /\ mem' = mem /\ ecx' = ecx /\ edx' = edx /\ call' = call
  BY DEF Compare
<1>2. /\ Called /\ Pointed /\ Written
      /\ call.routine = "memmove" /\ edi = call.dest /\ ecx = call.n /\ edx = 0
  BY <1>1, AtPoints DEF Counted
<1>3. Copies BY <1>2 DEF Copies
<1>4. /\ LIMIT = call.dest + call.n /\ call.dest \in Nat /\ call.src \in Nat /\ call.n \in Nat
      /\ \A a \in Address : a \in Target <=> (call.dest <= a /\ a < LIMIT)
  BY <1>2, <1>3, Ends
<1>5. esi = call.src /\ edi \in Int /\ esi \in Int BY <1>2, <1>3, <1>4 DEF Pointed
<1>6. /\ Called' = Called /\ LIMIT' = LIMIT /\ Target' = Target /\ Copies' = Copies
      /\ \A a : Expected(a)' = Expected(a)
  BY <1>1, SameCall
<1>7. \A a \in Address : ~Passed(a)
  <2>1. ~Down BY <1>1 DEF Down
  <2>2. \A a \in Address : a \in Int BY MemoryAssumption DEF Address
  <2> QED BY <1>2, <1>4, <2>1, <2>2 DEF Passed
<1>8. \A a \in Address : mem'[a] = Old(a) BY <1>1, <1>2, <1>7 DEF Written
<1>9. \A a \in Address : a \in Int BY MemoryAssumption DEF Address
<1>10. CASE esi < edi
  <2>1. df' = TRUE /\ edi' = edi + ecx - 1 /\ esi' = esi + ecx - 1 BY <1>1, <1>10
  <2>2. Down' BY <1>1, <1>2, <2>1 DEF Down
  <2>3. \A a \in Address : ~Passed(a)'
    BY <1>2, <1>4, <1>5, <1>6, <1>9, <2>1, <2>2 DEF Passed
  <2>4. Written' BY <1>8, <2>3 DEF Written
  <2>5. Pointed'
    BY <1>1, <1>2, <1>3, <1>4, <1>5, <1>6, <2>1, <2>2 DEF Pointed
  <2>6. edi' + 1 = call'.dest + ecx' /\ call'.src < call'.dest /\ ecx' <= call'.n
    BY <1>1, <1>2, <1>4, <1>5, <1>10, <2>1
  <2>7. AtRep' BY <1>1, <1>2, <2>1, <2>6 DEF AtRep, Top2
  <2>8. Counted' BY <1>1, <2>7 DEF Counted
  <2>9. at' \in Points /\ df' \in BOOLEAN /\ at' # "idle" BY <1>1, <2>1 DEF Points
  <2>10. mem' \in [Address -> Values] BY <1>1 DEF MemInv
  <2> QED BY <1>2, <1>6, <2>4, <2>5, <2>8, <2>9, <2>10 DEF MemInv
<1>11. CASE ~(esi < edi)
  <2>1. df' = FALSE /\ edi' = edi /\ esi' = esi
    <3>0. df' = (esi < edi) BY <1>1
    <3>3. (esi < edi) = FALSE BY <1>11
    <3>1. df' = FALSE BY <3>0, <3>3, Zenon
    <3>2. edi' = edi /\ esi' = esi BY <1>1, <1>11
    <3> QED BY <3>1, <3>2, Zenon
  <2>2. ~Down' BY <2>1 DEF Down
  <2>3. edi' + ecx' = LIMIT' /\ ~(call'.src < call'.dest)
    BY <1>1, <1>2, <1>4, <1>5, <1>6, <1>11, <2>1
  <2>4. AtRep' BY <1>1, <1>2, <2>1, <2>3 DEF AtRep, Top2
  <2>5. Counted' BY <1>1, <2>4 DEF Counted
  <2>6. Down' <=> Down BY <2>2, <1>1 DEF Down
  <2>7. at' \in Points /\ df' \in BOOLEAN /\ at' # "idle" BY <1>1, <2>1 DEF Points
  <2>8. ecx' \in 0 .. MAX_N /\ edx' \in 0 .. MAX_N BY <1>1, <1>2 DEF Pointed
  <2> QED BY <1>1, <2>1, <2>5, <2>6, <2>7, <2>8, Moves
<1> QED BY <1>10, <1>11
\* A repetition of a string instruction, in either direction.
LEMMA RepKeeps == ASSUME MemInv, Rep PROVE MemInv'
<1>1. /\ at = "rep" /\ ecx # 0 /\ Store(RepSize) /\ Advance(Step(RepSize)) /\ ecx' = ecx - 1
      /\ edx' = edx /\ df' = df /\ at' = at /\ call' = call
  BY DEF Rep
<1>2. Called /\ Pointed /\ AtRep BY <1>1, AtPoints DEF Counted
<1>3. /\ edi \in Int /\ LIMIT \in Nat /\ ecx \in Nat /\ edx \in Nat /\ MAX_N \in Nat
      /\ ecx' \in 0 .. MAX_N /\ edx' \in 0 .. MAX_N
  BY <1>1, AtPoints
<1>4. LIMIT' = LIMIT BY <1>1, SameCall
<1>5. CASE call.routine \in Top2
  <2>1. df = FALSE /\ edi + 4 * ecx + edx = LIMIT BY <1>2, <1>5 DEF AtRep
  <2>2. ~Down /\ RepSize = 4 /\ (Copies => call.routine = "memcpy") BY <1>5, TopsGoUp
  <2>3. Store(4) /\ Advance(4) /\ edi' = edi + 4 BY <1>1, <2>1, <2>2 DEF Step, Advance
  <2>4. edi + 4 <= LIMIT /\ edi' + 4 * ecx' + edx' = LIMIT' BY <1>1, <1>3, <1>4, <2>1, <2>3
  <2>5. call'.routine \notin {"memmove", "memset_word", "memset_dword"} BY <1>1, <1>5 DEF Top2
  <2>6. AtRep' BY <1>1, <2>1, <2>4, <2>5 DEF AtRep
  <2>7. Counted' BY <1>1, <2>6 DEF Counted
  <2> QED BY <1>1, <1>3, <1>5, <2>2, <2>3, <2>4, <2>7, StoreUp
<1>6. CASE call.routine = "memmove" /\ df
  <2>1. edx = 0 /\ call.src < call.dest /\ edi + 1 = call.dest + ecx /\ ecx <= call.n
    BY <1>2, <1>6 DEF AtRep
  <2>2. RepSize = 1 /\ Down BY <1>1, <1>6 DEF RepSize, Down
  <2>3. Store(1) /\ Advance(-1) BY <1>1, <1>6, <2>2 DEF Step
  <2>4. Copies /\ edi' = edi - 1 BY <1>3, <1>6, <2>3 DEF Advance, Copies
  <2>5. /\ call.dest \in Nat /\ call.n \in Nat /\ LIMIT = call.dest + call.n /\ edi <= LIMIT
    BY <1>2, <2>4, Ends DEF Pointed
  <2>6. edi >= call.dest /\ edi' + 1 = call'.dest + ecx' /\ ecx' <= call'.n
    BY <1>1, <1>3, <2>1, <2>4, <2>5
  <2>7. edi + 1 <= LIMIT BY <1>3, <2>1, <2>5
  <2>8. call'.routine \notin Top2 \cup {"memset_word", "memset_dword"} BY <1>1, <1>6 DEF Top2
  <2>9. AtRep' BY <1>1, <1>6, <2>1, <2>6, <2>8 DEF AtRep
  <2>10. Counted' BY <1>1, <2>9 DEF Counted
  <2> QED BY <1>1, <1>3, <2>1, <2>2, <2>3, <2>6, <2>7, <2>10, StoreDown
<1>7. CASE call.routine = "memmove" /\ ~df
  <2>1. edx = 0 /\ ~(call.src < call.dest) /\ edi + ecx = LIMIT BY <1>2, <1>7 DEF AtRep
  <2>2. RepSize = 1 /\ ~Down BY <1>1, <1>7 DEF RepSize, Down
  <2>3. Store(1) /\ Advance(1) /\ edi' = edi + 1 BY <1>1, <1>7, <2>2 DEF Step, Advance
  <2>4. edi + 1 <= LIMIT /\ edi' + ecx' = LIMIT' BY <1>1, <1>3, <1>4, <2>1, <2>3
  <2>5. call'.routine \notin Top2 \cup {"memset_word", "memset_dword"} BY <1>1, <1>7 DEF Top2
  <2>6. AtRep' BY <1>1, <1>7, <2>1, <2>4, <2>5 DEF AtRep
  <2>7. Counted' BY <1>1, <2>6 DEF Counted
  <2>8. call.dest <= call.src BY <1>2, <2>1, Ends
  <2> QED BY <1>1, <1>3, <1>7, <2>2, <2>3, <2>4, <2>7, <2>8, StoreUp
<1>8. CASE call.routine = "memset_word"
  <2>1. edx = 0 /\ df = FALSE /\ edi + 2 * ecx = LIMIT /\ (edi - call.dest) % 2 = 0
    BY <1>2, <1>8 DEF AtRep
  <2>2. RepSize = 2 /\ ~Down /\ ~Copies BY <1>1, <1>8 DEF RepSize, Down, Copies
  <2>3. Store(2) /\ Advance(2) /\ edi' = edi + 2 BY <1>1, <2>1, <2>2 DEF Step, Advance
  <2>4. edi + 2 <= LIMIT /\ edi' + 2 * ecx' = LIMIT' BY <1>1, <1>3, <1>4, <2>1, <2>3
  <2>5. (edi' - call'.dest) % 2 = 0
    <3>1. call.dest \in Nat BY <1>2, Ends
    <3> QED BY <1>1, <1>3, <2>1, <2>3, <3>1
  <2>6. call'.routine \notin Top2 \cup {"memmove", "memset_dword"} BY <1>1, <1>8 DEF Top2
  <2>7. AtRep' BY <1>1, <1>8, <2>1, <2>4, <2>5, <2>6 DEF AtRep
  <2>8. Counted' BY <1>1, <2>7 DEF Counted
  <2> QED BY <1>1, <1>3, <1>8, <2>1, <2>2, <2>3, <2>4, <2>8, StoreUp
<1>9. CASE call.routine = "memset_dword"
  <2>1. edx = 0 /\ df = FALSE /\ edi + 4 * ecx = LIMIT /\ (edi - call.dest) % 4 = 0
    BY <1>2, <1>9 DEF AtRep
  <2>2. RepSize = 4 /\ ~Down /\ ~Copies BY <1>1, <1>9 DEF RepSize, Down, Copies, DWORD
  <2>3. Store(4) /\ Advance(4) /\ edi' = edi + 4 BY <1>1, <2>1, <2>2 DEF Step, Advance
  <2>4. edi + 4 <= LIMIT /\ edi' + 4 * ecx' = LIMIT' BY <1>1, <1>3, <1>4, <2>1, <2>3
  <2>5. (edi' - call'.dest) % 4 = 0
    <3>1. call.dest \in Nat BY <1>2, Ends
    <3> QED BY <1>1, <1>3, <2>1, <2>3, <3>1
  <2>6. call'.routine \notin Top2 \cup {"memmove", "memset_word"} BY <1>1, <1>9 DEF Top2
  <2>7. AtRep' BY <1>1, <1>9, <2>1, <2>4, <2>5, <2>6 DEF AtRep
  <2>8. Counted' BY <1>1, <2>7 DEF Counted
  <2> QED BY <1>1, <1>3, <1>9, <2>1, <2>2, <2>3, <2>4, <2>8, StoreUp
<1>10. call.routine \in Top2 \cup {"memmove", "memset_word", "memset_dword"}
  BY <1>2 DEF Called, Routines, Top2
<1> QED BY <1>5, <1>6, <1>7, <1>8, <1>9, <1>10

\* The string instruction has run out.
LEMMA RepEndKeeps == ASSUME MemInv, RepEnd PROVE MemInv'
<1>1. at = "rep" /\ ecx = 0 /\ call' = call BY DEF RepEnd
<1>2. /\ Called /\ Pointed /\ AtRep /\ edi \in Int /\ LIMIT \in Nat /\ MAX_N \in Nat
      /\ edx \in Nat /\ edx <= MAX_N /\ df \in BOOLEAN
  BY <1>1, AtPoints DEF Counted
<1>3. LIMIT' = LIMIT BY <1>1, SameCall
<1>4. /\ mem' = mem /\ edi' = edi /\ esi' = esi /\ ecx' = ecx /\ edx' = edx /\ df' = df
  BY DEF RepEnd, Done
<1>5. ecx' \in 0 .. MAX_N /\ edx' \in 0 .. MAX_N /\ df' \in BOOLEAN BY <1>1, <1>2, <1>4
<1>6. CASE call.routine \in Top2
  <2>1. at' = "bottom" BY <1>6, Units DEF RepEnd, Top2
  <2>2. edi + edx = LIMIT BY <1>1, <1>2, <1>6 DEF AtRep
  <2>3. Down' <=> Down BY <1>1, <1>6 DEF Down, Top2
  <2>4. Counted' BY <1>1, <1>3, <1>4, <1>6, <2>1, <2>2 DEF Counted
  <2>5. at' \in Points BY <2>1 DEF Points
  <2> QED BY <1>1, <1>4, <1>5, <2>1, <2>3, <2>4, <2>5, Moves
<1>7. CASE call.routine \in {"memmove", "memset_word", "memset_dword"}
  <2>1. at' = "done" BY <1>7, Units DEF RepEnd, Done
  <2>2. Down' <=> Down BY <1>1, <1>4, <2>1 DEF Down
  <2>3. IF Down THEN edi + 1 = call.dest ELSE edi = LIMIT
    <3>1. call.dest \in Nat BY <1>2, Ends
    <3>2. CASE Down
      <4>1. edi + 1 = call.dest + ecx BY <1>2, <3>2 DEF AtRep, Down
      <4> QED BY <1>1, <1>2, <3>1, <3>2, <4>1
    <3>3. CASE ~Down
      <4>1. edi + ecx = LIMIT \/ edi + 2 * ecx = LIMIT \/ edi + 4 * ecx = LIMIT
        BY <1>1, <1>2, <1>7, <3>3 DEF AtRep, Down
      <4> QED BY <1>1, <1>2, <3>3, <4>1
    <3> QED BY <3>2, <3>3
  <2>4. Counted' BY <1>1, <1>3, <1>4, <2>1, <2>2, <2>3 DEF Counted
  <2>5. at' \in Points BY <2>1 DEF Points
  <2> QED BY <1>1, <1>4, <1>5, <2>1, <2>2, <2>4, <2>5, Moves
<1> QED BY <1>2, <1>6, <1>7 DEF Called, Routines, Top2

\* The bytes left over.
LEMMA BottomKeeps == ASSUME MemInv, Bottom PROVE MemInv'
<1>1. at = "bottom" /\ call' = call BY DEF Bottom
<1>2. /\ call.routine \in Top2 /\ edi + edx = LIMIT /\ edi \in Int /\ LIMIT \in Nat
      /\ MAX_N \in Nat /\ ecx \in Nat /\ ecx <= MAX_N /\ edx \in Nat /\ edx <= MAX_N
      /\ df \in BOOLEAN
  BY <1>1, AtPoints DEF Counted
<1>3. ~Down /\ (Copies => call.routine = "memcpy") BY <1>2, TopsGoUp
<1>4. LIMIT' = LIMIT BY <1>1, SameCall
<1>5. CASE edx = 0 /\ Done
  <2>1. /\ at' = "done" /\ mem' = mem /\ edi' = edi /\ esi' = esi /\ ecx' = ecx /\ edx' = edx
        /\ df' = df
    BY <1>5 DEF Done
  <2>2. ~Down' BY <1>1, <1>2 DEF Down, Top2
  <2>3. Down' <=> Down BY <1>3, <2>2
  <2>4. edi' = LIMIT' BY <1>2, <1>4, <1>5, <2>1
  <2>5. Counted' BY <2>1, <2>2, <2>4 DEF Counted
  <2>6. ecx' \in 0 .. MAX_N /\ edx' \in 0 .. MAX_N BY <1>2, <2>1
  <2>7. at' \in Points /\ df' \in BOOLEAN BY <2>1, <1>2 DEF Points
  <2> QED BY <1>1, <2>1, <2>3, <2>5, <2>6, <2>7, Moves
<1>6. CASE edx # 0 /\ Store(1) /\ Advance(1) /\ edx' = edx - 1 /\ UNCHANGED <<ecx, df, at>>
  <2>1. /\ Store(1) /\ Advance(1) /\ edx' = edx - 1 /\ ecx' = ecx /\ df' = df /\ at' = at
        /\ edi' = edi + 1
    BY <1>6 DEF Advance
  <2>2. edi + 1 <= LIMIT /\ edi' + edx' = LIMIT' /\ ecx' \in 0 .. MAX_N /\ edx' \in 0 .. MAX_N
    BY <1>2, <1>4, <1>6, <2>1
  <2>3. Counted' BY <1>1, <1>2, <2>1, <2>2 DEF Counted
  <2>4. call.routine \in Top2 \cup {"memmove"} BY <1>2
  <2> QED BY <1>1, <1>3, <2>1, <2>2, <2>3, <2>4, StoreUp
<1> QED BY <1>5, <1>6 DEF Bottom

\* Nothing happens in memory.
LEMMA MemStutters == ASSUME MemInv, UNCHANGED vars PROVE MemInv'
<1>1. /\ mem' = mem /\ edi' = edi /\ esi' = esi /\ ecx' = ecx /\ edx' = edx /\ df' = df
      /\ at' = at /\ call' = call
  BY DEF vars
<1>2. Called' = Called /\ LIMIT' = LIMIT /\ Target' = Target /\ Copies' = Copies
      /\ \A a : Expected(a)' = Expected(a)
  BY <1>1, SameCall
<1>3. Down' <=> Down BY <1>1 DEF Down
<1>4. CASE at = "idle" BY <1>1, <1>4 DEF MemInv
<1>5. CASE at # "idle"
  <2>1. Called /\ Pointed /\ Counted /\ at \in Points /\ df \in BOOLEAN
        /\ ecx \in Nat /\ edx \in Nat /\ ecx <= MAX_N /\ edx <= MAX_N /\ MAX_N \in Nat
    BY <1>5, AtPoints
  <2>2. AtTop' = AtTop /\ AtRep' = AtRep BY <1>1, <1>2 DEF AtTop, AtRep
  <2>3. Counted' BY <1>1, <1>2, <1>3, <2>1, <2>2 DEF Counted
  <2> QED BY <1>1, <1>3, <1>5, <2>1, <2>3, Moves
<1> QED BY <1>4, <1>5
\* Every step of the library, on the side of memory.
LEMMA MemKept == ASSUME MemInv, [LibraryNext]_libraryVars PROVE MemInv'
<1>1. CASE Next
  <2>1. ASSUME NEW r \in Routines, NEW d \in Address, NEW s \in Address, NEW n \in 0 .. MAX_N,
               Call(r, d, s, n)
        PROVE  MemInv'
    BY <2>1, CallKeeps
  <2> QED BY <1>1, <2>1, ReturnKeeps, TopKeeps, AlignedKeeps, CompareKeeps, RepKeeps,
             RepEndKeeps, BottomKeeps DEF Next
<1>2. CASE UNCHANGED vars BY <1>2, MemStutters
<1>3. Next \/ UNCHANGED vars BY DEF LibraryNext, MemoryRuns, TextRuns, libraryVars
<1> QED BY <1>1, <1>2, <1>3

\* The invariant says what a call that is over has done.
LEMMA MemSays == ASSUME MemInv PROVE MemoryRight
<1>0. SIZE \in Nat /\ MAX_N \in Nat BY MemoryAssumption
<1>1. /\ \A a \in Address : mem[a] \in [from : {"old", "value"}, at : Address \cup 0 .. 3]
      /\ df \in BOOLEAN /\ at \in Points
  <2>1. mem \in [Address -> Values] /\ df \in BOOLEAN /\ at \in Points BY Zenon DEF MemInv
  <2> QED BY <2>1 DEF Values
<1>2. CASE at = "idle"
  <2>1. edi = 0 /\ esi = 0 /\ ecx = 0 /\ edx = 0 /\ call.routine = "none" BY <1>2 DEF MemInv
  <2>2. /\ edi \in -1 .. SIZE /\ esi \in -1 .. SIZE /\ ecx \in 0 .. MAX_N /\ edx \in 0 .. MAX_N
    BY <1>0, <2>1
  <2> QED BY <1>1, <1>2, <2>1, <2>2 DEF MemoryRight, TypeOK, BytesAsAsked
<1>3. CASE at # "idle"
  <2>1. Called /\ Pointed /\ Written /\ Counted /\ edi \in Int BY <1>3, AtPoints
  <2>2. /\ call.dest \in Nat /\ call.src \in Nat /\ call.n \in Nat /\ LIMIT \in Nat /\ LIMIT <= SIZE
        /\ call.src + call.n <= SIZE /\ (Copies => LIMIT = call.dest + call.n)
    BY <2>1, Ends DEF Called
  <2>3. edi \in -1 .. SIZE BY <1>0, <2>1, <2>2 DEF Pointed
  <2>4. esi \in -1 .. SIZE BY <1>0, <2>1, <2>2 DEF Pointed
  <2>5. ecx \in 0 .. MAX_N /\ edx \in 0 .. MAX_N /\ call.routine \in Routines
    BY <2>1 DEF Pointed, Called
  <2>6. TypeOK BY <1>1, <2>3, <2>4, <2>5 DEF TypeOK
  <2>7. BytesAsAsked
    <3> SUFFICES ASSUME at = "done", NEW a \in Address
                 PROVE  mem[a] = IF a \in Target THEN Expected(a) ELSE Old(a)
      BY DEF BytesAsAsked
    <3>1. a \in Nat BY DEF Address
    <3>2. a \in Target <=> (call.dest <= a /\ a < LIMIT) BY <2>1, Ends
    <3>3. IF Down THEN edi + 1 = call.dest ELSE edi = LIMIT BY <2>1 DEF Counted
    <3>4. Passed(a) <=> a \in Target
      <4>1. CASE Down
        <5>1. Passed(a) <=> a \in Target /\ a > edi BY <4>1 DEF Passed
        <5> QED BY <2>1, <2>2, <3>1, <3>2, <3>3, <4>1, <5>1
      <4>2. CASE ~Down
        <5>1. Passed(a) <=> a \in Target /\ a < edi BY <4>2 DEF Passed
        <5> QED BY <2>1, <2>2, <3>1, <3>2, <3>3, <4>2, <5>1
      <4> QED BY <4>1, <4>2
    <3>5. mem[a] = IF Passed(a) THEN Expected(a) ELSE Old(a) BY <2>1 DEF Written
    <3> QED BY <3>4, <3>5
  <2> QED BY <2>6, <2>7 DEF MemoryRight
<1> QED BY <1>2, <1>3

\* Every call of memset, memset_word, memset_dword, memcpy and memmove that is
\* over has written exactly the bytes it was asked for, in any memory, with any
\* count, whatever overlaps and whichever way the last call left the direction.
THEOREM MemoryIsRight == LibrarySpec => []MemoryRight
<1>1. LibraryInit => MemInv
  <2> SUFFICES ASSUME LibraryInit PROVE MemInv OBVIOUS
  <2>1. /\ mem = [a \in Address |-> Old(a)] /\ edi = 0 /\ esi = 0 /\ ecx = 0 /\ edx = 0
        /\ df = FALSE /\ at = "idle" /\ call.routine = "none"
    BY DEF LibraryInit, Init, NoCall
  <2>2. \A a \in Address : Old(a) \in Values BY OldType
  <2> QED BY <2>1, <2>2 DEF MemInv, Points
<1>2. MemInv /\ [LibraryNext]_libraryVars => MemInv' BY MemKept
<1>3. MemInv => MemoryRight BY MemSays
<1> QED BY <1>1, <1>2, <1>3, PTL DEF LibrarySpec
-----------------------------------------------------------------------------
(* Digits *)

\* The digits of itoa, from the lowest up, and the characters that strrev has
\* exchanged: the recursive functions in them.
Digits(radix) ==
    LET digits[v \in Nat] ==
            IF v = 0 THEN <<>> ELSE <<v % radix>> \o digits[v \div radix]
    IN  digits
Swapped(s) ==
    LET n == Len(s)
        swapped[k \in 0 .. n] ==
            IF k = 0 THEN s
            ELSE LET t == swapped[k - 1]
                     end == n + 1 - k
                 IN  IF k < end THEN [t EXCEPT ![k] = t[end], ![end] = t[k]] ELSE t
    IN  swapped
Upto(digits, radix) ==
    LET upto[i \in 0 .. Len(digits)] ==
            IF i = 0 THEN 0 ELSE upto[i - 1] * radix + digits[i]
    IN  upto

\* itoa, strrev and ValueOf are made of them.
LEMMA Conversions ==
    /\ \A v, radix : T!itoa(v, radix) = IF v = 0 THEN <<0>> ELSE T!strrev(Digits(radix)[v])
    /\ \A s : T!strrev(s) = Swapped(s)[Len(s)]
    /\ \A s, radix : T!ValueOf(s, radix) = Upto(s, radix)[Len(s)]
<1>1. \A v, radix : T!itoa(v, radix) = IF v = 0 THEN <<0>> ELSE T!strrev(Digits(radix)[v])
  BY DEF T!itoa, Digits
<1>2. \A s : T!strrev(s) = Swapped(s)[Len(s)] BY DEF T!strrev, Swapped
<1>3. \A s, radix : T!ValueOf(s, radix) = Upto(s, radix)[Len(s)] BY DEF T!ValueOf, Upto
<1> QED BY <1>1, <1>2, <1>3

\* Division by a radix.
LEMMA Quotients ==
    ASSUME NEW v \in Nat, NEW radix \in Nat, radix >= 2
    PROVE  /\ v \div radix \in Nat /\ v % radix \in 0 .. (radix - 1)
           /\ v = radix * (v \div radix) + (v % radix)
           /\ v # 0 => v \div radix < v
<1>1. /\ v \div radix \in Nat /\ v % radix \in 0 .. (radix - 1)
      /\ v = radix * (v \div radix) + (v % radix)
  OBVIOUS
<1>2. v # 0 => v \div radix < v
  <2> DEFINE q == v \div radix
             m == v % radix
  <2>1. q \in Nat /\ m \in Nat /\ v = radix * q + m BY <1>1
  <2> HIDE DEF q, m
  <2> SUFFICES ASSUME v # 0, q >= v PROVE FALSE BY <2>1 DEF q
  <2>2. radix * q >= 2 * q BY <2>1
  <2> QED BY <2>1, <2>2
<1> QED BY <1>1, <1>2

\* The digits of a number: the lowest, and before them those of the quotient.
LEMMA DigitsRecur ==
    ASSUME NEW radix \in Nat, radix >= 2
    PROVE  /\ Digits(radix) \in [Nat -> Seq(0 .. (radix - 1))]
           /\ Digits(radix)[0] = <<>>
           /\ \A v \in Nat \ {0} :
                 Digits(radix)[v] = <<v % radix>> \o Digits(radix)[v \div radix]
<1> DEFINE A == Seq(0 .. (radix - 1))
           none == <<>>
           low(v) == <<v % radix>>
           F == [v \in Nat |-> [t \in A |-> low(v) \o t]]
           back == [v \in Nat |-> v \div radix]
           D == Digits(radix)
           Solves(g) == g = [v \in Nat |-> IF v = 0 THEN none ELSE low(v) \o g[v \div radix]]
<1>1. none \in A OBVIOUS
<1>2. \A v \in Nat : low(v) \in A BY Quotients
<1>3. \A v \in Nat, t \in A : low(v) \o t \in A
  <2> HIDE DEF low
  <2> QED BY <1>2
<1>4. F \in Steps(A)
  <2> HIDE DEF A, low
  <2> QED BY <1>3 DEF Steps
<1>5. Backwards(back) BY Quotients DEF Backwards
<1>6. /\ \A v \in Nat, t \in A : F[v][t] = low(v) \o t
      /\ \A v \in Nat : back[v] = v \div radix
  <2> HIDE DEF A, low
  <2> QED OBVIOUS
<1>7. D = CHOOSE g : Solves(g) BY DEF Digits
<1>8. \A v \in Nat : v \div radix \in Nat BY Quotients
<1> HIDE DEF none, low, F, back, A, D
<1>9. PICK g : RecursBack(g, A, none, F, back) BY <1>1, <1>4, <1>5, BackRecursion
<1>10. /\ g \in [Nat -> A] /\ g[0] = none
       /\ \A v \in Nat \ {0} : g[v] = low(v) \o g[v \div radix]
  BY <1>6, <1>8, <1>9 DEF RecursBack
<1>11. g = [v \in Nat |-> IF v = 0 THEN none ELSE low(v) \o g[v \div radix]] BY <1>10
<1>12. Solves(D) BY <1>7, <1>11
<1>13. D = [v \in Nat |-> IF v = 0 THEN none ELSE low(v) \o D[v \div radix]] BY <1>12
<1> HIDE DEF Solves
<1>14. D[0] = none /\ \A v \in Nat \ {0} : D[v] = low(v) \o D[v \div radix] BY <1>13
<1> DEFINE S == {v \in Nat : D[v] \in A}
<1>15. Nat \subseteq S
  <2>1. ASSUME NEW v \in Nat, \A w \in 0 .. (v - 1) : w \in S PROVE v \in S
    <3>1. CASE v = 0 BY <3>1, <1>1, <1>14
    <3>2. CASE v # 0
      <4> DEFINE q == v \div radix
      <4>5. q \in Nat /\ q < v BY <3>2, Quotients
      <4> HIDE DEF q
      <4>6. q \in 0 .. (v - 1) BY <4>5
      <4>1. v \div radix \in 0 .. (v - 1) BY <4>6 DEF q
      <4>2. D[v \div radix] \in A BY <4>1, <2>1
      <4>3. D[v] \in A BY <3>2, <4>2, <1>3, <1>14
      <4> QED BY <4>3
    <3> QED BY <3>1, <3>2
  <2> HIDE DEF S
  <2> QED BY <2>1, StrongInduction
<1>16. D \in [Nat -> A] BY <1>13, <1>15
<1> QED BY <1>14, <1>16 DEF none, low, A, D

\* What is written so far of a number is a recursion over its digits.
LEMMA UptoRecur ==
    ASSUME NEW s \in Seq(Nat), NEW radix \in Nat
    PROVE  /\ Upto(s, radix) \in [0 .. Len(s) -> Nat]
           /\ Upto(s, radix)[0] = 0
           /\ \A i \in 1 .. Len(s) : Upto(s, radix)[i] = Upto(s, radix)[i - 1] * radix + s[i]
<1> DEFINE n == Len(s)
           digit(k) == IF k + 1 <= n THEN s[k + 1] ELSE 0
           F == [k \in Nat |-> [x \in Nat |-> x * radix + digit(k)]]
           U == Upto(s, radix)
           Solves(g) == g = [i \in 0 .. n |-> IF i = 0 THEN 0 ELSE g[i - 1] * radix + s[i]]
<1>1. n \in Nat /\ \A k \in Nat : digit(k) \in Nat OBVIOUS
<1>2. \A i \in 1 .. n : digit(i - 1) = s[i] OBVIOUS
<1>3. U = CHOOSE g : Solves(g) BY DEF Upto
<1> HIDE DEF digit, n, U
<1>4. \A k \in Nat, x \in Nat : x * radix + digit(k) \in Nat
  <2> SUFFICES ASSUME NEW k \in Nat, NEW x \in Nat PROVE x * radix + digit(k) \in Nat OBVIOUS
  <2> DEFINE p == x * radix
  <2>1. p \in Nat OBVIOUS
  <2>2. digit(k) \in Nat BY <1>1
  <2> HIDE DEF p
  <2>3. p + digit(k) \in Nat BY <2>1, <2>2
  <2> QED BY <2>3 DEF p
<1>5. F \in Steps(Nat) BY <1>4 DEF Steps
<1>6. \A k \in Nat, x \in Nat : F[k][x] = x * radix + digit(k) OBVIOUS
<1> HIDE DEF F
<1>7. PICK g : Recurs(g, Nat, 0, F) BY <1>5, Recursion
<1>8. g \in [Nat -> Nat] /\ g[0] = 0 /\ \A k \in Nat : g[k + 1] = g[k] * radix + digit(k)
  BY <1>6, <1>7 DEF Recurs
<1>9. \A i \in 1 .. n : g[i] = g[i - 1] * radix + s[i]
  <2> SUFFICES ASSUME NEW i \in 1 .. n PROVE g[i] = g[i - 1] * radix + s[i] OBVIOUS
  <2>1. i - 1 \in Nat /\ (i - 1) + 1 = i BY <1>1
  <2>2. g[(i - 1) + 1] = g[i - 1] * radix + digit(i - 1) BY <2>1, <1>8
  <2> QED BY <2>1, <2>2, <1>2
<1> DEFINE h == [i \in 0 .. n |-> g[i]]
<1>10. \A i \in 0 .. n : h[i] = IF i = 0 THEN 0 ELSE h[i - 1] * radix + s[i]
  <2> SUFFICES ASSUME NEW i \in 0 .. n
               PROVE  h[i] = IF i = 0 THEN 0 ELSE h[i - 1] * radix + s[i]
    OBVIOUS
  <2>1. CASE i = 0 BY <2>1, <1>8, <1>1
  <2>2. CASE i # 0
    <3>1. i \in 1 .. n /\ i - 1 \in 0 .. n BY <2>2, <1>1
    <3> QED BY <3>1, <2>2, <1>9
  <2> QED BY <2>1, <2>2
<1>11. Solves(h) BY <1>10
<1>12. Solves(U) BY <1>3, <1>11
<1>13. U = [i \in 0 .. n |-> IF i = 0 THEN 0 ELSE U[i - 1] * radix + s[i]] BY <1>12
<1> HIDE DEF Solves
<1>14. U[0] = 0 /\ \A i \in 1 .. n : U[i] = U[i - 1] * radix + s[i]
  <2>1. U[0] = 0 BY <1>13, <1>1
  <2>2. ASSUME NEW i \in 1 .. n PROVE U[i] = U[i - 1] * radix + s[i]
    <3>1. i \in 0 .. n /\ i # 0 BY <1>1
    <3> DEFINE next == U[i - 1] * radix + s[i]
    <3>2. U[i] = IF i = 0 THEN 0 ELSE next BY <3>1, <1>13
    <3> HIDE DEF next
    <3>3. U[i] = next BY <3>1, <3>2
    <3> QED BY <3>3 DEF next
  <2> QED BY <2>1, <2>2
<1> DEFINE S == {i \in Nat : i <= n => U[i] \in Nat}
<1>15. Nat \subseteq S
  <2>1. 0 \in S BY <1>14
  <2>2. ASSUME NEW i \in Nat, i \in S PROVE i + 1 \in S
    <3> SUFFICES ASSUME i + 1 <= n PROVE U[i + 1] \in Nat OBVIOUS
    <3>1. i + 1 \in 1 .. n /\ (i + 1) - 1 = i BY <1>1
    <3>2. i <= n BY <1>1
    <3>3. U[i] \in Nat BY <2>2, <3>2
    <3>4. s[i + 1] \in Nat BY <3>1 DEF n
    <3> DEFINE u == U[i]
               x == s[i + 1]
    <3>5. U[i + 1] = u * radix + x BY <3>1, <1>14
    <3>6. u \in Nat /\ x \in Nat BY <3>3, <3>4
    <3> HIDE DEF u, x
    <3>7. u * radix + x \in Nat
      <4>1. u * radix \in Nat BY <3>6
      <4> QED BY <4>1, <3>6
    <3> QED BY <3>5, <3>7
  <2> HIDE DEF S
  <2> QED BY <2>1, <2>2, Induction
<1>16. U \in [0 .. n -> Nat]
  <2>1. \A i \in 0 .. n : U[i] \in Nat BY <1>1, <1>15
  <2>2. U = [i \in 0 .. n |-> U[i]]
    <3> DEFINE next(i) == IF i = 0 THEN 0 ELSE U[i - 1] * radix + s[i]
    <3>1. U = [i \in 0 .. n |-> next(i)] BY <1>13
    <3> HIDE DEF next
    <3>2. \A i \in 0 .. n : U[i] = next(i) BY <3>1
    <3> QED BY <3>1, <3>2
  <2> QED BY <2>1, <2>2
<1> QED BY <1>14, <1>16 DEF n, U
\* The characters exchanged: after k turns the first k and the last k.
LEMMA SwappedRecur ==
    ASSUME NEW E, NEW s \in Seq(E)
    PROVE  /\ Swapped(s) \in [0 .. Len(s) -> [1 .. Len(s) -> E]]
           /\ \A k \in 0 .. Len(s) : \A i \in 1 .. Len(s) :
                 Swapped(s)[k][i] = IF i <= k \/ i >= Len(s) + 1 - k
                                    THEN s[Len(s) + 1 - i] ELSE s[i]
<1> DEFINE n == Len(s)
           A == [1 .. n -> E]
           turn(k, t) == IF k < n + 1 - k
                         THEN [t EXCEPT ![k] = t[n + 1 - k], ![n + 1 - k] = t[k]] ELSE t
           F == [k \in Nat |-> [t \in A |-> turn(k + 1, t)]]
           W == Swapped(s)
           Solves(g) == g = [k \in 0 .. n |-> IF k = 0 THEN s ELSE turn(k, g[k - 1])]
<1>1. n \in Nat /\ s \in A OBVIOUS
<1>2. W = CHOOSE g : Solves(g) BY DEF Swapped
<1> HIDE DEF n, W
<1>3. ASSUME NEW k \in Nat, k >= 1, NEW t \in A
      PROVE  /\ turn(k, t) \in A
             /\ k < n + 1 - k => \A i \in 1 .. n :
                   turn(k, t)[i] = IF i = k THEN t[n + 1 - k]
                                   ELSE IF i = n + 1 - k THEN t[k] ELSE t[i]
             /\ ~(k < n + 1 - k) => turn(k, t) = t
  <2> DEFINE end == n + 1 - k
  <2>1. CASE k < end
    <3>1. k \in 1 .. n /\ end \in 1 .. n /\ k # end BY <1>1, <1>3, <2>1
    <3> HIDE DEF end
    <3>2. t[k] \in E /\ t[end] \in E BY <3>1
    <3> DEFINE x == t[k]
               y == t[end]
               new == [t EXCEPT ![k] = y, ![end] = x]
    <3>3. x \in E /\ y \in E BY <3>2
    <3> HIDE DEF x, y
    <3>4. new \in A BY <3>1, <3>3
    <3>5. \A i \in 1 .. n : new[i] = IF i = k THEN y ELSE IF i = end THEN x ELSE t[i]
      BY <3>1
    <3>6. turn(k, t) = new BY <2>1 DEF end, x, y
    <3> QED BY <2>1, <3>4, <3>5, <3>6 DEF end, x, y
  <2>2. CASE ~(k < end) BY <2>2
  <2> QED BY <2>1, <2>2
<1> HIDE DEF turn
<1>4. F \in Steps(A)
  <2>1. \A k \in Nat, t \in A : turn(k + 1, t) \in A BY <1>3
  <2> HIDE DEF A
  <2> QED BY <2>1 DEF Steps
<1>5. \A k \in Nat, t \in A : F[k][t] = turn(k + 1, t)
  <2> HIDE DEF A
  <2> QED OBVIOUS
<1> HIDE DEF F
<1>6. PICK g : Recurs(g, A, s, F) BY <1>1, <1>4, Recursion
<1>7. g \in [Nat -> A] /\ g[0] = s /\ \A k \in Nat : g[k + 1] = turn(k + 1, g[k])
  <2> HIDE DEF A
  <2> QED BY <1>5, <1>6 DEF Recurs
<1> HIDE DEF A
<1>8. \A k \in 1 .. n : g[k] = turn(k, g[k - 1])
  <2> SUFFICES ASSUME NEW k \in 1 .. n PROVE g[k] = turn(k, g[k - 1]) OBVIOUS
  <2>1. k - 1 \in Nat /\ (k - 1) + 1 = k BY <1>1
  <2>2. g[(k - 1) + 1] = turn((k - 1) + 1, g[k - 1]) BY <2>1, <1>7
  <2> QED BY <2>1, <2>2
<1> DEFINE h == [k \in 0 .. n |-> g[k]]
<1>9. \A k \in 0 .. n : h[k] = IF k = 0 THEN s ELSE turn(k, h[k - 1])
  <2> SUFFICES ASSUME NEW k \in 0 .. n PROVE h[k] = IF k = 0 THEN s ELSE turn(k, h[k - 1])
    OBVIOUS
  <2>1. CASE k = 0 BY <2>1, <1>7, <1>1
  <2>2. CASE k # 0
    <3>1. k \in 1 .. n /\ k - 1 \in 0 .. n BY <2>2, <1>1
    <3> QED BY <3>1, <2>2, <1>8
  <2> QED BY <2>1, <2>2
<1>10. Solves(h) BY <1>9
<1>11. Solves(W) BY <1>2, <1>10
<1>12. W = [k \in 0 .. n |-> IF k = 0 THEN s ELSE turn(k, W[k - 1])] BY <1>11
<1> HIDE DEF Solves, h
<1>13. W[0] = s BY <1>12, <1>1
<1>14. \A k \in 1 .. n : W[k] = turn(k, W[k - 1])
  <2> SUFFICES ASSUME NEW k \in 1 .. n PROVE W[k] = turn(k, W[k - 1]) OBVIOUS
  <2>1. k \in 0 .. n /\ k # 0 BY <1>1
  <2> QED BY <2>1, <1>12
<1> DEFINE Right(k) == \A i \in 1 .. n :
                          W[k][i] = IF i <= k \/ i >= n + 1 - k THEN s[n + 1 - i] ELSE s[i]
           S == {k \in Nat : k <= n => W[k] \in A /\ Right(k)}
<1>15. Nat \subseteq S
  <2>1. 0 \in S
    <3>1. \A i \in 1 .. n : ~(i <= 0 \/ i >= n + 1 - 0) BY <1>1
    <3> QED BY <3>1, <1>13, <1>1
  <2>2. ASSUME NEW k \in Nat, k \in S PROVE k + 1 \in S
    <3> SUFFICES ASSUME k + 1 <= n PROVE W[k + 1] \in A /\ Right(k + 1) OBVIOUS
    <3> DEFINE j == k + 1
               t == W[k]
    <3>1. j \in 1 .. n /\ j - 1 = k /\ j >= 1 /\ j \in Nat BY <1>1
    <3>2. t \in A /\ Right(k)
      <4>1. k <= n BY <1>1
      <4> QED BY <2>2, <4>1
    <3>3. W[j] = turn(j, t) BY <3>1, <1>14
    <3>4. \A i \in 1 .. n : t[i] = IF i <= k \/ i >= n + 1 - k THEN s[n + 1 - i] ELSE s[i]
      BY <3>2
    <3>5. /\ turn(j, t) \in A
          /\ j < n + 1 - j => \A i \in 1 .. n :
                turn(j, t)[i] = IF i = j THEN t[n + 1 - j]
                                ELSE IF i = n + 1 - j THEN t[j] ELSE t[i]
          /\ ~(j < n + 1 - j) => turn(j, t) = t
      BY <3>1, <3>2, <1>3
    <3> HIDE DEF t
    <3>6. ASSUME NEW i \in 1 .. n
          PROVE  W[j][i] = IF i <= j \/ i >= n + 1 - j THEN s[n + 1 - i] ELSE s[i]
      <4>1. n + 1 - j \in Int /\ (n + 1) - (n + 1 - j) = j BY <1>1
      <4>2. CASE j < n + 1 - j
        <5> DEFINE end == n + 1 - j
        <5>1. end \in 1 .. n /\ end # j /\ n + 1 - end = j BY <1>1, <3>1, <4>2
        <5>7. ~(end <= k \/ end >= n + 1 - k) /\ ~(j <= k \/ j >= n + 1 - k)
          BY <1>1, <3>1, <4>2
        <5>2. t[end] = s[end] /\ t[j] = s[j]
          <6> HIDE DEF end, j
          <6> QED BY <3>1, <3>4, <5>1, <5>7
        <5>3. turn(j, t)[i] = IF i = j THEN t[end] ELSE IF i = end THEN t[j] ELSE t[i]
          BY <3>5, <4>2
        <5>4. CASE i = j
          <6>1. W[j][i] = s[end] BY <3>3, <5>2, <5>3, <5>4
          <6> QED BY <6>1, <5>4, <3>1
        <5>5. CASE i = end
          <6>1. W[j][i] = s[j] BY <3>3, <5>1, <5>2, <5>3, <5>5
          <6> QED BY <6>1, <5>1, <5>5
        <5>6. CASE i # j /\ i # end
          <6>1. W[j][i] = t[i] BY <3>3, <5>3, <5>6
          <6>2. (i <= j \/ i >= end) <=> (i <= k \/ i >= n + 1 - k) BY <1>1, <5>6
          <6> QED BY <6>1, <6>2, <3>4
        <5> QED BY <5>4, <5>5, <5>6
      <4>3. CASE ~(j < n + 1 - j)
        <5>1. W[j][i] = t[i] BY <3>3, <3>5, <4>3
        <5>2. i <= j \/ i >= n + 1 - j BY <1>1, <4>3
        <5>3. CASE i <= k \/ i >= n + 1 - k BY <5>1, <5>2, <5>3, <3>4
        <5>4. CASE ~(i <= k \/ i >= n + 1 - k)
          <6>1. n + 1 - i = i BY <1>1, <4>3, <5>4
          <6>2. t[i] = s[i] BY <5>4, <3>4
          <6> QED BY <5>1, <5>2, <6>1, <6>2
        <5> QED BY <5>3, <5>4
      <4> QED BY <4>2, <4>3
    <3> QED BY <3>3, <3>5, <3>6
  <2> HIDE DEF S
  <2> QED BY <2>1, <2>2, Induction
<1>16. \A k \in 0 .. n : W[k] \in A /\ Right(k) BY <1>15, <1>1
<1>17. W \in [0 .. n -> A]
  <2>1. W = [k \in 0 .. n |-> W[k]] BY <1>12
  <2> QED BY <2>1, <1>16
<1> QED BY <1>16, <1>17 DEF n, A, W

\* strrev turns a string round.
LEMMA Reverses ==
    ASSUME NEW E, NEW s \in Seq(E)
    PROVE  /\ T!strrev(s) \in Seq(E) /\ Len(T!strrev(s)) = Len(s)
           /\ \A i \in 1 .. Len(s) : T!strrev(s)[i] = s[Len(s) + 1 - i]
<1> DEFINE n == Len(s)
           r == Swapped(s)[n]
<1>1. n \in Nat /\ n \in 0 .. n OBVIOUS
<1>2. r \in [1 .. n -> E] BY <1>1, SwappedRecur
<1>3. r \in Seq(E) /\ Len(r) = n
  <2> HIDE DEF r, n
  <2> QED BY <1>1, <1>2
<1>4. \A i \in 1 .. n : r[i] = s[n + 1 - i]
  <2>1. \A i \in 1 .. n : r[i] = IF i <= n \/ i >= n + 1 - n THEN s[n + 1 - i] ELSE s[i]
    BY <1>1, SwappedRecur
  <2> HIDE DEF r, n
  <2> QED BY <2>1
<1>5. T!strrev(s) = r BY Conversions
<1> HIDE DEF r
<1> QED BY <1>3, <1>4, <1>5
\* Sequences that agree as far as a place are worth the same up to there.
LEMMA SameUpto ==
    ASSUME NEW s \in Seq(Nat), NEW w \in Seq(Nat), NEW radix \in Nat, NEW m \in Nat,
           m <= Len(s), m <= Len(w), \A i \in 1 .. m : s[i] = w[i]
    PROVE  Upto(s, radix)[m] = Upto(w, radix)[m]
<1> DEFINE U == Upto(s, radix)
           V == Upto(w, radix)
           S == {i \in Nat : i <= m => U[i] = V[i]}
<1>1. Len(s) \in Nat /\ Len(w) \in Nat OBVIOUS
<1>2. /\ U[0] = 0 /\ \A i \in 1 .. Len(s) : U[i] = U[i - 1] * radix + s[i]
      /\ V[0] = 0 /\ \A i \in 1 .. Len(w) : V[i] = V[i - 1] * radix + w[i]
  BY UptoRecur
<1> HIDE DEF U, V
<1>3. 0 \in S BY <1>2
<1>4. ASSUME NEW i \in Nat, i \in S PROVE i + 1 \in S
  <2> SUFFICES ASSUME i + 1 <= m PROVE U[i + 1] = V[i + 1] OBVIOUS
  <2> DEFINE j == i + 1
  <2>1. j \in 1 .. Len(s) /\ j \in 1 .. Len(w) /\ j - 1 = i /\ j \in 1 .. m BY <1>1
  <2>2. i <= m OBVIOUS
  <2>3. U[i] = V[i] BY <1>4, <2>2
  <2> HIDE DEF j
  <2>4. U[j] = U[i] * radix + s[j] /\ V[j] = V[i] * radix + w[j] BY <1>2, <2>1
  <2>5. U[j] = V[j] BY <2>1, <2>3, <2>4
  <2> QED BY <2>5 DEF j
<1> HIDE DEF S
<1>5. m \in S BY <1>3, <1>4, Induction
<1> QED BY <1>5 DEF S, U, V

\* A digit more.
LEMMA ValueAppend ==
    ASSUME NEW s \in Seq(Nat), NEW w \in Seq(Nat), NEW radix \in Nat, NEW x \in Nat,
           Len(w) = Len(s) + 1, \A i \in 1 .. Len(s) : w[i] = s[i], w[Len(w)] = x
    PROVE  T!ValueOf(w, radix) = T!ValueOf(s, radix) * radix + x
<1> DEFINE n == Len(s)
<1>1. n \in Nat /\ Len(w) = n + 1 OBVIOUS
<1>2. Upto(s, radix)[n] = Upto(w, radix)[n]
  <2>1. n <= Len(s) /\ n <= Len(w) /\ \A i \in 1 .. n : s[i] = w[i] BY <1>1
  <2> HIDE DEF n
  <2> QED BY <1>1, <2>1, SameUpto
<1>3. Upto(w, radix)[n + 1] = Upto(w, radix)[n] * radix + w[n + 1]
  <2>1. \A i \in 1 .. Len(w) : Upto(w, radix)[i] = Upto(w, radix)[i - 1] * radix + w[i]
    BY UptoRecur
  <2>2. n + 1 \in 1 .. Len(w) /\ (n + 1) - 1 = n BY <1>1
  <2> HIDE DEF n
  <2> QED BY <2>1, <2>2
<1>4. T!ValueOf(w, radix) = Upto(w, radix)[n + 1] /\ T!ValueOf(s, radix) = Upto(s, radix)[n]
  BY <1>1, Conversions
<1>5. w[n + 1] = x BY <1>1
<1> HIDE DEF n
<1> QED BY <1>2, <1>3, <1>4, <1>5

\* What is worth nothing ahead changes nothing.
LEMMA ValueZeros ==
    ASSUME NEW s \in Seq(Nat), NEW w \in Seq(Nat), NEW radix \in Nat, NEW z \in Nat,
           Len(w) = z + Len(s), \A i \in 1 .. z : w[i] = 0,
           \A i \in 1 .. Len(s) : w[z + i] = s[i]
    PROVE  T!ValueOf(w, radix) = T!ValueOf(s, radix)
<1> DEFINE U == Upto(s, radix)
           V == Upto(w, radix)
           n == Len(s)
<1>1. n \in Nat /\ Len(w) = z + n OBVIOUS
<1>2. /\ U[0] = 0 /\ \A i \in 1 .. n : U[i] = U[i - 1] * radix + s[i]
      /\ V[0] = 0 /\ \A i \in 1 .. Len(w) : V[i] = V[i - 1] * radix + w[i]
  BY UptoRecur
<1>3. \A i \in 1 .. n : w[z + i] = s[i] OBVIOUS
<1>4. T!ValueOf(w, radix) = V[Len(w)] /\ T!ValueOf(s, radix) = U[n] BY Conversions
<1> HIDE DEF U, V, n
<1> DEFINE Z == {i \in Nat : i <= z => V[i] = 0}
<1>5. z \in Z
  <2>1. 0 \in Z BY <1>2
  <2>2. ASSUME NEW i \in Nat, i \in Z PROVE i + 1 \in Z
    <3> SUFFICES ASSUME i + 1 <= z PROVE V[i + 1] = 0 OBVIOUS
    <3> DEFINE j == i + 1
    <3>1. j \in 1 .. Len(w) /\ j - 1 = i /\ j \in 1 .. z /\ i <= z BY <1>1
    <3>2. V[i] = 0 BY <2>2, <3>1
    <3> HIDE DEF j
    <3>3. V[j] = V[i] * radix + w[j] /\ w[j] = 0 BY <1>2, <3>1
    <3>4. V[j] = 0 BY <3>2, <3>3
    <3> QED BY <3>4 DEF j
  <2> HIDE DEF Z
  <2> QED BY <2>1, <2>2, Induction
<1> DEFINE S == {i \in Nat : i <= n => V[z + i] = U[i]}
<1>6. n \in S
  <2>1. 0 \in S
    <3>1. V[z] = 0 /\ z + 0 = z BY <1>5
    <3> QED BY <3>1, <1>2
  <2>2. ASSUME NEW i \in Nat, i \in S PROVE i + 1 \in S
    <3> SUFFICES ASSUME i + 1 <= n PROVE V[z + (i + 1)] = U[i + 1] OBVIOUS
    <3> DEFINE j == i + 1
               k == z + (i + 1)
    <3>1. /\ j \in 1 .. n /\ j - 1 = i /\ i <= n /\ k \in 1 .. Len(w) /\ k - 1 = z + i
          /\ k = z + j
      BY <1>1
    <3>2. V[z + i] = U[i] BY <2>2, <3>1
    <3> HIDE DEF j, k
    <3>3. U[j] = U[i] * radix + s[j] /\ V[k] = V[z + i] * radix + w[k] BY <1>2, <3>1
    <3>4. w[k] = s[j] BY <1>3, <3>1
    <3>5. V[k] = U[j] BY <3>2, <3>3, <3>4
    <3> QED BY <3>5 DEF j, k
  <2> HIDE DEF S
  <2> QED BY <1>1, <2>1, <2>2, Induction
<1>7. V[z + n] = U[n] BY <1>1, <1>6
<1> QED BY <1>1, <1>4, <1>7
\* The powers of two.
LEMMA Powers ==
    /\ T!pow2 \in [Nat -> Nat \ {0}] /\ T!pow2[0] = 1
    /\ \A n \in Nat : T!pow2[n + 1] = 2 * T!pow2[n]
<1> DEFINE A == Nat \ {0}
           F == [n \in Nat |-> [x \in A |-> 2 * x]]
           P == T!pow2
           Solves(g) == g = [n \in Nat |-> IF n = 0 THEN 1 ELSE 2 * g[n - 1]]
<1>1. F \in Steps(A) BY DEF Steps
<1>2. \A n \in Nat, x \in A : F[n][x] = 2 * x OBVIOUS
<1>3. P = CHOOSE g : Solves(g) BY DEF T!pow2
<1> HIDE DEF F, P
<1>4. PICK g : Recurs(g, A, 1, F) BY <1>1, Recursion
<1>5. g \in [Nat -> A] /\ g[0] = 1 /\ \A n \in Nat : g[n + 1] = 2 * g[n]
  BY <1>2, <1>4 DEF Recurs
<1>6. \A n \in Nat : g[n] = IF n = 0 THEN 1 ELSE 2 * g[n - 1]
  <2> SUFFICES ASSUME NEW n \in Nat PROVE g[n] = IF n = 0 THEN 1 ELSE 2 * g[n - 1] OBVIOUS
  <2>1. CASE n = 0 BY <2>1, <1>5
  <2>2. CASE n # 0
    <3>1. n - 1 \in Nat /\ (n - 1) + 1 = n BY <2>2
    <3> QED BY <3>1, <2>2, <1>5
  <2> QED BY <2>1, <2>2
<1>7. Solves(g) BY <1>5, <1>6
<1>8. Solves(P) BY <1>3, <1>7
<1>9. P = [n \in Nat |-> IF n = 0 THEN 1 ELSE 2 * P[n - 1]] BY <1>8
<1> HIDE DEF Solves
<1>10. P[0] = 1 /\ \A n \in Nat : P[n + 1] = 2 * P[n]
  <2>1. P[0] = 1 BY <1>9
  <2>2. ASSUME NEW n \in Nat PROVE P[n + 1] = 2 * P[n]
    <3>1. n + 1 \in Nat /\ n + 1 # 0 /\ (n + 1) - 1 = n OBVIOUS
    <3> QED BY <3>1, <1>9
  <2> QED BY <2>1, <2>2
<1> DEFINE S == {n \in Nat : P[n] \in A}
<1>11. Nat \subseteq S
  <2>1. 0 \in S BY <1>10
  <2>2. \A n \in Nat : n \in S => n + 1 \in S BY <1>10
  <2> HIDE DEF S
  <2> QED BY <2>1, <2>2, Induction
<1>12. P \in [Nat -> A]
  <2>1. P = [n \in Nat |-> P[n]] BY <1>9
  <2> QED BY <2>1, <1>11
<1> QED BY <1>10, <1>12 DEF P

\* What itoa turns round: the digits of v, without zeros at the end, and worth
\* v; of four bits of v at least one each.
Worth(s, radix, v) ==
    /\ s \in Seq(0 .. (radix - 1))
    /\ v > 0 => Len(s) > 0 /\ s[Len(s)] # 0
    /\ v = 0 => s = <<>>
    /\ T!ValueOf(T!strrev(s), radix) = v
    /\ radix = 16 => \A m \in Nat : v < T!pow2[4 * m] => Len(s) <= m

\* That is what its loop gives, for each value and both radixes.
LEMMA DigitsWorth ==
    ASSUME NEW radix \in {10, 16}, NEW v \in Nat
    PROVE  Worth(Digits(radix)[v], radix, v)
<1> DEFINE A == Seq(0 .. (radix - 1))
           D == Digits(radix)
           S == {n \in Nat : Worth(D[n], radix, n)}
<1>0. radix \in Nat /\ radix >= 2 OBVIOUS
<1>1. D \in [Nat -> A] /\ D[0] = <<>>
      /\ \A n \in Nat \ {0} : D[n] = <<n % radix>> \o D[n \div radix]
  BY <1>0, DigitsRecur
<1>2. ASSUME NEW n \in Nat, \A m \in 0 .. (n - 1) : m \in S PROVE n \in S
  <2>1. CASE n = 0
    <3> DEFINE none == <<>>
    <3>1. none \in Seq(Nat) /\ none \in A /\ Len(none) = 0 OBVIOUS
    <3>2. D[n] = none BY <1>1, <2>1
    <3> HIDE DEF none, A, D
    <3>3. T!strrev(none) \in Seq(Nat) /\ Len(T!strrev(none)) = 0 BY <3>1, Reverses
    <3>4. T!ValueOf(T!strrev(none), radix) = 0
      <4>1. T!ValueOf(T!strrev(none), radix) = Upto(T!strrev(none), radix)[Len(T!strrev(none))]
        BY Conversions
      <4>2. Upto(T!strrev(none), radix)[0] = 0 BY <3>3, <1>0, UptoRecur
      <4> QED BY <3>3, <4>1, <4>2
    <3>5. Worth(none, radix, 0) BY <3>1, <3>4 DEF Worth, none, A
    <3> QED BY <2>1, <3>2, <3>5
  <2>2. CASE n # 0
    <3> DEFINE q == n \div radix
               x == n % radix
               t == D[q]
               s == <<x>> \o t
               r == T!strrev(t)
               w == T!strrev(s)
    <3>1. q \in Nat /\ x \in 0 .. (radix - 1) /\ n = radix * q + x /\ q < n
      BY <2>2, <1>0, Quotients
    <3>2. D[n] = s BY <2>2, <1>1
    <3> HIDE DEF q, x, D
    <3>3. q \in 0 .. (n - 1) BY <3>1
    <3>4. Worth(t, radix, q) BY <3>3, <1>2
    <3> HIDE DEF t
    <3>5. t \in A /\ x \in Nat BY <3>1, <3>4, <1>0 DEF Worth
    <3>6. s \in A /\ Len(s) = Len(t) + 1 /\ s[1] = x /\ Len(t) \in Nat
      BY <3>1, <3>5
    <3>7. \A i \in 1 .. Len(t) : s[i + 1] = t[i] BY <3>5
    <3> HIDE DEF s
    <3>8. t \in Seq(Nat) /\ s \in Seq(Nat) BY <3>5, <3>6, <1>0
    <3>9. /\ r \in Seq(Nat) /\ Len(r) = Len(t)
          /\ \A i \in 1 .. Len(t) : r[i] = t[Len(t) + 1 - i]
      BY <3>8, Reverses
    <3>10. /\ w \in Seq(Nat) /\ Len(w) = Len(s)
           /\ \A i \in 1 .. Len(s) : w[i] = s[Len(s) + 1 - i]
      BY <3>8, Reverses
    <3>11. T!ValueOf(r, radix) = q BY <3>4 DEF Worth
    <3> HIDE DEF r, w
    <3>12. \A i \in 1 .. Len(r) : w[i] = r[i]
      <4> SUFFICES ASSUME NEW i \in 1 .. Len(r) PROVE w[i] = r[i] OBVIOUS
      <4> DEFINE j == Len(t) + 1 - i
      <4>1. /\ i \in 1 .. Len(t) /\ i \in 1 .. Len(s) /\ j \in 1 .. Len(t)
            /\ Len(s) + 1 - i = j + 1
        BY <3>6, <3>9
      <4>2. w[i] = s[Len(s) + 1 - i] /\ r[i] = t[Len(t) + 1 - i] BY <4>1, <3>9, <3>10
      <4>3. s[j + 1] = t[j] BY <4>1, <3>7
      <4> HIDE DEF j
      <4> QED BY <4>1, <4>2, <4>3 DEF j
    <3>13. w[Len(w)] = x
      <4>1. Len(s) \in 1 .. Len(s) /\ Len(s) + 1 - Len(s) = 1 BY <3>6
      <4> QED BY <4>1, <3>6, <3>10
    <3>14. T!ValueOf(w, radix) = n
      <4>1. Len(w) = Len(r) + 1 BY <3>6, <3>9, <3>10
      <4>2. T!ValueOf(w, radix) = T!ValueOf(r, radix) * radix + x
        BY <3>9, <3>10, <3>5, <3>12, <3>13, <4>1, <1>0, ValueAppend
      <4> QED BY <4>2, <3>11, <3>1
    <3>15. s[Len(s)] # 0
      <4>1. CASE q = 0
        <5>1. Len(t) = 0 BY <3>4, <4>1 DEF Worth
        <5> QED BY <5>1, <3>1, <3>6, <4>1, <2>2
      <4>2. CASE q > 0
        <5>1. Len(t) > 0 /\ t[Len(t)] # 0 BY <3>4, <4>2 DEF Worth
        <5>2. Len(t) \in 1 .. Len(t) BY <5>1, <3>6
        <5>3. s[Len(t) + 1] = t[Len(t)] BY <5>2, <3>7
        <5> QED BY <5>1, <5>3, <3>6
      <4> QED BY <4>1, <4>2, <3>1
    <3>16. ASSUME radix = 16, NEW m \in Nat, n < T!pow2[4 * m] PROVE Len(s) <= m
      <4>1. m # 0
        <5> SUFFICES ASSUME m = 0 PROVE FALSE OBVIOUS
        <5>1. 4 * m = 0 OBVIOUS
        <5>2. n < 1 BY <5>1, <3>16, Powers
        <5> QED BY <5>2, <2>2
      <4> DEFINE k == m - 1
                 b == 4 * k
      <4>2. k \in Nat /\ b \in Nat /\ 4 * m = (((b + 1) + 1) + 1) + 1 /\ b = 4 * k BY <4>1
      <4> HIDE DEF b
      <4>3. T!pow2[(((b + 1) + 1) + 1) + 1] = 16 * T!pow2[b] /\ T!pow2[b] \in Nat
        BY <4>2, Powers
      <4> DEFINE p == T!pow2[b]
      <4>4. n < 16 * p /\ p \in Nat BY <3>16, <4>2, <4>3
      <4> HIDE DEF p
      <4>5. q < p BY <3>1, <3>16, <4>4
      <4>6. q < T!pow2[4 * k] BY <4>2, <4>5 DEF p
      <4>7. Len(t) <= k BY <3>4, <3>16, <4>2, <4>6 DEF Worth
      <4> QED BY <4>2, <4>7, <3>6
    <3>17. Worth(s, radix, n)
      <4>1. n > 0 BY <2>2
      <4>2. Len(s) > 0 BY <3>6
      <4>3. T!ValueOf(T!strrev(s), radix) = n BY <3>14 DEF w
      <4> QED BY <2>2, <4>2, <4>3, <3>6, <3>15, <3>16 DEF Worth
    <3> QED BY <3>2, <3>17
  <2> QED BY <2>1, <2>2
<1> HIDE DEF S
<1>3. v \in S BY <1>2, StrongInduction
<1> QED BY <1>3 DEF S
\* What itoa gives: digits without a zero ahead, worth the number.
LEMMA ItoaRight ==
    ASSUME NEW radix \in {10, 16}, NEW v \in Nat
    PROVE  /\ T!itoa(v, radix) \in Seq(0 .. (radix - 1))
           /\ Len(T!itoa(v, radix)) > 0
           /\ Len(T!itoa(v, radix)) > 1 => T!itoa(v, radix)[1] # 0
           /\ T!ValueOf(T!itoa(v, radix), radix) = v
           /\ radix = 16 => \A m \in Nat \ {0} : v < T!pow2[4 * m] => Len(T!itoa(v, radix)) <= m
<1>0. radix \in Nat /\ radix >= 2 OBVIOUS
<1>1. CASE v = 0
  <2> DEFINE z == <<0>>
  <2>1. z \in Seq(0 .. (radix - 1)) /\ z \in Seq(Nat) /\ Len(z) = 1 /\ z[1] = 0 BY <1>0
  <2>2. T!itoa(v, radix) = z BY <1>1, Conversions
  <2> HIDE DEF z
  <2>3. T!ValueOf(z, radix) = 0
    <3> DEFINE U == Upto(z, radix)
    <3>1. U[0] = 0 /\ \A i \in 1 .. 1 : U[i] = U[i - 1] * radix + z[i]
      BY <2>1, <1>0, UptoRecur
    <3>2. T!ValueOf(z, radix) = U[1] BY <2>1, Conversions
    <3> HIDE DEF U
    <3>3. 1 \in 1 .. 1 /\ 1 - 1 = 0 OBVIOUS
    <3>4. U[1] = U[0] * radix + z[1] BY <3>1, <3>3
    <3>5. U[1] = 0 BY <3>1, <3>4, <2>1, <1>0
    <3> QED BY <3>2, <3>5
  <2>4. \A m \in Nat \ {0} : Len(z) <= m BY <2>1
  <2>5. z \in Seq(0 .. (radix - 1)) /\ Len(z) > 0 /\ ~(Len(z) > 1) BY <2>1
  <2>6. T!ValueOf(z, radix) = v BY <2>3, <1>1
  <2> QED BY <2>2, <2>4, <2>5, <2>6, Zenon
<1>2. CASE v # 0
  <2> DEFINE t == Digits(radix)[v]
             r == T!strrev(t)
             n == Len(t)
  <2>1. Worth(t, radix, v) BY DigitsWorth
  <2>2. T!itoa(v, radix) = r BY <1>2, Conversions
  <2> HIDE DEF t
  <2>3. /\ t \in Seq(0 .. (radix - 1)) /\ n > 0 /\ t[n] # 0 /\ T!ValueOf(r, radix) = v
        /\ radix = 16 => \A m \in Nat : v < T!pow2[4 * m] => n <= m
    BY <1>2, <2>1 DEF Worth
  <2>4. /\ r \in Seq(0 .. (radix - 1)) /\ Len(r) = n
        /\ \A i \in 1 .. n : r[i] = t[n + 1 - i]
    BY <2>3, Reverses
  <2>5. n \in Nat BY <2>3
  <2> HIDE DEF r, n
  <2>6. r[1] # 0
    <3>1. 1 \in 1 .. n /\ n + 1 - 1 = n BY <2>3, <2>5
    <3> QED BY <3>1, <2>3, <2>4
  <2> QED BY <2>2, <2>3, <2>4, <2>6
<1> QED BY <1>1, <1>2

\* %#x: as many digits as a word has.
LEMMA AlternateRight ==
    ASSUME NEW v \in Nat, v < T!pow2[BITS]
    PROVE  /\ T!alternate(v) \in Seq(0 .. 15) /\ Len(T!alternate(v)) = T!HEX_DIGITS
           /\ T!HEX_DIGITS > 0
           /\ T!ValueOf(T!alternate(v), 16) = v
<1> DEFINE h == T!HEX_DIGITS
           s == T!itoa(v, 16)
           z == h - Len(s)
           zeros == [i \in 1 .. z |-> 0]
           w == zeros \o s
<1>1. h \in Nat \ {0} /\ BITS = 4 * h
  <2>1. BITS \in Nat \ {0} /\ BITS % 4 = 0 BY LibraryAssumption
  <2>2. h = BITS \div 4 BY DEF T!HEX_DIGITS
  <2> HIDE DEF h
  <2> QED BY <2>1, <2>2
<1>2. /\ s \in Seq(0 .. 15) /\ Len(s) > 0 /\ T!ValueOf(s, 16) = v
      /\ \A m \in Nat \ {0} : v < T!pow2[4 * m] => Len(s) <= m
  <2>1. 16 \in {10, 16} /\ 16 - 1 = 15 OBVIOUS
  <2> HIDE DEF s
  <2> QED BY <2>1, ItoaRight DEF s
<1>3. T!alternate(v) = w BY DEF T!alternate
<1> HIDE DEF s, h
<1>4. Len(s) \in Nat /\ Len(s) <= h BY <1>1, <1>2
<1>5. z \in Nat BY <1>1, <1>4
<1> HIDE DEF z
<1>6. zeros \in Seq(0 .. 15) /\ Len(zeros) = z /\ \A i \in 1 .. z : zeros[i] = 0 BY <1>5
<1> HIDE DEF zeros
<1>7. /\ w \in Seq(0 .. 15) /\ Len(w) = z + Len(s) /\ \A i \in 1 .. z : w[i] = 0
      /\ \A i \in 1 .. Len(s) : w[z + i] = s[i]
  BY <1>2, <1>4, <1>5, <1>6
<1> HIDE DEF w
<1>8. s \in Seq(Nat) /\ w \in Seq(Nat)
  <2>1. ASSUME NEW x \in Seq(0 .. 15) PROVE x \in Seq(Nat) OBVIOUS
  <2> QED BY <2>1, <1>2, <1>7
<1>9. T!ValueOf(w, 16) = T!ValueOf(s, 16) BY <1>5, <1>7, <1>8, ValueZeros
<1>10. Len(w) = h BY <1>1, <1>4, <1>7 DEF z
<1> QED BY <1>1, <1>2, <1>3, <1>7, <1>9, <1>10 DEF h

\* What printf prints of v: its digits, and the sign.
RadixOf(c) == IF c \in {"x", "#x"} THEN 16 ELSE 10
Printed(c, v, r) ==
    LET negative == c = "d" /\ v < 0
        digits == IF negative THEN Tail(r) ELSE r
        value == IF c = "d" THEN v ELSE T!Unsigned(v)
    IN  /\ negative => Head(r) = T!Minus
        /\ Len(digits) > 0 /\ \A i \in 1 .. Len(digits) : digits[i] \in 0 .. (RadixOf(c) - 1)
        /\ T!ValueOf(digits, RadixOf(c)) = IF negative THEN -value ELSE value
        /\ IF c = "#x" THEN Len(digits) = T!HEX_DIGITS
           ELSE T!NoZeroAhead(digits)

\* printf prints that, of every number.
LEMMA PrintsRight ==
    ASSUME NEW c \in T!Conversions, NEW v \in T!SIGNED
    PROVE  Printed(c, v, T!printf(c, v))
<1> DEFINE p == T!pow2[BITS]
           p1 == T!pow2[BITS - 1]
           u == T!Unsigned(v)
<1>0. p1 \in Nat \ {0} /\ p = 2 * p1 /\ v \in Int /\ -p1 <= v /\ v < p1
  <2>1. BITS - 1 \in Nat /\ (BITS - 1) + 1 = BITS BY LibraryAssumption
  <2>2. p1 \in Nat \ {0} /\ p = 2 * p1 BY <2>1, Powers
  <2>3. v \in (-p1) .. (p1 - 1) BY DEF T!SIGNED, T!INT_MIN
  <2> HIDE DEF p1
  <2> QED BY <2>2, <2>3
<1>1. \A w \in Int : T!Unsigned(w) = w % p BY DEF T!Unsigned
<1> HIDE DEF p, p1
<1>2. p \in Nat \ {0} BY <1>0
<1>3. u \in Nat /\ u < p BY <1>0, <1>1, <1>2
<1>4. v < 0 => T!Unsigned(-v) = -v /\ -v \in Nat
  <2> SUFFICES ASSUME v < 0 PROVE T!Unsigned(-v) = -v /\ -v \in Nat OBVIOUS
  <2>1. -v \in 0 .. (p - 1) BY <1>0
  <2>2. (-v) % p = -v BY <2>1, <1>2
  <2> QED BY <1>1, <2>1, <2>2, <1>0
<1> HIDE DEF u
<1>5. 10 \in {10, 16} /\ 16 \in {10, 16} /\ 10 - 1 = 9 /\ 16 - 1 = 15 OBVIOUS
<1>6. CASE c = "x"
  <2> DEFINE s == T!itoa(u, 16)
  <2>1. T!printf(c, v) = s BY <1>6 DEF T!printf, u
  <2>2. s \in Seq(0 .. 15) /\ Len(s) > 0 /\ (Len(s) > 1 => s[1] # 0) /\ T!ValueOf(s, 16) = u
    BY <1>3, <1>5, ItoaRight
  <2> HIDE DEF s
  <2>3. \A i \in 1 .. Len(s) : s[i] \in 0 .. (16 - 1) BY <2>2
  <2> QED BY <1>6, <2>1, <2>2, <2>3 DEF Printed, RadixOf, T!NoZeroAhead, u
<1>7. CASE c = "#x"
  <2> DEFINE s == T!alternate(u)
  <2>1. T!printf(c, v) = s BY <1>7 DEF T!printf, u
  <2>2. s \in Seq(0 .. 15) /\ Len(s) > 0 /\ Len(s) = T!HEX_DIGITS /\ T!ValueOf(s, 16) = u
    BY <1>3, AlternateRight DEF p
  <2> HIDE DEF s
  <2>3. \A i \in 1 .. Len(s) : s[i] \in 0 .. (16 - 1) BY <2>2
  <2> QED BY <1>7, <2>1, <2>2, <2>3 DEF Printed, RadixOf, u
<1>8. CASE c = "u"
  <2> DEFINE s == T!itoa(u, 10)
  <2>1. T!printf(c, v) = s BY <1>8 DEF T!printf, u
  <2>2. s \in Seq(0 .. 9) /\ Len(s) > 0 /\ (Len(s) > 1 => s[1] # 0) /\ T!ValueOf(s, 10) = u
    BY <1>3, <1>5, ItoaRight
  <2> HIDE DEF s
  <2>3. \A i \in 1 .. Len(s) : s[i] \in 0 .. (10 - 1) BY <2>2
  <2> QED BY <1>8, <2>1, <2>2, <2>3 DEF Printed, RadixOf, T!NoZeroAhead, u
<1>9. CASE c = "d" /\ ~(v < 0)
  <2> DEFINE s == T!itoa(v, 10)
  <2>1. T!printf(c, v) = s BY <1>9 DEF T!printf
  <2>0. v \in Nat BY <1>0, <1>9
  <2>2. s \in Seq(0 .. 9) /\ Len(s) > 0 /\ (Len(s) > 1 => s[1] # 0) /\ T!ValueOf(s, 10) = v
    BY <2>0, <1>5, ItoaRight
  <2> HIDE DEF s
  <2>3. \A i \in 1 .. Len(s) : s[i] \in 0 .. (10 - 1) BY <2>2
  <2> QED BY <1>9, <2>1, <2>2, <2>3 DEF Printed, RadixOf, T!NoZeroAhead
<1>10. CASE c = "d" /\ v < 0
  <2> DEFINE s == T!itoa(-v, 10)
             r == <<T!Minus>> \o s
  <2>1. T!printf(c, v) = r BY <1>4, <1>10 DEF T!printf
  <2>2. s \in Seq(0 .. 9) /\ Len(s) > 0 /\ (Len(s) > 1 => s[1] # 0) /\ T!ValueOf(s, 10) = -v
    BY <1>4, <1>5, <1>10, ItoaRight
  <2> HIDE DEF s
  <2>3. \A i \in 1 .. Len(s) : s[i] \in 0 .. (10 - 1) BY <2>2
  <2>4. Head(r) = T!Minus /\ Tail(r) = s
    <3>1. s \in Seq(Nat) BY <2>2
    <3>2. T!Minus \in Nat BY DEF T!Minus
    <3> DEFINE m == T!Minus
    <3> HIDE DEF m
    <3>3. m \in Nat BY <3>2 DEF m
    <3>4. Head(<<m>> \o s) = m /\ Tail(<<m>> \o s) = s BY <3>1, <3>3
    <3> QED BY <3>4 DEF m
  <2> HIDE DEF r
  <2> QED BY <1>10, <2>1, <2>2, <2>3, <2>4 DEF Printed, RadixOf, T!NoZeroAhead
<1> QED BY <1>6, <1>7, <1>8, <1>9, <1>10 DEF T!Conversions

\* After every call of the library the same holds of the number printed last.
LEMMA NumbersKept ==
    ASSUME NumbersReadBack, [LibraryNext]_libraryVars
    PROVE  NumbersReadBack'
<1>1. CASE text_call' = text_call /\ result' = result
  BY <1>1 DEF NumbersReadBack, T!NumbersReadBack, T!Numeral, T!Radix
<1>2. CASE text_call'.of # "printf"
  BY <1>2 DEF NumbersReadBack, T!NumbersReadBack
<1>3. CASE T!Format
  <2>1. PICK c \in T!Conversions, v \in T!SIGNED :
           /\ text_call' = [of |-> "printf", conversion |-> c, value |-> v]
           /\ result' = T!printf(c, v)
    BY <1>3 DEF T!Format
  <2>2. text_call'.conversion = c /\ text_call'.value = v BY <2>1
  <2>3. Printed(c, v, result') BY <2>1, PrintsRight
  <2>4. T!Radix' = RadixOf(c) BY <2>2 DEF T!Radix, RadixOf
  <2> HIDE DEF T!Radix
  <2> QED BY <2>2, <2>3, <2>4
          DEF NumbersReadBack, T!NumbersReadBack, T!Numeral, Printed
<1>4. \/ text_call' = text_call /\ result' = result
      \/ text_call'.of # "printf"
      \/ T!Format
  BY DEF LibraryNext, MemoryRuns, TextRuns, libraryVars, T!Next, T!NoCall, T!Compare,
         T!CompareAll, T!Copy, T!CopyN, T!Turn
<1> QED BY <1>1, <1>2, <1>3, <1>4

\* What printf prints of a number is read back as that number, with words of any
\* number of bits, the lowest negative number included.
THEOREM NumbersAreReadBack == LibrarySpec => []NumbersReadBack
<1>1. LibraryInit => NumbersReadBack
  BY DEF LibraryInit, T!Init, T!NoCall, NumbersReadBack, T!NumbersReadBack
<1>2. NumbersReadBack /\ [LibraryNext]_libraryVars => NumbersReadBack' BY NumbersKept
<1> QED BY <1>1, <1>2, PTL DEF LibrarySpec
-----------------------------------------------------------------------------
(* Strings *)

\* A buffer with a NUL in it, and where the first one is.
IsString(b) == b \in Seq(Nat) /\ T!Terminated(b)
EndsAt(b, n) == n \in Nat /\ n < Len(b) /\ b[n + 1] = 0 /\ \A j \in 1 .. n : b[j] # 0

\* strlen is the place before it.
LEMMA LengthIs ==
    ASSUME NEW b, IsString(b)
    PROVE  /\ EndsAt(b, T!strlen(b))
           /\ \A n : EndsAt(b, n) => n = T!strlen(b)
<1> DEFINE Ends0(i) == b[i] = 0 /\ \A j \in 1 .. (i - 1) : b[j] # 0
           L == Len(b)
           nul == CHOOSE i \in 1 .. L : Ends0(i)
<1>0. b \in Seq(Nat) /\ L \in Nat BY DEF IsString
<1>1. \E i \in 1 .. L : b[i] = 0 BY DEF IsString, T!Terminated, T!NUL
<1>2. T!strlen(b) = nul - 1 BY DEF T!strlen, T!NUL
<1> HIDE DEF nul, L
<1>3. \E i \in 1 .. L : Ends0(i)
  <2> DEFINE S == {i \in 1 .. L : b[i] = 0}
  <2>1. S \subseteq Nat /\ S # {} BY <1>0, <1>1
  <2>2. PICK i \in S : \A j \in S : i <= j
    <3> HIDE DEF S
    <3> QED BY <2>1, Least
  <2>3. \A j \in 1 .. (i - 1) : b[j] # 0 BY <2>2, <1>0
  <2> QED BY <2>2, <2>3
<1>4. nul \in 1 .. L /\ Ends0(nul) BY <1>3, Zenon DEF nul
<1>5. nul - 1 \in Nat /\ nul - 1 < L /\ (nul - 1) + 1 = nul BY <1>0, <1>4
<1>6. EndsAt(b, nul - 1) BY <1>4, <1>5 DEF EndsAt, L
<1>7. ASSUME NEW n, EndsAt(b, n) PROVE n = nul - 1
  <2>1. n \in Nat /\ b[n + 1] = 0 /\ \A j \in 1 .. n : b[j] # 0 BY <1>7 DEF EndsAt
  <2>2. CASE n < nul - 1
    <3>1. n + 1 \in 1 .. (nul - 1) BY <2>1, <2>2, <1>5
    <3> QED BY <3>1, <2>1, <1>4
  <2>3. CASE n > nul - 1
    <3>1. nul \in 1 .. n BY <2>1, <2>3, <1>4, <1>5
    <3> QED BY <3>1, <2>1, <1>4
  <2> QED BY <2>1, <2>2, <2>3, <1>5
<1> QED BY <1>2, <1>6, <1>7

\* The string in a buffer, and as much of it as a count allows.
LEMMA StringIs ==
    ASSUME NEW b, IsString(b), NEW E, b \in Seq(E)
    PROVE  /\ T!strlen(b) \in Nat /\ T!strlen(b) < Len(b)
           /\ T!String(b) \in Seq(E) /\ Len(T!String(b)) = T!strlen(b)
           /\ \A i \in 1 .. T!strlen(b) : T!String(b)[i] = b[i]
<1> DEFINE n == T!strlen(b)
<1>1. n \in Nat /\ n < Len(b) BY LengthIs DEF EndsAt
<1>2. T!String(b) = SubSeq(b, 1, n) BY DEF T!String
<1> HIDE DEF n
<1>3. /\ SubSeq(b, 1, n) \in Seq(E) /\ Len(SubSeq(b, 1, n)) = n
      /\ \A i \in 1 .. n : SubSeq(b, 1, n)[i] = b[i]
  BY <1>1
<1> QED BY <1>1, <1>2, <1>3 DEF n

\* The prefix of a string is as long as the count or, if it ends before, the string.
LEMMA PrefixIs ==
    ASSUME NEW b, IsString(b), NEW n \in Nat
    PROVE  \E m \in Nat :
              /\ m = IF n < T!strlen(b) THEN n ELSE T!strlen(b)
              /\ T!Prefix(b, n) \in Seq(Nat) /\ Len(T!Prefix(b, n)) = m
              /\ \A i \in 1 .. m : T!Prefix(b, n)[i] = b[i]
<1> DEFINE m == IF n < T!strlen(b) THEN n ELSE T!strlen(b)
           s == T!String(b)
<1>1. /\ m \in Nat /\ m <= Len(s) /\ s \in Seq(Nat) /\ Len(s) = T!strlen(b)
      /\ \A i \in 1 .. T!strlen(b) : s[i] = b[i]
  <2>1. b \in Seq(Nat) BY DEF IsString
  <2> QED BY <2>1, StringIs
<1>2. T!Prefix(b, n) = SubSeq(s, 1, m) BY DEF T!Prefix
<1> HIDE DEF s, m
<1>3. /\ SubSeq(s, 1, m) \in Seq(Nat) /\ Len(SubSeq(s, 1, m)) = m
      /\ \A i \in 1 .. m : SubSeq(s, 1, m)[i] = s[i]
  BY <1>1
<1>4. \A i \in 1 .. m : i \in 1 .. T!strlen(b) BY <1>1
<1> QED BY <1>1, <1>2, <1>3, <1>4 DEF m

\* Sequences of the same elements are the same.
LEMMA SameSeq ==
    ASSUME NEW a \in Seq(Nat), NEW b \in Seq(Nat), Len(a) = Len(b),
           \A i \in 1 .. Len(a) : a[i] = b[i]
    PROVE  a = b
OBVIOUS

\* What strncmp finds: the first place at which the strings differ or both end.
Agree(a, b, i) == \A j \in 1 .. i : a[j] = b[j] /\ a[j] # 0

\* Up to there the strings agree.
LEMMA Compared ==
    ASSUME NEW a, NEW b, IsString(a), IsString(b), NEW n \in Nat, n <= Len(a), n <= Len(b)
    PROVE  \/ T!strncmp(a, b, n) = 0 /\ Agree(a, b, n)
           \/ \E i \in 1 .. n : /\ T!strncmp(a, b, n) = a[i] - b[i] /\ Agree(a, b, i - 1)
                                /\ (a[i] # b[i] \/ a[i] = 0)
<1> DEFINE stops == {i \in 1 .. n : a[i] # b[i] \/ a[i] = 0}
           first == CHOOSE k \in stops : \A j \in stops : k <= j
<1>1. T!strncmp(a, b, n) = IF stops = {} THEN 0 ELSE a[first] - b[first]
  BY DEF T!strncmp, T!NUL
<1>2. stops \subseteq Nat OBVIOUS
<1>3. CASE stops = {}
  <2>1. Agree(a, b, n) BY <1>3 DEF Agree
  <2> QED BY <1>1, <1>3, <2>1
<1>4. CASE stops # {}
  <2>1. \E k \in stops : \A j \in stops : k <= j
    <3> HIDE DEF stops
    <3> QED BY <1>2, <1>4, Least
  <2>2. first \in stops /\ \A j \in stops : first <= j
    <3> HIDE DEF stops
    <3> QED BY <2>1
  <2> HIDE DEF first
  <2>3. Agree(a, b, first - 1) BY <2>2 DEF Agree
  <2>4. first \in 1 .. n /\ (a[first] # b[first] \/ a[first] = 0) BY <2>2
  <2> QED BY <1>1, <1>4, <2>3, <2>4
<1> QED BY <1>3, <1>4

\* It tells whether the strings are the same as far as a count goes, the one it
\* compared to or, where one of them ends before, any greater one.
LEMMA ComparesRight ==
    ASSUME NEW a, NEW b, IsString(a), IsString(b), NEW n \in Nat, n <= Len(a), n <= Len(b),
           NEW N \in Nat, n <= N, N = n \/ T!strlen(a) < n \/ T!strlen(b) < n
    PROVE  /\ T!strncmp(a, b, n) = 0 <=> T!Prefix(a, N) = T!Prefix(b, N)
           /\ T!strncmp(a, b, n) < 0 =>
                 \E i \in 1 .. N : /\ SubSeq(a, 1, i - 1) = SubSeq(b, 1, i - 1) /\ a[i] < b[i]
<1> DEFINE r == T!strncmp(a, b, n)
           la == T!strlen(a)
           lb == T!strlen(b)
           pa == T!Prefix(a, N)
           pb == T!Prefix(b, N)
<1>1. a \in Seq(Nat) /\ b \in Seq(Nat) BY DEF IsString
<1>2. /\ la \in Nat /\ la < Len(a) /\ a[la + 1] = 0 /\ \A j \in 1 .. la : a[j] # 0
      /\ lb \in Nat /\ lb < Len(b) /\ b[lb + 1] = 0 /\ \A j \in 1 .. lb : b[j] # 0
  BY LengthIs DEF EndsAt
<1>3. PICK ma \in Nat : /\ ma = IF N < la THEN N ELSE la
                        /\ pa \in Seq(Nat) /\ Len(pa) = ma /\ \A i \in 1 .. ma : pa[i] = a[i]
  BY PrefixIs
<1>4. PICK mb \in Nat : /\ mb = IF N < lb THEN N ELSE lb
                        /\ pb \in Seq(Nat) /\ Len(pb) = mb /\ \A i \in 1 .. mb : pb[i] = b[i]
  BY PrefixIs
<1>5. N = n \/ la < n \/ lb < n OBVIOUS
<1>6. \/ r = 0 /\ Agree(a, b, n)
      \/ \E i \in 1 .. n : r = a[i] - b[i] /\ Agree(a, b, i - 1) /\ (a[i] # b[i] \/ a[i] = 0)
  BY Compared
<1> HIDE DEF r, la, lb, pa, pb
\* Both go on at least as far as they agree.
<1>7. ASSUME NEW i \in Nat, i <= n, Agree(a, b, i) PROVE la >= i /\ lb >= i
  <2>1. \A j \in 1 .. i : a[j] # 0 /\ b[j] # 0 BY <1>7 DEF Agree
  <2>2. la >= i
    <3> SUFFICES ASSUME la < i PROVE FALSE BY <1>2
    <3>1. la + 1 \in 1 .. i BY <1>2
    <3> QED BY <3>1, <2>1, <1>2
  <2>3. lb >= i
    <3> SUFFICES ASSUME lb < i PROVE FALSE BY <1>2
    <3>1. lb + 1 \in 1 .. i BY <1>2
    <3> QED BY <3>1, <2>1, <1>2
  <2> QED BY <2>2, <2>3
<1>8. CASE r = 0 /\ Agree(a, b, n)
  <2>1. la >= n /\ lb >= n BY <1>7, <1>8
  <2>2. N = n /\ ma = n /\ mb = n BY <2>1, <1>2, <1>3, <1>4, <1>5
  <2>3. \A i \in 1 .. n : a[i] = b[i] BY <1>8 DEF Agree
  <2>4. pa = pb BY <2>2, <2>3, <1>3, <1>4, SameSeq
  <2> QED BY <1>8, <2>4 DEF r, pa, pb
<1>9. ASSUME NEW i \in 1 .. n, r = a[i] - b[i], Agree(a, b, i - 1), a[i] # b[i] \/ a[i] = 0
      PROVE  /\ r = 0 <=> pa = pb
             /\ r < 0 => \E k \in 1 .. N : SubSeq(a, 1, k - 1) = SubSeq(b, 1, k - 1) /\ a[k] < b[k]
  <2>0. i - 1 \in Nat /\ i - 1 <= n /\ i <= N /\ i \in 1 .. Len(a) /\ i \in 1 .. Len(b) BY <1>1
  <2>1. la >= i - 1 /\ lb >= i - 1 BY <2>0, <1>7, <1>9
  <2>2. a[i] \in Nat /\ b[i] \in Nat BY <2>0, <1>1
  <2>3. \A j \in 1 .. (i - 1) : a[j] = b[j] BY <1>9 DEF Agree
  <2>4. r = 0 <=> a[i] = b[i] BY <1>9, <2>2
  <2>5. CASE a[i] = b[i]
    <3>1. a[i] = 0 /\ b[i] = 0 BY <1>9, <2>5
    <3>2. la = i - 1
      <4> SUFFICES ASSUME la > i - 1 PROVE FALSE BY <2>1, <2>0, <1>2
      <4>1. i \in 1 .. la BY <1>2
      <4> QED BY <4>1, <3>1, <1>2
    <3>3. lb = i - 1
      <4> SUFFICES ASSUME lb > i - 1 PROVE FALSE BY <2>1, <2>0, <1>2
      <4>1. i \in 1 .. lb BY <1>2
      <4> QED BY <4>1, <3>1, <1>2
    <3>4. ma = i - 1 /\ mb = i - 1 BY <3>2, <3>3, <2>0, <1>3, <1>4
    <3>5. pa = pb BY <3>4, <2>3, <1>3, <1>4, SameSeq
    <3>6. r = 0 BY <2>4, <2>5
    <3> QED BY <3>5, <3>6
  <2>6. CASE a[i] # b[i]
    <3>1. pa # pb
      <4> SUFFICES ASSUME pa = pb PROVE FALSE OBVIOUS
      <4>1. ma = mb BY <1>3, <1>4
      <4>2. CASE ma >= i
        <5>1. i \in 1 .. ma /\ i \in 1 .. mb BY <4>1, <4>2
        <5> QED BY <5>1, <1>3, <1>4, <2>6
      <4>3. CASE ma < i
        <5>1. ma = IF N < la THEN N ELSE la BY <1>3
        <5>2. mb = IF N < lb THEN N ELSE lb BY <1>4
        <5>3. la \in Nat /\ lb \in Nat BY <1>2
        <5>4. ma = la /\ mb = lb BY <5>1, <5>2, <5>3, <4>1, <4>3, <2>0
        <5>5. la = i - 1 /\ lb = i - 1 BY <5>3, <5>4, <4>1, <4>3, <2>0, <2>1
        <5>6. la + 1 = i /\ lb + 1 = i BY <5>5
        <5> QED BY <5>6, <1>2, <2>6
      <4> QED BY <4>2, <4>3
    <3>2. r < 0 => \E k \in 1 .. N : SubSeq(a, 1, k - 1) = SubSeq(b, 1, k - 1) /\ a[k] < b[k]
      <4> SUFFICES ASSUME r < 0
                   PROVE  \E k \in 1 .. N :
                             SubSeq(a, 1, k - 1) = SubSeq(b, 1, k - 1) /\ a[k] < b[k]
        OBVIOUS
      <4>1. a[i] < b[i] BY <1>9, <2>2
      <4> DEFINE m == i - 1
      <4>2. m \in Nat /\ m <= Len(a) /\ m <= Len(b) BY <2>0, <1>1
      <4> HIDE DEF m
      <4>3. /\ SubSeq(a, 1, m) \in Seq(Nat) /\ Len(SubSeq(a, 1, m)) = m
            /\ \A j \in 1 .. m : SubSeq(a, 1, m)[j] = a[j]
        BY <4>2, <1>1
      <4>4. /\ SubSeq(b, 1, m) \in Seq(Nat) /\ Len(SubSeq(b, 1, m)) = m
            /\ \A j \in 1 .. m : SubSeq(b, 1, m)[j] = b[j]
        BY <4>2, <1>1
      <4>5. \A j \in 1 .. m : a[j] = b[j] BY <2>3 DEF m
      <4>6. SubSeq(a, 1, m) = SubSeq(b, 1, m) BY <4>3, <4>4, <4>5, SameSeq
      <4>7. i \in 1 .. N BY <2>0
      <4> QED BY <4>1, <4>6, <4>7 DEF m
    <3>3. r # 0 BY <2>4, <2>6
    <3> QED BY <3>1, <3>2, <3>3
  <2> QED BY <2>5, <2>6
<1> QED BY <1>6, <1>8, <1>9 DEF r, pa, pb

\* What the calls are made with: buffers of at least one byte and at most MAX_LEN.
LEMMA BuffersAre ==
    ASSUME NEW b \in T!Buffers
    PROVE  b \in Seq(Nat) /\ Len(b) \in 1 .. MAX_LEN
<1>1. PICK n \in 1 .. MAX_LEN : b \in [1 .. n -> T!Bytes]
  <2> DEFINE R == {[1 .. n -> T!Bytes] : n \in 1 .. MAX_LEN}
  <2>1. PICK S \in R : b \in S BY DEF T!Buffers
  <2> QED BY <2>1
<1>2. T!Bytes \subseteq Nat BY DEF T!Bytes, T!NUL, T!Letter
<1>3. n \in Nat /\ n \in 1 .. MAX_LEN BY <1>1, LibraryAssumption
<1>4. b \in [1 .. n -> Nat] BY <1>1, <1>2
<1>5. b \in Seq(Nat) /\ Len(b) = n BY <1>3, <1>4
<1> QED BY <1>3, <1>5

\* The ones with a NUL in them.
LEMMA StringsAre ==
    ASSUME NEW b \in T!Strings
    PROVE  IsString(b) /\ Len(b) \in 1 .. MAX_LEN
BY BuffersAre DEF T!Strings, IsString

\* strcpy leaves the string it was given, and its NUL.
LEMMA CopiesRight ==
    ASSUME NEW d, d \in Seq(Nat), NEW s, IsString(s), Len(d) > T!strlen(s)
    PROVE  LET r == T!strcpy(d, s) IN
           /\ T!Terminated(r) /\ T!String(r) = T!String(s)
           /\ \A i \in (T!strlen(s) + 2) .. Len(r) : r[i] = d[i]
<1> DEFINE l == T!strlen(s)
           r == T!strcpy(d, s)
<1>1. s \in Seq(Nat) BY DEF IsString
<1>2. l \in Nat /\ l < Len(s) /\ s[l + 1] = 0 /\ \A j \in 1 .. l : s[j] # 0
  BY LengthIs DEF EndsAt
<1>0. l + 1 \in 1 .. Len(d)
  <2> HIDE DEF l
  <2>1. Len(d) > l BY DEF l
  <2> QED BY <2>1, <1>2
<1>3. r = [i \in 1 .. Len(d) |-> IF i <= l + 1 THEN s[i] ELSE d[i]] BY DEF T!strcpy
<1>4. T!String(s) \in Seq(Nat) /\ Len(T!String(s)) = l
      /\ \A i \in 1 .. l : T!String(s)[i] = s[i]
  BY <1>1, StringIs
<1> HIDE DEF l, r
<1>5. \A i \in 1 .. Len(d) : (IF i <= l + 1 THEN s[i] ELSE d[i]) \in Nat
  <2> SUFFICES ASSUME NEW i \in 1 .. Len(d)
               PROVE  (IF i <= l + 1 THEN s[i] ELSE d[i]) \in Nat
    OBVIOUS
  <2>1. CASE i <= l + 1
    <3>1. i \in 1 .. Len(s) BY <2>1, <1>1, <1>2
    <3> QED BY <3>1, <2>1, <1>1
  <2>2. CASE ~(i <= l + 1) BY <2>2
  <2> QED BY <2>1, <2>2
<1>6. r \in Seq(Nat) /\ Len(r) = Len(d)
      /\ \A i \in 1 .. Len(d) : r[i] = IF i <= l + 1 THEN s[i] ELSE d[i]
  BY <1>3, <1>5
<1>7. l + 1 \in 1 .. Len(r) /\ r[l + 1] = 0 BY <1>0, <1>2, <1>6
<1>8. ASSUME NEW j \in 1 .. l PROVE r[j] = s[j]
  <2>1. j \in 1 .. Len(d) /\ j <= l + 1 BY <1>0, <1>2
  <2> QED BY <2>1, <1>6
<1>9. IsString(r) BY <1>6, <1>7 DEF IsString, T!Terminated, T!NUL
<1>10. EndsAt(r, l) BY <1>2, <1>6, <1>7, <1>8 DEF EndsAt
<1>11. T!strlen(r) = l BY <1>9, <1>10, LengthIs
<1>12. T!String(r) \in Seq(Nat) /\ Len(T!String(r)) = l
       /\ \A i \in 1 .. l : T!String(r)[i] = r[i]
  BY <1>6, <1>9, <1>11, StringIs
<1>13. T!String(r) = T!String(s) BY <1>4, <1>8, <1>12, SameSeq
<1>14. \A i \in (l + 2) .. Len(r) : r[i] = d[i] BY <1>0, <1>2, <1>6
<1> QED BY <1>9, <1>13, <1>14 DEF IsString, l, r

\* strncpy leaves as much of the string as the count allows, NULs up to the
\* count, and the rest of the buffer alone.
LEMMA CutsRight ==
    ASSUME NEW d, d \in Seq(Nat), NEW s, IsString(s), NEW n \in Nat, n <= Len(d)
    PROVE  LET r == T!strncpy(d, s, n)
               kept == SubSeq(r, 1, n)
           IN  /\ IF T!strlen(s) < n THEN T!String(kept) = T!String(s)
                  ELSE kept = SubSeq(s, 1, n)
               /\ \A i \in 1 .. n : i > T!strlen(s) => r[i] = 0
               /\ \A i \in (n + 1) .. Len(r) : r[i] = d[i]
<1> DEFINE l == T!strlen(s)
           r == T!strncpy(d, s, n)
           kept == SubSeq(r, 1, n)
           At(i) == IF i > n THEN d[i] ELSE IF i <= l THEN s[i] ELSE 0
<1>1. s \in Seq(Nat) BY DEF IsString
<1>2. l \in Nat /\ l < Len(s) /\ s[l + 1] = 0 /\ \A j \in 1 .. l : s[j] # 0
  BY LengthIs DEF EndsAt
<1>3. r = [i \in 1 .. Len(d) |-> At(i)] BY DEF T!strncpy, T!NUL
<1>4. T!String(s) \in Seq(Nat) /\ Len(T!String(s)) = l
      /\ \A i \in 1 .. l : T!String(s)[i] = s[i]
  BY <1>1, StringIs
<1> HIDE DEF l, r
<1>5. \A i \in 1 .. Len(d) : At(i) \in Nat
  <2> SUFFICES ASSUME NEW i \in 1 .. Len(d) PROVE At(i) \in Nat OBVIOUS
  <2>1. CASE i > n BY <2>1
  <2>2. CASE ~(i > n) /\ i <= l
    <3>1. i \in 1 .. Len(s) BY <2>2, <1>1, <1>2
    <3> QED BY <3>1, <2>2, <1>1
  <2>3. CASE ~(i > n) /\ ~(i <= l) BY <2>3
  <2> QED BY <2>1, <2>2, <2>3
<1>6. r \in Seq(Nat) /\ Len(r) = Len(d) /\ \A i \in 1 .. Len(d) : r[i] = At(i)
  <2> HIDE DEF At
  <2> QED BY <1>3, <1>5
<1>7. /\ kept \in Seq(Nat) /\ Len(kept) = n
      /\ \A i \in 1 .. n : kept[i] = r[i]
  BY <1>6
<1>8. \A i \in 1 .. n : i \in 1 .. Len(d) OBVIOUS
<1>9. \A i \in 1 .. n : kept[i] = IF i <= l THEN s[i] ELSE 0 BY <1>6, <1>7, <1>8
<1> HIDE DEF kept
<1>10. ASSUME l < n PROVE T!String(kept) = T!String(s)
  <2>1. l + 1 \in 1 .. Len(kept) /\ kept[l + 1] = 0 BY <1>2, <1>7, <1>9, <1>10
  <2>2. \A j \in 1 .. l : kept[j] = s[j] BY <1>2, <1>9, <1>10
  <2>3. IsString(kept) BY <2>1, <1>7 DEF IsString, T!Terminated, T!NUL
  <2>4. EndsAt(kept, l) BY <1>2, <1>7, <1>10, <2>1, <2>2 DEF EndsAt
  <2>5. T!strlen(kept) = l BY <2>3, <2>4, LengthIs
  <2>6. T!String(kept) \in Seq(Nat) /\ Len(T!String(kept)) = l
        /\ \A i \in 1 .. l : T!String(kept)[i] = kept[i]
    BY <1>7, <2>3, <2>5, StringIs
  <2> QED BY <1>4, <2>2, <2>6, SameSeq
<1>11. ASSUME ~(l < n) PROVE kept = SubSeq(s, 1, n)
  <2> DEFINE c == SubSeq(s, 1, n)
  <2>1. n <= Len(s) BY <1>1, <1>2, <1>11
  <2>2. c \in Seq(Nat) /\ Len(c) = n /\ \A i \in 1 .. n : c[i] = s[i] BY <1>1, <2>1
  <2>3. \A i \in 1 .. n : kept[i] = s[i] BY <1>2, <1>9, <1>11
  <2> HIDE DEF c
  <2>4. kept = c BY <1>7, <2>2, <2>3, SameSeq
  <2> QED BY <2>4 DEF c
<1>12. \A i \in 1 .. n : i > l => r[i] = 0 BY <1>2, <1>7, <1>9
<1>13. \A i \in (n + 1) .. Len(r) : r[i] = d[i] BY <1>6
<1> QED BY <1>10, <1>11, <1>12, <1>13 DEF l, r, kept

\* What a comparison that gave r tells of the strings up to the count n.
Tells(a, b, n, r) ==
    /\ r = 0 <=> T!Prefix(a, n) = T!Prefix(b, n)
    /\ r < 0 => \E i \in 1 .. n : SubSeq(a, 1, i - 1) = SubSeq(b, 1, i - 1) /\ a[i] < b[i]

\* strncmp and strcmp, on the strings they are called with.
LEMMA CompareCalls ==
    ASSUME NEW a \in T!Strings, NEW b \in T!Strings
    PROVE  /\ \A n \in T!Counts : Len(a) = MAX_LEN /\ Len(b) = MAX_LEN =>
                 Tells(a, b, n, T!strncmp(a, b, n))
           /\ Tells(a, b, MAX_LEN, T!strcmp(a, b))
<1>1. IsString(a) /\ IsString(b) /\ Len(a) \in 1 .. MAX_LEN /\ Len(b) \in 1 .. MAX_LEN
  BY StringsAre
<1>2. MAX_LEN \in Nat BY LibraryAssumption
<1>3. ASSUME NEW n \in T!Counts, Len(a) = MAX_LEN, Len(b) = MAX_LEN
      PROVE  Tells(a, b, n, T!strncmp(a, b, n))
  <2>1. n \in Nat /\ n <= Len(a) /\ n <= Len(b) /\ n <= n BY <1>2, <1>3 DEF T!Counts
  <2> QED BY <1>1, <2>1, ComparesRight DEF Tells
<1>4. Tells(a, b, MAX_LEN, T!strcmp(a, b))
  <2> DEFINE n == IF Len(a) < Len(b) THEN Len(a) ELSE Len(b)
             la == T!strlen(a)
             lb == T!strlen(b)
  <2>1. T!strcmp(a, b) = T!strncmp(a, b, n) BY DEF T!strcmp
  <2>2. la \in Nat /\ la < Len(a) /\ lb \in Nat /\ lb < Len(b) BY <1>1, LengthIs DEF EndsAt
  <2> HIDE DEF la, lb
  <2>3. n \in Nat /\ n <= Len(a) /\ n <= Len(b) /\ n <= MAX_LEN /\ (la < n \/ lb < n)
    BY <1>1, <1>2, <2>2
  <2> HIDE DEF n
  <2> QED BY <1>1, <1>2, <2>1, <2>3, ComparesRight DEF Tells, la, lb
<1> QED BY <1>3, <1>4

\* After every call of the library the same holds of the strings.
LEMMA StringsKept ==
    ASSUME StringsRight, [LibraryNext]_libraryVars
    PROVE  StringsRight'
<1>1. CASE text_call' = text_call /\ result' = result
  BY <1>1 DEF StringsRight, T!ComparesStrings, T!CopiesStrings, T!TurnsRound, T!SameUpTo
<1>2. CASE text_call'.of \notin {"strncmp", "strcmp", "strcpy", "strncpy", "strrev"}
  BY <1>2 DEF StringsRight, T!ComparesStrings, T!CopiesStrings, T!TurnsRound
<1>3. CASE T!Compare
  <2>1. PICK a \in T!Strings, b \in T!Strings, n \in T!Counts :
           /\ Len(a) = MAX_LEN /\ Len(b) = MAX_LEN
           /\ text_call' = [of |-> "strncmp", s1 |-> a, s2 |-> b, n |-> n]
           /\ result' = <<T!strncmp(a, b, n)>>
    BY <1>3 DEF T!Compare
  <2> DEFINE r == T!strncmp(a, b, n)
  <2>2. Tells(a, b, n, r) BY <2>1, CompareCalls
  <2> HIDE DEF r
  <2>3. /\ text_call'.of = "strncmp" /\ text_call'.s1 = a /\ text_call'.s2 = b
        /\ text_call'.n = n /\ result'[1] = r
    BY <2>1 DEF r
  <2>4. T!ComparesStrings' BY <2>2, <2>3, Zenon DEF T!ComparesStrings, T!SameUpTo, Tells
  <2> QED BY <2>3, <2>4 DEF StringsRight, T!CopiesStrings, T!TurnsRound
<1>4. CASE T!CompareAll
  <2>1. PICK a \in T!Strings, b \in T!Strings :
           /\ text_call' = [of |-> "strcmp", s1 |-> a, s2 |-> b]
           /\ result' = <<T!strcmp(a, b)>>
    BY <1>4 DEF T!CompareAll
  <2> DEFINE r == T!strcmp(a, b)
  <2>2. Tells(a, b, MAX_LEN, r) BY CompareCalls
  <2> HIDE DEF r
  <2>3. /\ text_call'.of = "strcmp" /\ text_call'.s1 = a /\ text_call'.s2 = b
        /\ result'[1] = r
    BY <2>1 DEF r
  <2>4. T!ComparesStrings' BY <2>2, <2>3, Zenon DEF T!ComparesStrings, T!SameUpTo, Tells
  <2> QED BY <2>3, <2>4 DEF StringsRight, T!CopiesStrings, T!TurnsRound
<1>5. CASE T!Copy
  <2>1. PICK d \in T!Buffers, s \in T!Strings :
           /\ Len(d) > T!strlen(s)
           /\ text_call' = [of |-> "strcpy", dest |-> d, src |-> s]
           /\ result' = T!strcpy(d, s)
    BY <1>5 DEF T!Copy
  <2>2. d \in Seq(Nat) /\ IsString(s) BY BuffersAre, StringsAre
  <2> DEFINE r == T!strcpy(d, s)
  <2>3. /\ T!Terminated(r) /\ T!String(r) = T!String(s)
        /\ \A i \in (T!strlen(s) + 2) .. Len(r) : r[i] = d[i]
    BY <2>1, <2>2, CopiesRight
  <2> HIDE DEF r
  <2>4. /\ text_call'.of = "strcpy" /\ text_call'.dest = d /\ text_call'.src = s
        /\ result' = r
    BY <2>1 DEF r
  <2>5. T!CopiesStrings' BY <2>3, <2>4 DEF T!CopiesStrings
  <2> QED BY <2>4, <2>5 DEF StringsRight, T!ComparesStrings, T!TurnsRound
<1>6. CASE T!CopyN
  <2>1. PICK d \in T!Buffers, s \in T!Strings, n \in T!Counts :
           /\ n <= Len(d)
           /\ text_call' = [of |-> "strncpy", dest |-> d, src |-> s, n |-> n]
           /\ result' = T!strncpy(d, s, n)
    BY <1>6 DEF T!CopyN
  <2>2. d \in Seq(Nat) /\ IsString(s) /\ n \in Nat
    BY BuffersAre, StringsAre, LibraryAssumption DEF T!Counts
  <2> DEFINE r == T!strncpy(d, s, n)
             kept == SubSeq(r, 1, n)
  <2>3. /\ IF T!strlen(s) < n THEN T!String(kept) = T!String(s) ELSE kept = SubSeq(s, 1, n)
        /\ \A i \in 1 .. n : i > T!strlen(s) => r[i] = 0
        /\ \A i \in (n + 1) .. Len(r) : r[i] = d[i]
    BY <2>1, <2>2, CutsRight
  <2> HIDE DEF r
  <2>4. /\ text_call'.of = "strncpy" /\ text_call'.dest = d /\ text_call'.src = s
        /\ text_call'.n = n /\ result' = r
    BY <2>1 DEF r
  <2>5. T!CopiesStrings' BY <2>3, <2>4 DEF T!CopiesStrings, T!NUL
  <2> QED BY <2>4, <2>5 DEF StringsRight, T!ComparesStrings, T!TurnsRound
<1>7. CASE T!Turn
  <2>1. PICK b \in T!Strings :
           /\ text_call' = [of |-> "strrev", s |-> T!String(b)]
           /\ result' = T!strrev(T!String(b))
    BY <1>7 DEF T!Turn
  <2> DEFINE s == T!String(b)
             r == T!strrev(s)
  <2>2. s \in Seq(Nat)
    <3>1. IsString(b) /\ b \in Seq(Nat) BY StringsAre DEF IsString
    <3> QED BY <3>1, StringIs
  <2> HIDE DEF s
  <2>3. Len(r) = Len(s) /\ \A i \in 1 .. Len(s) : r[i] = s[Len(s) + 1 - i]
    BY <2>2, Reverses
  <2> HIDE DEF r
  <2>4. text_call'.of = "strrev" /\ text_call'.s = s /\ result' = r BY <2>1 DEF r, s
  <2>5. T!TurnsRound' BY <2>3, <2>4 DEF T!TurnsRound
  <2> QED BY <2>4, <2>5 DEF StringsRight, T!ComparesStrings, T!CopiesStrings
<1>8. \/ text_call' = text_call /\ result' = result
      \/ text_call'.of \notin {"strncmp", "strcmp", "strcpy", "strncpy", "strrev"}
      \/ T!Compare \/ T!CompareAll \/ T!Copy \/ T!CopyN \/ T!Turn
  BY DEF LibraryNext, MemoryRuns, TextRuns, libraryVars, T!Next, T!NoCall, T!Format
<1> QED BY <1>1, <1>2, <1>3, <1>4, <1>5, <1>6, <1>7, <1>8

\* Comparisons tell strings apart as far as the count goes and no further than
\* their NULs, a copy is the string cut at the count, and strrev turns a string
\* round, for buffers of any size.
THEOREM StringsAreRight == LibrarySpec => []StringsRight
<1>1. LibraryInit => StringsRight
  BY DEF LibraryInit, T!Init, T!NoCall, StringsRight, T!ComparesStrings, T!CopiesStrings,
         T!TurnsRound
<1>2. StringsRight /\ [LibraryNext]_libraryVars => StringsRight' BY StringsKept
<1> QED BY <1>1, <1>2, PTL DEF LibrarySpec
=============================================================================
