--------------------------- MODULE ProgramsProof ---------------------------
(***************************************************************************)
(* Proofs about Programs.  The blinkers: the list of blink.S is the taken  *)
(* structures of the pool, each once, and what blinks is what they say,    *)
(* for every pool, screen and choice of phases.  The shell: the program    *)
(* that runs is the one the first word of the line names, with the rest of *)
(* the line, and the shell says "no such command" exactly when none ran,   *)
(* for every image whose files hold a byte and every line of the keyboard. *)
(* The texts: grep prints the lines of the file that hold the pattern, in  *)
(* their order, for every file, pattern and buffer; fish draws a picture   *)
(* where its rows and columns put it and reads no file it has closed; and  *)
(* each step of either leaves less to do.                                  *)
(***************************************************************************)
EXTENDS Programs, FiniteSetTheorems, Induction
-----------------------------------------------------------------------------
(* The list of blinkers *)

\* The structures of the pool, and what a taken and a free one look like.
Structs == [location : Locations \cup {0}, on_length : B!Counts \cup {0},
            off_length : B!Counts \cup {0}, countdown : B!Counts \cup {0},
            status : {0, 1}, next : B!Nodes \cup {B!NULL}]
Taken(arr, n) == arr[n].location # 0

\* l is the list that begins at head: its structures, in order, are the taken ones.
ListOf(arr, head, l) ==
    /\ l \in Seq(B!Nodes)
    /\ \A i, j \in 1 .. Len(l) : l[i] = l[j] => i = j
    /\ head = IF Len(l) = 0 THEN B!NULL ELSE l[1]
    /\ \A i \in 1 .. Len(l) : arr[l[i]].next = IF i = Len(l) THEN B!NULL ELSE l[i + 1]
    /\ \A n \in B!Nodes : Taken(arr, n) <=> \E i \in 1 .. Len(l) : l[i] = n

\* A list in which no structure is twice is no longer than the pool.
LEMMA ListFits ==
    ASSUME NEW l \in Seq(B!Nodes), \A i, j \in 1 .. Len(l) : l[i] = l[j] => i = j
    PROVE  Len(l) <= POOL
<1>1. POOL \in Nat /\ Len(l) \in Nat BY ProgramsAssumption
<1>2. ASSUME NEW m \in Nat PROVE IsFiniteSet(1 .. m) /\ Cardinality(1 .. m) = m
  <2>1. /\ IsFiniteSet(1 .. m) /\ Cardinality(1 .. m) = IF 1 > m THEN 0 ELSE (m - 1) + 1
    BY FS_Interval
  <2>2. (IF 1 > m THEN 0 ELSE (m - 1) + 1) = m OBVIOUS
  <2> QED BY <2>1, <2>2
<1>3. l \in Injection(1 .. Len(l), 1 .. POOL)
  <2>a. l \in [1 .. Len(l) -> B!Nodes] OBVIOUS
  <2>b. B!Nodes = 1 .. POOL BY DEF B!Nodes
  <2>1. l \in [1 .. Len(l) -> 1 .. POOL] BY <2>a, <2>b
  <2> QED BY <2>1 DEF Injection, IsInjective
<1>4. IsFiniteSet(1 .. POOL) /\ Cardinality(1 .. POOL) = POOL /\ Cardinality(1 .. Len(l)) = Len(l)
  BY <1>1, <1>2
<1>5. Cardinality(1 .. Len(l)) <= Cardinality(1 .. POOL) BY <1>3, <1>4, FS_Injection
<1> QED BY <1>4, <1>5

\* What following the list from its head gives after k steps.
Walked(l, k) == IF k < Len(l) THEN SubSeq(l, 1, k + 1) ELSE Append(l, B!NULL)

\* The first is the head, each is one step from the one before, the last has it all.
LEMMA WalkedSteps ==
    ASSUME NEW arr, NEW head, NEW l, ListOf(arr, head, l), NEW k \in Nat
    PROVE  /\ Walked(l, 0) = <<head>>
           /\ k > 0 => LET w == Walked(l, k - 1)
                      IN  Walked(l, k) = IF w[Len(w)] = B!NULL THEN w ELSE Append(w, arr[w[Len(w)]].next)
           /\ k >= Len(l) => Walked(l, k) = Append(l, B!NULL)
<1>1. l \in Seq(B!Nodes) /\ Len(l) \in Nat BY DEF ListOf
<1>2. Walked(l, 0) = <<head>>
  <2>1. CASE Len(l) = 0
    <3>1. l = <<>> BY <1>1, <2>1
    <3> QED BY <2>1, <3>1 DEF Walked, ListOf
  <2>2. CASE Len(l) > 0
    <3>a. SubSeq(l, 1, 1) \in Seq(B!Nodes) /\ Len(SubSeq(l, 1, 1)) = 1 /\ SubSeq(l, 1, 1)[1] = l[1]
      BY <1>1, <2>2
    <3>1. SubSeq(l, 1, 1) = <<l[1]>> /\ 0 + 1 = 1
      <4> DEFINE q == SubSeq(l, 1, 1)
      <4> HIDE DEF q
      <4>1. q \in Seq(B!Nodes) /\ Len(q) = 1 => q = <<q[1]>> OBVIOUS
      <4> QED BY <3>a, <4>1 DEF q
    <3> QED BY <2>2, <3>1 DEF Walked, ListOf
  <2> QED BY <1>1, <2>1, <2>2
<1>3. ASSUME k > 0
      PROVE LET w == Walked(l, k - 1)
            IN  Walked(l, k) = IF w[Len(w)] = B!NULL THEN w ELSE Append(w, arr[w[Len(w)]].next)
  <2> DEFINE w == Walked(l, k - 1)
  <2>1. CASE k - 1 >= Len(l)
    <3>1. w = Append(l, B!NULL) /\ Walked(l, k) = Append(l, B!NULL) BY <1>1, <1>3, <2>1 DEF Walked
    <3>2. w[Len(w)] = B!NULL BY <1>1, <3>1
    <3> QED BY <3>1, <3>2
  <2>2. CASE k - 1 < Len(l)
    <3>1. w = SubSeq(l, 1, k) BY <1>1, <1>3, <2>2 DEF Walked
    <3>2. Len(w) = k /\ w[Len(w)] = l[k] /\ k \in 1 .. Len(l) BY <1>1, <1>3, <2>2, <3>1
    <3>a. l[k] \in B!Nodes BY <1>1, <3>2
    <3>b. \A n \in B!Nodes : n # B!NULL BY ProgramsAssumption DEF B!Nodes, B!NULL
    <3>3. w[Len(w)] # B!NULL BY <3>2, <3>a, <3>b
    <3>4. arr[l[k]].next = IF k = Len(l) THEN B!NULL ELSE l[k + 1] BY <3>2 DEF ListOf
    <3>5. Walked(l, k) = Append(w, arr[l[k]].next)
      <4>1. CASE k = Len(l)
        <5>1. w = l BY <1>1, <3>1, <4>1
        <5> QED BY <1>1, <3>4, <4>1, <5>1 DEF Walked
      <4>2. CASE k < Len(l)
        <5>1. SubSeq(l, 1, k + 1) = Append(SubSeq(l, 1, k), l[k + 1]) BY <1>1, <3>2, <4>2
        <5> QED BY <3>1, <3>2, <3>4, <4>2, <5>1 DEF Walked
      <4> QED BY <1>1, <3>2, <4>1, <4>2
    <3> QED BY <3>2, <3>3, <3>5
  <2> QED BY <1>1, <2>1, <2>2
<1>4. k >= Len(l) => Walked(l, k) = Append(l, B!NULL) BY <1>1 DEF Walked
<1> QED BY <1>2, <1>3, <1>4

\* So List is the list.
LEMMA ListIs ==
    ASSUME NEW l, ListOf(blink_array, mp1_list_head, l)
    PROVE  /\ B!Ends /\ B!List = l /\ Len(l) \in Nat /\ Len(l) <= POOL
           /\ B!Listed = {n \in B!Nodes : Taken(blink_array, n)}
<1>1. l \in Seq(B!Nodes) /\ Len(l) \in Nat /\ POOL \in Nat BY ProgramsAssumption DEF ListOf
<1>2. Len(l) <= POOL BY <1>1, ListFits DEF ListOf
<1> DEFINE Unroll(from) == [k \in 0 .. POOL |->
                          IF k = 0 THEN <<mp1_list_head>>
                          ELSE LET w == from[k - 1]
                               IN  IF w[Len(w)] = B!NULL THEN w
                                   ELSE Append(w, blink_array[w[Len(w)]].next)]
           g == [k \in 0 .. POOL |-> Walked(l, k)]
           f == CHOOSE from : from = Unroll(from)
<1>3. B!Followed = f[POOL] BY DEF B!Followed
<1>4. g = Unroll(g)
  <2>1. \A k \in 0 .. POOL : k # 0 => k - 1 \in 0 .. POOL BY <1>1
  <2>2. \A k \in 0 .. POOL : k \in Nat BY <1>1
  <2>3. \A k \in 0 .. POOL : k = 0 => Walked(l, k) = <<mp1_list_head>> BY WalkedSteps
  <2>4. ASSUME NEW k \in 0 .. POOL, k # 0
        PROVE  LET w == Walked(l, k - 1)
               IN  Walked(l, k) = IF w[Len(w)] = B!NULL THEN w ELSE Append(w, blink_array[w[Len(w)]].next)
    BY <2>2, <2>4, WalkedSteps
  <2> QED BY <2>1, <2>3, <2>4
<1>5. f = Unroll(f) BY <1>4
<1> HIDE DEF f
<1>6. \A k \in Nat : k <= POOL => f[k] = Walked(l, k)
  <2> DEFINE S == {k \in Nat : k <= POOL => f[k] = Walked(l, k)}
  <2>1. 0 \in S
    <3>1. f[0] = <<mp1_list_head>> BY <1>1, <1>5
    <3> QED BY <3>1, WalkedSteps
  <2>2. ASSUME NEW k \in Nat, k \in S PROVE k + 1 \in S
    <3> SUFFICES ASSUME k + 1 <= POOL PROVE f[k + 1] = Walked(l, k + 1) OBVIOUS
    <3>1. k + 1 \in 0 .. POOL /\ k <= POOL /\ k + 1 # 0 /\ (k + 1) - 1 = k BY <1>1
    <3>2. f[k] = Walked(l, k) BY <2>2, <3>1
    <3>3. f[k + 1] = LET w == f[k]
                     IN  IF w[Len(w)] = B!NULL THEN w ELSE Append(w, blink_array[w[Len(w)]].next)
      BY <1>5, <3>1
    <3>4. Walked(l, k + 1) = LET w == Walked(l, k)
                     IN  IF w[Len(w)] = B!NULL THEN w ELSE Append(w, blink_array[w[Len(w)]].next)
      <4>1. k + 1 \in Nat /\ k + 1 > 0 OBVIOUS
      <4>2. LET w == Walked(l, (k + 1) - 1)
            IN  Walked(l, k + 1) = IF w[Len(w)] = B!NULL THEN w ELSE Append(w, blink_array[w[Len(w)]].next)
        BY <4>1, WalkedSteps
      <4> QED BY <3>1, <4>2
    <3> QED BY <3>2, <3>3, <3>4
  <2> HIDE DEF S
  <2>3. Nat \subseteq S BY <2>1, <2>2, Induction
  <2> QED BY <2>3 DEF S
<1>7. B!Followed = Append(l, B!NULL)
  <2>1. f[POOL] = Walked(l, POOL) BY <1>1, <1>6
  <2> QED BY <1>1, <1>2, <1>3, <2>1, WalkedSteps
<1>8. Len(Append(l, B!NULL)) = Len(l) + 1 /\ Append(l, B!NULL)[Len(l) + 1] = B!NULL
      /\ SubSeq(Append(l, B!NULL), 1, Len(l)) = l
  BY <1>1
<1>9. B!Ends BY <1>7, <1>8 DEF B!Ends
<1>10. B!List = l
  <2>1. (Len(l) + 1) - 1 = Len(l) BY <1>1
  <2> QED BY <1>7, <1>8, <2>1 DEF B!List
<1>11. B!Listed = {n \in B!Nodes : Taken(blink_array, n)}
  <2>1. DOMAIN l = 1 .. Len(l) /\ \A i \in 1 .. Len(l) : l[i] \in B!Nodes BY <1>1
  <2>2. B!Listed = {l[i] : i \in 1 .. Len(l)} BY <1>10, <2>1 DEF B!Listed
  <2>3. \A n \in B!Nodes : Taken(blink_array, n) <=> \E i \in 1 .. Len(l) : l[i] = n BY DEF ListOf
  <2> HIDE DEF Taken
  <2> QED BY <2>1, <2>2, <2>3
<1> QED BY <1>1, <1>2, <1>9, <1>10, <1>11
-----------------------------------------------------------------------------
(* The invariant: the list, what its structures hold, what is in step and    *)
(* what the screen shows.                                                    *)

\* A taken structure counts within a phase that has phases to follow, a free one does
\* not count; a taken one goes by its location alone.
PoolOK ==
    /\ blink_array \in [B!Nodes -> Structs]
    /\ mp1_list_head \in B!Nodes \cup {B!NULL}
    /\ \A n \in B!Nodes :
          /\ Taken(blink_array, n) => /\ blink_array[n].countdown \in B!Counts
                                      /\ blink_array[n].on_length \in B!Counts
                                      /\ blink_array[n].off_length \in B!Counts
                                      /\ blink_array[n].location \in Locations
          /\ ~Taken(blink_array, n) => blink_array[n].countdown = 0
    /\ \A m, n \in B!Nodes : /\ Taken(blink_array, m) /\ Taken(blink_array, n)
                             /\ blink_array[m].location = blink_array[n].location
                             => m = n
    /\ \E l : ListOf(blink_array, mp1_list_head, l)

\* Synced structures are taken, and agree in all that decides when they change.
InStep(arr, a, b) ==
    /\ arr[a].status = arr[b].status /\ arr[a].countdown = arr[b].countdown
    /\ arr[a].on_length = arr[b].on_length /\ arr[a].off_length = arr[b].off_length
SyncedOK ==
    /\ synced \subseteq {n \in B!Nodes : Taken(blink_array, n)}
    /\ \A a, b \in synced : InStep(blink_array, a, b)

Says(arr, n) == IF arr[n].status = 1 THEN "on" ELSE "off"
ScreenOK ==
    /\ screen \in [Locations -> B!Shown]
    /\ \A n \in B!Nodes : Taken(blink_array, n) /\ n \notin unlit
                             => screen[blink_array[n].location] = Says(blink_array, n)

BlinkInv == PoolOK /\ SyncedOK /\ ScreenOK

\* fish's locations are behind the offset it draws at; no place is drawn at twice.
FishDraws == 0 \notin Locations /\ "distinct" \in Rules

\* The invariant gives what the run checks.
LEMMA BlinkInvSays == ASSUME BlinkInv PROVE BlinkersRight
<1>1. PICK l : ListOf(blink_array, mp1_list_head, l) BY DEF BlinkInv, PoolOK
<1>2. B!Ends /\ B!Listed = {n \in B!Nodes : Taken(blink_array, n)} BY <1>1, ListIs
<1>3. B!Free = {n \in B!Nodes : ~Taken(blink_array, n)} BY DEF B!Free, Taken
<1>4. B!ListSound BY <1>2, <1>3 DEF B!ListSound
<1>5. B!TypeOK
  <2>1. ASSUME NEW n \in B!Nodes
        PROVE  /\ blink_array[n].location \in Locations \cup {0}
               /\ blink_array[n].countdown \in IF n \in B!Listed THEN B!Counts ELSE {0}
               /\ blink_array[n].status \in {0, 1}
               /\ blink_array[n].next \in B!Nodes \cup {B!NULL}
    <3>1. blink_array[n] \in Structs BY DEF BlinkInv, PoolOK
    <3>2. n \in B!Listed <=> Taken(blink_array, n) BY <1>2
    <3>3. blink_array[n].countdown \in IF n \in B!Listed THEN B!Counts ELSE {0}
      BY <3>2 DEF BlinkInv, PoolOK
    <3> QED BY <3>1, <3>3 DEF Structs
  <2> QED BY <2>1 DEF BlinkInv, PoolOK, ScreenOK, B!TypeOK
<1>6. B!StayInStep BY DEF BlinkInv, SyncedOK, InStep, B!StayInStep
<1>7. B!ShownUnlessSynced BY <1>2 DEF BlinkInv, ScreenOK, Says, B!ShownUnlessSynced
<1> QED BY <1>4, <1>5, <1>6, <1>7 DEF BlinkersRight

\* mp1_find_helper finds the structure of a location, if there is one.
LEMMA FindIs ==
    ASSUME PoolOK, NEW x \in Locations
    PROVE  LET n == B!mp1_find_helper(x)
           IN  \/ n = B!NULL /\ \A m \in B!Nodes : Taken(blink_array, m) => blink_array[m].location # x
               \/ n \in B!Nodes /\ n # B!NULL /\ Taken(blink_array, n) /\ blink_array[n].location = x
<1>1. PICK l : ListOf(blink_array, mp1_list_head, l) BY DEF PoolOK
<1>2. B!List = l /\ Len(l) \in Nat BY <1>1, ListIs
<1>3. l \in Seq(B!Nodes) /\ \A n \in B!Nodes : Taken(blink_array, n) <=> \E i \in 1 .. Len(l) : l[i] = n
  BY <1>1 DEF ListOf
<1> DEFINE places == {i \in 1 .. Len(l) : blink_array[l[i]].location = x}
<1>4. B!mp1_find_helper(x) = IF places = {} THEN B!NULL ELSE l[CHOOSE i \in places : \A j \in places : i <= j]
  <2>1. DOMAIN l = 1 .. Len(l) BY <1>3
  <2> QED BY <1>2, <2>1 DEF B!mp1_find_helper
<1>5. CASE places = {}
  <2>1. ASSUME NEW m \in B!Nodes, Taken(blink_array, m) PROVE blink_array[m].location # x
    <3>1. PICK i \in 1 .. Len(l) : l[i] = m BY <1>3, <2>1
    <3> QED BY <1>5, <3>1
  <2> QED BY <1>4, <1>5, <2>1
<1>6. CASE places # {}
  <2>1. places \subseteq Nat BY <1>2
  <2>2. \E i \in places : \A j \in places : i <= j BY <1>6, <2>1, Least
  <2> DEFINE i == CHOOSE i \in places : \A j \in places : i <= j
  <2>3. i \in places BY <2>2
  <2>4. B!mp1_find_helper(x) = l[i] BY <1>4, <1>6
  <2> HIDE DEF i
  <2>5. i \in 1 .. Len(l) /\ blink_array[l[i]].location = x BY <2>3
  <2>6. l[i] \in B!Nodes BY <1>3, <2>5
  <2>7. l[i] # B!NULL
    <3>1. \A n \in B!Nodes : n # B!NULL BY ProgramsAssumption DEF B!Nodes, B!NULL
    <3> QED BY <2>6, <3>1
  <2>8. Taken(blink_array, l[i]) BY <1>3, <2>5, <2>6
  <2> QED BY <2>4, <2>5, <2>6, <2>7, <2>8
<1> QED BY <1>5, <1>6
-----------------------------------------------------------------------------
(* What the calls do to the list *)

\* A structure that was free, put before the head.
LEMMA ListGrows ==
    ASSUME NEW arr, NEW head, NEW l, ListOf(arr, head, l), NEW n \in B!Nodes, ~Taken(arr, n),
           NEW arr2, Taken(arr2, n), arr2[n].next = head,
           \A m \in B!Nodes \ {n} : arr2[m] = arr[m]
    PROVE  \E l2 : ListOf(arr2, n, l2)
<1>1. l \in Seq(B!Nodes) /\ Len(l) \in Nat BY DEF ListOf
<1> DEFINE l2 == [i \in 1 .. (Len(l) + 1) |-> IF i = 1 THEN n ELSE l[i - 1]]
<1>2. \A i \in 1 .. (Len(l) + 1) : i = 1 \/ (i - 1 \in 1 .. Len(l) /\ i # 1) BY <1>1
<1>3. \A i \in 1 .. Len(l) : l[i] \in B!Nodes BY <1>1
<1>4. l2 \in Seq(B!Nodes) /\ Len(l2) = Len(l) + 1
  <2>1. l2 \in [1 .. (Len(l) + 1) -> B!Nodes] BY <1>2, <1>3
  <2>2. Len(l) + 1 \in Nat BY <1>1
  <2> QED BY <2>1, <2>2
<1>5. /\ l2[1] = n
      /\ \A i \in 1 .. Len(l) : l2[i + 1] = l[i]
  <2>1. 1 \in 1 .. (Len(l) + 1) /\ \A i \in 1 .. Len(l) : i + 1 \in 1 .. (Len(l) + 1) /\ i + 1 # 1 /\ (i + 1) - 1 = i
    BY <1>1
  <2> QED BY <2>1
<1> HIDE DEF l2
<1>6. \A i \in 1 .. Len(l) : Taken(arr, l[i]) /\ l[i] # n BY <1>3 DEF ListOf
<1>7. \A i \in 1 .. Len(l2) : i = 1 \/ \E j \in 1 .. Len(l) : i = j + 1
  <2>1. ASSUME NEW i \in 1 .. Len(l2), i # 1 PROVE \E j \in 1 .. Len(l) : i = j + 1
    <3>1. i - 1 \in 1 .. Len(l) /\ i = (i - 1) + 1 BY <1>1, <1>4, <2>1
    <3> QED BY <3>1
  <2> QED BY <2>1
<1>8. ASSUME NEW i \in 1 .. Len(l2), NEW j \in 1 .. Len(l2), l2[i] = l2[j] PROVE i = j
  <2>1. CASE i = 1 /\ j = 1 BY <2>1
  <2>2. CASE i = 1 /\ j # 1
    <3>1. PICK b \in 1 .. Len(l) : j = b + 1 BY <1>7, <2>2
    <3> QED BY <1>5, <1>6, <1>8, <2>2, <3>1
  <2>3. CASE i # 1 /\ j = 1
    <3>1. PICK a \in 1 .. Len(l) : i = a + 1 BY <1>7, <2>3
    <3> QED BY <1>5, <1>6, <1>8, <2>3, <3>1
  <2>4. CASE i # 1 /\ j # 1
    <3>1. PICK a \in 1 .. Len(l) : i = a + 1 BY <1>7, <2>4
    <3>2. PICK b \in 1 .. Len(l) : j = b + 1 BY <1>7, <2>4
    <3>3. l[a] = l[b] BY <1>5, <1>8, <3>1, <3>2
    <3>4. a = b BY <3>3 DEF ListOf
    <3> QED BY <3>1, <3>2, <3>4
  <2> QED BY <2>1, <2>2, <2>3, <2>4
<1>9. n = IF Len(l2) = 0 THEN B!NULL ELSE l2[1]
  <2>1. Len(l2) # 0 BY <1>1, <1>4
  <2> QED BY <2>1, <1>5
<1>10. ASSUME NEW i \in 1 .. Len(l2)
       PROVE arr2[l2[i]].next = IF i = Len(l2) THEN B!NULL ELSE l2[i + 1]
  <2>1. CASE i = 1
    <3>1. arr2[l2[i]].next = IF Len(l) = 0 THEN B!NULL ELSE l[1] BY <1>5, <2>1 DEF ListOf
    <3>2. (Len(l) = 0) <=> (i = Len(l2)) BY <1>1, <1>4, <2>1
    <3>3. Len(l) # 0 => l2[i + 1] = l[1]
      <4>1. Len(l) # 0 => 1 \in 1 .. Len(l) BY <1>1
      <4> QED BY <1>5, <2>1, <4>1
    <3> QED BY <3>1, <3>2, <3>3
  <2>2. CASE i # 1
    <3>1. PICK j \in 1 .. Len(l) : i = j + 1 BY <1>7, <2>2
    <3>2. l2[i] = l[j] BY <1>5, <3>1
    <3>3. arr2[l[j]] = arr[l[j]] BY <1>3, <1>6
    <3>4. arr[l[j]].next = IF j = Len(l) THEN B!NULL ELSE l[j + 1] BY DEF ListOf
    <3>5. (j = Len(l)) <=> (i = Len(l2)) BY <1>1, <1>4, <3>1
    <3>6. j # Len(l) => l2[i + 1] = l[j + 1]
      <4>1. j # Len(l) => j + 1 \in 1 .. Len(l) BY <1>1
      <4> QED BY <1>5, <3>1, <4>1
    <3> QED BY <3>2, <3>3, <3>4, <3>5, <3>6
  <2> QED BY <2>1, <2>2
<1>11. ASSUME NEW m \in B!Nodes PROVE Taken(arr2, m) <=> \E i \in 1 .. Len(l2) : l2[i] = m
  <2>1. CASE m = n
    <3>1. 1 \in 1 .. Len(l2) BY <1>1, <1>4
    <3> QED BY <1>5, <2>1, <3>1
  <2>2. CASE m # n
    <3>1. Taken(arr2, m) <=> Taken(arr, m) BY <2>2 DEF Taken
    <3>2. Taken(arr, m) <=> \E i \in 1 .. Len(l) : l[i] = m BY DEF ListOf
    <3>3. (\E i \in 1 .. Len(l) : l[i] = m) => \E i \in 1 .. Len(l2) : l2[i] = m
      <4>1. \A i \in 1 .. Len(l) : i + 1 \in 1 .. Len(l2) BY <1>1, <1>4
      <4> QED BY <1>5, <4>1
    <3>4. (\E i \in 1 .. Len(l2) : l2[i] = m) => \E i \in 1 .. Len(l) : l[i] = m
      <4> SUFFICES ASSUME NEW i \in 1 .. Len(l2), l2[i] = m PROVE \E j \in 1 .. Len(l) : l[j] = m
        OBVIOUS
      <4>1. i # 1 BY <1>5, <2>2
      <4>2. PICK j \in 1 .. Len(l) : i = j + 1 BY <1>7, <4>1
      <4>3. l[j] = m BY <1>5, <4>2
      <4> QED BY <4>3
    <3> QED BY <3>1, <3>2, <3>3, <3>4
  <2> QED BY <2>1, <2>2
<1> QED BY <1>4, <1>8, <1>9, <1>10, <1>11 DEF ListOf

\* A structure taken out, where the pointer to it skips it.
LEMMA ListShrinks ==
    ASSUME NEW arr, NEW head, NEW l, ListOf(arr, head, l), NEW n \in B!Nodes, Taken(arr, n),
           NEW arr2, ~Taken(arr2, n),
           \A m \in B!Nodes \ {n} : /\ Taken(arr2, m) <=> Taken(arr, m)
                                    /\ Taken(arr, m) => arr2[m].next = IF arr[m].next = n THEN arr[n].next
                                                                       ELSE arr[m].next
    PROVE  \E l2 : ListOf(arr2, IF head = n THEN arr[n].next ELSE head, l2)
<1>1. l \in Seq(B!Nodes) /\ Len(l) \in Nat BY DEF ListOf
<1>2. PICK k \in 1 .. Len(l) : l[k] = n BY DEF ListOf
<1>3. k \in Nat /\ k >= 1 /\ k <= Len(l) BY <1>1
<1>e. \A i \in 1 .. Len(l) : l[i] \in B!Nodes BY <1>1
<1>n. \A m \in B!Nodes : m # B!NULL BY ProgramsAssumption DEF B!Nodes, B!NULL
<1>u. \A i, j \in 1 .. Len(l) : l[i] = l[j] => i = j BY DEF ListOf
<1>x. \A i \in 1 .. Len(l) : arr[l[i]].next = IF i = Len(l) THEN B!NULL ELSE l[i + 1] BY DEF ListOf
<1> DEFINE from(i) == IF i < k THEN i ELSE i + 1
           l2 == [i \in 1 .. (Len(l) - 1) |-> l[from(i)]]
<1>4. \A i \in 1 .. (Len(l) - 1) : from(i) \in 1 .. Len(l) /\ from(i) # k BY <1>1, <1>3
<1>5. Len(l) - 1 \in Nat BY <1>1, <1>3
<1>6. l2 \in Seq(B!Nodes) /\ Len(l2) = Len(l) - 1
  <2>1. l2 \in [1 .. (Len(l) - 1) -> B!Nodes] BY <1>4, <1>e
  <2> QED BY <2>1, <1>5
<1>7. \A i \in 1 .. Len(l2) : l2[i] = l[from(i)] BY <1>6
<1> HIDE DEF l2
<1>8. \A i \in 1 .. Len(l) : i # k => \E j \in 1 .. Len(l2) : from(j) = i
  <2>1. ASSUME NEW i \in 1 .. Len(l), i < k PROVE \E j \in 1 .. Len(l2) : from(j) = i
    <3>1. i \in 1 .. Len(l2) /\ from(i) = i BY <1>1, <1>3, <1>6, <2>1
    <3> QED BY <3>1
  <2>2. ASSUME NEW i \in 1 .. Len(l), i > k PROVE \E j \in 1 .. Len(l2) : from(j) = i
    <3>1. i - 1 \in 1 .. Len(l2) /\ from(i - 1) = i BY <1>1, <1>3, <1>6, <2>2
    <3> QED BY <3>1
  <2>3. \A i \in 1 .. Len(l) : i # k => i < k \/ i > k BY <1>3
  <2> QED BY <2>1, <2>2, <2>3
<1>9. ASSUME NEW i \in 1 .. Len(l2), NEW j \in 1 .. Len(l2), l2[i] = l2[j] PROVE i = j
  <2>1. from(i) = from(j) BY <1>4, <1>6, <1>7, <1>9, <1>u
  <2> QED BY <2>1, <1>3
<1>10. ASSUME NEW i \in 1 .. Len(l), i # k
       PROVE arr2[l[i]].next = IF i + 1 = k THEN arr[n].next ELSE arr[l[i]].next
  <2>1. l[i] \in B!Nodes \ {n} /\ Taken(arr, l[i]) BY <1>2, <1>10, <1>e, <1>u DEF ListOf
  <2>2. arr2[l[i]].next = IF arr[l[i]].next = n THEN arr[n].next ELSE arr[l[i]].next BY <2>1
  <2>3. arr[l[i]].next = n <=> i + 1 = k
    <3>1. CASE i = Len(l)
      <4>1. arr[l[i]].next # n BY <3>1, <1>x, <1>n
      <4> QED BY <1>1, <1>3, <3>1, <4>1
    <3>2. CASE i # Len(l)
      <4>1. i + 1 \in 1 .. Len(l) BY <1>1, <3>2
      <4>2. arr[l[i]].next = l[i + 1] BY <1>x, <3>2
      <4> QED BY <4>1, <4>2, <1>2, <1>u
    <3> QED BY <3>1, <3>2
  <2> QED BY <2>2, <2>3
<1>11. ASSUME NEW i \in 1 .. Len(l2)
       PROVE arr2[l2[i]].next = IF i = Len(l2) THEN B!NULL ELSE l2[i + 1]
  <2>1. from(i) \in 1 .. Len(l) /\ from(i) # k BY <1>4, <1>6
  <2>2. arr2[l2[i]].next = IF from(i) + 1 = k THEN arr[n].next ELSE arr[l[from(i)]].next
    BY <1>7, <1>10, <2>1
  <2>3. CASE from(i) + 1 = k
    <3>1. i < k /\ from(i) = i /\ i + 1 = k BY <1>3, <2>3
    <3>2. arr2[l2[i]].next = IF k = Len(l) THEN B!NULL ELSE l[k + 1] BY <1>2, <1>x, <2>2, <2>3
    <3>3. k = Len(l) <=> i = Len(l2) BY <1>1, <1>3, <1>6, <3>1
    <3>4. i # Len(l2) => i + 1 \in 1 .. Len(l2) /\ from(i + 1) = k + 1 BY <1>1, <1>3, <1>6, <3>1
    <3> QED BY <1>7, <3>2, <3>3, <3>4
  <2>4. CASE from(i) + 1 # k
    <3>1. arr2[l2[i]].next = IF from(i) = Len(l) THEN B!NULL ELSE l[from(i) + 1] BY <1>x, <2>1, <2>2, <2>4
    <3>2. from(i) = Len(l) <=> i = Len(l2) BY <1>1, <1>3, <1>6, <2>4
    <3>3. i # Len(l2) => i + 1 \in 1 .. Len(l2) /\ from(i + 1) = from(i) + 1 BY <1>1, <1>3, <1>6, <2>4
    <3> QED BY <1>7, <3>1, <3>2, <3>3
  <2> QED BY <2>3, <2>4
<1>12. (IF head = n THEN arr[n].next ELSE head) = IF Len(l2) = 0 THEN B!NULL ELSE l2[1]
  <2>1. 1 \in 1 .. Len(l) /\ Len(l) # 0 BY <1>1, <1>3
  <2>2. head = l[1] BY <2>1 DEF ListOf
  <2>3. head = n <=> k = 1 BY <1>2, <1>u, <2>1, <2>2
  <2>4. CASE k = 1
    <3>1. arr[n].next = IF 1 = Len(l) THEN B!NULL ELSE l[1 + 1] BY <1>2, <1>x, <2>4
    <3>2. 1 = Len(l) <=> Len(l2) = 0 BY <1>1, <1>3, <1>6
    <3>3. Len(l2) # 0 => 1 \in 1 .. Len(l2) /\ from(1) = 1 + 1 BY <1>5, <1>6, <2>4
    <3> QED BY <1>7, <2>3, <2>4, <3>1, <3>2, <3>3
  <2>5. CASE k # 1
    <3>1. 1 \in 1 .. Len(l2) /\ from(1) = 1 /\ Len(l2) # 0 BY <1>1, <1>3, <1>6, <2>5
    <3> QED BY <1>7, <2>2, <2>3, <2>5, <3>1
  <2> QED BY <2>4, <2>5
<1>13. ASSUME NEW m \in B!Nodes PROVE Taken(arr2, m) <=> \E i \in 1 .. Len(l2) : l2[i] = m
  <2>1. CASE m = n
    <3>1. \A i \in 1 .. Len(l2) : l2[i] # n BY <1>2, <1>4, <1>6, <1>7, <1>u
    <3> QED BY <2>1, <3>1
  <2>2. CASE m # n
    <3>1. Taken(arr2, m) <=> \E i \in 1 .. Len(l) : l[i] = m BY <2>2 DEF ListOf
    <3>2. (\E i \in 1 .. Len(l) : l[i] = m) => \E i \in 1 .. Len(l2) : l2[i] = m
      BY <1>2, <1>7, <1>8, <2>2
    <3>3. (\E i \in 1 .. Len(l2) : l2[i] = m) => \E i \in 1 .. Len(l) : l[i] = m
      BY <1>4, <1>6, <1>7
    <3> QED BY <3>1, <3>2, <3>3
  <2> QED BY <2>1, <2>2
<1> HIDE DEF from
<1> QED BY <1>6, <1>9, <1>11, <1>12, <1>13 DEF ListOf

\* And a step that moves no structure.
LEMMA ListStays ==
    ASSUME NEW arr, NEW head, NEW l, ListOf(arr, head, l), NEW arr2,
           \A m \in B!Nodes : arr2[m].next = arr[m].next /\ arr2[m].location = arr[m].location
    PROVE  ListOf(arr2, head, l)
<1>1. \A i \in 1 .. Len(l) : l[i] \in B!Nodes BY DEF ListOf
<1> QED BY <1>1 DEF ListOf, Taken
-----------------------------------------------------------------------------
(* Each step keeps the invariant *)

\* The pool, its first state and what lies in a phase.
LEMMA PoolFacts ==
    /\ \A p \in Phases : p[1] \in B!Counts /\ p[2] \in B!Counts
    /\ \A k \in B!Counts : k \in Nat /\ (k - 1 > 0 => k - 1 \in B!Counts)
    /\ B!Empty \in Structs
    /\ \A n \in B!Nodes : n # B!NULL
<1>1. \A p \in Phases, i \in {1, 2} : p[i] \in Nat \ {0} BY ProgramsAssumption
<1>c. \A k : k \in B!Counts <=> \E p \in Phases, i \in {1, 2} : k \in 1 .. p[i]
  <2>1. \A k : k \in B!Counts <=> \E p \in Phases : k \in 1 .. p[1] \/ k \in 1 .. p[2]
    BY DEF B!Counts
  <2> QED BY <2>1
<1>2. ASSUME NEW p \in Phases, NEW i \in {1, 2} PROVE p[i] \in B!Counts
  <2>1. p[i] \in 1 .. p[i] BY <1>1
  <2> QED BY <2>1, <1>c
<1>3. ASSUME NEW k \in B!Counts PROVE k \in Nat /\ (k - 1 > 0 => k - 1 \in B!Counts)
  <2>1. PICK p \in Phases, i \in {1, 2} : k \in 1 .. p[i] BY <1>c
  <2>2. p[i] \in Nat BY <1>1
  <2>3. k \in Nat /\ (k - 1 > 0 => k - 1 \in 1 .. p[i]) BY <2>1, <2>2
  <2> QED BY <2>1, <2>3, <1>c
<1>4. B!Empty \in Structs BY DEF B!Empty, Structs
<1>5. \A n \in B!Nodes : n # B!NULL BY ProgramsAssumption DEF B!Nodes, B!NULL
<1> QED BY <1>2, <1>3, <1>4, <1>5

\* In a pool of zeros there is no blinker.
LEMMA BlinkStarts == ASSUME B!Init PROVE BlinkInv
<1>1. \A n \in B!Nodes : blink_array[n] = B!Empty BY DEF B!Init
<1>2. \A n \in B!Nodes : ~Taken(blink_array, n) /\ blink_array[n].countdown = 0
  BY <1>1 DEF B!Empty, Taken
<1>3. blink_array \in [B!Nodes -> Structs] BY PoolFacts DEF B!Init
<1>4. ListOf(blink_array, mp1_list_head, <<>>)
  <2>1. mp1_list_head = B!NULL BY DEF B!Init
  <2>2. Len(<<>>) = 0 /\ <<>> \in Seq(B!Nodes) OBVIOUS
  <2> QED BY <1>2, <2>1, <2>2 DEF ListOf
<1>5. PoolOK BY <1>2, <1>3, <1>4 DEF PoolOK, B!Init
<1>6. SyncedOK BY DEF SyncedOK, B!Init
<1>7. ScreenOK BY <1>2 DEF ScreenOK, B!Init, B!Shown
<1> QED BY <1>5, <1>6, <1>7 DEF BlinkInv

\* A blinker is added: the structure was free, its location nobody's.
LEMMA AddKeeps ==
    ASSUME BlinkInv, FishDraws, NEW x \in Locations, NEW p \in Phases,
           B!MayAdd(x), B!mp1_ioctl_add(x, p[1], p[2])
    PROVE  BlinkInv'
<1> DEFINE n == B!mp1_malloc
<1>1. CASE x >= SCREEN \/ n = B!NULL
  <2>1. UNCHANGED <<blink_array, mp1_list_head, screen, synced, unlit>>
    BY <1>1 DEF B!mp1_ioctl_add, B!Fail, B!vars
  <2> QED BY <2>1 DEF BlinkInv, PoolOK, SyncedOK, ScreenOK
<1>2. CASE ~(x >= SCREEN \/ n = B!NULL)
  <2>1. n \in B!Nodes /\ ~Taken(blink_array, n)
    <3>1. B!Free # {} /\ n = CHOOSE m \in B!Free : \A k \in B!Free : m <= k BY <1>2 DEF B!mp1_malloc
    <3>2. B!Free \subseteq Nat BY ProgramsAssumption DEF B!Free, B!Nodes
    <3>3. \E m \in B!Free : \A k \in B!Free : m <= k BY <3>1, <3>2, Least
    <3>4. n \in B!Free BY <3>1, <3>3
    <3> QED BY <3>4 DEF B!Free, Taken
  <2> DEFINE r == [location |-> x, on_length |-> p[1], off_length |-> p[2],
                   countdown |-> p[1], status |-> 1, next |-> mp1_list_head]
  <2>2. /\ blink_array' = [blink_array EXCEPT ![n] = r] /\ mp1_list_head' = n
        /\ screen' = [screen EXCEPT ![x] = "on"] /\ unlit' = unlit \ {n} /\ synced' = synced
    BY <1>2 DEF B!mp1_ioctl_add
  <2> HIDE DEF n
  <2>3. blink_array \in [B!Nodes -> Structs] BY DEF BlinkInv, PoolOK
  <2>4. p[1] \in B!Counts /\ p[2] \in B!Counts BY PoolFacts
  <2>5. r \in Structs BY <2>4 DEF Structs, BlinkInv, PoolOK
  <2>6. r.location = x /\ r.on_length = p[1] /\ r.off_length = p[2] /\ r.countdown = p[1]
        /\ r.status = 1 /\ r.next = mp1_list_head
    OBVIOUS
  <2> HIDE DEF r
  <2>7. blink_array'[n] = r /\ \A m \in B!Nodes \ {n} : blink_array'[m] = blink_array[m]
    BY <2>1, <2>2, <2>3
  <2>8. x # 0 BY DEF FishDraws
  <2>9. \A m \in B!Nodes : Taken(blink_array, m) => blink_array[m].location # x
    <3>1. B!mp1_find_helper(x) = B!NULL BY DEF B!MayAdd, FishDraws
    <3>2. PoolOK BY DEF BlinkInv
    <3> QED BY <3>1, <3>2, FindIs
  <2>10. Taken(blink_array', n) /\ \A m \in B!Nodes \ {n} : Taken(blink_array', m) <=> Taken(blink_array, m)
    BY <2>6, <2>7, <2>8 DEF Taken
  <2>11. PoolOK'
    <3>1. blink_array' \in [B!Nodes -> Structs] BY <2>2, <2>3, <2>5
    <3>2. ASSUME NEW m \in B!Nodes
          PROVE  /\ Taken(blink_array', m) => /\ blink_array'[m].countdown \in B!Counts
                                              /\ blink_array'[m].on_length \in B!Counts
                                              /\ blink_array'[m].off_length \in B!Counts
                                              /\ blink_array'[m].location \in Locations
                 /\ ~Taken(blink_array', m) => blink_array'[m].countdown = 0
      <4>1. CASE m = n BY <2>4, <2>6, <2>7, <2>10, <4>1
      <4>2. CASE m # n BY <2>7, <2>10, <4>2 DEF BlinkInv, PoolOK
      <4> QED BY <4>1, <4>2
    <3>3. ASSUME NEW a \in B!Nodes, NEW b \in B!Nodes, Taken(blink_array', a), Taken(blink_array', b),
                 blink_array'[a].location = blink_array'[b].location
          PROVE  a = b
      <4>1. CASE a # n /\ b # n BY <2>7, <2>10, <3>3, <4>1 DEF BlinkInv, PoolOK
      <4>2. CASE a = n /\ b # n BY <2>6, <2>7, <2>9, <2>10, <3>3, <4>2
      <4>3. CASE a # n /\ b = n BY <2>6, <2>7, <2>9, <2>10, <3>3, <4>3
      <4> QED BY <4>1, <4>2, <4>3
    <3>4. \E l : ListOf(blink_array', mp1_list_head', l)
      <4>1. PICK l : ListOf(blink_array, mp1_list_head, l) BY DEF BlinkInv, PoolOK
      <4>2. \E l2 : ListOf(blink_array', n, l2) BY <2>1, <2>6, <2>7, <2>10, <4>1, ListGrows
      <4> QED BY <2>2, <4>2
    <3>5. mp1_list_head' \in B!Nodes \cup {B!NULL} BY <2>1, <2>2
    <3> QED BY <3>1, <3>2, <3>3, <3>4, <3>5 DEF PoolOK
  <2>12. SyncedOK'
    <3>1. \A m \in synced : m \in B!Nodes \ {n} /\ Taken(blink_array, m) BY <2>1 DEF BlinkInv, SyncedOK
    <3>2. \A m \in synced : m \in B!Nodes /\ Taken(blink_array', m) /\ blink_array'[m] = blink_array[m]
      BY <2>7, <2>10, <3>1
    <3>3. \A a, b \in synced : InStep(blink_array', a, b)
      BY <3>2 DEF InStep, BlinkInv, SyncedOK
    <3>4. synced' = synced BY <2>2
    <3> QED BY <3>2, <3>3, <3>4 DEF SyncedOK
  <2>13. ScreenOK'
    <3>1. screen \in [Locations -> B!Shown] BY DEF BlinkInv, ScreenOK
    <3>2. screen' \in [Locations -> B!Shown] BY <2>2, <3>1 DEF B!Shown
    <3>3. ASSUME NEW m \in B!Nodes, Taken(blink_array', m), m \notin unlit'
          PROVE  screen'[blink_array'[m].location] = Says(blink_array', m)
      <4>1. CASE m = n BY <2>2, <2>6, <2>7, <3>1, <4>1 DEF Says
      <4>2. CASE m # n
        <5>1. Taken(blink_array, m) /\ m \notin unlit BY <2>2, <2>10, <3>3, <4>2
        <5>2. blink_array[m].location \in Locations /\ blink_array[m].location # x
          BY <2>9, <5>1 DEF BlinkInv, PoolOK
        <5>3. screen'[blink_array[m].location] = screen[blink_array[m].location] BY <2>2, <3>1, <5>2
        <5> QED BY <2>7, <4>2, <5>1, <5>3 DEF BlinkInv, ScreenOK, Says
      <4> QED BY <4>1, <4>2
    <3> QED BY <3>2, <3>3 DEF ScreenOK
  <2> QED BY <2>11, <2>12, <2>13 DEF BlinkInv
<1> QED BY <1>1, <1>2

\* A blinker is removed: its structure is free, and only NEXT changes in the others.
LEMMA RemoveKeeps ==
    ASSUME BlinkInv, FishDraws, NEW x \in Locations, B!mp1_ioctl_remove(x)
    PROVE  BlinkInv'
<1>l. PICK l : ListOf(blink_array, mp1_list_head, l) BY DEF BlinkInv, PoolOK
<1> DEFINE n == B!mp1_find_helper(x)
<1>1. CASE n = B!NULL
  <2>1. UNCHANGED <<blink_array, mp1_list_head, screen, synced, unlit>>
    BY <1>1 DEF B!mp1_ioctl_remove, B!Fail, B!vars
  <2> QED BY <2>1 DEF BlinkInv, PoolOK, SyncedOK, ScreenOK
<1>2. CASE n # B!NULL
  <2>1. n \in B!Nodes /\ Taken(blink_array, n) BY <1>2, FindIs DEF BlinkInv
  <2> DEFINE after == blink_array[n].next
             previous == {m \in B!Listed : blink_array[m].next = n}
  <2>2. /\ mp1_list_head' = IF mp1_list_head = n THEN after ELSE mp1_list_head
        /\ blink_array' = [m \in B!Nodes |->
               IF m = n THEN B!Empty
               ELSE IF m \in previous THEN [blink_array[m] EXCEPT !.next = after]
               ELSE blink_array[m]]
        /\ synced' = IF n \in synced THEN {} ELSE synced
        /\ screen' = screen /\ unlit' = unlit
    BY <1>2 DEF B!mp1_ioctl_remove
  <2> HIDE DEF n
  <2>3. blink_array \in [B!Nodes -> Structs] BY DEF BlinkInv, PoolOK
  <2>4. B!Listed = {m \in B!Nodes : Taken(blink_array, m)} BY <1>l, ListIs
  <2>5. after \in B!Nodes \cup {B!NULL} BY <2>1, <2>3 DEF Structs
  <2>6. blink_array'[n] = B!Empty BY <2>1, <2>2
  <2>7. ASSUME NEW m \in B!Nodes \ {n}
        PROVE  /\ blink_array'[m] \in Structs
               /\ blink_array'[m].location = blink_array[m].location
               /\ blink_array'[m].on_length = blink_array[m].on_length
               /\ blink_array'[m].off_length = blink_array[m].off_length
               /\ blink_array'[m].countdown = blink_array[m].countdown
               /\ blink_array'[m].status = blink_array[m].status
               /\ Taken(blink_array', m) <=> Taken(blink_array, m)
               /\ Taken(blink_array, m) => blink_array'[m].next = IF blink_array[m].next = n THEN after
                                                                  ELSE blink_array[m].next
    <3>1. blink_array[m] \in Structs BY <2>3
    <3>2. m \in previous <=> Taken(blink_array, m) /\ blink_array[m].next = n BY <2>4
    <3>3. blink_array'[m] = IF m \in previous THEN [blink_array[m] EXCEPT !.next = after] ELSE blink_array[m]
      BY <2>2
    <3> HIDE DEF after, previous
    <3>4. CASE m \in previous BY <2>5, <3>1, <3>2, <3>3, <3>4 DEF Structs, Taken
    <3>5. CASE m \notin previous BY <3>1, <3>2, <3>3, <3>5 DEF Taken
    <3> QED BY <3>4, <3>5
  <2>8. ~Taken(blink_array', n) /\ blink_array'[n].countdown = 0 /\ blink_array'[n] \in Structs
    BY <2>6, PoolFacts DEF Taken, B!Empty
  <2>9. PoolOK'
    <3>1. blink_array' \in [B!Nodes -> Structs]
      <4>1. \A m \in B!Nodes : blink_array'[m] \in Structs BY <2>7, <2>8
      <4> DEFINE Each(m) == IF m = n THEN B!Empty
                         ELSE IF m \in previous THEN [blink_array[m] EXCEPT !.next = after]
                         ELSE blink_array[m]
      <4>2. blink_array' = [m \in B!Nodes |-> Each(m)] BY <2>2
      <4> HIDE DEF Each
      <4> QED BY <4>1, <4>2
    <3>2. ASSUME NEW m \in B!Nodes
          PROVE  /\ Taken(blink_array', m) => /\ blink_array'[m].countdown \in B!Counts
                                              /\ blink_array'[m].on_length \in B!Counts
                                              /\ blink_array'[m].off_length \in B!Counts
                                              /\ blink_array'[m].location \in Locations
                 /\ ~Taken(blink_array', m) => blink_array'[m].countdown = 0
      <4>1. CASE m = n BY <2>8, <4>1
      <4>2. CASE m # n BY <2>7, <4>2 DEF BlinkInv, PoolOK
      <4> QED BY <4>1, <4>2
    <3>3. ASSUME NEW a \in B!Nodes, NEW b \in B!Nodes, Taken(blink_array', a), Taken(blink_array', b),
                 blink_array'[a].location = blink_array'[b].location
          PROVE  a = b
      <4>1. a # n /\ b # n BY <2>8, <3>3
      <4> QED BY <2>7, <3>3, <4>1 DEF BlinkInv, PoolOK
    <3>4. \E l2 : ListOf(blink_array', mp1_list_head', l2)
      <4>1. \A m \in B!Nodes \ {n} :
               /\ Taken(blink_array', m) <=> Taken(blink_array, m)
               /\ Taken(blink_array, m) => blink_array'[m].next = IF blink_array[m].next = n THEN blink_array[n].next
                                                                  ELSE blink_array[m].next
        BY <2>7
      <4>2. \E l2 : ListOf(blink_array', IF mp1_list_head = n THEN blink_array[n].next ELSE mp1_list_head, l2)
        BY <1>l, <2>1, <2>8, <4>1, ListShrinks
      <4> QED BY <2>2, <4>2
    <3>5. mp1_list_head' \in B!Nodes \cup {B!NULL} BY <2>2, <2>5 DEF BlinkInv, PoolOK
    <3> QED BY <3>1, <3>2, <3>3, <3>4, <3>5 DEF PoolOK
  <2>10. SyncedOK'
    <3>1. \A m \in synced' : m \in synced /\ m # n BY <2>2
    <3>2. \A m \in synced' : m \in B!Nodes \ {n} /\ Taken(blink_array, m)
      BY <3>1 DEF BlinkInv, SyncedOK
    <3>3. \A m \in synced' : m \in B!Nodes /\ Taken(blink_array', m) BY <2>7, <3>2
    <3>4. \A a, b \in synced' : InStep(blink_array', a, b)
      <4>1. \A a, b \in synced' : InStep(blink_array, a, b) BY <3>1 DEF BlinkInv, SyncedOK
      <4> QED BY <2>7, <3>2, <4>1 DEF InStep
    <3> QED BY <3>3, <3>4 DEF SyncedOK
  <2>11. ScreenOK'
    <3>1. ASSUME NEW m \in B!Nodes, Taken(blink_array', m), m \notin unlit'
          PROVE  screen'[blink_array'[m].location] = Says(blink_array', m)
      <4>1. m # n BY <2>8, <3>1
      <4> QED BY <2>2, <2>7, <3>1, <4>1 DEF BlinkInv, ScreenOK, Says
    <3> QED BY <2>2, <3>1 DEF BlinkInv, ScreenOK
  <2> QED BY <2>9, <2>10, <2>11 DEF BlinkInv
<1> QED BY <1>1, <1>2

\* Two blinkers are synced: the second counts as the first, its place shows its
\* off_char, and it is not said to be lit until it changes.
LEMMA SyncKeeps ==
    ASSUME BlinkInv, FishDraws, NEW x \in Locations, NEW y \in Locations, B!mp1_ioctl_sync(x, y)
    PROVE  BlinkInv'
<1>l. PICK l : ListOf(blink_array, mp1_list_head, l) BY DEF BlinkInv, PoolOK
<1> DEFINE a == B!mp1_find_helper(x)
           b == B!mp1_find_helper(y)
<1>1. CASE a = B!NULL \/ b = B!NULL
  <2>1. UNCHANGED <<blink_array, mp1_list_head, screen, synced, unlit>>
    BY <1>1 DEF B!mp1_ioctl_sync, B!Fail, B!vars
  <2> QED BY <2>1 DEF BlinkInv, PoolOK, SyncedOK, ScreenOK
<1>2. CASE ~(a = B!NULL \/ b = B!NULL)
  <2>1. a \in B!Nodes /\ Taken(blink_array, a) BY <1>2, FindIs DEF BlinkInv
  <2>2. b \in B!Nodes /\ Taken(blink_array, b) /\ blink_array[b].location = y
    BY <1>2, FindIs DEF BlinkInv
  <2>3. /\ blink_array' = [blink_array EXCEPT
               ![b].on_length = blink_array[a].on_length,
               ![b].off_length = blink_array[a].off_length,
               ![b].countdown = blink_array[a].countdown,
               ![b].status = blink_array[a].status]
        /\ screen' = [screen EXCEPT ![y] = "off"]
        /\ synced' = {a, b} /\ unlit' = unlit \cup {b} /\ mp1_list_head' = mp1_list_head
    BY <1>2 DEF B!mp1_ioctl_sync
  <2> HIDE DEF a, b
  <2>4. blink_array \in [B!Nodes -> Structs] BY DEF BlinkInv, PoolOK
  <2>5. \A m \in B!Nodes \ {b} : blink_array'[m] = blink_array[m] BY <2>3, <2>4
  <2>6. /\ blink_array'[b].location = blink_array[b].location
        /\ blink_array'[b].next = blink_array[b].next
        /\ blink_array'[b].on_length = blink_array[a].on_length
        /\ blink_array'[b].off_length = blink_array[a].off_length
        /\ blink_array'[b].countdown = blink_array[a].countdown
        /\ blink_array'[b].status = blink_array[a].status
    BY <2>2, <2>3, <2>4 DEF Structs
  <2>7. blink_array' \in [B!Nodes -> Structs]
    <3> DEFINE Pool == [B!Nodes -> Structs]
               f1 == [blink_array EXCEPT ![b].on_length = blink_array[a].on_length]
               f2 == [f1 EXCEPT ![b].off_length = blink_array[a].off_length]
               f3 == [f2 EXCEPT ![b].countdown = blink_array[a].countdown]
               f4 == [f3 EXCEPT ![b].status = blink_array[a].status]
    <3>1. blink_array[a] \in Structs BY <2>1, <2>4
    <3>2. f1 \in Pool BY <2>2, <2>4, <3>1 DEF Structs
    <3> HIDE DEF f1
    <3>3. f2 \in Pool BY <2>2, <3>1, <3>2 DEF Structs
    <3> HIDE DEF f2
    <3>4. f3 \in Pool BY <2>2, <3>1, <3>3 DEF Structs
    <3> HIDE DEF f3
    <3>5. f4 \in Pool BY <2>2, <3>1, <3>4 DEF Structs
    <3>6. blink_array' = f4 BY <2>3 DEF f1, f2, f3
    <3> QED BY <3>5, <3>6
  <2>8. \A m \in B!Nodes : /\ blink_array'[m].next = blink_array[m].next
                           /\ blink_array'[m].location = blink_array[m].location
    BY <2>5, <2>6
  <2>9. \A m \in B!Nodes : Taken(blink_array', m) <=> Taken(blink_array, m) BY <2>8 DEF Taken
  <2>10. PoolOK'
    <3>1. ASSUME NEW m \in B!Nodes
          PROVE  /\ Taken(blink_array', m) => /\ blink_array'[m].countdown \in B!Counts
                                              /\ blink_array'[m].on_length \in B!Counts
                                              /\ blink_array'[m].off_length \in B!Counts
                                              /\ blink_array'[m].location \in Locations
                 /\ ~Taken(blink_array', m) => blink_array'[m].countdown = 0
      <4>1. CASE m = b BY <2>1, <2>2, <2>6, <2>9, <4>1 DEF BlinkInv, PoolOK
      <4>2. CASE m # b BY <2>5, <2>9, <4>2 DEF BlinkInv, PoolOK
      <4> QED BY <4>1, <4>2
    <3>2. \A i, j \in B!Nodes : /\ Taken(blink_array', i) /\ Taken(blink_array', j)
                                /\ blink_array'[i].location = blink_array'[j].location
                                => i = j
      BY <2>8, <2>9 DEF BlinkInv, PoolOK
    <3>3. ListOf(blink_array', mp1_list_head', l)
      <4>1. ListOf(blink_array', mp1_list_head, l) BY <1>l, <2>8, ListStays
      <4> QED BY <2>3, <4>1
    <3>4. mp1_list_head' \in B!Nodes \cup {B!NULL} BY <2>3 DEF BlinkInv, PoolOK
    <3> QED BY <2>7, <3>1, <3>2, <3>3, <3>4 DEF PoolOK
  <2>11. SyncedOK'
    <3>1. InStep(blink_array', a, a) /\ InStep(blink_array', b, b) BY DEF InStep
    <3>2. InStep(blink_array', a, b) /\ InStep(blink_array', b, a)
      <4>1. CASE a = b BY <3>1, <4>1
      <4>2. CASE a # b
        <5>1. blink_array'[a] = blink_array[a] BY <2>1, <2>5, <4>2
        <5> QED BY <2>6, <5>1 DEF InStep
      <4> QED BY <4>1, <4>2
    <3>3. \A i, j \in {a, b} : InStep(blink_array', i, j) BY <3>1, <3>2
    <3>4. {a, b} \subseteq {m \in B!Nodes : Taken(blink_array', m)} BY <2>1, <2>2, <2>9
    <3> QED BY <2>3, <3>3, <3>4 DEF SyncedOK
  <2>12. ScreenOK'
    <3>1. screen \in [Locations -> B!Shown] BY DEF BlinkInv, ScreenOK
    <3>2. screen' \in [Locations -> B!Shown] BY <2>3, <3>1 DEF B!Shown
    <3>3. ASSUME NEW m \in B!Nodes, Taken(blink_array', m), m \notin unlit'
          PROVE  screen'[blink_array'[m].location] = Says(blink_array', m)
      <4>1. m # b /\ m \notin unlit BY <2>3, <3>3
      <4>2. Taken(blink_array, m) /\ blink_array'[m] = blink_array[m] BY <2>5, <2>9, <3>3, <4>1
      <4>3. blink_array[m].location \in Locations /\ blink_array[m].location # y
        BY <2>2, <4>1, <4>2 DEF BlinkInv, PoolOK
      <4>4. screen'[blink_array[m].location] = screen[blink_array[m].location] BY <2>3, <3>1, <4>3
      <4> QED BY <4>1, <4>2, <4>4 DEF BlinkInv, ScreenOK, Says
    <3> QED BY <3>2, <3>3 DEF ScreenOK
  <2> QED BY <2>10, <2>11, <2>12 DEF BlinkInv
<1> QED BY <1>1, <1>2

\* One structure at one interrupt: it counts on, or changes and counts a phase.
LEMMA TurnFacts ==
    ASSUME NEW r \in Structs, r.countdown \in B!Counts,
           r.on_length \in B!Counts, r.off_length \in B!Counts
    PROVE  /\ B!Turn(r) \in Structs /\ B!Turn(r).countdown \in B!Counts
           /\ B!Turn(r).location = r.location /\ B!Turn(r).next = r.next
           /\ B!Turn(r).on_length = r.on_length /\ B!Turn(r).off_length = r.off_length
           /\ B!Turn(r).status # r.status => B!Turn(r).status = 1 - r.status
<1>1. r.countdown - 1 > 0 => r.countdown - 1 \in B!Counts BY PoolFacts
<1>2. CASE r.countdown - 1 > 0
  <2>1. B!Turn(r) = [r EXCEPT !.countdown = r.countdown - 1] BY <1>2 DEF B!Turn
  <2> QED BY <1>1, <1>2, <2>1 DEF Structs
<1>3. CASE ~(r.countdown - 1 > 0)
  <2> DEFINE k == IF r.status = 1 THEN r.off_length ELSE r.on_length
  <2>1. B!Turn(r) = [r EXCEPT !.countdown = k, !.status = 1 - r.status] BY <1>3 DEF B!Turn
  <2>2. k \in B!Counts OBVIOUS
  <2>3. 1 - r.status \in {0, 1} BY DEF Structs
  <2> HIDE DEF k
  <2> QED BY <2>1, <2>2, <2>3 DEF Structs
<1> QED BY <1>2, <1>3

\* An interrupt turns every structure of the list, and shows what changed; as no place
\* has two blinkers, what it shows there is what the one blinker says.
LEMMA TaskletKeeps ==
    ASSUME BlinkInv, FishDraws, B!mp1_rtc_tasklet
    PROVE  BlinkInv'
<1>l. PICK l : ListOf(blink_array, mp1_list_head, l) BY DEF BlinkInv, PoolOK
<1>1. B!List = l /\ Len(l) \in Nat /\ B!Listed = {n \in B!Nodes : Taken(blink_array, n)}
  BY <1>l, ListIs
<1>2. l \in Seq(B!Nodes) /\ DOMAIN l = 1 .. Len(l) /\ \A i \in 1 .. Len(l) : l[i] \in B!Nodes
  BY <1>1, <1>l DEF ListOf
<1> DEFINE listed == {l[i] : i \in DOMAIN l}
           changes == B!Changes(l)
<1>3. listed = {n \in B!Nodes : Taken(blink_array, n)} BY <1>1 DEF B!Listed
<1>4. /\ blink_array' = [n \in B!Nodes |-> IF n \in listed THEN B!Turn(blink_array[n])
                                           ELSE blink_array[n]]
      /\ screen' = [x \in Locations |-> B!Drawn(x, l, changes)]
      /\ unlit' = unlit \ {l[i] : i \in changes}
      /\ mp1_list_head' = mp1_list_head /\ synced' = synced
  BY <1>1 DEF B!mp1_rtc_tasklet
<1>5. changes = {i \in 1 .. Len(l) : B!Turn(blink_array[l[i]]).status # blink_array[l[i]].status}
  BY <1>2 DEF B!Changes
<1> HIDE DEF changes, listed
<1>6. blink_array \in [B!Nodes -> Structs] BY DEF BlinkInv, PoolOK
<1>7. ASSUME NEW n \in B!Nodes
      PROVE  /\ Taken(blink_array, n) => blink_array'[n] = B!Turn(blink_array[n])
             /\ ~Taken(blink_array, n) => blink_array'[n] = blink_array[n]
             /\ blink_array'[n] \in Structs
             /\ blink_array'[n].location = blink_array[n].location
             /\ blink_array'[n].next = blink_array[n].next
             /\ blink_array'[n].on_length = blink_array[n].on_length
             /\ blink_array'[n].off_length = blink_array[n].off_length
             /\ Taken(blink_array, n) => blink_array'[n].countdown \in B!Counts
             /\ Taken(blink_array', n) <=> Taken(blink_array, n)
             /\ blink_array'[n].status # blink_array[n].status
                   => blink_array'[n].status = 1 - blink_array[n].status
  <2>1. blink_array'[n] = IF n \in listed THEN B!Turn(blink_array[n]) ELSE blink_array[n] BY <1>4
  <2>2. n \in listed <=> Taken(blink_array, n) BY <1>3
  <2>3. blink_array[n] \in Structs BY <1>6
  <2>4. CASE Taken(blink_array, n)
    <3>1. blink_array'[n] = B!Turn(blink_array[n]) BY <2>1, <2>2, <2>4
    <3>2. /\ blink_array[n].countdown \in B!Counts /\ blink_array[n].on_length \in B!Counts
          /\ blink_array[n].off_length \in B!Counts
      BY <2>4 DEF BlinkInv, PoolOK
    <3> QED BY <2>3, <2>4, <3>1, <3>2, TurnFacts DEF Taken
  <2>5. CASE ~Taken(blink_array, n)
    <3>1. blink_array'[n] = blink_array[n] BY <2>1, <2>2, <2>5
    <3> QED BY <2>3, <2>5, <3>1 DEF Taken
  <2> QED BY <2>4, <2>5
<1>8. blink_array' \in [B!Nodes -> Structs]
  <2> DEFINE Each(n) == IF n \in listed THEN B!Turn(blink_array[n]) ELSE blink_array[n]
  <2>1. blink_array' = [n \in B!Nodes |-> Each(n)] BY <1>4
  <2> HIDE DEF Each
  <2> QED BY <1>7, <2>1
<1>9. PoolOK'
  <2>1. ASSUME NEW m \in B!Nodes
        PROVE  /\ Taken(blink_array', m) => /\ blink_array'[m].countdown \in B!Counts
                                            /\ blink_array'[m].on_length \in B!Counts
                                            /\ blink_array'[m].off_length \in B!Counts
                                            /\ blink_array'[m].location \in Locations
               /\ ~Taken(blink_array', m) => blink_array'[m].countdown = 0
    BY <1>7 DEF BlinkInv, PoolOK
  <2>2. \A i, j \in B!Nodes : /\ Taken(blink_array', i) /\ Taken(blink_array', j)
                              /\ blink_array'[i].location = blink_array'[j].location
                              => i = j
    BY <1>7 DEF BlinkInv, PoolOK
  <2>3. ListOf(blink_array', mp1_list_head', l)
    <3>1. \A m \in B!Nodes : /\ blink_array'[m].next = blink_array[m].next
                             /\ blink_array'[m].location = blink_array[m].location
      BY <1>7
    <3>2. ListOf(blink_array', mp1_list_head, l) BY <1>l, <3>1, ListStays
    <3> QED BY <1>4, <3>2
  <2>4. mp1_list_head' \in B!Nodes \cup {B!NULL} BY <1>4 DEF BlinkInv, PoolOK
  <2> QED BY <1>8, <2>1, <2>2, <2>3, <2>4 DEF PoolOK
<1>10. SyncedOK'
  <2>1. \A m \in synced : m \in B!Nodes /\ Taken(blink_array, m) BY DEF BlinkInv, SyncedOK
  <2>2. ASSUME NEW a \in synced, NEW b \in synced PROVE InStep(blink_array', a, b)
    <3>1. InStep(blink_array, a, b) BY DEF BlinkInv, SyncedOK
    <3>2. blink_array'[a] = B!Turn(blink_array[a]) /\ blink_array'[b] = B!Turn(blink_array[b])
      BY <1>7, <2>1
    <3>3. blink_array[a] \in Structs /\ blink_array[b] \in Structs BY <1>6, <2>1
    <3>4. /\ B!Turn(blink_array[a]).status = B!Turn(blink_array[b]).status
          /\ B!Turn(blink_array[a]).countdown = B!Turn(blink_array[b]).countdown
      BY <3>1, <3>3 DEF InStep, B!Turn, Structs
    <3> QED BY <1>7, <2>1, <3>1, <3>2, <3>4 DEF InStep
  <2> QED BY <1>4, <1>7, <2>1, <2>2 DEF SyncedOK
<1>11. ScreenOK'
  <2>0. screen \in [Locations -> B!Shown] BY DEF BlinkInv, ScreenOK
  <2>1. ASSUME NEW x \in Locations PROVE B!Drawn(x, l, changes) \in B!Shown
    <3>1. screen[x] \in B!Shown BY <2>0
    <3> QED BY <3>1 DEF B!Drawn, B!Shown
  <2>2. screen' \in [Locations -> B!Shown] BY <1>4, <2>1
  <2>3. ASSUME NEW n \in B!Nodes, Taken(blink_array', n), n \notin unlit'
        PROVE  screen'[blink_array'[n].location] = Says(blink_array', n)
    <3> DEFINE x == blink_array[n].location
               places == {i \in changes : blink_array[l[i]].location = x}
               final == CHOOSE i \in places : \A j \in places : j <= i
    <3>1. Taken(blink_array, n) /\ x \in Locations BY <1>7, <2>3 DEF BlinkInv, PoolOK
    <3>2. PICK k \in 1 .. Len(l) : l[k] = n BY <1>l, <3>1 DEF ListOf
    <3>3. ASSUME NEW i \in places PROVE i = k
      <4>1. i \in 1 .. Len(l) /\ blink_array[l[i]].location = x BY <1>5
      <4>2. l[i] \in B!Nodes /\ Taken(blink_array, l[i]) BY <1>2, <4>1, <1>l DEF ListOf
      <4>3. l[i] = n BY <3>1, <4>1, <4>2 DEF BlinkInv, PoolOK
      <4> QED BY <1>l, <3>2, <4>1, <4>3 DEF ListOf
    <3>4. screen'[x] = IF places = {} THEN screen[x]
                       ELSE IF blink_array[l[final]].status = 1 THEN "off" ELSE "on"
      BY <1>4, <3>1 DEF B!Drawn
    <3>5. k \in changes <=> blink_array'[n].status # blink_array[n].status
      BY <1>5, <1>7, <3>1, <3>2
    <3>6. k \in places <=> k \in changes BY <3>2
    <3>7. blink_array[n].status \in {0, 1} BY <1>6 DEF Structs
    <3>8. CASE k \in changes
      <4>1. places = {k} BY <3>3, <3>6, <3>8
      <4>2. final = k
        <5>1. k \in Nat BY <1>1
        <5>2. \A j \in places : j <= k BY <4>1, <5>1
        <5> HIDE DEF places
        <5>3. \E i \in places : \A j \in places : j <= i BY <4>1, <5>2
        <5>4. final \in places BY <5>3
        <5> HIDE DEF final
        <5> QED BY <4>1, <5>4
      <4> HIDE DEF final
      <4>3. screen'[x] = IF blink_array[n].status = 1 THEN "off" ELSE "on"
        <5> HIDE DEF places, x
        <5> QED BY <3>2, <3>4, <4>1, <4>2
      <4>4. blink_array'[n].status = 1 - blink_array[n].status BY <1>7, <3>5, <3>8
      <4>5. blink_array'[n].location = x BY <1>7
      <4> HIDE DEF places, x
      <4> QED BY <3>7, <4>3, <4>4, <4>5 DEF Says
    <3>9. CASE k \notin changes
      <4>1. places = {} BY <3>3, <3>6, <3>9
      <4>2. n \notin {l[i] : i \in changes}
        <5>1. \A i \in changes : i \in 1 .. Len(l) BY <1>5
        <5>2. \A i \in changes : l[i] = n => i = k BY <5>1, <1>l, <3>2 DEF ListOf
        <5> QED BY <5>2, <3>9
      <4>3. n \notin unlit BY <1>4, <2>3, <4>2
      <4>4. screen[x] = Says(blink_array, n) BY <3>1, <4>3 DEF BlinkInv, ScreenOK
      <4>5. blink_array'[n].status = blink_array[n].status BY <3>5, <3>9
      <4>6. blink_array'[n].location = x BY <1>7
      <4> HIDE DEF x, places, final
      <4> QED BY <3>4, <4>1, <4>4, <4>5, <4>6 DEF Says
    <3> QED BY <3>8, <3>9
  <2> QED BY <2>2, <2>3 DEF ScreenOK
<1> QED BY <1>9, <1>10, <1>11 DEF BlinkInv
-----------------------------------------------------------------------------
(* The blinkers of the specification *)

\* What no call of the blinkers touches stays.
LEMMA BlinkersStay == BlinkInv /\ UNCHANGED blinkVars => BlinkInv'
BY DEF blinkVars, BlinkInv, PoolOK, SyncedOK, ScreenOK

\* A step of the blinkers keeps the invariant.
LEMMA BlinkersStep == BlinkInv /\ FishDraws /\ B!Next => BlinkInv'
<1> SUFFICES ASSUME BlinkInv, FishDraws, B!Next PROVE BlinkInv' OBVIOUS
<1>1. CASE \E x \in Locations, p \in Phases : B!MayAdd(x) /\ B!mp1_ioctl_add(x, p[1], p[2])
  <2>1. PICK x \in Locations, p \in Phases : B!MayAdd(x) /\ B!mp1_ioctl_add(x, p[1], p[2]) BY <1>1
  <2> QED BY <2>1, AddKeeps
<1>2. CASE \E x \in Locations : B!mp1_ioctl_remove(x)
  <2>1. PICK x \in Locations : B!mp1_ioctl_remove(x) BY <1>2
  <2> QED BY <2>1, RemoveKeeps
<1>3. CASE \E x, y \in Locations : B!mp1_ioctl_sync(x, y)
  <2>1. PICK x \in Locations, y \in Locations : B!mp1_ioctl_sync(x, y) BY <1>3
  <2> QED BY <2>1, SyncKeeps
<1>4. CASE B!mp1_rtc_tasklet BY <1>4, TaskletKeeps
<1> QED BY <1>1, <1>2, <1>3, <1>4 DEF B!Next

\* The blinkers of fish, whatever the pool, the places and the phases: the list ends
\* and holds the structures that are taken, each once, through any sequence of adds,
\* removes, syncs and interrupts; synced ones change together, and the screen shows
\* what each is, once it changed after a sync.
THEOREM BlinkersAreRight == ASSUME FishDraws PROVE ProgramsSpec => []BlinkersRight
<1>1. ProgramsInit => BlinkInv BY BlinkStarts DEF ProgramsInit
<1>2. BlinkInv /\ [ProgramsNext]_allVars => BlinkInv'
  <2> SUFFICES ASSUME BlinkInv, [ProgramsNext]_allVars PROVE BlinkInv' OBVIOUS
  <2>1. CASE UNCHANGED allVars BY <2>1, BlinkersStay DEF allVars
  <2>2. CASE Shell BY <2>2, BlinkersStay DEF Shell
  <2>3. CASE GrepRuns BY <2>3, BlinkersStay DEF GrepRuns
  <2>4. CASE Pictures BY <2>4, BlinkersStay DEF Pictures
  <2>5. CASE Blinkers BY <2>5, BlinkersStep DEF Blinkers
  <2> QED BY <2>1, <2>2, <2>3, <2>4, <2>5 DEF ProgramsNext
<1>3. BlinkInv => BlinkersRight BY BlinkInvSays
<1> QED BY <1>1, <1>2, <1>3, PTL DEF ProgramsSpec
-----------------------------------------------------------------------------
(* A line and its words *)

\* The characters of a command line.
Typing == Letters \cup {SPACE}

\* No letter is a space or a NUL.
LEMMA CharacterFacts ==
    /\ Letters \subseteq Nat /\ SPACE \in Nat /\ Typing \subseteq Nat
    /\ \A k \in Typing : k # NUL
    /\ SPACE \notin Letters /\ SPACE # NUL /\ NL # NUL /\ NUL \in Nat /\ NL \in Nat
    /\ NUL = 0
BY CommandsAssumption DEF Typing, NUL

\* What a line that can be typed is.
LEMMA TypedIs ==
    ASSUME NEW t \in Typed
    PROVE  /\ t \in Seq(Typing) /\ t \in Seq(Nat) /\ Len(t) \in Nat /\ Len(t) <= MAX_LINE
           /\ DOMAIN t = 1 .. Len(t)
           /\ \A i \in 1 .. Len(t) : t[i] \in Typing /\ t[i] \in Nat /\ t[i] # NUL
           /\ Len(FirstWord(t)) <= FILE_NAME_SIZE
<1>1. PICK n \in 0 .. MAX_LINE : t \in [1 .. n -> Typing] BY DEF Typed, Typing
<1>2. n \in Nat /\ n <= MAX_LINE BY <1>1, CommandsAssumption
<1>3. t \in Seq(Typing) /\ Len(t) = n BY <1>1, <1>2
<1>c. Typing \subseteq Nat /\ \A k \in Typing : k # NUL BY CharacterFacts
<1>a. \A i \in 1 .. n : t[i] \in Typing BY <1>1
<1>b. \A i \in 1 .. n : t[i] \in Nat /\ t[i] # NUL BY <1>a, <1>c
<1>4. t \in Seq(Nat)
  <2>1. t \in [1 .. n -> Nat] BY <1>1, <1>b
  <2> QED BY <1>2, <2>1
<1>5. \A i \in 1 .. Len(t) : t[i] \in Typing /\ t[i] \in Nat /\ t[i] # NUL
  BY <1>3, <1>a, <1>b
<1> QED BY <1>2, <1>3, <1>4, <1>5 DEF Typed

\* The length of a string whose first NUL is known.
LEMMA StringIs ==
    ASSUME NEW b \in Seq(Nat), NEW n \in Nat, n < Len(b), b[n + 1] = NUL,
           \A j \in 1 .. n : b[j] # NUL
    PROVE  strlen(b) = n /\ Terminated(b) /\ String(b) = SubSeq(b, 1, n)
<1> DEFINE P(i) == b[i] = NUL /\ \A j \in 1 .. (i - 1) : b[j] # NUL
<1>1. n + 1 \in 1 .. Len(b) /\ (n + 1) - 1 = n OBVIOUS
<1>2. P(n + 1) BY <1>1
<1>3. ASSUME NEW i \in 1 .. Len(b), P(i) PROVE i = n + 1
  <2>1. ~(i <= n)
    <3>1. i <= n => i \in 1 .. n OBVIOUS
    <3> QED BY <1>3, <3>1
  <2>2. ~(i > n + 1)
    <3>1. i > n + 1 => n + 1 \in 1 .. (i - 1) OBVIOUS
    <3> QED BY <1>3, <3>1
  <2> QED BY <2>1, <2>2
<1> HIDE DEF P
<1>4. (CHOOSE i \in 1 .. Len(b) : P(i)) = n + 1 BY <1>1, <1>2, <1>3
<1>5. strlen(b) = n BY <1>1, <1>4 DEF strlen, P
<1>6. Terminated(b) BY <1>1 DEF Terminated
<1> QED BY <1>5, <1>6 DEF String

\* What the shell makes of what was read: the line, or nothing.
LEMMA StrippedIs ==
    ASSUME NEW t \in Typed
    PROVE  String(Stripped(t)) = t /\ (Stripped(t)[1] = NUL <=> Len(t) = 0)
<1> DEFINE n == Len(t)
           buf == t \o <<NL, NUL>>
           b == [buf EXCEPT ![n + 1] = NUL]
<1>1. n \in Nat /\ t \in Seq(Nat) BY TypedIs
<1>2. buf \in Seq(Nat) /\ Len(buf) = n + 2 /\ buf[n + 1] = NL
      /\ \A i \in 1 .. n : buf[i] = t[i]
  <2>1. <<NL, NUL>> \in Seq(Nat) BY CharacterFacts
  <2> QED BY <1>1, <2>1
<1>3. Stripped(t) = b BY <1>1, <1>2 DEF Stripped
<1> HIDE DEF buf, n
<1>4. b \in Seq(Nat) /\ Len(b) = n + 2 /\ b[n + 1] = NUL /\ \A i \in 1 .. n : b[i] = t[i]
  <2>1. n + 1 \in 1 .. Len(buf) BY <1>1, <1>2
  <2>2. NUL \in Nat BY CharacterFacts
  <2>3. b \in Seq(Nat) /\ Len(b) = Len(buf) BY <1>2, <2>1, <2>2
  <2>4. b[n + 1] = NUL BY <1>2, <2>1
  <2>5. \A i \in 1 .. n : i \in 1 .. Len(buf) /\ i # n + 1 BY <1>1, <1>2
  <2>6. \A i \in 1 .. n : b[i] = buf[i] BY <1>2, <2>5
  <2> QED BY <1>2, <2>3, <2>4, <2>6
<1> HIDE DEF b
<1>5. \A i \in 1 .. n : b[i] # NUL BY <1>4, TypedIs DEF n
<1>6. String(b) = SubSeq(b, 1, n)
  <2>1. n < Len(b) BY <1>1, <1>4
  <2> QED BY <1>1, <1>4, <1>5, <2>1, StringIs
<1>7. SubSeq(b, 1, n) = t BY <1>1, <1>4 DEF n
<1>8. b[1] = NUL <=> n = 0
  <2>1. n = 0 => n + 1 = 1 BY <1>1
  <2>2. n # 0 => 1 \in 1 .. n BY <1>1
  <2> QED BY <1>4, <1>5, <2>1, <2>2
<1> QED BY <1>3, <1>6, <1>7, <1>8 DEF n

\* The empty line is one.
LEMMA EmptyLine == <<>> \in Typed /\ WordStarts(<<>>) = {} /\ FirstWord(<<>>) = <<>>
<1>1. Len(<<>>) = 0 /\ DOMAIN <<>> = {} OBVIOUS
<1>2. WordStarts(<<>>) = {} BY <1>1 DEF WordStarts
<1>3. FirstWord(<<>>) = <<>> BY <1>2 DEF FirstWord
<1>4. Len(FirstWord(<<>>)) <= FILE_NAME_SIZE BY <1>1, <1>3, CommandsAssumption
<1>5. <<>> \in [1 .. 0 -> Letters \cup {SPACE}] OBVIOUS
<1>6. 0 \in 0 .. MAX_LINE BY CommandsAssumption
<1> QED BY <1>2, <1>3, <1>4, <1>5, <1>6 DEF Typed

\* A word of t: from i to e there is no space, and it goes on no further.
Word(t, i, e) == /\ e \in i .. Len(t) /\ (e = Len(t) \/ t[e + 1] = SPACE)
                 /\ \A j \in i .. e : t[j] # SPACE

\* WordAt is the word that starts there.
LEMMA WordAtIs ==
    ASSUME NEW t \in Typed, NEW i \in WordStarts(t)
    PROVE  \E e \in 1 .. Len(t) : Word(t, i, e) /\ WordAt(t, i) = SubSeq(t, i, e)
<1>1. i \in 1 .. Len(t) /\ t[i] # SPACE /\ Len(t) \in Nat BY TypedIs DEF WordStarts
<1> DEFINE T == {e \in i .. Len(t) : e = Len(t) \/ t[e + 1] = SPACE}
           e == CHOOSE x \in i .. Len(t) : /\ x = Len(t) \/ t[x + 1] = SPACE
                                          /\ \A j \in i .. x : t[j] # SPACE
<1>2. T \subseteq Nat /\ T # {}
  <2>1. Len(t) \in T BY <1>1
  <2> QED BY <1>1, <2>1
<1>3. PICK x \in T : \A y \in T : x <= y BY <1>2, Least
<1>4. \A j \in i .. x : t[j] # SPACE
  <2>1. ASSUME NEW j \in i .. x, j # i PROVE t[j] # SPACE
    <3>1. j - 1 \in i .. Len(t) /\ ~(x <= j - 1) /\ (j - 1) + 1 = j BY <1>1, <1>3, <2>1
    <3>2. j - 1 \notin T BY <1>3, <3>1
    <3> QED BY <3>1, <3>2
  <2> QED BY <1>1, <2>1
<1>5. x \in i .. Len(t) /\ (x = Len(t) \/ t[x + 1] = SPACE) BY <1>3
<1>6. e \in i .. Len(t) /\ (e = Len(t) \/ t[e + 1] = SPACE) /\ \A j \in i .. e : t[j] # SPACE
  BY <1>4, <1>5
<1>7. WordAt(t, i) = SubSeq(t, i, e) BY DEF WordAt
<1> HIDE DEF e
<1>8. e \in 1 .. Len(t) BY <1>1, <1>6
<1> QED BY <1>6, <1>7, <1>8 DEF Word

\* The first word, from a to e, or a line without one.
First(t, a, e) ==
    /\ a \in WordStarts(t) /\ \A j \in WordStarts(t) : a <= j
    /\ \A j \in 1 .. (a - 1) : t[j] = SPACE
    /\ e \in 1 .. Len(t) /\ Word(t, a, e)

\* A character that is no space has a word start at it or before.
LEMMA StartBefore ==
    ASSUME NEW t \in Typed, NEW k \in 1 .. Len(t), t[k] # SPACE
    PROVE  \E m \in WordStarts(t) : m <= k /\ \A j \in m .. k : t[j] # SPACE
<1>1. Len(t) \in Nat /\ DOMAIN t = 1 .. Len(t) BY TypedIs
<1> DEFINE T == {m \in 1 .. k : \A j \in m .. k : t[j] # SPACE}
<1>2. k \in T /\ T \subseteq Nat BY <1>1
<1>3. PICK m \in T : \A y \in T : m <= y BY <1>2, Least
<1>4. m \in 1 .. Len(t) /\ m <= k /\ t[m] # SPACE /\ \A j \in m .. k : t[j] # SPACE BY <1>1, <1>3
<1>5. m = 1 \/ t[m - 1] = SPACE
  <2> SUFFICES ASSUME m # 1, t[m - 1] # SPACE PROVE FALSE OBVIOUS
  <2>1. m - 1 \in 1 .. k /\ ~(m <= m - 1) BY <1>1, <1>4
  <2>2. \A j \in (m - 1) .. k : j = m - 1 \/ j \in m .. k BY <1>1, <1>4
  <2>3. m - 1 \in T BY <1>4, <2>1, <2>2
  <2> QED BY <1>3, <2>1, <2>3
<1>6. m \in WordStarts(t) BY <1>1, <1>4, <1>5 DEF WordStarts
<1> QED BY <1>4, <1>6

\* FirstWord is the first word.
LEMMA FirstWordIs ==
    ASSUME NEW t \in Typed
    PROVE  \/ WordStarts(t) = {} /\ FirstWord(t) = <<>> /\ \A i \in 1 .. Len(t) : t[i] = SPACE
           \/ \E a, e \in 1 .. Len(t) : First(t, a, e) /\ FirstWord(t) = SubSeq(t, a, e)
<1>1. Len(t) \in Nat /\ DOMAIN t = 1 .. Len(t) BY TypedIs
<1>2. CASE WordStarts(t) = {}
  <2>1. FirstWord(t) = <<>> BY <1>2 DEF FirstWord
  <2>2. \A i \in 1 .. Len(t) : t[i] = SPACE BY <1>2, StartBefore
  <2> QED BY <1>2, <2>1, <2>2
<1>3. CASE WordStarts(t) # {}
  <2>1. WordStarts(t) \subseteq 1 .. Len(t) BY <1>1 DEF WordStarts
  <2>2. \E i \in WordStarts(t) : \A j \in WordStarts(t) : i <= j BY <1>1, <1>3, <2>1, Least
  <2> DEFINE a == CHOOSE i \in WordStarts(t) : \A j \in WordStarts(t) : i <= j
  <2>3. a \in WordStarts(t) /\ \A j \in WordStarts(t) : a <= j BY <2>2
  <2>4. FirstWord(t) = WordAt(t, a) BY <1>3 DEF FirstWord
  <2> HIDE DEF a
  <2>5. PICK e \in 1 .. Len(t) : Word(t, a, e) /\ WordAt(t, a) = SubSeq(t, a, e) BY <2>3, WordAtIs
  <2>6. a \in 1 .. Len(t) BY <2>1, <2>3
  <2>7. ASSUME NEW j \in 1 .. (a - 1) PROVE t[j] = SPACE
    <3> SUFFICES ASSUME t[j] # SPACE PROVE FALSE OBVIOUS
    <3>1. j \in 1 .. Len(t) /\ j < a BY <1>1, <2>6
    <3>2. PICK m \in WordStarts(t) : m <= j BY <3>1, StartBefore
    <3>3. a <= m /\ m \in Nat BY <2>1, <2>3, <1>1
    <3> QED BY <1>1, <2>6, <3>1, <3>2, <3>3
  <2>8. First(t, a, e) BY <2>3, <2>5, <2>7 DEF First
  <2> QED BY <2>4, <2>5, <2>6, <2>8
<1> QED BY <1>2, <1>3
-----------------------------------------------------------------------------
(* The parsing of system_execute *)

\* cmd_holder is the line and NULs behind it.
Holder(t) == [i \in 1 .. ARG_SIZE |-> IF i <= Len(t) THEN t[i] ELSE NUL]

\* What cmd_holder holds while the shell runs the line t.
LEMMA HolderIs ==
    ASSUME NEW t \in Typed, line[Me] = t
    PROVE  /\ cmd_holder = Holder(t) /\ strlen(Holder(t)) = Len(t)
           /\ Holder(t) \in Seq(Nat) /\ Len(Holder(t)) = ARG_SIZE
           /\ Len(t) < ARG_SIZE /\ ARG_SIZE \in Nat
           /\ \A i \in 1 .. Len(t) : Holder(t)[i] = t[i]
           /\ Holder(t)[Len(t) + 1] = NUL
<1> DEFINE n == Len(t)
           pad == Zeros(ARG_SIZE - n)
           src == t \o pad
<1>1. n \in Nat /\ n < ARG_SIZE /\ ARG_SIZE \in Nat /\ t \in Seq(Nat) BY TypedIs, CommandsAssumption
<1>2. pad \in Seq(Nat) /\ Len(pad) = ARG_SIZE - n /\ \A i \in 1 .. (ARG_SIZE - n) : pad[i] = NUL
  <2>1. ARG_SIZE - n \in Nat /\ NUL \in Nat BY <1>1, CharacterFacts
  <2> QED BY <2>1 DEF Zeros
<1> HIDE DEF pad
<1>3. src \in Seq(Nat) /\ Len(src) = ARG_SIZE /\ src[n + 1] = NUL
      /\ \A i \in 1 .. n : src[i] = t[i]
  BY <1>1, <1>2
<1> HIDE DEF src
<1>4. \A i \in 1 .. n : t[i] # NUL /\ t[i] \in Nat BY TypedIs
<1>5. strlen(src) = n BY <1>1, <1>3, <1>4, StringIs
<1>6. Len(Zeros(ARG_SIZE)) = ARG_SIZE BY <1>1 DEF Zeros
<1>7. strncpy(Zeros(ARG_SIZE), src, ARG_SIZE) =
         [i \in 1 .. ARG_SIZE |-> IF i > ARG_SIZE THEN Zeros(ARG_SIZE)[i]
                                  ELSE IF i <= n THEN src[i] ELSE NUL]
  BY <1>5, <1>6 DEF strncpy
<1>8. \A i \in 1 .. ARG_SIZE :
         (IF i > ARG_SIZE THEN Zeros(ARG_SIZE)[i] ELSE IF i <= n THEN src[i] ELSE NUL)
         = IF i <= n THEN t[i] ELSE NUL
  BY <1>1, <1>3
<1>9. cmd_holder = Holder(t) BY <1>7, <1>8 DEF cmd_holder, Holder, src, pad
<1>10. Holder(t) \in Seq(Nat) /\ Len(Holder(t)) = ARG_SIZE
  <2>1. \A i \in 1 .. ARG_SIZE : (IF i <= n THEN t[i] ELSE NUL) \in Nat BY <1>1, <1>4, CharacterFacts
  <2>2. Holder(t) \in [1 .. ARG_SIZE -> Nat] BY <2>1 DEF Holder
  <2> QED BY <1>1, <2>2
<1>11. \A i \in 1 .. n : Holder(t)[i] = t[i] BY <1>1 DEF Holder
<1>12. Holder(t)[n + 1] = NUL
  <2>1. n + 1 \in 1 .. ARG_SIZE /\ ~(n + 1 <= n) BY <1>1
  <2> QED BY <2>1 DEF Holder
<1>13. strlen(Holder(t)) = n BY <1>1, <1>4, <1>10, <1>11, <1>12, StringIs
<1> QED BY <1>1, <1>9, <1>10, <1>11, <1>12, <1>13

\* Sequences of the same elements are the same.
LEMMA SameSeq ==
    ASSUME NEW x \in Seq(Nat), NEW y \in Seq(Nat), Len(x) = Len(y),
           \A i \in 1 .. Len(x) : x[i] = y[i]
    PROVE  x = y
OBVIOUS

\* What a slice is.
LEMMA SliceIs ==
    ASSUME NEW x \in Seq(Nat), NEW m \in Nat \ {0}, NEW n \in Nat, m <= n + 1, n <= Len(x)
    PROVE  /\ SubSeq(x, m, n) \in Seq(Nat) /\ Len(SubSeq(x, m, n)) = (n - m) + 1
           /\ \A i \in 1 .. ((n - m) + 1) : SubSeq(x, m, n)[i] = x[(m + i) - 1]
<1>1. CASE m = n + 1
  <2>1. SubSeq(x, m, n) = <<>> BY <1>1
  <2>2. <<>> \in Seq(Nat) /\ Len(<<>>) = 0 /\ (n - m) + 1 = 0 BY <1>1
  <2> QED BY <2>1, <2>2
<1>2. CASE m <= n BY <1>2
<1> QED BY <1>1, <1>2

\* The rest of a sequence behind a place, and what stands up to it.
LEMMA RestIs ==
    ASSUME NEW x \in Seq(Nat), NEW k \in Nat, k <= Len(x)
    PROVE  /\ SubSeq(x, k + 1, Len(x)) \in Seq(Nat) /\ Len(SubSeq(x, k + 1, Len(x))) = Len(x) - k
           /\ \A i \in 1 .. (Len(x) - k) : SubSeq(x, k + 1, Len(x))[i] = x[i + k]
           /\ SubSeq(x, 1, k) \in Seq(Nat) /\ Len(SubSeq(x, 1, k)) = k
           /\ \A i \in 1 .. k : SubSeq(x, 1, k)[i] = x[i]
<1> DEFINE n == Len(x)
<1>1. n \in Nat OBVIOUS
<1> HIDE DEF n
<1>2. n = Len(x) BY DEF n
<1>3. k + 1 \in Nat \ {0} /\ k + 1 <= n + 1 /\ (n - (k + 1)) + 1 = n - k BY <1>1, <1>2
<1>4. \A i \in 1 .. (n - k) : ((k + 1) + i) - 1 = i + k BY <1>1
<1>5. /\ SubSeq(x, k + 1, n) \in Seq(Nat) /\ Len(SubSeq(x, k + 1, n)) = (n - (k + 1)) + 1
      /\ \A i \in 1 .. ((n - (k + 1)) + 1) : SubSeq(x, k + 1, n)[i] = x[((k + 1) + i) - 1]
  <2>1. n <= Len(x) BY <1>1, <1>2
  <2> QED BY <1>1, <1>3, <2>1, SliceIs
<1>6. 1 \in Nat \ {0} /\ 1 <= k + 1 /\ (k - 1) + 1 = k OBVIOUS
<1>7. \A i \in 1 .. k : (1 + i) - 1 = i OBVIOUS
<1>8. /\ SubSeq(x, 1, k) \in Seq(Nat) /\ Len(SubSeq(x, 1, k)) = (k - 1) + 1
      /\ \A i \in 1 .. ((k - 1) + 1) : SubSeq(x, 1, k)[i] = x[(1 + i) - 1]
  BY <1>6, SliceIs
<1> QED BY <1>2, <1>3, <1>4, <1>5, <1>6, <1>7, <1>8

\* Slices of sequences that agree there.
LEMMA SameSlice ==
    ASSUME NEW x \in Seq(Nat), NEW y \in Seq(Nat), NEW m \in Nat \ {0}, NEW n \in Nat,
           m <= n, n <= Len(x), n <= Len(y), \A i \in m .. n : x[i] = y[i]
    PROVE  SubSeq(x, m, n) = SubSeq(y, m, n)
<1>1. SubSeq(x, m, n) \in Seq(Nat) /\ SubSeq(y, m, n) \in Seq(Nat) OBVIOUS
<1>2. /\ Len(SubSeq(x, m, n)) = (n - m) + 1 /\ Len(SubSeq(y, m, n)) = (n - m) + 1
      /\ \A i \in 1 .. ((n - m) + 1) : /\ SubSeq(x, m, n)[i] = x[(m + i) - 1]
                                      /\ SubSeq(y, m, n)[i] = y[(m + i) - 1]
  OBVIOUS
<1>3. \A i \in 1 .. ((n - m) + 1) : (m + i) - 1 \in m .. n OBVIOUS
<1>4. \A i \in 1 .. ((n - m) + 1) : SubSeq(x, m, n)[i] = SubSeq(y, m, n)[i] BY <1>2, <1>3
<1> DEFINE u == SubSeq(x, m, n)
           v == SubSeq(y, m, n)
<1> HIDE DEF u, v
<1>5. u \in Seq(Nat) /\ v \in Seq(Nat) /\ Len(u) = Len(v) /\ \A i \in 1 .. Len(u) : u[i] = v[i]
  BY <1>1, <1>2, <1>4 DEF u, v
<1>6. u = v BY <1>5, SameSeq
<1> QED BY <1>6 DEF u, v

\* Where the two loops stop, at any a and e1 that a line has for them.
LEMMA LoopsStop ==
    ASSUME NEW t \in Typed, line[Me] = t, NEW a \in 1 .. ARG_SIZE, NEW e1 \in a .. ARG_SIZE,
           Holder(t)[a] # SPACE, \A j \in 1 .. (a - 1) : Holder(t)[j] = SPACE,
           Holder(t)[e1] \in {SPACE, NUL}, \A j \in a .. (e1 - 1) : Holder(t)[j] \notin {SPACE, NUL}
    PROVE  Split = [file_name |-> SubSeq(Holder(t), a, e1 - 1), rest |-> SubSeq(Holder(t), e1, Len(t))]
<1> DEFINE cmd == Holder(t)
           P(i) == cmd[i] # SPACE /\ \A j \in 1 .. (i - 1) : cmd[j] = SPACE
           Q(i, x) == cmd[x] \in {SPACE, NUL} /\ \A j \in i .. (x - 1) : cmd[j] \notin {SPACE, NUL}
<1>1. ARG_SIZE \in Nat BY CommandsAssumption
<1>2. cmd_holder = cmd /\ strlen(cmd) = Len(t) BY HolderIs
<1> HIDE DEF cmd
<1>3. P(a) BY DEF cmd
<1>4. ASSUME NEW i \in 1 .. ARG_SIZE, P(i) PROVE i = a
  <2>1. ~(i < a)
    <3>1. i < a => i \in 1 .. (a - 1) BY <1>1
    <3> QED BY <1>3, <1>4, <3>1
  <2>2. ~(i > a)
    <3>1. i > a => a \in 1 .. (i - 1) BY <1>1
    <3> QED BY <1>3, <1>4, <3>1
  <2> QED BY <1>1, <2>1, <2>2
<1>5. Q(a, e1) BY DEF cmd
<1>6. ASSUME NEW x \in a .. ARG_SIZE, Q(a, x) PROVE x = e1
  <2>1. ~(x < e1)
    <3>1. x < e1 => x \in a .. (e1 - 1) BY <1>1
    <3> QED BY <1>5, <1>6, <3>1
  <2>2. ~(x > e1)
    <3>1. x > e1 => e1 \in a .. (x - 1) BY <1>1
    <3> QED BY <1>5, <1>6, <3>1
  <2> QED BY <1>1, <2>1, <2>2
<1> DEFINE start == CHOOSE i \in 1 .. ARG_SIZE : P(i)
           end == CHOOSE i \in start .. ARG_SIZE : Q(start, i)
<1>7. Split = [file_name |-> SubSeq(cmd, start, end - 1), rest |-> SubSeq(cmd, end, Len(t))]
  BY <1>2 DEF Split
<1> HIDE DEF P, Q
<1>8. start = a BY <1>3, <1>4
<1>9. end = e1 BY <1>5, <1>6, <1>8
<1> HIDE DEF start, end
<1> QED BY <1>7, <1>8, <1>9 DEF cmd

\* The file name is the first word, and the rest what stands behind it.
LEMMA SplitIs ==
    ASSUME NEW t \in Typed, line[Me] = t
    PROVE  /\ file_name = FirstWord(t)
           /\ Split.rest \in Seq(Nat) /\ Len(Split.rest) <= Len(t)
           /\ \A i \in 1 .. Len(Split.rest) : Split.rest[i] # NUL
           /\ \/ FirstWord(t) = <<>>
              \/ \E a, e \in 1 .. Len(t) : First(t, a, e) /\ Split.rest = SubSeq(t, e + 1, Len(t))
<1> DEFINE n == Len(t)
           cmd == Holder(t)
<1>1. n \in Nat /\ t \in Seq(Nat) /\ \A i \in 1 .. n : t[i] \in Typing /\ t[i] \in Nat /\ t[i] # NUL
  BY TypedIs
<1>2. /\ cmd \in Seq(Nat) /\ Len(cmd) = ARG_SIZE /\ n < ARG_SIZE /\ ARG_SIZE \in Nat
      /\ \A i \in 1 .. n : cmd[i] = t[i]
      /\ cmd[n + 1] = NUL
  BY HolderIs
<1> HIDE DEF cmd
<1>3. CASE /\ WordStarts(t) = {} /\ FirstWord(t) = <<>> /\ \A i \in 1 .. Len(t) : t[i] = SPACE
  <2>1. n + 1 \in 1 .. ARG_SIZE /\ n + 1 \in (n + 1) .. ARG_SIZE /\ (n + 1) - 1 = n BY <1>1, <1>2
  <2>2. cmd[n + 1] # SPACE BY <1>2, CharacterFacts
  <2>3. \A j \in 1 .. n : cmd[j] = SPACE BY <1>2, <1>3
  <2>4. \A j \in (n + 1) .. n : FALSE BY <1>1
  <2>5. Split = [file_name |-> SubSeq(cmd, n + 1, n), rest |-> SubSeq(cmd, n + 1, n)]
    <3>1. /\ cmd[n + 1] \in {SPACE, NUL}
          /\ \A j \in 1 .. ((n + 1) - 1) : cmd[j] = SPACE
          /\ \A j \in (n + 1) .. ((n + 1) - 1) : cmd[j] \notin {SPACE, NUL}
      BY <1>2, <2>1, <2>3, <2>4
    <3>2. Split = [file_name |-> SubSeq(cmd, n + 1, (n + 1) - 1), rest |-> SubSeq(cmd, n + 1, n)]
      BY <2>1, <2>2, <3>1, LoopsStop DEF cmd
    <3> QED BY <2>1, <3>2
  <2>6. SubSeq(cmd, n + 1, n) = <<>> BY <1>1, <1>2
  <2>7. <<>> \in Seq(Nat) /\ Len(<<>>) = 0 OBVIOUS
  <2>8. file_name = <<>> /\ Split.rest = <<>> BY <2>5, <2>6 DEF file_name
  <2> QED BY <1>1, <1>3, <2>7, <2>8
<1>4. CASE \E a, e \in 1 .. Len(t) : First(t, a, e) /\ FirstWord(t) = SubSeq(t, a, e)
  <2>1. PICK a \in 1 .. Len(t), e \in 1 .. Len(t) : First(t, a, e) /\ FirstWord(t) = SubSeq(t, a, e)
    BY <1>4
  <2>2. /\ \A j \in 1 .. (a - 1) : t[j] = SPACE
        /\ a <= e /\ (e = n \/ t[e + 1] = SPACE) /\ \A j \in a .. e : t[j] # SPACE
    BY <2>1 DEF First, Word
  <2>3. a \in 1 .. ARG_SIZE /\ e + 1 \in a .. ARG_SIZE /\ (e + 1) - 1 = e BY <1>1, <1>2, <2>2
  <2>4. cmd[a] # SPACE /\ \A j \in 1 .. (a - 1) : cmd[j] = SPACE
    <3>1. a \in a .. e /\ \A j \in 1 .. (a - 1) : j \in 1 .. n BY <1>1, <2>2
    <3> QED BY <1>2, <2>2, <3>1
  <2>5. cmd[e + 1] \in {SPACE, NUL}
    <3>1. e # n => e + 1 \in 1 .. n BY <1>1
    <3> QED BY <1>2, <2>2, <3>1
  <2>6. \A j \in a .. e : cmd[j] \notin {SPACE, NUL}
    <3>1. \A j \in a .. e : j \in 1 .. n BY <1>1
    <3> QED BY <1>1, <1>2, <2>2, <3>1
  <2>7. Split = [file_name |-> SubSeq(cmd, a, e), rest |-> SubSeq(cmd, e + 1, n)]
    <3>1. \A j \in a .. ((e + 1) - 1) : cmd[j] \notin {SPACE, NUL} BY <2>3, <2>6
    <3>2. Split = [file_name |-> SubSeq(cmd, a, (e + 1) - 1), rest |-> SubSeq(cmd, e + 1, n)]
      BY <2>3, <2>4, <2>5, <3>1, LoopsStop DEF cmd
    <3> QED BY <2>3, <3>2
  <2>8. SubSeq(cmd, a, e) = SubSeq(t, a, e)
    <3>1. a \in Nat \ {0} /\ e \in Nat /\ a <= e /\ e <= Len(cmd) /\ e <= Len(t) BY <1>1, <1>2, <2>2
    <3>2. \A i \in a .. e : i \in 1 .. n BY <1>1
    <3> QED BY <1>1, <1>2, <3>1, <3>2, SameSlice
  <2>9. SubSeq(cmd, e + 1, n) = SubSeq(t, e + 1, n) BY <1>1, <1>2, <2>2
  <2> DEFINE r == SubSeq(t, e + 1, n)
  <2>10. r \in Seq(Nat) /\ Len(r) = n - e /\ \A i \in 1 .. (n - e) : r[i] = t[i + e] BY <1>1
  <2>11. \A i \in 1 .. (n - e) : i + e \in 1 .. n BY <1>1
  <2>12. file_name = FirstWord(t) /\ Split.rest = r BY <2>1, <2>7, <2>8, <2>9 DEF file_name
  <2> HIDE DEF r
  <2>13. Len(r) <= n /\ \A i \in 1 .. Len(r) : r[i] # NUL
    <3>1. \A i \in 1 .. (n - e) : r[i] # NUL BY <1>1, <2>10, <2>11
    <3>2. n - e <= n BY <1>1
    <3> QED BY <2>10, <3>1, <3>2
  <2> QED BY <2>1, <2>10, <2>12, <2>13 DEF r
<1> QED BY <1>3, <1>4, FirstWordIs
-----------------------------------------------------------------------------
(* The arguments *)

\* Unspaced goes through what it is given character by character.
LEMMA UnspacedSteps ==
    ASSUME NEW r \in Seq(Nat)
    PROVE  \E f : /\ \A k \in 0 .. Len(r) : f[k] \in Seq(Nat)
                  /\ Unspaced(r) = f[Len(r)] /\ f[0] = <<>>
                  /\ \A k \in 1 .. Len(r) : f[k] = IF r[k] = SPACE THEN f[k - 1] ELSE Append(f[k - 1], r[k])
<1> DEFINE n == Len(r)
           Unroll(g) == [k \in 0 .. n |-> IF k = 0 THEN <<>>
                                     ELSE IF r[k] = SPACE THEN g[k - 1] ELSE Append(g[k - 1], r[k])]
           f == CHOOSE g : g = Unroll(g)
           A == Seq(Nat)
           turn(k, x) == IF k + 1 \in 1 .. n /\ r[k + 1] # SPACE THEN Append(x, r[k + 1]) ELSE x
           step == [k \in Nat |-> [x \in A |-> turn(k, x)]]
<1>1. n \in Nat /\ \A k \in 1 .. n : r[k] \in Nat OBVIOUS
<1>2. \A k \in Nat, x \in A : turn(k, x) \in A BY <1>1
<1>3. step \in Steps(A) BY <1>2 DEF Steps
<1>4. \A k \in Nat, x \in A : step[k][x] = turn(k, x) BY Zenon
<1>5. <<>> \in A OBVIOUS
<1> HIDE DEF A, step
<1>6. PICK h : Recurs(h, A, <<>>, step) BY <1>3, <1>5, Recursion
<1>7. h \in [Nat -> A] /\ h[0] = <<>> /\ \A k \in Nat : h[k + 1] = step[k][h[k]] BY <1>6 DEF Recurs
<1>8. \A k \in Nat : h[k] \in A /\ h[k + 1] = turn(k, h[k])
  <2>1. \A k \in Nat : h[k] \in A BY <1>7
  <2> QED BY <2>1, <1>4, <1>7
<1>9. \A k \in 1 .. n : h[k] = IF r[k] = SPACE THEN h[k - 1] ELSE Append(h[k - 1], r[k])
  <2>1. ASSUME NEW k \in 1 .. n PROVE h[k] = IF r[k] = SPACE THEN h[k - 1] ELSE Append(h[k - 1], r[k])
    <3>1. k - 1 \in Nat /\ (k - 1) + 1 = k BY <1>1
    <3>2. h[k] = turn(k - 1, h[k - 1]) BY <1>8, <3>1
    <3> QED BY <3>1, <3>2
  <2> QED BY <2>1
<1> DEFINE g == [k \in 0 .. n |-> h[k]]
<1>10. g = Unroll(g)
  <2>1. \A k \in 0 .. n : k # 0 => k - 1 \in 0 .. n /\ k \in 1 .. n BY <1>1
  <2>2. \A k \in 0 .. n : k = 0 => h[k] = <<>> BY <1>7
  <2> QED BY <2>1, <2>2, <1>9
<1>11. f = Unroll(f) BY <1>10
<1>12. Unspaced(r) = f[n] BY DEF Unspaced
<1> HIDE DEF f, g, turn
<1>13. f[0] = <<>> BY <1>1, <1>11
<1>14. ASSUME NEW k \in 1 .. n PROVE f[k] = IF r[k] = SPACE THEN f[k - 1] ELSE Append(f[k - 1], r[k])
  <2>1. k \in 0 .. n /\ k # 0 BY <1>1
  <2> QED BY <1>11, <2>1
<1> DEFINE S == {k \in Nat : k <= n => f[k] \in Seq(Nat)}
<1>15. 0 \in S BY <1>5, <1>13 DEF A
<1>16. ASSUME NEW k \in Nat, k \in S PROVE k + 1 \in S
  <2> SUFFICES ASSUME k + 1 <= n PROVE f[k + 1] \in Seq(Nat) OBVIOUS
  <2>1. k + 1 \in 1 .. n /\ (k + 1) - 1 = k /\ k <= n BY <1>1
  <2>2. f[k] \in Seq(Nat) BY <1>16, <2>1
  <2>3. r[k + 1] \in Nat BY <1>1, <2>1
  <2>4. f[k + 1] = IF r[k + 1] = SPACE THEN f[k] ELSE Append(f[k], r[k + 1])
    BY <1>14, <2>1
  <2> QED BY <2>2, <2>3, <2>4
<1> HIDE DEF S
<1>17. Nat \subseteq S BY <1>15, <1>16, Induction
<1>18. \A k \in 0 .. n : f[k] \in Seq(Nat)
  <2>1. \A k \in 0 .. n : k \in Nat /\ k <= n BY <1>1
  <2> QED BY <1>17, <2>1 DEF S
<1> HIDE DEF Unroll
<1> QED BY <1>12, <1>13, <1>14, <1>18

\* What it gives is no longer, and has no NUL if what it was given had none.
LEMMA UnspacedFits ==
    ASSUME NEW r \in Seq(Nat), \A i \in 1 .. Len(r) : r[i] # NUL
    PROVE  /\ Unspaced(r) \in Seq(Nat) /\ Len(Unspaced(r)) <= Len(r)
           /\ \A i \in 1 .. Len(Unspaced(r)) : Unspaced(r)[i] # NUL
<1> DEFINE n == Len(r)
<1>1. n \in Nat /\ \A k \in 1 .. n : r[k] \in Nat OBVIOUS
<1>2. PICK f : /\ \A k \in 0 .. n : f[k] \in Seq(Nat)
               /\ Unspaced(r) = f[n] /\ f[0] = <<>>
               /\ \A k \in 1 .. n : f[k] = IF r[k] = SPACE THEN f[k - 1] ELSE Append(f[k - 1], r[k])
  BY UnspacedSteps
<1> DEFINE P(k) == Len(f[k]) <= k /\ \A i \in 1 .. Len(f[k]) : f[k][i] # NUL
           S == {k \in Nat : k <= n => P(k)}
<1>3. 0 \in S
  <2>1. Len(<<>>) = 0 OBVIOUS
  <2> QED BY <1>2, <2>1
<1>4. ASSUME NEW k \in Nat, k \in S PROVE k + 1 \in S
  <2> SUFFICES ASSUME k + 1 <= n PROVE P(k + 1) OBVIOUS
  <2>1. k + 1 \in 1 .. n /\ (k + 1) - 1 = k /\ k <= n /\ k \in 0 .. n BY <1>1
  <2>2. P(k) /\ f[k] \in Seq(Nat) /\ r[k + 1] \in Nat /\ r[k + 1] # NUL BY <1>1, <1>2, <1>4, <2>1
  <2>3. f[k + 1] = IF r[k + 1] = SPACE THEN f[k] ELSE Append(f[k], r[k + 1])
    BY <1>2, <2>1
  <2>4. CASE r[k + 1] = SPACE
    <3>1. f[k + 1] = f[k] BY <2>3, <2>4
    <3> QED BY <2>2, <3>1
  <2>5. CASE r[k + 1] # SPACE
    <3>1. f[k + 1] = Append(f[k], r[k + 1]) BY <2>3, <2>5
    <3>2. Len(f[k + 1]) = Len(f[k]) + 1 /\ f[k + 1][Len(f[k]) + 1] = r[k + 1]
          /\ \A i \in 1 .. Len(f[k]) : f[k + 1][i] = f[k][i]
      BY <2>2, <3>1
    <3>3. Len(f[k]) \in Nat BY <2>2
    <3>4. \A i \in 1 .. (Len(f[k]) + 1) : i = Len(f[k]) + 1 \/ i \in 1 .. Len(f[k]) BY <3>3
    <3>5. Len(f[k]) <= k /\ \A i \in 1 .. Len(f[k]) : f[k][i] # NUL BY <2>2
    <3>6. \A i \in 1 .. Len(f[k + 1]) : f[k + 1][i] # NUL BY <2>2, <3>2, <3>4, <3>5
    <3>7. Len(f[k + 1]) <= k + 1 BY <3>2, <3>3, <3>5
    <3> QED BY <3>6, <3>7
  <2> QED BY <2>4, <2>5
<1> HIDE DEF S
<1>5. Nat \subseteq S BY <1>3, <1>4, Induction
<1>6. P(n) BY <1>1, <1>5 DEF S
<1>7. f[n] \in Seq(Nat) BY <1>1, <1>2
<1> QED BY <1>2, <1>6, <1>7

\* Of one word among spaces it gives the word, of spaces alone nothing.
LEMMA UnspacedIs ==
    ASSUME NEW r \in Seq(Nat), NEW p \in Nat, NEW q \in Nat, p <= q, q <= Len(r),
           \A i \in 1 .. Len(r) : r[i] # SPACE <=> i \in (p + 1) .. q
    PROVE  Unspaced(r) = SubSeq(r, p + 1, q)
<1> DEFINE n == Len(r)
           cut(k) == IF k < p THEN p ELSE IF k > q THEN q ELSE k
<1>1. n \in Nat /\ \A k \in 1 .. n : r[k] \in Nat OBVIOUS
<1>2. PICK f : /\ \A k \in 0 .. n : f[k] \in Seq(Nat)
               /\ Unspaced(r) = f[n] /\ f[0] = <<>>
               /\ \A k \in 1 .. n : f[k] = IF r[k] = SPACE THEN f[k - 1] ELSE Append(f[k - 1], r[k])
  BY UnspacedSteps
<1> DEFINE S == {k \in Nat : k <= n => f[k] = SubSeq(r, p + 1, cut(k))}
<1>3. 0 \in S
  <2>1. cut(0) = p OBVIOUS
  <2>2. SubSeq(r, p + 1, p) = <<>> BY <1>1
  <2> QED BY <1>2, <2>1, <2>2
<1>4. ASSUME NEW k \in Nat, k \in S PROVE k + 1 \in S
  <2> SUFFICES ASSUME k + 1 <= n PROVE f[k + 1] = SubSeq(r, p + 1, cut(k + 1)) OBVIOUS
  <2>1. k + 1 \in 1 .. n /\ (k + 1) - 1 = k /\ k <= n BY <1>1
  <2>2. f[k] = SubSeq(r, p + 1, cut(k)) BY <1>4, <2>1
  <2>3. f[k + 1] = IF r[k + 1] = SPACE THEN f[k] ELSE Append(f[k], r[k + 1])
    BY <1>2, <2>1
  <2>4. CASE r[k + 1] = SPACE
    <3>1. ~(k + 1 \in (p + 1) .. q) BY <2>1, <2>4
    <3>2. cut(k + 1) = cut(k) BY <3>1
    <3> QED BY <2>2, <2>3, <2>4, <3>2
  <2>5. CASE r[k + 1] # SPACE
    <3>1. k + 1 \in (p + 1) .. q BY <2>1, <2>5
    <3>2. cut(k) = k /\ cut(k + 1) = k + 1 /\ p <= k BY <3>1
    <3>3. SubSeq(r, p + 1, k + 1) = Append(SubSeq(r, p + 1, k), r[k + 1]) BY <1>1, <2>1, <3>2
    <3> QED BY <2>2, <2>3, <2>5, <3>2, <3>3
  <2> QED BY <2>4, <2>5
<1> HIDE DEF S
<1>5. Nat \subseteq S BY <1>3, <1>4, Induction
<1>6. f[n] = SubSeq(r, p + 1, cut(n)) BY <1>1, <1>5 DEF S
<1>7. cut(n) = q BY <1>1
<1> QED BY <1>2, <1>6, <1>7

\* What a program finds in its PCB when its line was t.
Passed(t, arr) ==
    \E a, e \in 1 .. Len(t) :
        /\ First(t, a, e)
        /\ LET taken == Unspaced(SubSeq(t, e + 1, Len(t)))
           IN  arr = taken \o Zeros(ARG_SIZE - Len(taken))

\* The arguments fit, with a NUL behind them, and getargs gives them back.
LEMMA ArgumentsFit ==
    ASSUME NEW t \in Typed, line[Me] = t, NEW child
    PROVE  /\ Arguments(child) \in Seq(Nat)
           /\ Len(Arguments(child)) = ARG_SIZE /\ Terminated(Arguments(child))
           /\ FirstWord(t) # <<>> => Passed(t, Arguments(child))
<1> DEFINE r == Split.rest
           taken == Unspaced(r)
<1>1. r \in Seq(Nat) /\ Len(r) <= Len(t) /\ \A i \in 1 .. Len(r) : r[i] # NUL BY SplitIs
<1>2. Len(t) \in Nat /\ Len(t) <= MAX_LINE /\ MAX_LINE < ARG_SIZE /\ ARG_SIZE \in Nat /\ MAX_LINE \in Nat
  BY TypedIs, CommandsAssumption
<1>3. Arguments(child) = taken \o Zeros(ARG_SIZE - Len(taken)) BY DEF Arguments
<1>4. FirstWord(t) # <<>> => Passed(t, Arguments(child))
  <2> SUFFICES ASSUME FirstWord(t) # <<>> PROVE Passed(t, Arguments(child)) OBVIOUS
  <2>1. PICK a \in 1 .. Len(t), e \in 1 .. Len(t) : First(t, a, e) /\ r = SubSeq(t, e + 1, Len(t))
    BY SplitIs
  <2> QED BY <1>3, <2>1 DEF Passed
<1> HIDE DEF r
<1>5. taken \in Seq(Nat) /\ Len(taken) <= Len(r) BY <1>1, UnspacedFits
<1> HIDE DEF taken
<1>6. Len(taken) < ARG_SIZE /\ Len(taken) \in Nat /\ ARG_SIZE - Len(taken) \in Nat
  <2>1. Len(taken) \in Nat /\ Len(r) \in Nat BY <1>1, <1>5
  <2> QED BY <1>1, <1>2, <1>5, <2>1
<1> DEFINE pad == Zeros(ARG_SIZE - Len(taken))
<1>7. pad \in Seq(Nat) /\ Len(pad) = ARG_SIZE - Len(taken)
      /\ \A i \in 1 .. (ARG_SIZE - Len(taken)) : pad[i] = NUL
  BY <1>6, CharacterFacts DEF Zeros
<1> HIDE DEF pad
<1>8. (taken \o pad) \in Seq(Nat) /\ Len(taken \o pad) = ARG_SIZE /\ (taken \o pad)[Len(taken) + 1] = NUL
  <2>1. (taken \o pad) \in Seq(Nat) BY <1>5, <1>7
  <2>2. Len(taken \o pad) = ARG_SIZE /\ (taken \o pad)[Len(taken) + 1] = NUL BY <1>2, <1>5, <1>6, <1>7
  <2> QED BY <2>1, <2>2
<1>9. Terminated(taken \o pad)
  <2>1. Len(taken) + 1 \in 1 .. ARG_SIZE BY <1>2, <1>6
  <2> QED BY <1>8, <2>1 DEF Terminated
<1> QED BY <1>3, <1>4, <1>8, <1>9 DEF pad

\* Of the words of a line with one or two of them, what the second is: the only other.
LEMMA TwoWords ==
    ASSUME NEW t \in Typed, NEW a \in 1 .. Len(t), NEW e \in 1 .. Len(t), First(t, a, e),
           Cardinality(WordStarts(t)) <= 2
    PROVE  /\ Cardinality(WordStarts(t)) = 1 <=> WordStarts(t) = {a}
           /\ WordStarts(t) # {a} =>
                 LET second == CHOOSE i \in WordStarts(t) : \E j \in WordStarts(t) : j < i
                 IN  WordStarts(t) = {a, second} /\ a < second /\ second \in 1 .. Len(t)
<1> DEFINE W == WordStarts(t)
           second == CHOOSE i \in W : \E j \in W : j < i
<1>1. a \in W /\ (\A j \in W : a <= j) /\ Len(t) \in Nat BY TypedIs DEF First
<1>2. W \subseteq 1 .. Len(t) BY TypedIs DEF WordStarts
<1>3. IsFiniteSet(W)
  <2>1. IsFiniteSet(1 .. Len(t)) BY <1>1, FS_Interval
  <2> QED BY <1>2, <2>1, FS_Subset
<1> HIDE DEF W
<1>4. Cardinality({a}) = 1 BY FS_Singleton
<1>5. CASE W = {a}
  <2> QED BY <1>4, <1>5 DEF W
<1>6. CASE W # {a}
  <2>1. PICK b \in W : b # a BY <1>1, <1>6
  <2>2. a < b /\ a \in Nat /\ b \in Nat BY <1>1, <1>2, <2>1
  <2>3. second \in W /\ \E j \in W : j < second BY <1>1, <2>1, <2>2
  <2> HIDE DEF second
  <2>4. second # a BY <1>1, <1>2, <2>3
  <2>5. {a, second} \subseteq W BY <1>1, <2>3
  <2>6. Cardinality({a, second}) = 2
    <3>1. IsFiniteSet({a}) BY FS_Singleton
    <3>2. {a, second} = {a} \cup {second} OBVIOUS
    <3>3. Cardinality({a} \cup {second}) = Cardinality({a}) + 1 BY <2>4, <3>1, FS_AddElement
    <3>4. 1 + 1 = 2 OBVIOUS
    <3> HIDE DEF second
    <3> QED BY <1>4, <3>2, <3>3, <3>4
  <2>7. Cardinality(W) \in Nat /\ Cardinality(W) <= 2 BY <1>3, FS_CardinalityType DEF W
  <2>8. Cardinality({a, second}) <= Cardinality(W)
        /\ (Cardinality({a, second}) = Cardinality(W) => {a, second} = W)
    BY <1>3, <2>5, FS_Subset
  <2>9. Cardinality(W) = 2 /\ W = {a, second} BY <2>6, <2>7, <2>8
  <2>10. a < second /\ second \in 1 .. Len(t) BY <1>1, <1>2, <2>3, <2>4
  <2>11. Cardinality(W) # 1 BY <2>9
  <2> QED BY <1>6, <2>9, <2>10, <2>11 DEF W, second
<1> QED BY <1>5, <1>6

\* Behind the first word of such a line stands the second, or nothing but spaces.
LEMMA BehindFirst ==
    ASSUME NEW t \in Typed, NEW a \in 1 .. Len(t), NEW e \in 1 .. Len(t), First(t, a, e),
           Cardinality(WordStarts(t)) <= 2
    PROVE  LET second == CHOOSE i \in WordStarts(t) : \E j \in WordStarts(t) : j < i
           IN  Unspaced(SubSeq(t, e + 1, Len(t))) =
                  IF Cardinality(WordStarts(t)) = 1 THEN <<>> ELSE WordAt(t, second)
<1> DEFINE second == CHOOSE i \in WordStarts(t) : \E j \in WordStarts(t) : j < i
           n == Len(t)
           r == SubSeq(t, e + 1, n)
<1>1. n \in Nat /\ t \in Seq(Nat) /\ a \in Nat /\ e \in Nat /\ e <= n BY TypedIs
<1>2. r \in Seq(Nat) /\ Len(r) = n - e /\ \A i \in 1 .. (n - e) : r[i] = t[i + e] BY <1>1, RestIs
<1>3. \A i \in 1 .. (n - e) : i + e \in 1 .. n BY <1>1
<1>4. a <= e /\ (e = n \/ t[e + 1] = SPACE) /\ a \in WordStarts(t) BY DEF First, Word
<1>5. CASE WordStarts(t) = {a}
  <2>1. ASSUME NEW k \in (e + 1) .. n PROVE t[k] = SPACE
    <3> SUFFICES ASSUME t[k] # SPACE PROVE FALSE OBVIOUS
    <3>1. PICK m \in WordStarts(t) : m <= k /\ \A j \in m .. k : t[j] # SPACE
      <4>1. k \in 1 .. Len(t) BY <1>1
      <4> QED BY <4>1, StartBefore
    <3>2. e + 1 \in a .. k /\ e # n BY <1>1, <1>4
    <3> QED BY <1>4, <1>5, <3>1, <3>2
  <2>2. \A i \in 1 .. Len(r) : r[i] = SPACE
    <3>1. \A i \in 1 .. (n - e) : i + e \in (e + 1) .. n BY <1>1
    <3> QED BY <1>2, <2>1, <3>1
  <2>3. ASSUME NEW z \in Nat, z = 0 PROVE Unspaced(r) = SubSeq(r, z + 1, z)
    <3>1. z <= Len(r) BY <1>1, <1>2, <2>3
    <3>2. \A i \in 1 .. Len(r) : r[i] # SPACE <=> i \in (z + 1) .. z BY <2>2
    <3>3. r \in Seq(Nat) /\ z <= z BY <1>2
    <3> HIDE DEF r
    <3> QED BY <3>1, <3>2, <3>3, UnspacedIs
  <2>4. \A z \in Nat : z = 0 => SubSeq(r, z + 1, z) = <<>> BY <1>2
  <2>5. Cardinality(WordStarts(t)) = 1 BY <1>5, TwoWords
  <2> QED BY <2>3, <2>4, <2>5
<1>6. CASE WordStarts(t) # {a}
  <2>1. WordStarts(t) = {a, second} /\ a < second /\ second \in 1 .. n BY <1>6, TwoWords
  <2>2. Cardinality(WordStarts(t)) # 1 BY <1>6, TwoWords
  <2> HIDE DEF second
  <2>3. second \in WordStarts(t) BY <2>1
  <2>4. PICK f \in 1 .. n : Word(t, second, f) /\ WordAt(t, second) = SubSeq(t, second, f)
    BY <2>3, WordAtIs
  <2>5. second <= f /\ (f = n \/ t[f + 1] = SPACE) /\ \A j \in second .. f : t[j] # SPACE
    BY <2>4 DEF Word
  <2>6. t[second] # SPACE /\ (second = 1 \/ t[second - 1] = SPACE) BY <2>3 DEF WordStarts
  <2>7. second > e + 1
    <3> SUFFICES ASSUME second <= e + 1 PROVE FALSE BY <1>1, <2>1
    <3>1. second # 1 /\ t[second - 1] = SPACE BY <1>1, <2>1, <2>6
    <3>2. second - 1 \in a .. e BY <1>1, <2>1
    <3>3. \A j \in a .. e : t[j] # SPACE BY DEF First, Word
    <3> QED BY <3>1, <3>2, <3>3
  <2>8. ASSUME NEW k \in (e + 1) .. n PROVE t[k] # SPACE <=> k \in second .. f
    <3>1. k \in second .. f => t[k] # SPACE BY <2>5
    <3>2. ASSUME t[k] # SPACE, k \notin second .. f PROVE FALSE
      <4>1. k \in 1 .. Len(t) /\ k \in Nat BY <1>1
      <4>2. PICK m \in WordStarts(t) : m <= k /\ \A j \in m .. k : t[j] # SPACE
        BY <3>2, <4>1, StartBefore
      <4>3. CASE m = a
        <5>1. e + 1 \in a .. k /\ e # n BY <1>1, <1>4
        <5> QED BY <1>4, <4>2, <4>3, <5>1
      <4>4. CASE m = second
        <5>1. f + 1 \in second .. k /\ f # n BY <1>1, <2>1, <2>5, <3>2, <4>1, <4>2, <4>4
        <5> QED BY <2>5, <4>2, <4>4, <5>1
      <4> QED BY <2>1, <4>2, <4>3, <4>4
    <3> QED BY <3>1, <3>2
  <2> DEFINE p == (second - e) - 1
             q == f - e
  <2>9. p \in Nat /\ q \in Nat /\ p <= q /\ q <= n - e /\ p + 1 = second - e
    BY <1>1, <2>1, <2>5, <2>7
  <2>10. ASSUME NEW i \in 1 .. (n - e) PROVE r[i] # SPACE <=> i \in (p + 1) .. q
    <3>1. r[i] = t[i + e] /\ i + e \in (e + 1) .. n BY <1>1, <1>2
    <3>2. i + e \in second .. f <=> i \in (p + 1) .. q BY <1>1, <2>1, <2>9
    <3> QED BY <2>8, <3>1, <3>2
  <2> HIDE DEF p, q
  <2>11. Unspaced(r) = SubSeq(r, p + 1, q)
    <3> HIDE DEF r
    <3> QED BY <1>2, <2>9, <2>10, UnspacedIs
  <2>12. SubSeq(r, p + 1, q) = SubSeq(t, second, f)
    <3> DEFINE u == SubSeq(r, p + 1, q)
               v == SubSeq(t, second, f)
    <3>1. p + 1 \in Nat \ {0} /\ p + 1 <= q + 1 /\ q <= Len(r) BY <1>2, <2>9
    <3>2. q = f - e /\ second \in Nat /\ second # 0 BY <2>1 DEF q
    <3> HIDE DEF r
    <3>3. u \in Seq(Nat) /\ Len(u) = q - p /\ \A i \in 1 .. (q - p) : u[i] = r[p + i]
      BY <1>2, <2>9, <3>1
    <3>4. v \in Seq(Nat) /\ Len(v) = (f - second) + 1
          /\ \A i \in 1 .. ((f - second) + 1) : v[i] = t[(second + i) - 1]
      <4>1. second \in Nat \ {0} /\ f \in Nat /\ second <= f + 1 /\ f <= Len(t) BY <1>1, <2>1, <2>5
      <4> QED BY <1>1, <4>1, SliceIs
    <3>5. q - p = (f - second) + 1 BY <1>1, <2>1, <2>9, <3>2
    <3>6. ASSUME NEW i \in 1 .. (q - p) PROVE u[i] = v[i]
      <4>1. p + i \in 1 .. (n - e) /\ (p + i) + e = (second + i) - 1 BY <1>1, <2>1, <2>9
      <4>2. u[i] = t[(second + i) - 1] BY <1>2, <3>3, <4>1
      <4> QED BY <3>4, <3>5, <4>2
    <3> HIDE DEF u, v
    <3>7. u = v BY <3>3, <3>4, <3>5, <3>6, SameSeq
    <3> QED BY <3>7 DEF u, v
  <2> QED BY <2>2, <2>4, <2>11, <2>12 DEF second
<1> QED BY <1>5, <1>6

\* What getargs makes of the PCB is what stood behind the command, without spaces.
LEMMA GetargsIs ==
    ASSUME NEW t \in Typed, NEW p, Passed(t, args[p]), Cardinality(WordStarts(t)) <= 2
    PROVE  LET second == CHOOSE i \in WordStarts(t) : \E j \in WordStarts(t) : j < i
           IN  system_getargs(p) = IF Cardinality(WordStarts(t)) = 1 THEN <<>> ELSE WordAt(t, second)
<1>1. PICK a \in 1 .. Len(t), e \in 1 .. Len(t) :
         /\ First(t, a, e)
         /\ LET taken == Unspaced(SubSeq(t, e + 1, Len(t)))
            IN  args[p] = taken \o Zeros(ARG_SIZE - Len(taken))
  BY DEF Passed
<1> DEFINE n == Len(t)
           r == SubSeq(t, e + 1, n)
           taken == Unspaced(r)
           pad == Zeros(ARG_SIZE - Len(taken))
           b == SubSeq(args[p], 1, ARG_SIZE - 1) \o <<NUL>>
<1>2. n \in Nat /\ n <= MAX_LINE /\ MAX_LINE < ARG_SIZE /\ ARG_SIZE \in Nat /\ MAX_LINE \in Nat
      /\ t \in Seq(Nat) /\ (\A i \in 1 .. n : t[i] # NUL) /\ e \in Nat /\ e <= n /\ e >= 1
  BY TypedIs, CommandsAssumption
<1>3. r \in Seq(Nat) /\ Len(r) = n - e /\ \A i \in 1 .. Len(r) : r[i] # NUL
  <2>1. r \in Seq(Nat) /\ Len(r) = n - e /\ \A i \in 1 .. (n - e) : r[i] = t[i + e] BY <1>2, RestIs
  <2>2. \A i \in 1 .. (n - e) : i + e \in 1 .. n BY <1>2
  <2> HIDE DEF r
  <2> QED BY <1>2, <2>1, <2>2
<1>4. args[p] = taken \o pad BY <1>1
<1> HIDE DEF r
<1>5. taken \in Seq(Nat) /\ Len(taken) <= n - e /\ \A i \in 1 .. Len(taken) : taken[i] # NUL
  BY <1>3, UnspacedFits
<1> HIDE DEF taken
<1> DEFINE k == Len(taken)
<1>6. k \in Nat /\ k < ARG_SIZE - 1 /\ ARG_SIZE - k \in Nat
  <2>1. k \in Nat BY <1>5
  <2>2. k <= n - e BY <1>5
  <2> QED BY <1>2, <2>1, <2>2
<1>7. pad \in Seq(Nat) /\ Len(pad) = ARG_SIZE - k /\ \A i \in 1 .. (ARG_SIZE - k) : pad[i] = NUL
  BY <1>6, CharacterFacts DEF Zeros
<1> HIDE DEF pad
<1>8. args[p] \in Seq(Nat) /\ Len(args[p]) = ARG_SIZE
      /\ (\A i \in 1 .. k : args[p][i] = taken[i]) /\ args[p][k + 1] = NUL
  <2>1. (taken \o pad) \in Seq(Nat) /\ Len(taken \o pad) = ARG_SIZE
        /\ (\A i \in 1 .. k : (taken \o pad)[i] = taken[i]) /\ (taken \o pad)[k + 1] = NUL
    BY <1>2, <1>5, <1>6, <1>7
  <2> QED BY <1>4, <2>1
<1>9. b \in Seq(Nat) /\ Len(b) = ARG_SIZE
      /\ (\A i \in 1 .. k : b[i] = taken[i]) /\ b[k + 1] = NUL
  <2> DEFINE x == SubSeq(args[p], 1, ARG_SIZE - 1)
  <2>1. x \in Seq(Nat) /\ Len(x) = ARG_SIZE - 1 /\ \A i \in 1 .. (ARG_SIZE - 1) : x[i] = args[p][i]
    <3>1. ARG_SIZE - 1 \in Nat /\ ARG_SIZE - 1 <= Len(args[p]) BY <1>2, <1>6, <1>8
    <3> QED BY <1>8, <3>1, RestIs
  <2> HIDE DEF x
  <2>2. (x \o <<NUL>>) \in Seq(Nat) /\ Len(x \o <<NUL>>) = ARG_SIZE
        /\ \A i \in 1 .. (ARG_SIZE - 1) : (x \o <<NUL>>)[i] = x[i]
    BY <1>2, <1>6, <2>1, CharacterFacts
  <2>3. k + 1 \in 1 .. (ARG_SIZE - 1) /\ \A i \in 1 .. k : i \in 1 .. (ARG_SIZE - 1) BY <1>2, <1>6
  <2> QED BY <1>8, <2>1, <2>2, <2>3 DEF x
<1> HIDE DEF b
<1>10. String(b) = SubSeq(b, 1, k)
  <2>1. k < Len(b) BY <1>2, <1>6, <1>9
  <2>2. \A i \in 1 .. k : b[i] # NUL BY <1>5, <1>9
  <2> HIDE DEF k
  <2> QED BY <1>6, <1>9, <2>1, <2>2, StringIs
<1>11. SubSeq(b, 1, k) = taken
  <2>1. SubSeq(b, 1, k) \in Seq(Nat) /\ Len(SubSeq(b, 1, k)) = k
        /\ \A i \in 1 .. k : SubSeq(b, 1, k)[i] = taken[i]
    <3>1. k <= Len(b) BY <1>2, <1>6, <1>9
    <3> HIDE DEF k
    <3>2. \A i \in 1 .. k : SubSeq(b, 1, k)[i] = b[i] BY <1>6, <1>9, <3>1, RestIs
    <3> QED BY <1>6, <1>9, <3>1, <3>2, RestIs
  <2> QED BY <1>5, <2>1, SameSeq
<1>12. system_getargs(p) = taken BY <1>10, <1>11 DEF system_getargs, b
<1> QED BY <1>1, <1>12, BehindFirst DEF taken, r
-----------------------------------------------------------------------------
(* Names *)

\* A name among NULs, as far as names are compared.
LEMMA PaddedIs ==
    ASSUME NEW w \in Seq(Typing), Len(w) <= FILE_NAME_SIZE
    PROVE  \A i \in 1 .. FILE_NAME_SIZE : Padded(w)[i] = IF i <= Len(w) THEN w[i] ELSE NUL
<1>1. FILE_NAME_SIZE \in Nat /\ Len(w) \in Nat BY CommandsAssumption
<1>2. Zeros(FILE_NAME_SIZE) \in Seq({NUL}) /\ Len(Zeros(FILE_NAME_SIZE)) = FILE_NAME_SIZE
      /\ \A i \in 1 .. FILE_NAME_SIZE : Zeros(FILE_NAME_SIZE)[i] = NUL
  BY <1>1 DEF Zeros
<1> DEFINE z == Zeros(FILE_NAME_SIZE)
<1> HIDE DEF z
<1>3. w \in Seq(Typing \cup {NUL}) /\ z \in Seq(Typing \cup {NUL}) BY <1>2 DEF z
<1>4. \A i \in 1 .. FILE_NAME_SIZE : (w \o z)[i] = IF i <= Len(w) THEN w[i] ELSE NUL
  BY <1>1, <1>2, <1>3 DEF z
<1> QED BY <1>4 DEF Padded, z

\* strncmp tells names apart.
LEMMA SameName ==
    ASSUME NEW v \in Seq(Typing), NEW w \in Seq(Typing), Len(v) <= FILE_NAME_SIZE, Len(w) <= FILE_NAME_SIZE
    PROVE  strncmp(Padded(v), Padded(w), FILE_NAME_SIZE) = 0 <=> v = w
<1> DEFINE N == FILE_NAME_SIZE
           x == Padded(v)
           y == Padded(w)
           stops == {i \in 1 .. N : x[i] # y[i] \/ x[i] = NUL}
           first == CHOOSE k \in stops : \A j \in stops : k <= j
<1>1. N \in Nat /\ Len(v) \in Nat /\ Len(w) \in Nat BY CommandsAssumption
<1>2. /\ \A i \in 1 .. N : x[i] = IF i <= Len(v) THEN v[i] ELSE NUL
      /\ \A i \in 1 .. N : y[i] = IF i <= Len(w) THEN w[i] ELSE NUL
  BY PaddedIs
<1>3. /\ \A i \in 1 .. Len(v) : v[i] \in Typing /\ v[i] \in Nat /\ v[i] # NUL
      /\ \A i \in 1 .. Len(w) : w[i] \in Typing /\ w[i] \in Nat /\ w[i] # NUL
  <2>1. /\ \A i \in 1 .. Len(v) : v[i] \in Typing
        /\ \A i \in 1 .. Len(w) : w[i] \in Typing
    OBVIOUS
  <2>2. \A k \in Typing : k \in Nat /\ k # NUL BY CharacterFacts
  <2> QED BY <2>1, <2>2
<1>4. strncmp(x, y, N) = IF stops = {} THEN 0 ELSE x[first] - y[first] BY DEF strncmp
<1> HIDE DEF x, y, N
<1>5. \A i \in 1 .. N : x[i] \in Nat /\ y[i] \in Nat
  <2>1. \A i \in 1 .. N : (i <= Len(v) => i \in 1 .. Len(v)) /\ (i <= Len(w) => i \in 1 .. Len(w))
    BY <1>1
  <2> QED BY <1>2, <1>3, <2>1, CharacterFacts
<1>6. ASSUME v = w PROVE strncmp(x, y, N) = 0
  <2>1. \A i \in 1 .. N : x[i] = y[i] BY <1>2, <1>6
  <2>2. CASE stops = {} BY <1>4, <2>2
  <2>3. CASE stops # {}
    <3>1. stops \subseteq Nat BY <1>1
    <3>2. first \in stops
      <4> HIDE DEF stops
      <4>1. \E k \in stops : \A j \in stops : k <= j BY <2>3, <3>1, Least
      <4> QED BY <4>1
    <3> HIDE DEF first
    <3>3. first \in 1 .. N BY <3>2
    <3>4. x[first] = y[first] /\ x[first] \in Nat BY <1>5, <2>1, <3>3
    <3> HIDE DEF stops
    <3>5. strncmp(x, y, N) = x[first] - y[first] BY <1>4, <2>3
    <3>6. \A k \in Nat : k - k = 0 OBVIOUS
    <3> QED BY <3>4, <3>5, <3>6
  <2> QED BY <2>2, <2>3
<1>7. ASSUME strncmp(x, y, N) = 0 PROVE v = w
  <2>0. Len(v) <= N /\ Len(w) <= N BY DEF N
  <2>1. CASE stops = {}
    <3>1. \A i \in 1 .. N : x[i] = y[i] /\ x[i] # NUL BY <2>1
    <3>2. Len(v) = N
      <4> SUFFICES ASSUME Len(v) < N PROVE FALSE BY <1>1, <2>0
      <4>1. Len(v) + 1 \in 1 .. N /\ ~(Len(v) + 1 <= Len(v)) BY <1>1
      <4> QED BY <1>2, <3>1, <4>1
    <3>3. Len(w) = N
      <4> SUFFICES ASSUME Len(w) < N PROVE FALSE BY <1>1, <2>0
      <4>1. Len(w) + 1 \in 1 .. N /\ ~(Len(w) + 1 <= Len(w)) BY <1>1
      <4> QED BY <1>2, <3>1, <4>1
    <3>4. \A i \in 1 .. N : v[i] = w[i] BY <1>1, <1>2, <3>1, <3>2, <3>3
    <3> QED BY <3>2, <3>3, <3>4
  <2>2. CASE stops # {}
    <3>1. stops \subseteq Nat BY <1>1
    <3>2. first \in stops /\ \A j \in stops : first <= j
      <4> HIDE DEF stops
      <4>1. \E k \in stops : \A j \in stops : k <= j BY <2>2, <3>1, Least
      <4> QED BY <4>1
    <3> HIDE DEF first
    <3>3. first \in 1 .. N /\ (x[first] # y[first] \/ x[first] = NUL) BY <3>2
    <3>4. \A j \in 1 .. (first - 1) : x[j] = y[j] /\ x[j] # NUL
      <4>1. \A j \in 1 .. (first - 1) : j \in 1 .. N /\ ~(first <= j) BY <1>1, <3>3
      <4> QED BY <3>2, <4>1
    <3>5. x[first] = y[first]
      <4>1. x[first] - y[first] = 0 BY <1>4, <1>7, <2>2
      <4>2. x[first] \in Nat /\ y[first] \in Nat BY <1>5, <3>3
      <4>3. \A k, m \in Nat : k - m = 0 => k = m OBVIOUS
      <4> QED BY <4>1, <4>2, <4>3
    <3>6. x[first] = NUL /\ y[first] = NUL BY <3>3, <3>5
    <3>7. Len(v) = first - 1
      <4>1. ~(first <= Len(v))
        <5>1. first <= Len(v) => first \in 1 .. Len(v) BY <1>1, <3>3
        <5> QED BY <1>2, <1>3, <3>3, <3>6, <5>1
      <4>2. ~(Len(v) + 1 < first)
        <5>1. Len(v) + 1 < first => /\ Len(v) + 1 \in 1 .. (first - 1) /\ Len(v) + 1 \in 1 .. N
                                    /\ ~(Len(v) + 1 <= Len(v))
          BY <1>1, <3>3
        <5> QED BY <1>2, <3>4, <5>1
      <4> QED BY <1>1, <3>3, <4>1, <4>2
    <3>8. Len(w) = first - 1
      <4>1. ~(first <= Len(w))
        <5>1. first <= Len(w) => first \in 1 .. Len(w) BY <1>1, <3>3
        <5> QED BY <1>2, <1>3, <3>3, <3>6, <5>1
      <4>2. ~(Len(w) + 1 < first)
        <5>1. Len(w) + 1 < first => /\ Len(w) + 1 \in 1 .. (first - 1) /\ Len(w) + 1 \in 1 .. N
                                    /\ ~(Len(w) + 1 <= Len(w))
          BY <1>1, <3>3
        <5> QED BY <1>2, <3>4, <5>1
      <4> QED BY <1>1, <3>3, <4>1, <4>2
    <3>9. \A i \in 1 .. (first - 1) : v[i] = w[i]
      <4>1. \A i \in 1 .. (first - 1) : i \in 1 .. N /\ i <= Len(v) /\ i <= Len(w)
        BY <1>1, <3>3, <3>7, <3>8
      <4> QED BY <1>2, <3>4, <4>1
    <3> HIDE DEF stops
    <3> QED BY <3>7, <3>8, <3>9
  <2> QED BY <2>1, <2>2
<1> QED BY <1>6, <1>7 DEF x, y, N

\* So the files found by a line's first word are the ones of that name.
LEMMA EntriesAre ==
    ASSUME NEW t \in Typed
    PROVE  /\ Entries(FirstWord(t)) = Named(FirstWord(t))
           /\ Named(FirstWord(t)) # {} => FirstWord(t) # <<>>
<1>1. FirstWord(t) \in Seq(Typing) /\ Len(FirstWord(t)) <= FILE_NAME_SIZE
  <2>1. t \in Seq(Typing) /\ Len(t) \in Nat BY TypedIs
  <2>2. CASE FirstWord(t) = <<>> BY <2>2, TypedIs
  <2>3. CASE \E a, e \in 1 .. Len(t) : First(t, a, e) /\ FirstWord(t) = SubSeq(t, a, e)
    <3>1. PICK a \in 1 .. Len(t), e \in 1 .. Len(t) : FirstWord(t) = SubSeq(t, a, e) BY <2>3
    <3>2. SubSeq(t, a, e) \in Seq(Typing) BY <2>1
    <3> QED BY <3>1, <3>2, TypedIs
  <2> QED BY <2>2, <2>3, FirstWordIs
<1>2. ASSUME NEW i \in DOMAIN Directory
      PROVE  /\ Directory[i].name \in Seq(Typing) /\ Len(Directory[i].name) <= FILE_NAME_SIZE
             /\ Directory[i].name # <<>>
  <2>0. Directory \in Seq([name : Seq(Letters), content : Contents])
        /\ Len(Directory[i].name) \in 1 .. FILE_NAME_SIZE
    BY CommandsAssumption
  <2>4. Directory[i] \in [name : Seq(Letters), content : Contents]
    <3> DEFINE R == [name : Seq(Letters), content : Contents]
    <3>1. Directory \in Seq(R) BY <2>0
    <3> HIDE DEF R
    <3>2. \A x \in Seq(R) : \A j \in DOMAIN x : x[j] \in R OBVIOUS
    <3> QED BY <3>1, <3>2 DEF R
  <2>1. Directory[i].name \in Seq(Letters) /\ Len(Directory[i].name) \in 1 .. FILE_NAME_SIZE
    BY <2>0, <2>4
  <2>2. Directory[i].name \in Seq(Typing) BY <2>1 DEF Typing
  <2>3. Len(<<>>) = 0 OBVIOUS
  <2> QED BY <2>1, <2>2, <2>3, CommandsAssumption
<1>3. \A i \in DOMAIN Directory :
         strncmp(Padded(FirstWord(t)), Padded(Directory[i].name), FILE_NAME_SIZE) = 0
         <=> Directory[i].name = FirstWord(t)
  BY <1>1, <1>2, SameName
<1>4. Entries(FirstWord(t)) = Named(FirstWord(t)) BY <1>3 DEF Entries, Named
<1>5. Named(FirstWord(t)) # {} => FirstWord(t) # <<>> BY <1>2 DEF Named
<1> QED BY <1>4, <1>5

\* The file that is opened has the name.
LEMMA ContentIs ==
    ASSUME NEW t \in Typed, Found(FirstWord(t))
    PROVE  \E k \in Named(FirstWord(t)) : Content(FirstWord(t)) = Directory[k].content
<1> DEFINE T == Entries(FirstWord(t))
           k == CHOOSE i \in T : \A j \in T : i <= j
<1>1. T # {} BY DEF Found
<1>2. T \subseteq Nat
  <2>1. DOMAIN Directory \subseteq Nat BY CommandsAssumption
  <2> QED BY <2>1 DEF Entries
<1>3. Content(FirstWord(t)) = Directory[k].content BY DEF Content
<1>4. T = Named(FirstWord(t)) BY EntriesAre
<1> HIDE DEF T
<1>5. \E i \in T : \A j \in T : i <= j BY <1>1, <1>2, Least
<1>6. k \in T BY <1>5
<1> HIDE DEF k
<1> QED BY <1>3, <1>4, <1>6
-----------------------------------------------------------------------------
(* The invariant of the command lines *)

\* The processes of the terminal: the boot shell first, all different, none of them
\* free while one runs; a program that was started has a parent.
ChainOK ==
    /\ free_pid \in [Pids -> BOOLEAN]
    /\ chain \in Seq(Pids) /\ Len(chain) \in 1 .. MAX_CHAIN + 1
    /\ chain[1] = 0
    /\ \A i, j \in 1 .. Len(chain) : chain[i] = chain[j] => i = j
    /\ at # "stopped" => \A i \in 1 .. Len(chain) : ~free_pid[chain[i]]
    /\ at \in {"prompt", "execute", "returned"} => Len(chain) <= MAX_CHAIN
    /\ at \in {"start", "open"} => Len(chain) > 1

\* What the variables hold.
HeldOK ==
    /\ image \in [Pids -> Programs \cup {"none"}]
    /\ args \in [Pids -> Seq(Nat)]
    /\ \A p \in Pids : Len(args[p]) = ARG_SIZE /\ Terminated(args[p])
    /\ line \in [Pids -> Typed]
    /\ runnable \in [Pids -> BOOLEAN]
    /\ at \in {"prompt", "execute", "returned", "start", "open", "stopped"}
    /\ rval \in {-1, 0}
    /\ said \in {"", "no such command", "exception", "abnormally"}

\* What a program starts with: its parent's line still is the command that was run.
GivenOK ==
    at = "start" =>
        /\ Passed(line[Parent], args[Me])
        /\ \E i \in Named(FirstWord(line[Parent])) : Directory[i].content = image[Me]

CommandsInv == ChainOK /\ HeldOK /\ GivenOK /\ OneWordArrives

\* No file of the directory is empty.
FilesHold == \A i \in DOMAIN Directory : Directory[i].content # "empty"

\* The invariant gives what the run checks.
LEMMA CommandsInvSays == ASSUME CommandsInv PROVE ShellRight
<1>1. TypeOK BY DEF CommandsInv, ChainOK, HeldOK, TypeOK
<1>2. RunsNamed BY DEF CommandsInv, GivenOK, RunsNamed
<1> QED BY <1>1, <1>2 DEF CommandsInv, ShellRight

\* The process that runs and its parent.
LEMMA ChainFacts ==
    ASSUME ChainOK
    PROVE  /\ Len(chain) \in Nat /\ Len(chain) >= 1 /\ Me \in Pids
           /\ \A i \in 1 .. Len(chain) : chain[i] \in Pids /\ (i < Len(chain) => chain[i] # Me)
           /\ Pids \subseteq Nat /\ 0 \in Pids /\ MAX_CHAIN \in Nat \ {0}
           /\ Forked => /\ Parent \in Pids /\ Parent # Me
                        /\ Len(chain) - 1 \in 1 .. Len(chain)
<1>1. Len(chain) \in Nat /\ Len(chain) >= 1 /\ MAX_CHAIN \in Nat \ {0} BY CommandsAssumption DEF ChainOK
<1>2. Pids \subseteq Nat /\ 0 \in Pids BY CommandsAssumption DEF Pids
<1>3. \A i \in 1 .. Len(chain) : chain[i] \in Pids BY DEF ChainOK
<1>4. Len(chain) \in 1 .. Len(chain) BY <1>1
<1>5. \A i \in 1 .. Len(chain) : i < Len(chain) => chain[i] # chain[Len(chain)]
  BY <1>1, <1>4 DEF ChainOK
<1>6. Forked => Len(chain) - 1 \in 1 .. Len(chain) /\ Len(chain) - 1 < Len(chain) BY <1>1 DEF Forked
<1> QED BY <1>1, <1>2, <1>3, <1>4, <1>5, <1>6 DEF Me, Parent

\* The process that is found is free.
LEMMA FreeIs ==
    ASSUME find_free_process # -1
    PROVE  find_free_process \in Pids /\ free_pid[find_free_process] /\ FreePids # {}
<1>1. FreePids # {} /\ find_free_process = CHOOSE p \in FreePids : \A q \in FreePids : p <= q
  BY DEF find_free_process
<1>2. FreePids \subseteq Nat BY CommandsAssumption DEF FreePids, Pids
<1>3. \E p \in FreePids : \A q \in FreePids : p <= q BY <1>1, <1>2, Least
<1>4. find_free_process \in FreePids BY <1>1, <1>3
<1> QED BY <1>1, <1>4 DEF FreePids
-----------------------------------------------------------------------------
(* Each step keeps it *)

\* The first state.
LEMMA CommandsStart == ASSUME Init PROVE CommandsInv
<1>1. /\ MAX_PID \in Nat /\ MAX_TERM \in 1 .. MAX_PID /\ MAX_CHAIN \in Nat \ {0} /\ ARG_SIZE \in Nat
      /\ ARG_SIZE > 0
  BY CommandsAssumption
<1>2. chain \in Seq(Pids) /\ Len(chain) = 1 /\ chain[1] = 0
  <2>1. chain = <<0>> BY DEF Init
  <2>2. 0 \in Pids BY <1>1 DEF Pids
  <2> QED BY <2>1, <2>2
<1>3. ~free_pid[0] /\ free_pid \in [Pids -> BOOLEAN]
  <2>1. free_pid = [p \in Pids |-> p >= MAX_TERM] BY DEF Init
  <2>2. 0 \in Pids /\ ~(0 >= MAX_TERM) BY <1>1 DEF Pids
  <2>3. \A p \in Pids : (p >= MAX_TERM) \in BOOLEAN OBVIOUS
  <2> QED BY <2>1, <2>2, <2>3
<1>4. ChainOK
  <2>1. at = "prompt" BY DEF Init
  <2>2. \A i \in 1 .. Len(chain) : i = 1 BY <1>2
  <2> QED BY <1>1, <1>2, <1>3, <2>1, <2>2 DEF ChainOK
<1>5. Zeros(ARG_SIZE) \in Seq(Nat) /\ Len(Zeros(ARG_SIZE)) = ARG_SIZE /\ Terminated(Zeros(ARG_SIZE))
  <2>1. Zeros(ARG_SIZE) \in [1 .. ARG_SIZE -> Nat] BY CharacterFacts DEF Zeros
  <2>2. Zeros(ARG_SIZE) \in Seq(Nat) /\ Len(Zeros(ARG_SIZE)) = ARG_SIZE BY <1>1, <2>1
  <2>3. 1 \in 1 .. ARG_SIZE BY <1>1
  <2>4. Zeros(ARG_SIZE)[1] = NUL BY <2>3 DEF Zeros
  <2> QED BY <2>2, <2>3, <2>4 DEF Terminated
<1>6. HeldOK
  <2>1. args = [p \in Pids |-> Zeros(ARG_SIZE)] BY DEF Init
  <2>2. args \in [Pids -> Seq(Nat)] /\ \A p \in Pids : Len(args[p]) = ARG_SIZE /\ Terminated(args[p])
    BY <1>5, <2>1
  <2>3. line \in [Pids -> Typed] BY EmptyLine DEF Init
  <2>4. image \in [Pids -> Programs \cup {"none"}] BY DEF Init, Programs
  <2> QED BY <2>2, <2>3, <2>4 DEF Init, HeldOK
<1>7. GivenOK /\ OneWordArrives BY DEF Init, GivenOK, OneWordArrives
<1> QED BY <1>4, <1>6, <1>7 DEF CommandsInv

\* What the shell does by itself, and a refusal: no process comes or goes.
LEMMA ShellKeeps ==
    ASSUME CommandsInv, ShellReads \/ ShellStarts \/ ShellAnswers \/ Refuse \/ Faults
    PROVE  CommandsInv'
<1>1. chain' = chain /\ free_pid' = free_pid /\ image' = image /\ args' = args
  BY DEF ShellReads, ShellStarts, ShellAnswers, Refuse, Faults
<1>2. Me \in Pids /\ Len(chain) \in Nat /\ MAX_CHAIN \in Nat BY ChainFacts DEF CommandsInv
<1>3. at \notin {"stopped", "open"} /\ at' \in {"prompt", "execute", "returned", "stopped"}
  BY DEF ShellReads, ShellStarts, ShellAnswers, Refuse, Faults, Runs
<1>4. at' # "stopped" => Len(chain) <= MAX_CHAIN
  BY DEF ShellReads, ShellStarts, ShellAnswers, Refuse, Faults, CommandsInv, ChainOK
<1>5. ChainOK'
  <2>1. at # "stopped" /\ at' \notin {"start", "open"} BY <1>3
  <2>2. at' \in {"prompt", "execute", "returned"} => Len(chain) <= MAX_CHAIN BY <1>4
  <2> QED BY <1>1, <2>1, <2>2 DEF CommandsInv, ChainOK
<1>6. HeldOK'
  <2>1. line' \in [Pids -> Typed]
    <3>1. line \in [Pids -> Typed] BY DEF CommandsInv, HeldOK
    <3>2. CASE ShellReads
      <4>1. PICK t \in Typed : line' = [line EXCEPT ![Me] = String(Stripped(t))] BY <3>2 DEF ShellReads
      <4>2. String(Stripped(t)) = t BY StrippedIs
      <4> QED BY <3>1, <4>1, <4>2
    <3>3. CASE ShellAnswers BY <3>1, <3>3, EmptyLine DEF ShellAnswers
    <3>4. CASE ShellStarts \/ Refuse \/ Faults BY <3>1, <3>4 DEF ShellStarts, Refuse, Faults
    <3> QED BY <3>2, <3>3, <3>4
  <2>2. runnable' \in [Pids -> BOOLEAN]
    <3>1. runnable \in [Pids -> BOOLEAN] BY DEF CommandsInv, HeldOK
    <3>2. CASE Refuse
      <4>1. Runnable(line[Me]) \in BOOLEAN BY DEF Runnable
      <4> QED BY <3>1, <3>2, <4>1 DEF Refuse, Note
    <3>3. CASE ShellReads \/ ShellStarts \/ ShellAnswers \/ Faults
      BY <3>1, <3>3 DEF ShellReads, ShellStarts, ShellAnswers, Faults
    <3> QED BY <3>2, <3>3
  <2>3. rval' \in {-1, 0}
    BY DEF CommandsInv, HeldOK, ShellReads, ShellStarts, ShellAnswers, Refuse, Faults
  <2>4. said' \in {"", "no such command", "exception", "abnormally"}
    BY DEF CommandsInv, HeldOK, ShellReads, ShellStarts, ShellAnswers, Refuse, Faults
  <2> QED BY <1>1, <1>3, <2>1, <2>2, <2>3, <2>4 DEF CommandsInv, HeldOK
<1>7. GivenOK' /\ OneWordArrives' BY <1>3 DEF GivenOK, OneWordArrives
<1> QED BY <1>5, <1>6, <1>7 DEF CommandsInv

\* A process ends: the boot shell for good, another one back in its parent.
LEMMA HaltKeeps ==
    ASSUME CommandsInv, Halt, at # "stopped"
    PROVE  CommandsInv'
<1> DEFINE n == Len(chain)
<1>1. /\ n \in Nat /\ n >= 1 /\ Me \in Pids /\ MAX_CHAIN \in Nat \ {0} /\ n <= MAX_CHAIN + 1
      /\ chain[1] = 0 /\ chain \in Seq(Pids)
      /\ \A i \in 1 .. n : chain[i] \in Pids /\ (i < n => chain[i] # Me)
  BY ChainFacts DEF CommandsInv, ChainOK
<1>2. free_pid' = [free_pid EXCEPT ![Me] = TRUE] /\ free_pid \in [Pids -> BOOLEAN]
  BY DEF Halt, CommandsInv, ChainOK
<1>3. ChainOK' /\ at' \in {"returned", "stopped"} /\ rval' \in {-1, 0}
  <2>1. CASE Me < MAX_TERM
    <3>1. at' = "stopped" /\ chain' = chain /\ rval' = rval BY <2>1 DEF Halt
    <3> QED BY <1>2, <3>1 DEF CommandsInv, ChainOK, HeldOK
  <2>2. CASE ~(Me < MAX_TERM)
    <3>1. at' = "returned" /\ chain' = SubSeq(chain, 1, n - 1) /\ rval' = 0 BY <2>2 DEF Halt
    <3>2. n > 1
      <4>1. Me # 0 BY <2>2, CommandsAssumption
      <4> QED BY <1>1, <4>1 DEF Me
    <3>3. chain' \in Seq(Pids) /\ Len(chain') = n - 1 /\ \A i \in 1 .. (n - 1) : chain'[i] = chain[i]
      BY <1>1, <3>1, <3>2
    <3>4. \A i \in 1 .. (n - 1) : i \in 1 .. n /\ i < n BY <1>1
    <3>5. 1 \in 1 .. (n - 1) BY <1>1, <3>2
    <3>6. \A i \in 1 .. Len(chain') : ~free_pid'[chain'[i]]
      <4>1. \A i \in 1 .. n : ~free_pid[chain[i]] BY DEF CommandsInv, ChainOK
      <4> QED BY <1>1, <1>2, <3>3, <3>4, <4>1
    <3>7. \A i, j \in 1 .. Len(chain') : chain'[i] = chain'[j] => i = j
      BY <3>3, <3>4 DEF CommandsInv, ChainOK
    <3>8. Len(chain') \in 1 .. MAX_CHAIN + 1 /\ Len(chain') <= MAX_CHAIN BY <1>1, <3>2, <3>3
    <3>9. chain'[1] = 0 BY <1>1, <3>3, <3>5
    <3>10. free_pid' \in [Pids -> BOOLEAN] BY <1>1, <1>2
    <3> QED BY <3>1, <3>3, <3>6, <3>7, <3>8, <3>9, <3>10 DEF ChainOK
  <2> QED BY <2>1, <2>2
<1>4. HeldOK'
  <2>1. line' \in [Pids -> Typed] BY <1>1, EmptyLine DEF CommandsInv, HeldOK, Halt
  <2>2. runnable' \in [Pids -> BOOLEAN] BY <1>1 DEF CommandsInv, HeldOK, Halt
  <2>3. image' = image /\ args' = args /\ said' = said BY DEF Halt
  <2> QED BY <1>3, <2>1, <2>2, <2>3 DEF CommandsInv, HeldOK
<1>5. GivenOK' /\ OneWordArrives' BY <1>3 DEF GivenOK, OneWordArrives
<1> QED BY <1>3, <1>4, <1>5 DEF CommandsInv

\* A program is started: its parent is the shell whose line was read, and it has what
\* stands in it.
LEMMA ExecuteKeeps ==
    ASSUME CommandsInv, Execute, FilesHold
    PROVE  CommandsInv'
<1> DEFINE n == Len(chain)
           child == find_free_process
           t == line[Me]
           name == file_name
<1>1. /\ n \in Nat /\ n >= 1 /\ Me \in Pids /\ MAX_CHAIN \in Nat \ {0} /\ chain \in Seq(Pids)
      /\ chain[1] = 0 /\ \A i \in 1 .. n : chain[i] \in Pids
  BY ChainFacts DEF CommandsInv, ChainOK
<1>2. child \in Pids /\ free_pid[child] BY FreeIs DEF Execute
<1>3. t \in Typed BY <1>1 DEF CommandsInv, HeldOK
<1>4. name = FirstWord(t) BY <1>3, SplitIs
<1>5. PICK k \in Named(FirstWord(t)) : Content(name) = Directory[k].content
  BY <1>3, <1>4, ContentIs DEF Execute
<1>6. Content(name) \in Programs
  <2>1. MayPass(Content(name)) BY DEF Execute
  <2>2. Content(name) # "empty" BY <1>5 DEF FilesHold, Named
  <2> QED BY <2>1, <2>2 DEF MayPass
<1>7. /\ at = "execute" /\ at' = "start"
      /\ free_pid' = [free_pid EXCEPT ![child] = FALSE]
      /\ chain' = Append(chain, child)
      /\ image' = [image EXCEPT ![child] = Content(name)]
      /\ args' = [args EXCEPT ![child] = Arguments(child)]
      /\ line' = [line EXCEPT ![child] = <<>>]
      /\ rval' = rval /\ said' = said
      /\ runnable' = [runnable EXCEPT ![Me] = Runnable(t)]
  <2>1. Content(name) # "empty" BY <1>6 DEF Programs
  <2> QED BY <2>1 DEF Execute, Note
<1> HIDE DEF child, name
<1>8. /\ chain' \in Seq(Pids) /\ Len(chain') = n + 1 /\ chain'[n + 1] = child
      /\ \A i \in 1 .. n : chain'[i] = chain[i]
  BY <1>1, <1>2, <1>7
<1>9. \A i \in 1 .. n : chain[i] # child /\ ~free_pid[chain[i]]
  BY <1>2, <1>7 DEF CommandsInv, ChainOK
<1>10. ChainOK'
  <2>1. \A i \in 1 .. Len(chain') : i = n + 1 \/ i \in 1 .. n BY <1>1, <1>8
  <2>2. free_pid \in [Pids -> BOOLEAN] BY DEF CommandsInv, ChainOK
  <2>3. free_pid' \in [Pids -> BOOLEAN] BY <1>2, <1>7, <2>2
  <2>4. \A i \in 1 .. Len(chain') : ~free_pid'[chain'[i]]
    BY <1>1, <1>2, <1>7, <1>8, <1>9, <2>1, <2>2
  <2>5. ASSUME NEW i \in 1 .. Len(chain'), NEW j \in 1 .. Len(chain'), chain'[i] = chain'[j]
        PROVE  i = j
    <3>1. CASE i \in 1 .. n /\ j \in 1 .. n BY <1>8, <2>5, <3>1 DEF CommandsInv, ChainOK
    <3>2. CASE i = n + 1 /\ j \in 1 .. n BY <1>8, <1>9, <2>5, <3>2
    <3>3. CASE i \in 1 .. n /\ j = n + 1 BY <1>8, <1>9, <2>5, <3>3
    <3>4. CASE i = n + 1 /\ j = n + 1 BY <3>4
    <3> QED BY <2>1, <3>1, <3>2, <3>3, <3>4
  <2>6. n <= MAX_CHAIN BY <1>7 DEF CommandsInv, ChainOK
  <2>7. Len(chain') \in 1 .. MAX_CHAIN + 1 /\ Len(chain') > 1 BY <1>1, <1>8, <2>6
  <2>8. chain'[1] = 0
    <3>1. 1 \in 1 .. n BY <1>1
    <3> QED BY <1>1, <1>8, <3>1
  <2> QED BY <1>7, <1>8, <2>3, <2>4, <2>5, <2>7, <2>8 DEF ChainOK
<1>11. /\ Arguments(child) \in Seq(Nat) /\ Len(Arguments(child)) = ARG_SIZE
       /\ Terminated(Arguments(child))
       /\ FirstWord(t) # <<>> => Passed(t, Arguments(child))
  BY <1>3, ArgumentsFit
<1>12. HeldOK'
  <2>1. image \in [Pids -> Programs \cup {"none"}] BY DEF CommandsInv, HeldOK
  <2>2. image' \in [Pids -> Programs \cup {"none"}] BY <1>2, <1>6, <1>7, <2>1
  <2>3. args \in [Pids -> Seq(Nat)] /\ \A p \in Pids : Len(args[p]) = ARG_SIZE /\ Terminated(args[p])
    BY DEF CommandsInv, HeldOK
  <2> HIDE DEF t
  <2>4. args' \in [Pids -> Seq(Nat)] BY <1>2, <1>7, <1>11, <2>3
  <2>5. ASSUME NEW p \in Pids PROVE Len(args'[p]) = ARG_SIZE /\ Terminated(args'[p])
    <3>1. args'[p] = IF p = child THEN Arguments(child) ELSE args[p] BY <1>7, <2>3
    <3>2. CASE p = child BY <1>11, <3>1, <3>2
    <3>3. CASE p # child BY <2>3, <3>1, <3>3
    <3> QED BY <3>2, <3>3
  <2>6. line' \in [Pids -> Typed] BY <1>2, <1>7, EmptyLine DEF CommandsInv, HeldOK
  <2>7. runnable' \in [Pids -> BOOLEAN]
    <3>1. Runnable(t) \in BOOLEAN BY DEF Runnable
    <3> QED BY <1>1, <1>7, <3>1 DEF CommandsInv, HeldOK
  <2>8. /\ rval' \in {-1, 0} /\ said' \in {"", "no such command", "exception", "abnormally"}
    BY <1>7 DEF CommandsInv, HeldOK
  <2> QED BY <1>7, <2>2, <2>4, <2>5, <2>6, <2>7, <2>8 DEF HeldOK
<1>13. GivenOK'
  <2>1. Me' = child /\ Parent' = Me
    <3>1. Len(chain') - 1 = n /\ n \in 1 .. n BY <1>1, <1>8
    <3>2. chain'[n] = chain[n] BY <1>8, <3>1
    <3> QED BY <1>8, <3>1, <3>2 DEF Me, Parent
  <2>2. Me # child
    <3>1. n \in 1 .. n BY <1>1
    <3> QED BY <1>9, <3>1 DEF Me
  <2>3. line'[Me] = t
    <3>1. line \in [Pids -> Typed] BY DEF CommandsInv, HeldOK
    <3> QED BY <1>1, <1>7, <2>2, <3>1
  <2>4. args'[child] = Arguments(child) /\ image'[child] = Content(name)
    BY <1>2, <1>7 DEF CommandsInv, HeldOK
  <2>5. Passed(t, Arguments(child))
    <3>1. Named(FirstWord(t)) # {} BY <1>5
    <3>2. FirstWord(t) # <<>> BY <1>3, <3>1, EntriesAre
    <3> QED BY <1>11, <3>2
  <2> HIDE DEF t
  <2> QED BY <1>5, <2>1, <2>3, <2>4, <2>5 DEF GivenOK
<1>14. OneWordArrives' BY <1>7 DEF OneWordArrives
<1> QED BY <1>10, <1>12, <1>13, <1>14 DEF CommandsInv

\* cat asks for its argument.
LEMMA CatKeeps ==
    ASSUME CommandsInv, CatOpens
    PROVE  CommandsInv'
<1>1. /\ at = "start" /\ at' = "open" /\ opened' = system_getargs(Me)
      /\ UNCHANGED <<free_pid, chain, image, args, line, runnable, header, rval, said>>
  BY DEF CatOpens, Runs
<1>2. ChainOK' BY <1>1 DEF CommandsInv, ChainOK
<1>3. HeldOK' BY <1>1 DEF CommandsInv, HeldOK
<1>4. GivenOK' BY <1>1 DEF GivenOK
<1>5. OneWordArrives'
  <2> DEFINE t == line[Parent]
             second == CHOOSE i \in WordStarts(t) : \E j \in WordStarts(t) : j < i
  <2>1. Forked BY <1>1 DEF CommandsInv, ChainOK, Forked
  <2>2. t \in Typed BY <2>1, ChainFacts DEF CommandsInv, HeldOK
  <2>3. Passed(t, args[Me]) BY <1>1 DEF CommandsInv, GivenOK
  <2>4. Cardinality(WordStarts(t)) <= 2 =>
           system_getargs(Me) = IF Cardinality(WordStarts(t)) = 1 THEN <<>> ELSE WordAt(t, second)
    <3> HIDE DEF t
    <3> QED BY <2>2, <2>3, GetargsIs
  <2>5. line'[Parent'] = t BY <1>1 DEF Parent
  <2> HIDE DEF t
  <2> QED BY <1>1, <2>4, <2>5 DEF OneWordArrives
<1> QED BY <1>2, <1>3, <1>4, <1>5 DEF CommandsInv

\* Another terminal takes or gives back a process: none of this one's.
LEMMA ElsewhereKeeps ==
    ASSUME CommandsInv, NEW p \in Pids, Elsewhere(p)
    PROVE  CommandsInv'
<1>1. /\ \A i \in 1 .. Len(chain) : chain[i] # p
      /\ free_pid' = [free_pid EXCEPT ![p] = ~@]
      /\ image' = IF free_pid[p] THEN [image EXCEPT ![p] = "other"] ELSE image
      /\ args' = IF free_pid[p] THEN [args EXCEPT ![p] = Zeros(ARG_SIZE)] ELSE args
      /\ chain' = chain /\ at' = at /\ line' = line /\ runnable' = runnable
      /\ opened' = opened /\ rval' = rval /\ said' = said
  <2>1. chain \in Seq(Pids) BY DEF CommandsInv, ChainOK
  <2>2. \A i \in 1 .. Len(chain) : chain[i] # p BY <2>1 DEF Elsewhere
  <2> QED BY <2>2 DEF Elsewhere
<1>2. ChainOK'
  <2>1. free_pid \in [Pids -> BOOLEAN] BY DEF CommandsInv, ChainOK
  <2>2. free_pid' \in [Pids -> BOOLEAN] /\ \A q \in Pids \ {p} : free_pid'[q] = free_pid[q]
    BY <1>1, <2>1
  <2>3. \A i \in 1 .. Len(chain) : chain[i] \in Pids \ {p} BY <1>1, ChainFacts DEF CommandsInv
  <2>4. at # "stopped" => \A i \in 1 .. Len(chain) : ~free_pid'[chain[i]]
    BY <2>2, <2>3 DEF CommandsInv, ChainOK
  <2> QED BY <1>1, <2>2, <2>4 DEF CommandsInv, ChainOK
<1>3. Zeros(ARG_SIZE) \in Seq(Nat) /\ Len(Zeros(ARG_SIZE)) = ARG_SIZE /\ Terminated(Zeros(ARG_SIZE))
  <2>0. ARG_SIZE \in Nat /\ ARG_SIZE > 0 BY CommandsAssumption
  <2>1. Zeros(ARG_SIZE) \in [1 .. ARG_SIZE -> Nat] BY CharacterFacts DEF Zeros
  <2>2. Zeros(ARG_SIZE) \in Seq(Nat) /\ Len(Zeros(ARG_SIZE)) = ARG_SIZE BY <2>0, <2>1
  <2>3. 1 \in 1 .. ARG_SIZE BY <2>0
  <2>4. Zeros(ARG_SIZE)[1] = NUL BY <2>3 DEF Zeros
  <2> QED BY <2>2, <2>3, <2>4 DEF Terminated
<1>4. HeldOK'
  <2>1. image \in [Pids -> Programs \cup {"none"}] /\ args \in [Pids -> Seq(Nat)]
        /\ \A q \in Pids : Len(args[q]) = ARG_SIZE /\ Terminated(args[q])
    BY DEF CommandsInv, HeldOK
  <2>2. image' \in [Pids -> Programs \cup {"none"}] BY <1>1, <2>1 DEF Programs
  <2>3. args' \in [Pids -> Seq(Nat)] BY <1>1, <1>3, <2>1
  <2>4. ASSUME NEW q \in Pids PROVE Len(args'[q]) = ARG_SIZE /\ Terminated(args'[q])
    <3>1. args'[q] = args[q] \/ args'[q] = Zeros(ARG_SIZE) BY <1>1, <2>1
    <3> QED BY <1>3, <2>1, <3>1
  <2> QED BY <1>1, <2>2, <2>3, <2>4 DEF CommandsInv, HeldOK
<1>5. GivenOK'
  <2> SUFFICES ASSUME at = "start"
               PROVE  /\ Passed(line[Parent], args'[Me])
                      /\ \E i \in Named(FirstWord(line[Parent])) : Directory[i].content = image'[Me]
    BY <1>1 DEF GivenOK, Me, Parent
  <2>1. Me \in Pids /\ Me # p
    <3>1. Len(chain) \in 1 .. Len(chain) BY ChainFacts DEF CommandsInv
    <3> QED BY <1>1, <3>1, ChainFacts DEF CommandsInv, Me
  <2>2. image'[Me] = image[Me] /\ args'[Me] = args[Me] BY <1>1, <2>1 DEF CommandsInv, HeldOK
  <2> QED BY <2>2 DEF CommandsInv, GivenOK
<1>6. OneWordArrives' BY <1>1 DEF CommandsInv, OneWordArrives, Parent
<1> QED BY <1>2, <1>4, <1>5, <1>6 DEF CommandsInv

\* Every step of the shell and its programs.
LEMMA CommandsStep == CommandsInv /\ FilesHold /\ Next => CommandsInv'
<1> SUFFICES ASSUME CommandsInv, FilesHold, Next PROVE CommandsInv' OBVIOUS
<1>1. CASE ShellReads \/ ShellStarts \/ ShellAnswers \/ Refuse \/ Faults BY <1>1, ShellKeeps
<1>2. CASE ShellExits \/ CatEnds \/ OtherEnds
  <2>1. Halt /\ at # "stopped" BY <1>2 DEF ShellExits, CatEnds, OtherEnds, Runs
  <2> QED BY <2>1, HaltKeeps
<1>3. CASE Execute BY <1>3, ExecuteKeeps
<1>4. CASE CatOpens BY <1>4, CatKeeps
<1>5. CASE \E p \in Pids : Elsewhere(p)
  <2>1. PICK p \in Pids : Elsewhere(p) BY <1>5
  <2> QED BY <2>1, ElsewhereKeeps
<1> QED BY <1>1, <1>2, <1>3, <1>4, <1>5 DEF Next

\* What another program does leaves it.
LEMMA CommandsStay == CommandsInv /\ UNCHANGED vars => CommandsInv'
<1> SUFFICES ASSUME CommandsInv, UNCHANGED vars PROVE CommandsInv' OBVIOUS
<1>1. UNCHANGED <<free_pid, chain, image, args, at, line, runnable, header, opened, rval, said>> BY DEF vars
<1>2. ChainOK' BY <1>1 DEF CommandsInv, ChainOK
<1>3. HeldOK' BY <1>1 DEF CommandsInv, HeldOK
<1>4. GivenOK' BY <1>1 DEF CommandsInv, GivenOK, Me, Parent
<1>5. OneWordArrives' BY <1>1 DEF CommandsInv, OneWordArrives, Parent
<1> QED BY <1>2, <1>3, <1>4, <1>5 DEF CommandsInv

\* Each step of the programs is one of the shell or leaves what it has.
LEMMA ShellOrNot == [ProgramsNext]_allVars => Next \/ UNCHANGED vars
BY DEF ProgramsNext, allVars, Shell, GrepRuns, Pictures, Blinkers, vars

\* The invariant holds throughout.
LEMMA CommandsInvariant == ASSUME FilesHold PROVE ProgramsSpec => []CommandsInv
<1>1. ProgramsInit => CommandsInv BY CommandsStart DEF ProgramsInit
<1>2. CommandsInv /\ [ProgramsNext]_allVars => CommandsInv' BY CommandsStep, CommandsStay, ShellOrNot
<1> QED BY <1>1, <1>2, PTL DEF ProgramsSpec

\* With no empty file in the image the shell runs the program that its line names,
\* whatever spaces there are and whatever ran before, and cat is given the word behind.
THEOREM ShellRunsNamed == ASSUME FilesHold PROVE ProgramsSpec => []ShellRight
<1>1. CommandsInv => ShellRight BY CommandsInvSays
<1> QED BY <1>1, CommandsInvariant, PTL
-----------------------------------------------------------------------------
(* What the shell says *)

\* No name is in the directory twice; and there are not more processes than the check
\* for shells counts, as with the code's 6 and 5.
NamesDiffer == \A i, j \in DOMAIN Directory : Directory[i].name = Directory[j].name => i = j
ShellsFit == MAX_PID <= MAX_SHELLS + 1

\* A shell that waits for a program has run one; what execute has just returned tells.
AnswersInv ==
    /\ \A i \in 1 .. (Len(chain) - 1) : runnable[chain[i]]
    /\ at = "returned" => (rval = -1 <=> ~runnable[Me])

\* Whether a command was refused is whether it could be run.
LEMMA RefusedIs ==
    ASSUME CommandsInv, FilesHold, NamesDiffer, ShellsFit, at = "execute"
    PROVE  /\ Refused => ~Runnable(line[Me])
           /\ Execute => Runnable(line[Me])
<1> DEFINE t == line[Me]
<1>1. Me \in Pids /\ t \in Typed BY ChainFacts DEF CommandsInv, HeldOK
<1>2. file_name = FirstWord(t) /\ Entries(FirstWord(t)) = Named(FirstWord(t)) BY <1>1, SplitIs, EntriesAre
<1>3. ~TooManyShells
  <2>1. ~(Me > MAX_SHELLS) BY <1>1, CommandsAssumption DEF Pids, ShellsFit
  <2> QED BY <2>1 DEF TooManyShells
<1>4. find_free_process = -1 <=> FreePids = {}
  <2>1. FreePids = {} => find_free_process = -1 BY DEF find_free_process
  <2>2. find_free_process # -1 => FreePids # {} BY FreeIs
  <2>3. FreePids # {} => find_free_process # -1
    <3> SUFFICES ASSUME FreePids # {} PROVE find_free_process # -1 OBVIOUS
    <3>1. find_free_process = CHOOSE p \in FreePids : \A q \in FreePids : p <= q BY DEF find_free_process
    <3>2. FreePids \subseteq Nat BY CommandsAssumption DEF FreePids, Pids
    <3>3. \E p \in FreePids : \A q \in FreePids : p <= q BY <3>2, Least
    <3>4. find_free_process \in FreePids BY <3>1, <3>3
    <3> QED BY <3>2, <3>4
  <2> QED BY <2>1, <2>3
<1>5. Found(FirstWord(t)) <=> Named(FirstWord(t)) # {} BY <1>2 DEF Found
<1>6. ASSUME Found(FirstWord(t))
      PROVE  Content(FirstWord(t)) \in Programs
                <=> \E i \in Named(FirstWord(t)) : Directory[i].content \in Programs
  <2>1. PICK k \in Named(FirstWord(t)) : Content(FirstWord(t)) = Directory[k].content
    BY <1>1, <1>6, ContentIs
  <2>2. \A i \in Named(FirstWord(t)) : i = k BY DEF NamesDiffer, Named
  <2> QED BY <2>1, <2>2
<1>7. Runnable(t) <=> FreePids # {} /\ \E i \in Named(FirstWord(t)) : Directory[i].content \in Programs
  BY DEF Runnable
<1>8. Refused => ~Runnable(t)
  <2> SUFFICES ASSUME Refused, Runnable(t) PROVE FALSE OBVIOUS
  <2>1. FreePids # {} /\ Named(FirstWord(t)) # {} BY <1>7
  <2>2. MayFail(Content(FirstWord(t))) BY <1>2, <1>3, <1>4, <1>5, <2>1 DEF Refused
  <2>3. Content(FirstWord(t)) \in Programs BY <1>5, <1>6, <1>7, <2>1
  <2> QED BY <2>2, <2>3 DEF MayFail
<1>9. Execute => Runnable(t)
  <2> SUFFICES ASSUME Execute PROVE Runnable(t) OBVIOUS
  <2>1. find_free_process # -1 /\ Found(FirstWord(t)) /\ MayPass(Content(FirstWord(t)))
    BY <1>2 DEF Execute
  <2>2. Content(FirstWord(t)) # "empty"
    <3>1. PICK k \in Named(FirstWord(t)) : Content(FirstWord(t)) = Directory[k].content
      BY <1>1, <2>1, ContentIs
    <3> QED BY <3>1 DEF FilesHold, Named
  <2>3. Content(FirstWord(t)) \in Programs BY <2>1, <2>2 DEF MayPass
  <2> QED BY <1>4, <1>6, <1>7, <2>1, <2>3
<1> QED BY <1>8, <1>9

\* Each step keeps it.
LEMMA AnswersStep ==
    CommandsInv /\ AnswersInv /\ FilesHold /\ NamesDiffer /\ ShellsFit /\ Next => AnswersInv'
<1> SUFFICES ASSUME CommandsInv, AnswersInv, FilesHold, NamesDiffer, ShellsFit, Next
             PROVE  AnswersInv'
  OBVIOUS
<1> DEFINE n == Len(chain)
<1>1. /\ n \in Nat /\ n >= 1 /\ Me \in Pids /\ chain \in Seq(Pids) /\ chain[1] = 0
      /\ \A i \in 1 .. n : chain[i] \in Pids /\ (i < n => chain[i] # Me)
      /\ runnable \in [Pids -> BOOLEAN]
  BY ChainFacts DEF CommandsInv, ChainOK, HeldOK
<1>2. \A i \in 1 .. (n - 1) : i \in 1 .. n /\ chain[i] # Me /\ runnable[chain[i]]
  BY <1>1 DEF AnswersInv
<1>3. CASE ShellReads \/ ShellStarts \/ ShellAnswers \/ Faults \/ CatOpens
  <2>1. chain' = chain /\ runnable' = runnable /\ at' # "returned"
    BY <1>3 DEF ShellReads, ShellStarts, ShellAnswers, Faults, CatOpens
  <2> QED BY <2>1 DEF AnswersInv
<1>4. CASE Refuse
  <2>1. /\ at = "execute" /\ chain' = chain /\ rval' = -1
        /\ runnable' = [runnable EXCEPT ![Me] = Runnable(line[Me])]
    BY <1>4 DEF Refuse, Note
  <2>2. ~Runnable(line[Me]) BY <1>4, <2>1, RefusedIs DEF Refuse
  <2>3. ~runnable'[Me] /\ \A i \in 1 .. (n - 1) : runnable'[chain[i]] = runnable[chain[i]]
    BY <1>1, <1>2, <2>1, <2>2
  <2>4. Me' = Me BY <2>1 DEF Me
  <2> QED BY <1>2, <2>1, <2>3, <2>4 DEF AnswersInv
<1>5. CASE Execute
  <2>1. /\ at = "execute" /\ at' = "start" /\ chain' = Append(chain, find_free_process)
        /\ runnable' = [runnable EXCEPT ![Me] = Runnable(line[Me])]
    BY <1>5 DEF Execute, Note
  <2>2. Runnable(line[Me]) BY <1>5, <2>1, RefusedIs
  <2>3. runnable'[Me] /\ \A i \in 1 .. (n - 1) : runnable'[chain[i]] = runnable[chain[i]]
    BY <1>1, <1>2, <2>1, <2>2
  <2>4. find_free_process \in Pids BY <1>5, FreeIs DEF Execute
  <2>5. Len(chain') - 1 = n /\ \A i \in 1 .. n : chain'[i] = chain[i] BY <1>1, <2>1, <2>4
  <2>6. \A i \in 1 .. n : i = n \/ i \in 1 .. (n - 1) BY <1>1
  <2>7. \A i \in 1 .. n : runnable'[chain'[i]] BY <1>2, <2>3, <2>5, <2>6 DEF Me
  <2> QED BY <2>1, <2>5, <2>7 DEF AnswersInv
<1>6. CASE ShellExits \/ CatEnds \/ OtherEnds
  <2>1. Halt BY <1>6 DEF ShellExits, CatEnds, OtherEnds
  <2>2. runnable' = [runnable EXCEPT ![Me] = FALSE] BY <2>1 DEF Halt
  <2>3. \A i \in 1 .. (n - 1) : runnable'[chain[i]] BY <1>1, <1>2, <2>2
  <2>4. CASE Me < MAX_TERM
    <3>1. at' = "stopped" /\ chain' = chain BY <2>1, <2>4 DEF Halt
    <3> QED BY <2>3, <3>1 DEF AnswersInv
  <2>5. CASE ~(Me < MAX_TERM)
    <3>1. chain' = SubSeq(chain, 1, n - 1) /\ rval' = 0 BY <2>1, <2>5 DEF Halt
    <3>2. n > 1
      <4>1. Me # 0 BY <2>5, CommandsAssumption
      <4> QED BY <1>1, <4>1 DEF Me
    <3>3. Len(chain') = n - 1 /\ \A i \in 1 .. (n - 1) : chain'[i] = chain[i] BY <1>1, <3>1, <3>2
    <3>4. n - 1 \in 1 .. (n - 1) /\ \A i \in 1 .. ((n - 1) - 1) : i \in 1 .. (n - 1) BY <1>1, <3>2
    <3>5. runnable'[Me'] BY <2>3, <3>3, <3>4 DEF Me
    <3> QED BY <2>3, <3>1, <3>3, <3>4, <3>5 DEF AnswersInv
  <2> QED BY <2>4, <2>5
<1>7. CASE \E p \in Pids : Elsewhere(p)
  <2>1. chain' = chain /\ runnable' = runnable /\ at' = at /\ rval' = rval BY <1>7 DEF Elsewhere
  <2> QED BY <2>1 DEF AnswersInv, Me
<1> QED BY <1>3, <1>4, <1>5, <1>6, <1>7 DEF Next

\* What another program does leaves it.
LEMMA AnswersStay == AnswersInv /\ UNCHANGED vars => AnswersInv'
<1> SUFFICES ASSUME AnswersInv, UNCHANGED vars PROVE AnswersInv' OBVIOUS
<1>1. chain' = chain /\ runnable' = runnable /\ at' = at /\ rval' = rval BY DEF vars
<1> QED BY <1>1 DEF AnswersInv, Me

\* In an image whose files are not empty and have names of their own, the shell says "no
\* such command" of a line exactly when no program was run for it.
THEOREM ShellSaysSo ==
    ASSUME FilesHold, NamesDiffer, ShellsFit
    PROVE  ProgramsSpec => SaysWhenNothingRan
<1>1. ProgramsInit => AnswersInv
  <2> SUFFICES ASSUME Init PROVE AnswersInv BY DEF ProgramsInit
  <2>1. chain = <<0>> /\ at = "prompt" BY DEF Init
  <2>2. Len(chain) = 1 BY <2>1
  <2>3. \A i \in 1 .. (Len(chain) - 1) : FALSE BY <2>2
  <2> QED BY <2>1, <2>3 DEF AnswersInv
<1>2. CommandsInv /\ AnswersInv /\ [ProgramsNext]_allVars => AnswersInv'
  BY AnswersStep, AnswersStay, ShellOrNot
<1>3. CommandsInv /\ AnswersInv /\ [ProgramsNext]_allVars =>
         [at = "returned" /\ at' = "prompt" =>
             (said' = "no such command" <=> ~runnable[Me])]_vars
  <2> SUFFICES ASSUME CommandsInv, AnswersInv, Next, at = "returned", at' = "prompt"
               PROVE  said' = "no such command" <=> ~runnable[Me]
    BY ShellOrNot
  <2>1. ShellAnswers
    <3>1. ~ShellReads /\ ~ShellExits /\ ~ShellStarts /\ ~Refuse /\ ~Execute
      BY DEF ShellReads, ShellExits, ShellStarts, Refuse, Execute, Runs
    <3>2. ~CatOpens /\ ~CatEnds /\ ~OtherEnds /\ ~Faults
      BY DEF CatOpens, CatEnds, OtherEnds, Faults, Runs
    <3>3. ~\E p \in Pids : Elsewhere(p) BY DEF Elsewhere
    <3> QED BY <3>1, <3>2, <3>3 DEF Next
  <2>2. said' = "no such command" <=> rval = -1
    <3>1. rval \in {-1, 0} BY DEF CommandsInv, HeldOK
    <3>2. said' = CASE rval = -1 -> "no such command" [] rval = 256 -> "exception"
                    [] rval \notin {-1, 0, 256} -> "abnormally" [] OTHER -> ""
      BY <2>1 DEF ShellAnswers
    <3>3. CASE rval = -1
      <4>1. rval # 256 /\ rval \in {-1, 0, 256} BY <3>3
      <4>2. said' = "no such command" BY <3>2, <3>3, <4>1
      <4> QED BY <3>3, <4>2
    <3>4. CASE rval = 0
      <4>1. rval # -1 /\ rval # 256 /\ rval \in {-1, 0, 256} BY <3>4
      <4>2. said' = "" BY <3>2, <4>1
      <4>3. "" # "no such command" OBVIOUS
      <4> QED BY <4>1, <4>2, <4>3
    <3> QED BY <3>1, <3>3, <3>4
  <2> QED BY <2>2 DEF AnswersInv
<1> QED BY <1>1, <1>2, <1>3, CommandsInvariant, PTL DEF ProgramsSpec, SaysWhenNothingRan
-----------------------------------------------------------------------------
(* The lines that grep finds *)

\* No newline is behind a full buffer.
CleanStack == NL \notin Stale

\* The characters of a text.
Written == Letters \cup {NL}

\* f is how Found goes through the file: the lines found in the first k characters,
\* and the line begun.
Scan(f) ==
    /\ f[0] = [found |-> <<>>, text |-> <<>>]
    /\ \A k \in 0 .. Len(file) : f[k].text \in Seq(Nat)
    /\ \A k \in 1 .. Len(file) :
          f[k] = IF file[k] = NL THEN [found |-> G!Keep(f[k - 1].found, f[k - 1].text), text |-> <<>>]
                 ELSE [found |-> f[k - 1].found, text |-> Append(f[k - 1].text, file[k])]
    /\ G!Found(file) = G!Keep(f[Len(file)].found, f[Len(file)].text)

\* What the constants of grep are.
LEMMA GrepFacts ==
    /\ BUFSIZE \in Nat /\ BUFSIZE > 1 /\ Written \subseteq Nat
    /\ NL # NUL /\ \A k \in Written : k \in G!Chars /\ k # NUL
    /\ G!Positions = 0 .. BUFSIZE /\ NUL \in G!Chars /\ G!Chars \subseteq Nat
BY ProgramsAssumption, CommandsAssumption DEF Written, G!Chars, G!Positions, NUL

\* Found goes through a text character by character.
LEMMA FoundSteps ==
    ASSUME file \in Seq(Written)
    PROVE  \E f : Scan(f)
<1> DEFINE n == Len(file)
           A == [found : Seq(Seq(Nat)), text : Seq(Nat)]
           start == [found |-> <<>>, text |-> <<>>]
           turn(x, e) == IF e = NL THEN [found |-> G!Keep(x.found, x.text), text |-> <<>>]
                         ELSE [found |-> x.found, text |-> Append(x.text, e)]
           Unroll(g) == [k \in 0 .. n |->
                            IF k = 0 THEN [found |-> <<>>, text |-> <<>>]
                            ELSE IF file[k] = NL
                                 THEN [found |-> G!Keep(g[k - 1].found, g[k - 1].text), text |-> <<>>]
                                 ELSE [found |-> g[k - 1].found, text |-> Append(g[k - 1].text, file[k])]]
           f == CHOOSE g : g = Unroll(g)
           step == [k \in Nat |-> [x \in A |-> IF k + 1 \in 1 .. n THEN turn(x, file[k + 1]) ELSE x]]
<1>w. Written \subseteq Nat BY GrepFacts
<1>1. n \in Nat /\ \A k \in 1 .. n : file[k] \in Nat
  <2>1. n \in Nat /\ \A k \in 1 .. n : file[k] \in Written OBVIOUS
  <2> QED BY <1>w, <2>1
<1>2. ASSUME NEW x \in A, NEW e \in Nat PROVE turn(x, e) \in A
  <2>1. G!Keep(x.found, x.text) \in Seq(Seq(Nat)) BY DEF G!Keep
  <2>2. Append(x.text, e) \in Seq(Nat) /\ <<>> \in Seq(Nat) OBVIOUS
  <2> QED BY <2>1, <2>2
<1>3. start \in A OBVIOUS
<1> HIDE DEF turn
<1>4. ASSUME NEW k \in Nat, NEW x \in A PROVE (IF k + 1 \in 1 .. n THEN turn(x, file[k + 1]) ELSE x) \in A
  BY <1>1, <1>2
<1> HIDE DEF A
<1>5. step \in Steps(A) BY <1>4 DEF Steps
<1>6. ASSUME NEW k \in Nat, NEW x \in A
      PROVE  step[k][x] = IF k + 1 \in 1 .. n THEN turn(x, file[k + 1]) ELSE x
  BY Zenon
<1> HIDE DEF step, start
<1>7. PICK h : Recurs(h, A, start, step) BY <1>3, <1>5, Recursion
<1>8. h \in [Nat -> A] /\ h[0] = start /\ \A k \in Nat : h[k + 1] = step[k][h[k]] BY <1>7 DEF Recurs
<1>9. ASSUME NEW k \in 1 .. n PROVE h[k] = turn(h[k - 1], file[k]) /\ h[k - 1] \in A
  <2>1. k - 1 \in Nat /\ (k - 1) + 1 = k BY <1>1
  <2>2. h[k - 1] \in A BY <1>8, <2>1
  <2>3. h[k] = step[k - 1][h[k - 1]] BY <1>8, <2>1
  <2> QED BY <1>6, <2>1, <2>2, <2>3
<1>10. ASSUME NEW k \in 1 .. n
       PROVE  h[k] = IF file[k] = NL THEN [found |-> G!Keep(h[k - 1].found, h[k - 1].text), text |-> <<>>]
                     ELSE [found |-> h[k - 1].found, text |-> Append(h[k - 1].text, file[k])]
  BY <1>9 DEF turn
<1> DEFINE g == [k \in 0 .. n |-> h[k]]
<1>11. g = Unroll(g)
  <2>1. \A k \in 0 .. n : k # 0 => k - 1 \in 0 .. n /\ k \in 1 .. n BY <1>1
  <2>2. \A k \in 0 .. n : k = 0 => h[k] = [found |-> <<>>, text |-> <<>>] BY <1>8 DEF start
  <2> QED BY <2>1, <2>2, <1>10
<1>12. f = Unroll(f) BY <1>11
<1>13. G!Found(file) = G!Keep(f[n].found, f[n].text) BY DEF G!Found
<1> HIDE DEF f, g
<1>14. f[0] = [found |-> <<>>, text |-> <<>>] BY <1>1, <1>12
<1>15. ASSUME NEW k \in 1 .. n
       PROVE  f[k] = IF file[k] = NL THEN [found |-> G!Keep(f[k - 1].found, f[k - 1].text), text |-> <<>>]
                     ELSE [found |-> f[k - 1].found, text |-> Append(f[k - 1].text, file[k])]
  <2>1. k \in 0 .. n /\ k # 0 BY <1>1
  <2> QED BY <1>12, <2>1
<1> HIDE DEF Unroll
<1> DEFINE S == {k \in Nat : k <= n => f[k] \in A}
<1>16. 0 \in S BY <1>3, <1>14 DEF start
<1>17. ASSUME NEW k \in Nat, k \in S PROVE k + 1 \in S
  <2> SUFFICES ASSUME k + 1 <= n PROVE f[k + 1] \in A OBVIOUS
  <2>1. k + 1 \in 1 .. n /\ (k + 1) - 1 = k /\ k <= n BY <1>1
  <2>2. f[k] \in A /\ file[k + 1] \in Nat BY <1>1, <1>17, <2>1
  <2>3. f[k + 1] = IF file[k + 1] = NL THEN [found |-> G!Keep(f[k].found, f[k].text), text |-> <<>>]
                   ELSE [found |-> f[k].found, text |-> Append(f[k].text, file[k + 1])]
    BY <1>15, <2>1
  <2>4. f[k + 1] = turn(f[k], file[k + 1]) BY <2>3 DEF turn
  <2> QED BY <1>2, <2>2, <2>4
<1> HIDE DEF S
<1>18. Nat \subseteq S BY <1>16, <1>17, Induction
<1>19. \A k \in 0 .. n : f[k] \in A
  <2>1. \A k \in 0 .. n : k \in Nat /\ k <= n BY <1>1
  <2> QED BY <1>18, <2>1 DEF S
<1>20. \A k \in 0 .. n : f[k].text \in Seq(Nat) BY <1>19 DEF A
<1> QED BY <1>13, <1>14, <1>15, <1>20 DEF Scan

\* Characters without a newline, from the beginning of a line on, are that line.
LEMMA LineBegun ==
    ASSUME file \in Seq(Written), NEW f, Scan(f), NEW a \in Nat, NEW b \in Nat, a <= b, b <= Len(file),
           f[a].text = <<>>, \A i \in (a + 1) .. b : file[i] # NL
    PROVE  /\ f[b].found = f[a].found
           /\ f[b].text \in Seq(Nat) /\ Len(f[b].text) = b - a
           /\ \A i \in 1 .. (b - a) : f[b].text[i] = file[a + i]
<1> DEFINE P(k) == /\ f[a + k].found = f[a].found
                   /\ Len(f[a + k].text) = k
                   /\ \A i \in 1 .. k : f[a + k].text[i] = file[a + i]
           S == {k \in Nat : a + k <= b => P(k)}
<1>1. Len(file) \in Nat /\ \A i \in 1 .. Len(file) : file[i] \in Nat
  <2>1. \A i \in 1 .. Len(file) : file[i] \in Written OBVIOUS
  <2>2. Written \subseteq Nat BY GrepFacts
  <2>3. Len(file) \in Nat OBVIOUS
  <2> QED BY <2>1, <2>2, <2>3
<1>2. \A k \in 0 .. Len(file) : f[k].text \in Seq(Nat) BY DEF Scan
<1>3. 0 \in S
  <2>1. Len(<<>>) = 0 /\ a + 0 = a OBVIOUS
  <2>2. P(0) BY <2>1
  <2> QED BY <2>2
<1>4. ASSUME NEW k \in Nat, k \in S PROVE k + 1 \in S
  <2> SUFFICES ASSUME a + (k + 1) <= b PROVE P(k + 1) OBVIOUS
  <2> DEFINE m == a + k
  <2>1. /\ m \in 0 .. Len(file) /\ m + 1 \in 1 .. Len(file) /\ m + 1 \in (a + 1) .. b
        /\ (m + 1) - 1 = m /\ a + (k + 1) = m + 1
    BY <1>1
  <2>2. P(k) BY <1>4
  <2>3. file[m + 1] # NL BY <2>1
  <2>4. f[m + 1] = [found |-> f[m].found, text |-> Append(f[m].text, file[m + 1])]
    BY <2>1, <2>3 DEF Scan
  <2>5. f[m].text \in Seq(Nat) /\ file[m + 1] \in Nat BY <1>1, <1>2, <2>1
  <2>6. f[m].found = f[a].found /\ Len(f[m].text) = k /\ \A i \in 1 .. k : f[m].text[i] = file[a + i]
    BY <2>2
  <2>7. f[m + 1].found = f[a].found BY <2>4, <2>6
  <2> DEFINE u == f[m].text
             e == file[m + 1]
  <2> HIDE DEF u, e
  <2>8. f[m + 1].text = Append(u, e) BY <2>4 DEF u, e
  <2>9. u \in Seq(Nat) /\ e \in Nat /\ Len(u) = k BY <2>5, <2>6 DEF u, e
  <2>10. /\ Len(Append(u, e)) = k + 1 /\ Append(u, e)[k + 1] = e
         /\ \A i \in 1 .. k : Append(u, e)[i] = u[i]
    BY <2>9
  <2>11. \A i \in 1 .. (k + 1) : i \in 1 .. k \/ i = k + 1 OBVIOUS
  <2>12. \A i \in 1 .. (k + 1) : f[m + 1].text[i] = file[a + i]
    BY <2>1, <2>6, <2>8, <2>10, <2>11 DEF u, e
  <2>13. Len(f[m + 1].text) = k + 1 BY <2>8, <2>10
  <2> QED BY <2>1, <2>7, <2>12, <2>13
<1> HIDE DEF S
<1>5. Nat \subseteq S BY <1>3, <1>4, Induction
<1>6. b - a \in Nat /\ a + (b - a) = b /\ b \in 0 .. Len(file) BY <1>1
<1>7. P(b - a) BY <1>5, <1>6 DEF S
<1> QED BY <1>2, <1>6, <1>7

\* Where the line that begins at line_start ends.
LEMMA LineEndIs ==
    ASSUME last \in Nat, line_start \in Nat, line_start <= last
    PROVE  /\ G!LineEnd \in line_start .. last
           /\ G!LineEnd = last \/ data[G!LineEnd] = NL
           /\ \A i \in line_start .. (G!LineEnd - 1) : data[i] # NL
<1> DEFINE ends == {e \in line_start .. last : e = last \/ data[e] = NL}
<1>1. last \in ends /\ ends \subseteq Nat OBVIOUS
<1>2. PICK e \in ends : \A k \in ends : e <= k
  <2> HIDE DEF ends
  <2>1. ends # {} BY <1>1
  <2> QED BY <1>1, <2>1, Least
<1>3. \A i \in line_start .. (e - 1) : data[i] # NL
  <2> SUFFICES ASSUME NEW i \in line_start .. (e - 1), data[i] = NL PROVE FALSE OBVIOUS
  <2>1. i \in ends /\ i < e BY <1>2
  <2> QED BY <1>2, <2>1
<1>4. e \in line_start .. last /\ (e = last \/ data[e] = NL) BY <1>2
<1> QED BY <1>3, <1>4 DEF G!LineEnd

\* What Text gives.
LEMMA TextIs ==
    ASSUME NEW a \in Nat, NEW b \in Nat, a <= b, \A i \in 1 .. (b - a) : data[a + (i - 1)] \in Nat
    PROVE  /\ G!Text(a, b) \in Seq(Nat) /\ Len(G!Text(a, b)) = b - a
           /\ \A i \in 1 .. (b - a) : G!Text(a, b)[i] = data[a + (i - 1)]
<1> DEFINE n == b - a
           t == [i \in 1 .. n |-> data[a + (i - 1)]]
<1>1. n \in Nat OBVIOUS
<1>2. G!Text(a, b) = t BY DEF G!Text
<1>3. \A i \in 1 .. n : data[a + (i - 1)] \in Nat OBVIOUS
<1> HIDE DEF n
<1>4. t \in Seq(Nat) /\ Len(t) = n /\ \A i \in 1 .. n : t[i] = data[a + (i - 1)] BY <1>1, <1>3
<1> QED BY <1>2, <1>4 DEF n

\* The comparison at each character finds the string where the line contains it.
LEMMA MatchesIsHolds ==
    ASSUME s \in Seq(Nat), s # <<>>, NEW from \in Nat, NEW to \in Nat, from <= to,
           NEW u \in Seq(Nat), Len(u) = to - from,
           \A i \in 1 .. (to - from) : u[i] = data[from + (i - 1)]
    PROVE  G!Text(from, to) = u /\ (G!Matches(from, to) <=> G!Holds(u))
<1> DEFINE m == Len(s)
           n == to - from
<1>1. m \in Nat /\ m > 0 /\ n \in Nat /\ Len(u) = n /\ from + n = to OBVIOUS
<1>2. \A i \in 1 .. n : data[from + (i - 1)] \in Nat
  <2>1. \A i \in 1 .. n : u[i] \in Nat OBVIOUS
  <2> QED BY <2>1
<1>3. G!Text(from, to) = u
  <2>1. /\ G!Text(from, to) \in Seq(Nat) /\ Len(G!Text(from, to)) = n
        /\ \A i \in 1 .. n : G!Text(from, to)[i] = data[from + (i - 1)]
    BY <1>2, TextIs
  <2> DEFINE t == G!Text(from, to)
  <2> HIDE DEF t
  <2>2. t \in Seq(Nat) /\ Len(t) = Len(u) /\ \A i \in 1 .. Len(t) : t[i] = u[i]
    BY <1>1, <2>1 DEF t
  <2>3. t = u BY <2>2, SameSeq
  <2> QED BY <2>3 DEF t
<1>4. ASSUME NEW j \in Nat, j + m <= n
      PROVE  G!Text(from + j, (from + j) + m) = SubSeq(u, j + 1, j + m)
  <2> DEFINE a == from + j
             b == a + m
             t == G!Text(a, b)
             w == SubSeq(u, j + 1, j + m)
  <2>1. a \in Nat /\ b \in Nat /\ a <= b /\ b - a = m BY <1>1
  <2>2. \A i \in 1 .. m : a + (i - 1) = from + ((j + i) - 1) /\ j + i \in 1 .. n BY <1>1, <1>4
  <2>3. \A i \in 1 .. m : data[a + (i - 1)] = u[j + i] /\ u[j + i] \in Nat BY <1>1, <1>2, <2>2
  <2> HIDE DEF a, b, m
  <2>7. \A i \in 1 .. (b - a) : data[a + (i - 1)] \in Nat BY <2>1, <2>3
  <2>8. /\ t \in Seq(Nat) /\ Len(t) = b - a
        /\ \A i \in 1 .. (b - a) : t[i] = data[a + (i - 1)]
    BY <2>1, <2>7, TextIs
  <2>4. t \in Seq(Nat) /\ Len(t) = m /\ \A i \in 1 .. m : t[i] = data[a + (i - 1)]
    BY <2>1, <2>8
  <2> USE DEF m
  <2>5. w \in Seq(Nat) /\ Len(w) = m /\ \A i \in 1 .. m : w[i] = u[j + i]
    <3>1. /\ j + 1 \in Nat \ {0} /\ j + m \in Nat /\ j + 1 <= (j + m) + 1 /\ j + m <= Len(u)
          /\ ((j + m) - (j + 1)) + 1 = m
      BY <1>1, <1>4
    <3>2. /\ w \in Seq(Nat) /\ Len(w) = ((j + m) - (j + 1)) + 1
          /\ \A i \in 1 .. (((j + m) - (j + 1)) + 1) : w[i] = u[((j + 1) + i) - 1]
      BY <3>1, SliceIs
    <3>3. \A i \in 1 .. m : ((j + 1) + i) - 1 = j + i BY <1>1
    <3> QED BY <3>1, <3>2, <3>3
  <2> HIDE DEF t, w
  <2>6. t = w BY <2>3, <2>4, <2>5, SameSeq
  <2> QED BY <2>6 DEF t, w, a, b
<1>5. ASSUME G!Matches(from, to) PROVE G!Holds(u)
  <2>1. PICK k \in from .. (to - 1) : k + m <= to /\ G!Text(k, k + m) = s BY <1>5 DEF G!Matches
  <2> DEFINE j == k - from
  <2>2. j \in Nat /\ j + m <= n /\ from + j = k /\ j \in 0 .. (n - m) BY <1>1, <2>1
  <2>3. SubSeq(u, j + 1, j + m) = s BY <1>4, <2>1, <2>2
  <2> HIDE DEF j
  <2> QED BY <1>1, <2>2, <2>3 DEF G!Holds
<1>6. ASSUME G!Holds(u) PROVE G!Matches(from, to)
  <2>1. PICK j \in 0 .. (n - m) : SubSeq(u, j + 1, j + m) = s BY <1>1, <1>6 DEF G!Holds
  <2>2. j \in Nat /\ j + m <= n /\ from + j \in from .. (to - 1) /\ (from + j) + m <= to BY <1>1, <2>1
  <2>3. G!Text(from + j, (from + j) + m) = s BY <1>4, <2>1, <2>2
  <2> QED BY <2>2, <2>3 DEF G!Matches
<1> QED BY <1>3, <1>5, <1>6
-----------------------------------------------------------------------------
(* The invariant of grep *)

\* What the variables hold.
GrepTypes ==
    /\ file \in Seq(Written) /\ G!TextFile(file) /\ s \in Seq(Nat) /\ s # <<>>
    /\ data \in [0 .. BUFSIZE -> G!Chars] /\ data[BUFSIZE] # NL
    /\ fpos \in 0 .. Len(file) /\ last \in 0 .. BUFSIZE /\ last <= fpos /\ cnt \in 0 .. BUFSIZE
    /\ line_start \in 0 .. (BUFSIZE + 1) /\ line_end \in 0 .. BUFSIZE
    /\ point \in {"read", "line", "done"}

\* The buffer from there on is the file before fpos.
Held(from) == \A i \in from .. (last - 1) : data[i] = file[(fpos - last) + i + 1]

\* Up to there the lines of the file are searched, and there one begins; or all are.
Searched(f, from) ==
    \/ last = 0 /\ fpos = Len(file) /\ printed = G!Found(file)
    \/ f[(fpos - last) + from].text = <<>> /\ printed = f[(fpos - last) + from].found

\* At a read the buffer has room, behind it, it is full or the file is at its end.
Progress(f) ==
    /\ point = "read" => last < BUFSIZE /\ Held(0) /\ Searched(f, 0)
    /\ point = "line" => /\ Held(line_start) /\ Searched(f, line_start) /\ line_start <= last
                         /\ last = BUFSIZE \/ fpos = Len(file)
                         /\ cnt = 0 => fpos = Len(file)
                         /\ last = 0 => cnt = 0
    /\ point = "done" => printed = G!Found(file)

GrepInv == GrepTypes /\ \E f : Scan(f) /\ Progress(f)

\* What is to be found depends on the file and the string alone.
LEMMA FoundStays ==
    ASSUME UNCHANGED <<file, s>>
    PROVE  G!Found(file)' = G!Found(file) /\ \A f : Scan(f) => Scan(f)'
<1>1. file' = file /\ s' = s OBVIOUS
<1>2. \A found, text : G!Keep(found, text)' = G!Keep(found, text) BY <1>1 DEF G!Keep, G!Holds
<1>3. G!Found(file)' = G!Found(file) BY <1>1 DEF G!Found, G!Keep, G!Holds
<1>4. ASSUME NEW f, Scan(f) PROVE Scan(f)'
  BY <1>1, <1>3, <1>4 DEF Scan, G!Keep, G!Holds
<1> QED BY <1>3, <1>4

\* Reading on fills the buffer, or comes to the end of the file.
LEMMA GrepReads ==
    ASSUME GrepInv, G!Read
    PROVE  GrepInv'
<1>1. PICK f : Scan(f) /\ Progress(f) BY DEF GrepInv
<1> DEFINE n == G!Lesser(BUFSIZE - last, Len(file) - fpos)
<1>2. GrepTypes BY DEF GrepInv
<1>3. /\ point = "read" /\ point' = "line" /\ cnt' = n /\ fpos' = fpos + n /\ last' = last + n
      /\ data' = [i \in 0 .. BUFSIZE |-> IF i \in last .. ((last + n) - 1)
                                         THEN file[fpos + (i - last) + 1] ELSE data[i]]
      /\ line_start' = 0 /\ file' = file /\ s' = s /\ line_end' = line_end /\ printed' = printed
  BY GrepFacts DEF G!Read
<1>4. last < BUFSIZE /\ Held(0) /\ Searched(f, 0) BY <1>1, <1>3 DEF Progress
<1>5. /\ BUFSIZE \in Nat /\ last \in Nat /\ fpos \in Nat /\ Len(file) \in Nat
      /\ last <= fpos /\ fpos <= Len(file)
  BY <1>2, GrepFacts DEF GrepTypes
<1>6. /\ n \in Nat /\ last + n <= BUFSIZE /\ fpos + n <= Len(file)
      /\ n = BUFSIZE - last \/ n = Len(file) - fpos
  BY <1>4, <1>5 DEF G!Lesser
<1> HIDE DEF n
<1>7. \A i \in last .. ((last + n) - 1) : fpos + (i - last) + 1 \in 1 .. Len(file) BY <1>5, <1>6
<1>8. \A i \in last .. ((last + n) - 1) : file[fpos + (i - last) + 1] \in Written
  BY <1>2, <1>7 DEF GrepTypes
<1>9. \A i \in 0 .. BUFSIZE : data'[i] = IF i \in last .. ((last + n) - 1)
                                         THEN file[fpos + (i - last) + 1] ELSE data[i]
  BY <1>3
<1>10. data' \in [0 .. BUFSIZE -> G!Chars] /\ data'[BUFSIZE] # NL
  <2>1. \A i \in 0 .. BUFSIZE : data[i] \in G!Chars BY <1>2 DEF GrepTypes
  <2>2. \A i \in 0 .. BUFSIZE : data'[i] \in G!Chars BY <1>8, <1>9, <2>1, GrepFacts
  <2>3. BUFSIZE \in 0 .. BUFSIZE /\ BUFSIZE \notin last .. ((last + n) - 1) BY <1>5, <1>6
  <2>4. data'[BUFSIZE] = data[BUFSIZE] BY <1>9, <2>3
  <2> QED BY <1>2, <1>3, <2>2, <2>4 DEF GrepTypes
<1>11. GrepTypes'
  <2>1. /\ fpos' \in 0 .. Len(file) /\ last' \in 0 .. BUFSIZE /\ last' <= fpos' /\ cnt' \in 0 .. BUFSIZE
        /\ line_start' \in 0 .. (BUFSIZE + 1)
    BY <1>3, <1>5, <1>6
  <2>2. G!TextFile(file)' BY <1>2, <1>3 DEF GrepTypes, G!TextFile
  <2> QED BY <1>2, <1>3, <1>10, <2>1, <2>2 DEF GrepTypes
<1>12. fpos' - last' = fpos - last BY <1>3, <1>5, <1>6
<1>13. Held(0)'
  <2> SUFFICES ASSUME NEW i \in 0 .. (last' - 1) PROVE data'[i] = file[(fpos - last) + i + 1]
    BY <1>3, <1>12 DEF Held
  <2>1. i \in 0 .. BUFSIZE /\ i \in Nat /\ i < last + n BY <1>3, <1>5, <1>6
  <2>2. CASE i < last
    <3>1. i \in 0 .. (last - 1) /\ i \notin last .. ((last + n) - 1) BY <1>5, <2>1, <2>2
    <3> QED BY <1>4, <1>9, <2>1, <3>1 DEF Held
  <2>3. CASE ~(i < last)
    <3>1. i \in last .. ((last + n) - 1) BY <1>5, <1>6, <2>1, <2>3
    <3>2. fpos + (i - last) + 1 = (fpos - last) + i + 1 BY <1>5, <2>1
    <3> QED BY <1>9, <2>1, <3>1, <3>2
  <2> QED BY <2>2, <2>3
<1>14. G!Found(file)' = G!Found(file) /\ Scan(f)' BY <1>1, <1>3, FoundStays
<1>15. Searched(f, 0)'
  <2>1. CASE last = 0 /\ fpos = Len(file) /\ printed = G!Found(file)
    <3>1. n = 0 BY <1>5, <1>6, <2>1
    <3>2. last' = 0 /\ fpos' = Len(file) BY <1>3, <2>1, <3>1
    <3> QED BY <1>3, <1>14, <2>1, <3>2 DEF Searched
  <2>2. CASE f[(fpos - last) + 0].text = <<>> /\ printed = f[(fpos - last) + 0].found
    BY <1>3, <1>12, <2>2 DEF Searched
  <2> QED BY <1>4, <2>1, <2>2 DEF Searched
<1>16. last' = BUFSIZE \/ fpos' = Len(file) BY <1>3, <1>5, <1>6
<1>17. cnt' = 0 => fpos' = Len(file) BY <1>3, <1>4, <1>5, <1>6
<1>18. last' = 0 => cnt' = 0 BY <1>3, <1>5, <1>6
<1>19. line_start' <= last' BY <1>3, <1>5, <1>6
<1>20. Progress(f)'
  <2>1. Held(line_start)' BY <1>3, <1>13 DEF Held
  <2>2. Searched(f, line_start)' BY <1>3, <1>15 DEF Searched
  <2>3. (Len(file))' = Len(file) BY <1>3
  <2> QED BY <1>3, <1>16, <1>17, <1>18, <1>19, <2>1, <2>2, <2>3 DEF Progress
<1> QED BY <1>11, <1>14, <1>20 DEF GrepInv

\* What is known in the loop over the lines of the buffer.
LEMMA InLoop ==
    ASSUME GrepInv, point = "line"
    PROVE  /\ BUFSIZE \in Nat /\ last \in Nat /\ fpos \in Nat /\ Len(file) \in Nat /\ line_start \in Nat
           /\ last <= fpos /\ fpos <= Len(file) /\ last <= BUFSIZE /\ line_start <= last
           /\ Held(line_start)
           /\ last = BUFSIZE \/ fpos = Len(file)
           /\ cnt = 0 => fpos = Len(file)
           /\ last = 0 => cnt = 0
           /\ G!LineEnd \in line_start .. last
           /\ G!LineEnd = last \/ data[G!LineEnd] = NL
           /\ \A i \in line_start .. (G!LineEnd - 1) : data[i] # NL
           /\ \A i \in line_start .. (last - 1) : /\ data[i] = file[(fpos - last) + i + 1]
                                                  /\ (fpos - last) + i + 1 \in 1 .. Len(file)
                                                  /\ data[i] \in Written
<1>1. GrepTypes /\ \E f : Progress(f) BY DEF GrepInv
<1>2. /\ BUFSIZE \in Nat /\ last \in Nat /\ fpos \in Nat /\ Len(file) \in Nat /\ line_start \in Nat
      /\ last <= fpos /\ fpos <= Len(file) /\ last <= BUFSIZE
  BY <1>1, GrepFacts DEF GrepTypes
<1>3. /\ line_start <= last /\ Held(line_start)
      /\ last = BUFSIZE \/ fpos = Len(file)
      /\ cnt = 0 => fpos = Len(file)
      /\ last = 0 => cnt = 0
  BY <1>1 DEF Progress
<1>4. \A i \in line_start .. (last - 1) : /\ data[i] = file[(fpos - last) + i + 1]
                                          /\ (fpos - last) + i + 1 \in 1 .. Len(file)
  <2> SUFFICES ASSUME NEW i \in line_start .. (last - 1)
               PROVE  /\ data[i] = file[(fpos - last) + i + 1]
                      /\ (fpos - last) + i + 1 \in 1 .. Len(file)
    OBVIOUS
  <2>1. (fpos - last) + i + 1 \in 1 .. Len(file) BY <1>2
  <2> QED BY <1>3, <2>1 DEF Held
<1>5. \A i \in 1 .. Len(file) : file[i] \in Written BY <1>1 DEF GrepTypes
<1>6. \A i \in line_start .. (last - 1) : data[i] \in Written BY <1>4, <1>5
<1>7. /\ G!LineEnd \in line_start .. last
      /\ G!LineEnd = last \/ data[G!LineEnd] = NL
      /\ \A i \in line_start .. (G!LineEnd - 1) : data[i] # NL
  BY <1>2, <1>3, LineEndIs
<1> QED BY <1>2, <1>3, <1>4, <1>6, <1>7

\* A cut line moves to the beginning of the buffer, as it is, and room is behind it.
LEMMA GrepMoves ==
    ASSUME GrepInv, G!MoveLine
    PROVE  GrepInv'
<1>1. PICK f : Scan(f) /\ Progress(f) BY DEF GrepInv
<1>2. GrepTypes BY DEF GrepInv
<1> DEFINE e == G!LineEnd
           d == [data EXCEPT ![e] = NUL]
<1>3. /\ point = "line" /\ G!Cut /\ point' = "read" /\ line_end' = e /\ data' = G!Moved(d)
      /\ last' = last - line_start /\ fpos' = fpos /\ file' = file /\ s' = s /\ cnt' = cnt
      /\ line_start' = line_start /\ printed' = printed
  BY DEF G!MoveLine
<1>4. /\ BUFSIZE \in Nat /\ last \in Nat /\ fpos \in Nat /\ Len(file) \in Nat /\ line_start \in Nat
      /\ last <= fpos /\ fpos <= Len(file) /\ last <= BUFSIZE /\ line_start <= last
      /\ last = 0 => cnt = 0
      /\ e \in line_start .. last
      /\ e = last \/ data[e] = NL
  BY <1>3, InLoop
<1>5. \A i \in line_start .. (last - 1) : data[i] = file[(fpos - last) + i + 1] /\ data[i] \in Written
  BY <1>3, InLoop
<1>6. e = last /\ cnt # 0 /\ line_start # 0 /\ last # 0 BY <1>3, <1>4 DEF G!Cut
<1>7. data \in [0 .. BUFSIZE -> G!Chars] /\ data[BUFSIZE] # NL BY <1>2 DEF GrepTypes
<1>8. /\ d \in [0 .. BUFSIZE -> G!Chars] /\ d[last] = NUL
      /\ \A i \in 0 .. BUFSIZE : i # last => d[i] = data[i]
  BY <1>4, <1>6, <1>7, GrepFacts
<1> HIDE DEF e, d
<1> DEFINE end == CHOOSE i \in line_start .. BUFSIZE :
                     d[i] = NUL /\ \A j \in line_start .. (i - 1) : d[j] # NUL
<1>9. end = last
  <2>1. \A j \in line_start .. (last - 1) : d[j] # NUL
    <3>1. \A j \in line_start .. (last - 1) : j \in 0 .. BUFSIZE /\ j # last BY <1>4
    <3>2. \A j \in line_start .. (last - 1) : data[j] # NUL BY <1>5, GrepFacts
    <3> QED BY <1>8, <3>1, <3>2
  <2>2. last \in line_start .. BUFSIZE BY <1>4
  <2>3. ASSUME NEW i \in line_start .. BUFSIZE, d[i] = NUL, \A j \in line_start .. (i - 1) : d[j] # NUL
        PROVE  i = last
    <3>1. ~(i < last)
      <4> SUFFICES ASSUME i < last PROVE FALSE OBVIOUS
      <4>1. i \in line_start .. (last - 1) BY <1>4
      <4> QED BY <2>1, <2>3, <4>1
    <3>2. ~(last < i)
      <4> SUFFICES ASSUME last < i PROVE FALSE OBVIOUS
      <4>1. last \in line_start .. (i - 1) BY <1>4
      <4> QED BY <1>8, <2>3, <4>1
    <3> QED BY <1>4, <3>1, <3>2
  <2> QED BY <1>8, <2>1, <2>2, <2>3
<1>10. data' = [i \in 0 .. BUFSIZE |-> IF i <= last - line_start THEN d[line_start + i] ELSE d[i]]
  <2>1. G!Moved(d) = [i \in 0 .. BUFSIZE |-> IF i <= end - line_start THEN d[line_start + i] ELSE d[i]]
    BY GrepFacts DEF G!Moved
  <2> HIDE DEF end
  <2> QED BY <1>3, <1>9, <2>1
<1>11. \A i \in 0 .. BUFSIZE : data'[i] = IF i <= last - line_start THEN d[line_start + i] ELSE d[i]
  BY <1>10
<1>12. \A i \in 0 .. BUFSIZE : i <= last - line_start => line_start + i \in 0 .. BUFSIZE BY <1>4
<1>13. data' \in [0 .. BUFSIZE -> G!Chars]
  <2>1. \A i \in 0 .. BUFSIZE : data'[i] \in G!Chars BY <1>8, <1>11, <1>12
  <2> QED BY <1>10, <2>1
<1>14. data'[BUFSIZE] # NL
  <2>1. BUFSIZE \in 0 .. BUFSIZE /\ ~(BUFSIZE <= last - line_start) BY <1>4, <1>6
  <2>2. data'[BUFSIZE] = d[BUFSIZE] BY <1>11, <2>1
  <2>3. d[BUFSIZE] = NUL \/ d[BUFSIZE] = data[BUFSIZE] BY <1>8, <2>1
  <2> QED BY <1>7, <2>2, <2>3, GrepFacts
<1>15. last' \in 0 .. BUFSIZE /\ last' <= fpos' /\ last' < BUFSIZE BY <1>3, <1>4, <1>6
<1>16. GrepTypes'
  <2>1. G!TextFile(file)' BY <1>2, <1>3 DEF GrepTypes, G!TextFile
  <2>2. line_end' \in 0 .. BUFSIZE BY <1>3, <1>4
  <2>3. fpos' \in 0 .. Len(file') /\ cnt' \in 0 .. BUFSIZE /\ line_start' \in 0 .. (BUFSIZE + 1)
    BY <1>2, <1>3 DEF GrepTypes
  <2> QED BY <1>2, <1>3, <1>13, <1>14, <1>15, <2>1, <2>2, <2>3 DEF GrepTypes
<1>17. fpos' - last' = (fpos - last) + line_start BY <1>3, <1>4
<1>18. Held(0)'
  <2> SUFFICES ASSUME NEW i \in 0 .. (last' - 1) PROVE data'[i] = file[((fpos - last) + line_start) + i + 1]
    BY <1>3, <1>17 DEF Held
  <2>1. /\ i \in 0 .. BUFSIZE /\ i <= last - line_start
        /\ line_start + i \in line_start .. (last - 1) /\ line_start + i \in 0 .. BUFSIZE
        /\ line_start + i # last
        /\ (fpos - last) + (line_start + i) + 1 = ((fpos - last) + line_start) + i + 1
    BY <1>3, <1>4
  <2>2. data'[i] = data[line_start + i] BY <1>8, <1>11, <2>1
  <2> QED BY <1>5, <2>1, <2>2
<1>19. G!Found(file)' = G!Found(file) /\ Scan(f)' BY <1>1, <1>3, FoundStays
<1>20. Searched(f, 0)'
  <2>1. Searched(f, line_start) BY <1>1, <1>3 DEF Progress
  <2>2. /\ f[(fpos - last) + line_start].text = <<>>
        /\ printed = f[(fpos - last) + line_start].found
    BY <1>6, <2>1 DEF Searched
  <2>3. (fpos' - last') + 0 = (fpos - last) + line_start BY <1>4, <1>17
  <2> QED BY <1>3, <2>2, <2>3 DEF Searched
<1>21. Progress(f)' BY <1>3, <1>15, <1>18, <1>20 DEF Progress
<1> QED BY <1>16, <1>19, <1>21 DEF GrepInv

\* A line is searched as it is in the file, and the buffer goes on behind it; a line
\* without a newline is the last of the file.
LEMMA GrepSearches ==
    ASSUME GrepInv, G!SearchLine
    PROVE  GrepInv'
<1>1. PICK f : Scan(f) /\ Progress(f) BY DEF GrepInv
<1>2. GrepTypes BY DEF GrepInv
<1> DEFINE e == G!LineEnd
           p == fpos - last
<1>3. /\ point = "line" /\ ~G!Cut /\ line_end' = e /\ data' = [data EXCEPT ![e] = NUL]
      /\ printed' = IF G!Matches(line_start, e) THEN Append(printed, G!Text(line_start, e)) ELSE printed
      /\ line_start' = e + 1 /\ file' = file /\ s' = s /\ fpos' = fpos /\ cnt' = cnt
      /\ e + 1 >= last => last' = 0 /\ point' = IF cnt = 0 THEN "done" ELSE "read"
      /\ ~(e + 1 >= last) => last' = last /\ point' = "line"
  BY DEF G!SearchLine
<1>4. /\ BUFSIZE \in Nat /\ last \in Nat /\ fpos \in Nat /\ Len(file) \in Nat /\ line_start \in Nat
      /\ last <= fpos /\ fpos <= Len(file) /\ last <= BUFSIZE /\ line_start <= last
      /\ last = BUFSIZE \/ fpos = Len(file)
      /\ cnt = 0 => fpos = Len(file)
      /\ last = 0 => cnt = 0
      /\ e \in line_start .. last
      /\ e = last \/ data[e] = NL
      /\ \A i \in line_start .. (e - 1) : data[i] # NL
  BY <1>3, InLoop
<1>5. \A i \in line_start .. (last - 1) : /\ data[i] = file[(fpos - last) + i + 1]
                                          /\ (fpos - last) + i + 1 \in 1 .. Len(file)
                                          /\ data[i] \in Written
  BY <1>3, InLoop
<1>6. Searched(f, line_start) BY <1>1, <1>3 DEF Progress
<1>7. data \in [0 .. BUFSIZE -> G!Chars] /\ data[BUFSIZE] # NL /\ s \in Seq(Nat) /\ s # <<>>
  BY <1>2 DEF GrepTypes
<1>8. e \in Nat /\ e <= last /\ line_start <= e /\ e \in 0 .. BUFSIZE BY <1>4
<1>9. p \in Nat /\ p + last = fpos BY <1>4
<1> HIDE DEF e, p
\* the types
<1>10. data' \in [0 .. BUFSIZE -> G!Chars] /\ data'[BUFSIZE] # NL
  <2>1. data' \in [0 .. BUFSIZE -> G!Chars] BY <1>3, <1>7, GrepFacts
  <2>2. BUFSIZE \in 0 .. BUFSIZE BY <1>4
  <2>3. data'[BUFSIZE] = IF BUFSIZE = e THEN NUL ELSE data[BUFSIZE] BY <1>3, <1>7, <2>2
  <2> QED BY <1>7, <2>1, <2>3, GrepFacts
<1>11. GrepTypes'
  <2>1. G!TextFile(file)' BY <1>2, <1>3 DEF GrepTypes, G!TextFile
  <2>2. line_end' \in 0 .. BUFSIZE /\ line_start' \in 0 .. (BUFSIZE + 1) BY <1>3, <1>4, <1>8
  <2>3. fpos' \in 0 .. Len(file') /\ cnt' \in 0 .. BUFSIZE /\ file' \in Seq(Written)
        /\ s' \in Seq(Nat) /\ s' # <<>>
    BY <1>2, <1>3 DEF GrepTypes
  <2>4. last' \in 0 .. BUFSIZE /\ last' <= fpos' BY <1>3, <1>4
  <2>5. point' \in {"read", "line", "done"} BY <1>3
  <2> QED BY <1>10, <2>1, <2>2, <2>3, <2>4, <2>5 DEF GrepTypes
<1>12. G!Found(file)' = G!Found(file) /\ Scan(f)' BY <1>1, <1>3, FoundStays
\* the line
<1> DEFINE a == p + line_start
           b == p + e
<1>13. a \in Nat /\ b \in Nat /\ a <= b /\ b <= Len(file) /\ b - a = e - line_start BY <1>4, <1>8, <1>9
<1>14. \A i \in (a + 1) .. b : file[i] # NL
  <2> SUFFICES ASSUME NEW i \in (a + 1) .. b PROVE file[i] # NL OBVIOUS
  <2> DEFINE j == (i - 1) - p
  <2>1. j \in line_start .. (e - 1) /\ j \in line_start .. (last - 1) /\ p + j + 1 = i
    BY <1>4, <1>8, <1>9
  <2> HIDE DEF j
  <2>2. data[j] = file[p + j + 1] /\ data[j] # NL BY <1>4, <1>5, <2>1 DEF p
  <2> QED BY <2>1, <2>2
<1>15. ASSUME f[a].text = <<>>
       PROVE  LET u == f[b].text
              IN  /\ f[b].found = f[a].found
                  /\ G!Text(line_start, e) = u /\ (G!Matches(line_start, e) <=> G!Holds(u))
  <2> DEFINE u == f[b].text
             n == e - line_start
  <2>1. /\ f[b].found = f[a].found /\ u \in Seq(Nat) /\ Len(u) = b - a
        /\ \A i \in 1 .. (b - a) : u[i] = file[a + i]
    <3> HIDE DEF a, b
    <3> file \in Seq(Written) BY <1>2 DEF GrepTypes
    <3> QED BY <1>1, <1>13, <1>14, <1>15, LineBegun
  <2>2. \A i \in 1 .. n : data[line_start + (i - 1)] = file[a + i]
    <3> SUFFICES ASSUME NEW i \in 1 .. n PROVE data[line_start + (i - 1)] = file[a + i] OBVIOUS
    <3>1. line_start + (i - 1) \in line_start .. (last - 1) /\ p + (line_start + (i - 1)) + 1 = a + i
      BY <1>4, <1>8, <1>9
    <3> QED BY <1>5, <3>1 DEF p
  <2>3. \A i \in 1 .. n : u[i] = data[line_start + (i - 1)] BY <1>13, <2>1, <2>2
  <2>4. u \in Seq(Nat) /\ Len(u) = n BY <1>13, <2>1
  <2> HIDE DEF u, a, b
  <2>5. G!Text(line_start, e) = u /\ (G!Matches(line_start, e) <=> G!Holds(u))
    BY <1>4, <1>7, <1>8, <2>3, <2>4, MatchesIsHolds
  <2> QED BY <2>1, <2>5 DEF u
<1>16. ASSUME f[a].text = <<>>, printed = f[a].found
       PROVE  printed' = G!Keep(f[b].found, f[b].text)
  BY <1>3, <1>15, <1>16 DEF G!Keep
<1>17. CASE e < last
  <2>1. data[e] = NL /\ e \in line_start .. (last - 1) BY <1>4, <1>8, <1>17
  <2>2. file[b + 1] = NL /\ b + 1 \in 1 .. Len(file) /\ (b + 1) - 1 = b
    <3>1. data[e] = file[p + e + 1] /\ p + e + 1 \in 1 .. Len(file) BY <1>5, <2>1 DEF p
    <3>2. p + e + 1 = b + 1 BY <1>8, <1>9
    <3> QED BY <1>13, <2>1, <3>1, <3>2
  <2>3. f[a].text = <<>> /\ printed = f[a].found
    <3>1. last # 0 BY <1>8, <1>17
    <3> QED BY <1>6, <3>1 DEF Searched, p
  <2>4. f[b + 1] = [found |-> G!Keep(f[b].found, f[b].text), text |-> <<>>]
    <3> HIDE DEF b
    <3>1. \A k \in 1 .. Len(file) : file[k] = NL =>
             f[k] = [found |-> G!Keep(f[k - 1].found, f[k - 1].text), text |-> <<>>]
      BY <1>1 DEF Scan
    <3> QED BY <2>2, <3>1
  <2>5. f[b + 1].text = <<>> /\ printed' = f[b + 1].found BY <1>16, <2>3, <2>4
  <2>6. CASE e + 1 >= last
    <3>1. last' = 0 /\ point' = IF cnt = 0 THEN "done" ELSE "read" BY <1>3, <2>6
    <3>2. b + 1 = fpos BY <1>4, <1>8, <1>9, <1>17, <2>6
    <3>3. (fpos' - last') + 0 = b + 1 BY <1>3, <1>4, <3>1, <3>2
    <3>4. Searched(f, 0)' BY <2>5, <3>3 DEF Searched
    <3>5. Held(0)' /\ last' < BUFSIZE
      <4>1. last' < BUFSIZE BY <3>1, GrepFacts
      <4>2. \A i \in 0 .. (last' - 1) : FALSE BY <3>1
      <4> QED BY <4>1, <4>2 DEF Held
    <3>6. cnt = 0 => printed' = G!Found(file)'
      <4> SUFFICES ASSUME cnt = 0 PROVE printed' = G!Found(file) BY <1>12
      <4>1. fpos = Len(file) BY <1>4
      <4>2. G!Found(file) = G!Keep(f[b + 1].found, f[b + 1].text)
        BY <1>1, <3>2, <4>1 DEF Scan
      <4>3. G!Keep(f[b + 1].found, <<>>) = f[b + 1].found
        <5>1. Len(<<>>) = 0 /\ Len(s) \in Nat /\ Len(s) > 0 BY <1>7
        <5>2. \A i \in 0 .. (Len(<<>>) - Len(s)) : FALSE BY <5>1
        <5> QED BY <5>2 DEF G!Keep, G!Holds
      <4> QED BY <2>5, <4>2, <4>3
    <3>7. Progress(f)' BY <3>1, <3>4, <3>5, <3>6 DEF Progress
    <3> QED BY <1>11, <1>12, <3>7 DEF GrepInv
  <2>7. CASE ~(e + 1 >= last)
    <3>1. last' = last /\ point' = "line" BY <1>3, <2>7
    <3>2. (fpos' - last') + line_start' = b + 1 BY <1>3, <1>8, <1>9, <3>1 DEF p
    <3>3. Searched(f, line_start)' BY <2>5, <3>2 DEF Searched
    <3>4. Held(line_start)'
      <4> SUFFICES ASSUME NEW i \in (e + 1) .. (last - 1)
                   PROVE  data'[i] = file[(fpos - last) + i + 1]
        BY <1>3, <3>1 DEF Held
      <4>1. i \in line_start .. (last - 1) /\ i # e /\ i \in 0 .. BUFSIZE BY <1>4, <1>8
      <4>2. data'[i] = data[i] BY <1>3, <1>7, <4>1
      <4> QED BY <1>5, <4>1, <4>2
    <3>5. line_start' <= last' BY <1>3, <1>4, <1>8, <2>7, <3>1
    <3>6. /\ last' = BUFSIZE \/ fpos' = Len(file')
          /\ cnt' = 0 => fpos' = Len(file')
          /\ last' = 0 => cnt' = 0
      BY <1>3, <1>4, <3>1
    <3>7. Progress(f)' BY <3>1, <3>3, <3>4, <3>5, <3>6 DEF Progress
    <3> QED BY <1>11, <1>12, <3>7 DEF GrepInv
  <2> QED BY <2>6, <2>7
<1>18. CASE e = last
  <2>1. last' = 0 /\ point' = IF cnt = 0 THEN "done" ELSE "read" BY <1>3, <1>4, <1>18
  <2>2. fpos = Len(file)
    <3> SUFFICES ASSUME fpos # Len(file) PROVE FALSE OBVIOUS
    <3>1. last = BUFSIZE /\ cnt # 0 BY <1>4
    <3>2. line_start = 0 BY <1>3, <1>7, <1>18, <3>1 DEF G!Cut, e
    <3>3. BUFSIZE \in Nat /\ BUFSIZE > 1 BY GrepFacts
    <3>4. p + 1 \in 1 .. ((Len(file) - BUFSIZE) + 1) BY <1>4, <1>9, <3>1, <3>3
    <3>5. PICK j \in (p + 1) .. (((p + 1) + BUFSIZE) - 1) : file[j] = NL
      <4>1. G!TextFile(file) BY <1>2 DEF GrepTypes
      <4>2. \A i \in 1 .. ((Len(file) - BUFSIZE) + 1) : \E j \in i .. ((i + BUFSIZE) - 1) : file[j] = NL
        BY <1>4, <3>3, <4>1 DEF G!TextFile
      <4> QED BY <3>4, <4>2
    <3>6. j \in (a + 1) .. b BY <1>9, <1>18, <3>1, <3>2, <3>3, <3>5
    <3> QED BY <1>14, <3>5, <3>6
  <2>3. b = Len(file) BY <1>9, <1>18, <2>2
  <2>4. printed' = G!Found(file)
    <3>1. CASE last = 0 /\ fpos = Len(file) /\ printed = G!Found(file)
      <4>1. line_start = 0 /\ e = 0 BY <1>4, <1>18, <3>1
      <4>2. \A check \in line_start .. (e - 1) : FALSE BY <4>1
      <4>3. ~G!Matches(line_start, e) BY <4>2 DEF G!Matches
      <4> QED BY <1>3, <3>1, <4>3
    <3>2. CASE f[(fpos - last) + line_start].text = <<>> /\ printed = f[(fpos - last) + line_start].found
      <4>1. f[a].text = <<>> /\ printed = f[a].found BY <3>2 DEF p
      <4>2. printed' = G!Keep(f[b].found, f[b].text) BY <1>16, <4>1
      <4> QED BY <1>1, <2>3, <4>2 DEF Scan
    <3> QED BY <1>6, <3>1, <3>2 DEF Searched
  <2>5. Searched(f, 0)' BY <1>3, <1>12, <2>1, <2>2, <2>4 DEF Searched
  <2>6. Held(0)' /\ last' < BUFSIZE
    <3>1. last' < BUFSIZE BY <2>1, GrepFacts
    <3>2. \A i \in 0 .. (last' - 1) : FALSE BY <2>1
    <3> QED BY <3>1, <3>2 DEF Held
  <2>7. Progress(f)' BY <1>12, <2>1, <2>4, <2>5, <2>6 DEF Progress
  <2> QED BY <1>11, <1>12, <2>7 DEF GrepInv
<1> QED BY <1>4, <1>8, <1>17, <1>18

\* A step of grep, or of another program.
LEMMA GrepStays == GrepInv /\ UNCHANGED grepVars => GrepInv'
<1> SUFFICES ASSUME GrepInv, UNCHANGED grepVars PROVE GrepInv' OBVIOUS
<1>1. PICK f : Scan(f) /\ Progress(f) BY DEF GrepInv
<1>2. /\ file' = file /\ s' = s /\ fpos' = fpos /\ data' = data /\ last' = last /\ cnt' = cnt
      /\ line_start' = line_start /\ line_end' = line_end /\ printed' = printed /\ point' = point
  BY DEF grepVars
<1>3. G!Found(file)' = G!Found(file) /\ Scan(f)' BY <1>1, <1>2, FoundStays
<1>4. Progress(f)'
  <2>1. Held(0)' <=> Held(0) BY <1>2 DEF Held
  <2>2. Held(line_start)' <=> Held(line_start) BY <1>2 DEF Held
  <2>3. Searched(f, 0)' <=> Searched(f, 0) BY <1>2, <1>3 DEF Searched
  <2>4. Searched(f, line_start)' <=> Searched(f, line_start) BY <1>2, <1>3 DEF Searched
  <2> QED BY <1>1, <1>2, <1>3, <2>1, <2>2, <2>3, <2>4 DEF Progress
<1>5. GrepTypes'
  <2>1. G!TextFile(file)' BY <1>2 DEF GrepInv, GrepTypes, G!TextFile
  <2> QED BY <1>2, <2>1 DEF GrepInv, GrepTypes
<1> QED BY <1>3, <1>4, <1>5 DEF GrepInv

\* The invariant holds before the first read.
LEMMA GrepStarts ==
    ASSUME CleanStack, G!Init
    PROVE  GrepInv
<1>1. PICK old \in {NL, CHOOSE k \in Letters : TRUE}, end \in Stale :
         data = [i \in 0 .. BUFSIZE |-> IF i = BUFSIZE THEN end ELSE old]
  BY GrepFacts DEF G!Init
<1>2. /\ fpos = 0 /\ last = 0 /\ cnt = 0 /\ line_start = 0 /\ line_end = 0
      /\ printed = <<>> /\ point = "read" /\ file \in G!Files /\ s \in Patterns
  BY DEF G!Init
<1>3. s \in Seq(Letters) /\ s # <<>> /\ Letters \subseteq Nat BY <1>2, ProgramsAssumption, CommandsAssumption
<1>4. Letters # {}
  <2>1. Len(s) > 0 /\ s[1] \in Letters BY <1>3
  <2> QED BY <2>1
<1>5. old \in G!Chars /\ end \in G!Chars /\ end # NL
  <2>1. (CHOOSE k \in Letters : TRUE) \in Letters BY <1>4
  <2> QED BY <2>1, ProgramsAssumption DEF CleanStack, G!Chars
<1>6. data \in [0 .. BUFSIZE -> G!Chars] /\ data[BUFSIZE] # NL
  <2>1. BUFSIZE \in 0 .. BUFSIZE BY GrepFacts
  <2> QED BY <1>1, <1>5, <2>1
<1>7. file \in Seq(Written) /\ G!TextFile(file)
  <2>1. PICK n \in 0 .. MAX_TEXT : file \in [1 .. n -> Written] BY <1>2 DEF G!Files, Written
  <2>2. n \in Nat BY <2>1, ProgramsAssumption
  <2> QED BY <1>2, <2>1, <2>2 DEF G!Files
<1>8. GrepTypes
  <2>1. s \in Seq(Nat)
    <3> DEFINE n == Len(s)
    <3>1. n \in Nat /\ s \in [1 .. n -> Letters] BY <1>3
    <3>2. \A i \in 1 .. n : s[i] \in Nat BY <1>3, <3>1
    <3> HIDE DEF n
    <3> QED BY <3>1, <3>2
  <2>2. BUFSIZE \in Nat /\ Len(file) \in Nat BY <1>7, GrepFacts
  <2> QED BY <1>2, <1>3, <1>6, <1>7, <2>1, <2>2 DEF GrepTypes
<1>9. PICK f : Scan(f) BY <1>7, FoundSteps
<1>10. Progress(f)
  <2>1. f[0].text = <<>> /\ f[0].found = <<>> BY <1>9 DEF Scan
  <2>2. (fpos - last) + 0 = 0 BY <1>2
  <2>3. Searched(f, 0) BY <1>2, <2>1, <2>2 DEF Searched
  <2>4. Held(0)
    <3>1. \A i \in 0 .. (last - 1) : FALSE BY <1>2
    <3> QED BY <3>1 DEF Held
  <2>5. last < BUFSIZE BY <1>2, GrepFacts
  <2> QED BY <1>2, <2>3, <2>4, <2>5 DEF Progress
<1> QED BY <1>8, <1>9, <1>10 DEF GrepInv

\* What the invariant says of what is printed and of the buffer.
LEMMA GrepInvSays == GrepInv => G!TypeOK /\ G!LinesFound /\ G!BufferIsFile
<1> SUFFICES ASSUME GrepInv PROVE G!TypeOK /\ G!LinesFound /\ G!BufferIsFile OBVIOUS
<1>1. PICK f : Progress(f) BY DEF GrepInv
<1>2. GrepTypes BY DEF GrepInv
<1>3. G!TypeOK BY <1>2, GrepFacts DEF GrepTypes, G!TypeOK
<1>4. G!LinesFound BY <1>1 DEF Progress, G!LinesFound
<1>5. G!BufferIsFile BY <1>1, <1>2 DEF Progress, Held, GrepTypes, G!BufferIsFile
<1> QED BY <1>3, <1>4, <1>5

\* Every step of the specification keeps grep's invariant.
LEMMA GrepStep ==
    (program = "grep" => GrepInv) /\ [ProgramsNext]_allVars => (program = "grep" => GrepInv)'
<1> SUFFICES ASSUME program = "grep" => GrepInv, [ProgramsNext]_allVars
             PROVE  (program = "grep" => GrepInv)'
  OBVIOUS
<1>1. CASE UNCHANGED allVars BY <1>1, GrepStays DEF allVars
<1>2. CASE ProgramsNext /\ ~GrepRuns
  <2>1. program' = program BY <1>2 DEF ProgramsNext
  <2>2. CASE program = "grep"
    <3>1. ~Shell /\ ~Pictures /\ ~Blinkers BY <2>2 DEF Shell, Pictures, Blinkers
    <3> QED BY <1>2, <3>1 DEF ProgramsNext
  <2> QED BY <2>1, <2>2
<1>3. CASE ProgramsNext /\ GrepRuns
  <2>1. program = "grep" /\ G!Next BY <1>3 DEF GrepRuns
  <2>2. GrepInv' BY <2>1, GrepReads, GrepMoves, GrepSearches DEF G!Next
  <2> QED BY <2>2
<1> QED BY <1>1, <1>2, <1>3

\* For every text, string and size of the buffer, what grep prints is the lines of the
\* text that contain the string; and no byte of the buffer is lost or read twice.
LEMMA GrepFindsLines ==
    ASSUME CleanStack
    PROVE  ProgramsSpec => [](program = "grep" => G!TypeOK /\ G!LinesFound /\ G!BufferIsFile)
<1> DEFINE Inv == program = "grep" => GrepInv
<1>1. ProgramsInit => Inv BY GrepStarts DEF ProgramsInit
<1>2. Inv /\ [ProgramsNext]_allVars => Inv' BY GrepStep
<1>3. Inv => (program = "grep" => G!TypeOK /\ G!LinesFound /\ G!BufferIsFile) BY GrepInvSays
<1> QED BY <1>1, <1>2, <1>3, PTL DEF ProgramsSpec
-----------------------------------------------------------------------------
(* The pictures of fish *)

\* What a picture is drawn with, and the places of its characters.
Marks == Ink \cup {SPACE, NL}
Spots == [row : Nat, col : Nat]

\* One place stands before another in the order of reading.
Before(p, q) == p.row < q.row \/ (p.row = q.row /\ p.col < q.col)

\* t is a picture.
Drawable(t) == t \in Seq(Marks) /\ Len(t) <= MAX_PICTURE /\ F!Fits(t)

\* What the constants of the pictures are.
LEMMA PictureFacts ==
    /\ WIDTH \in Nat /\ OFFSET \in Nat /\ OFFSET < WIDTH /\ MAX_PICTURE \in Nat
    /\ Marks \subseteq Nat /\ SPACE \in Nat /\ SPACE # NL
    /\ \A k \in Ink : k # SPACE /\ k # NL
    /\ F!Zero # NL /\ F!Both = {0, 1} /\ F!Zero \in Nat
BY ProgramsAssumption, CommandsAssumption DEF Marks, F!Zero, F!Both

\* Before is an order.
LEMMA BeforeOrder ==
    /\ \A p, q, r \in Spots : Before(p, q) /\ Before(q, r) => Before(p, r)
    /\ \A p, q \in Spots : Before(p, q) => p # q /\ ~Before(q, p)
BY DEF Before, Spots

\* Places goes through a picture character by character.
LEMMA PlacesSteps ==
    ASSUME NEW t \in Seq(Marks)
    PROVE  /\ F!Places(t)[0] = [row |-> 0, col |-> 0]
           /\ \A k \in 1 .. Len(t) :
                 F!Places(t)[k] = IF t[k] = NL THEN [row |-> F!Places(t)[k - 1].row + 1, col |-> 0]
                                  ELSE [row |-> F!Places(t)[k - 1].row, col |-> F!Places(t)[k - 1].col + 1]
           /\ \A k \in 0 .. Len(t) : F!Places(t)[k] \in Spots /\ F!Places(t)[k].row <= k
<1> DEFINE n == Len(t)
           start == [row |-> 0, col |-> 0]
           turn(x, e) == IF e = NL THEN [row |-> x.row + 1, col |-> 0]
                         ELSE [row |-> x.row, col |-> x.col + 1]
           Unroll(g) == [k \in 0 .. n |->
                            IF k = 0 THEN [row |-> 0, col |-> 0]
                            ELSE IF t[k] = NL THEN [row |-> g[k - 1].row + 1, col |-> 0]
                            ELSE [row |-> g[k - 1].row, col |-> g[k - 1].col + 1]]
           w == CHOOSE g : g = Unroll(g)
           step == [k \in Nat |-> [x \in Spots |-> turn(x, t[k + 1])]]
<1>1. n \in Nat OBVIOUS
<1>2. \A x \in Spots : \A e : turn(x, e) \in Spots BY DEF Spots
<1>3. start \in Spots BY DEF Spots
<1> HIDE DEF turn
<1>4. step \in Steps(Spots) BY <1>2 DEF Steps
<1>5. \A k \in Nat, x \in Spots : step[k][x] = turn(x, t[k + 1]) BY Zenon
<1> HIDE DEF step, start
<1>6. PICK h : Recurs(h, Spots, start, step) BY <1>3, <1>4, Recursion
<1>7. h \in [Nat -> Spots] /\ h[0] = start /\ \A k \in Nat : h[k + 1] = step[k][h[k]] BY <1>6 DEF Recurs
<1>8. ASSUME NEW k \in 1 .. n PROVE h[k] = turn(h[k - 1], t[k])
  <2>1. k - 1 \in Nat /\ (k - 1) + 1 = k BY <1>1
  <2>2. h[k - 1] \in Spots /\ h[k] = step[k - 1][h[k - 1]] BY <1>7, <2>1
  <2> QED BY <1>5, <2>1, <2>2
<1> DEFINE g == [k \in 0 .. n |-> h[k]]
<1>9. g = Unroll(g)
  <2>1. \A k \in 0 .. n : k # 0 => k - 1 \in 0 .. n /\ k \in 1 .. n BY <1>1
  <2>2. \A k \in 0 .. n : k = 0 => h[k] = [row |-> 0, col |-> 0] BY <1>7 DEF start
  <2> QED BY <2>1, <2>2, <1>8 DEF turn
<1>10. w = Unroll(w) BY <1>9
<1>11. F!Places(t) = w BY DEF F!Places
<1> HIDE DEF w, g
<1>12. w[0] = [row |-> 0, col |-> 0] BY <1>1, <1>10
<1>13. ASSUME NEW k \in 1 .. n
       PROVE  w[k] = IF t[k] = NL THEN [row |-> w[k - 1].row + 1, col |-> 0]
                     ELSE [row |-> w[k - 1].row, col |-> w[k - 1].col + 1]
  <2>1. k \in 0 .. n /\ k # 0 BY <1>1
  <2> QED BY <1>10, <2>1
<1> HIDE DEF Unroll
<1> DEFINE S == {k \in Nat : k <= n => w[k] \in Spots /\ w[k].row <= k}
<1>14. 0 \in S BY <1>12 DEF Spots
<1>15. ASSUME NEW k \in Nat, k \in S PROVE k + 1 \in S
  <2> SUFFICES ASSUME k + 1 <= n PROVE w[k + 1] \in Spots /\ w[k + 1].row <= k + 1 OBVIOUS
  <2>1. k + 1 \in 1 .. n /\ (k + 1) - 1 = k /\ k <= n BY <1>1
  <2>2. w[k] \in Spots /\ w[k].row <= k BY <1>15, <2>1
  <2>3. w[k + 1] = IF t[k + 1] = NL THEN [row |-> w[k].row + 1, col |-> 0]
                   ELSE [row |-> w[k].row, col |-> w[k].col + 1]
    BY <1>13, <2>1
  <2>4. w[k].row \in Nat /\ w[k].col \in Nat BY <2>2 DEF Spots
  <2> QED BY <2>2, <2>3, <2>4 DEF Spots
<1> HIDE DEF S
<1>16. Nat \subseteq S BY <1>14, <1>15, Induction
<1>17. \A k \in 0 .. n : w[k] \in Spots /\ w[k].row <= k
  <2>1. \A k \in 0 .. n : k \in Nat /\ k <= n BY <1>1
  <2> QED BY <1>16, <2>1 DEF S
<1> QED BY <1>11, <1>12, <1>13, <1>17

\* A later character stands at a later place.
LEMMA PlacesForward ==
    ASSUME NEW t \in Seq(Marks), NEW i \in 0 .. Len(t), NEW j \in 0 .. Len(t), i < j
    PROVE  Before(F!Places(t)[i], F!Places(t)[j])
<1> DEFINE w == F!Places(t)
           S == {k \in Nat : i + (k + 1) <= Len(t) => Before(w[i], w[i + (k + 1)])}
<1>1. Len(t) \in Nat /\ i \in Nat /\ j \in Nat OBVIOUS
<1>2. \A k \in 0 .. Len(t) : w[k] \in Spots BY PlacesSteps
<1>3. ASSUME NEW k \in 1 .. Len(t) PROVE Before(w[k - 1], w[k])
  <2>1. w[k] = IF t[k] = NL THEN [row |-> w[k - 1].row + 1, col |-> 0]
               ELSE [row |-> w[k - 1].row, col |-> w[k - 1].col + 1]
    BY PlacesSteps
  <2>2. k - 1 \in 0 .. Len(t) BY <1>1
  <2>3. w[k - 1].row \in Nat /\ w[k - 1].col \in Nat BY <1>2, <2>2 DEF Spots
  <2> HIDE DEF w
  <2> QED BY <2>1, <2>3 DEF Before
<1> HIDE DEF w
<1>4. 0 \in S
  <2> SUFFICES ASSUME i + (0 + 1) <= Len(t) PROVE Before(w[i], w[i + (0 + 1)]) OBVIOUS
  <2>1. i + 1 \in 1 .. Len(t) /\ (i + 1) - 1 = i /\ i + (0 + 1) = i + 1 BY <1>1
  <2> QED BY <1>3, <2>1
<1>5. ASSUME NEW k \in Nat, k \in S PROVE k + 1 \in S
  <2> SUFFICES ASSUME i + ((k + 1) + 1) <= Len(t) PROVE Before(w[i], w[i + ((k + 1) + 1)]) OBVIOUS
  <2> DEFINE m == i + (k + 1)
  <2>1. m + 1 \in 1 .. Len(t) /\ (m + 1) - 1 = m /\ i + ((k + 1) + 1) = m + 1 /\ m \in 0 .. Len(t)
        /\ i \in 0 .. Len(t) /\ m + 1 \in 0 .. Len(t) /\ m <= Len(t)
    BY <1>1
  <2>2. Before(w[i], w[m]) BY <1>5, <2>1
  <2> HIDE DEF m
  <2>3. Before(w[m], w[m + 1]) BY <1>3, <2>1
  <2>4. w[i] \in Spots /\ w[m] \in Spots /\ w[m + 1] \in Spots BY <1>2, <2>1
  <2>5. Before(w[i], w[m + 1]) BY <2>2, <2>3, <2>4, BeforeOrder
  <2> QED BY <2>1, <2>5
<1> HIDE DEF S
<1>6. Nat \subseteq S BY <1>4, <1>5, Induction
<1> DEFINE k == (j - i) - 1
<1>7. k \in Nat /\ i + (k + 1) = j /\ j <= Len(t) BY <1>1
<1> HIDE DEF k
<1>8. Before(w[i], w[j]) BY <1>6, <1>7 DEF S
<1> QED BY <1>8 DEF w

\* What a picture has at the place of one of its characters, and where none stands.
LEMMA AtIs ==
    ASSUME NEW t \in Seq(Marks), NEW p \in Spots
    PROVE  /\ \A i \in 1 .. Len(t) : t[i] # NL /\ F!Places(t)[i - 1] = p => F!At(t, p.row, p.col) = t[i]
           /\ (\A i \in 1 .. Len(t) : t[i] # NL => F!Places(t)[i - 1] # p) => F!At(t, p.row, p.col) = SPACE
<1> DEFINE there == {i \in 1 .. Len(t) : t[i] # NL /\ F!Places(t)[i - 1] = p}
<1>1. p = [row |-> p.row, col |-> p.col] BY DEF Spots
<1>2. F!At(t, p.row, p.col) = IF there = {} THEN SPACE ELSE t[CHOOSE i \in there : TRUE]
  <2> DEFINE spelt == {i \in 1 .. Len(t) : t[i] # NL /\ F!Places(t)[i - 1] = [row |-> p.row, col |-> p.col]}
  <2>1. F!At(t, p.row, p.col) = IF spelt = {} THEN SPACE ELSE t[CHOOSE i \in spelt : TRUE]
    BY DEF F!At
  <2>2. spelt = there BY <1>1
  <2> HIDE DEF spelt, there
  <2> QED BY <2>1, <2>2
<1>3. ASSUME NEW i \in there, NEW j \in there PROVE i = j
  <2>1. Len(t) \in Nat /\ i \in 1 .. Len(t) /\ j \in 1 .. Len(t) OBVIOUS
  <2>2. i - 1 \in 0 .. Len(t) /\ j - 1 \in 0 .. Len(t) BY <2>1
  <2>3. ~Before(p, p) BY DEF Before, Spots
  <2>4. F!Places(t)[i - 1] = p /\ F!Places(t)[j - 1] = p OBVIOUS
  <2> HIDE DEF there
  <2>5. ~(i - 1 < j - 1) BY <2>2, <2>3, <2>4, PlacesForward
  <2>6. ~(j - 1 < i - 1) BY <2>2, <2>3, <2>4, PlacesForward
  <2> QED BY <2>1, <2>5, <2>6
<1>4. ASSUME NEW i \in there PROVE F!At(t, p.row, p.col) = t[i]
  <2> HIDE DEF there
  <2>1. there # {} OBVIOUS
  <2>2. (CHOOSE j \in there : TRUE) \in there BY <2>1
  <2>3. (CHOOSE j \in there : TRUE) = i BY <1>3, <2>2
  <2> QED BY <1>2, <2>1, <2>3
<1>5. there = {} => F!At(t, p.row, p.col) = SPACE BY <1>2
<1> QED BY <1>4, <1>5
-----------------------------------------------------------------------------
(* The invariant of add_frames *)

\* The cells that a picture may fill, what stands there, and its blinker.
Cells == [row : 0 .. MAX_PICTURE, col : 0 .. ((WIDTH - OFFSET) - 1)]
InkAt(t, p) == F!At(t[0], p.row, p.col) # SPACE \/ F!At(t[1], p.row, p.col) # SPACE
Dot(t, p) == [location |-> p.row * WIDTH + p.col + OFFSET,
              on_char |-> F!At(t[0], p.row, p.col), off_char |-> F!At(t[1], p.row, p.col)]
Spot(r, k) == [row |-> r, col |-> k]

\* The file is at the end of the row or of itself: nothing of it stands in the row
\* from column k on.
Ended(t, f, k) ==
    /\ c[f] = NL
    /\ \A i \in 1 .. frame_fpos[f] : t[f][i] # NL => Before(F!Places(t[f])[i - 1], Spot(row, k))
    /\ eof[f] => frame_fpos[f] = Len(t[f])
    /\ ~eof[f] => F!Places(t[f])[frame_fpos[f]] = Spot(row + 1, 0)

\* The character of column k is still to be read.
Ready(t, f, k) ==
    /\ c[f] = NL => Ended(t, f, k)
    /\ c[f] # NL => F!Places(t[f])[frame_fpos[f]] = Spot(row, k)

\* It was read.
Got(t, f) ==
    /\ c[f] = NL => Ended(t, f, col)
    /\ c[f] # NL => /\ frame_fpos[f] > 0 /\ t[f][frame_fpos[f]] = c[f]
                    /\ F!Places(t[f])[frame_fpos[f] - 1] = Spot(row, col)
                    /\ F!Places(t[f])[frame_fpos[f]] = Spot(row, col + 1)

\* The blinkers of the cells before q, in order and each once.
Drawn(t, q) ==
    /\ added \in Seq({Dot(t, p) : p \in Cells})
    /\ \A i \in 1 .. Len(added) : \E p \in Cells : Before(p, q) /\ InkAt(t, p) /\ added[i] = Dot(t, p)
    /\ \A p \in Cells : Before(p, q) /\ InkAt(t, p) => \E i \in 1 .. Len(added) : added[i] = Dot(t, p)
    /\ \A i, j \in 1 .. Len(added) : i < j => added[i].location < added[j].location

\* What the variables hold.
FrameTypes(t) ==
    /\ frame = t /\ \A f \in F!Both : Drawable(t[f])
    /\ frame_fpos \in [F!Both -> Nat] /\ \A f \in F!Both : frame_fpos[f] <= Len(t[f])
    /\ c \in [F!Both -> Marks \cup {F!Zero}]
    /\ eof \in [F!Both -> BOOLEAN] /\ closed \in [F!Both -> BOOLEAN]
    /\ row \in 0 .. (MAX_PICTURE + 1) /\ col \in 0 .. (WIDTH - OFFSET)
    /\ frame_point \in {"row", "read0", "read1", "add", "done"}
    /\ frame_point \in {"read0", "read1", "add"} => row <= MAX_PICTURE
    /\ \A f \in F!Both : (closed[f] => eof[f]) /\ (eof[f] => c[f] = NL)

\* How far the files are read at each place of the loops.
Reading(t) ==
    /\ frame_point = "row" => \A f \in F!Both : Ready(t, f, 0) /\ (c[f] = NL => eof[f])
    /\ frame_point = "read0" => Ready(t, 0, col) /\ Ready(t, 1, col)
    /\ frame_point = "read1" => Got(t, 0) /\ Ready(t, 1, col)
    /\ frame_point = "add" => Got(t, 0) /\ Got(t, 1)
    /\ frame_point = "done" => \A f \in F!Both : Ended(t, f, 0) /\ eof[f]

\* Where the next cell is.
NextCell == IF frame_point \in {"row", "done"} THEN Spot(row, 0) ELSE Spot(row, col)

Sketch(t) == FrameTypes(t) /\ Reading(t) /\ Drawn(t, NextCell)
FrameInv == \E t : Sketch(t)

\* Nothing of a file that is at the end of the row stands in the rest of it, and of one
\* that is at its end nowhere behind it.
LEMMA EndedIsBlank ==
    ASSUME NEW t, NEW f \in F!Both, FrameTypes(t), NEW k \in Nat, Ended(t, f, k),
           NEW p \in Spots, ~Before(p, Spot(row, k)), p.row = row \/ eof[f]
    PROVE  F!At(t[f], p.row, p.col) = SPACE
<1> DEFINE w == F!Places(t[f])
           n == frame_fpos[f]
           m == Len(t[f])
<1>1. t[f] \in Seq(Marks) /\ n \in Nat /\ m \in Nat /\ n <= m /\ row \in Nat
  BY PictureFacts DEF FrameTypes, Drawable
<1>2. \A i \in 0 .. m : w[i] \in Spots BY <1>1, PlacesSteps
<1>3. \A i, j \in 0 .. m : i < j => Before(w[i], w[j]) BY <1>1, PlacesForward
<1>4. /\ \A i \in 1 .. n : t[f][i] # NL => Before(w[i - 1], Spot(row, k))
      /\ eof[f] => n = m
      /\ ~eof[f] => w[n] = Spot(row + 1, 0)
  BY DEF Ended
<1> HIDE DEF w, n, m
<1>5. ASSUME NEW i \in 1 .. m, t[f][i] # NL, w[i - 1] = p PROVE FALSE
  <2>1. CASE i <= n
    <3>1. i \in 1 .. n BY <1>1, <2>1
    <3> QED BY <1>4, <1>5, <3>1
  <2>2. CASE ~(i <= n)
    <3>1. ~eof[f] BY <1>1, <1>4, <2>2
    <3>2. w[n] = Spot(row + 1, 0) /\ p.row = row BY <1>4, <3>1
    <3>3. i - 1 = n \/ n < i - 1 BY <1>1, <2>2
    <3>4. n \in 0 .. m /\ i - 1 \in 0 .. m BY <1>1, <2>2
    <3>5. w[n] = p \/ Before(w[n], p) BY <1>3, <1>5, <3>3, <3>4
    <3>6. w[n].row = row + 1 BY <3>2 DEF Spot
    <3>7. p.row \in Nat /\ w[n].row \in Nat BY <1>2, <3>4 DEF Spots
    <3> QED BY <1>1, <3>2, <3>5, <3>6, <3>7 DEF Before
  <2> QED BY <2>1, <2>2
<1> QED BY <1>1, <1>5, AtIs DEF w, m

\* A later cell has a greater location.
LEMMA LocationsGrow ==
    ASSUME NEW t, NEW p \in Cells, NEW q \in Cells, Before(p, q)
    PROVE  Dot(t, p).location < Dot(t, q).location
<1>1. WIDTH \in Nat /\ OFFSET \in Nat /\ OFFSET < WIDTH BY PictureFacts
<1>2. /\ p.row \in Nat /\ q.row \in Nat /\ p.col \in Nat /\ q.col \in Nat /\ p.col + OFFSET < WIDTH
  BY <1>1, PictureFacts DEF Cells
<1> DEFINE a == p.row
           b == q.row
           x == p.col
           y == q.col
<1>3. a \in Nat /\ b \in Nat /\ x \in Nat /\ y \in Nat /\ x + OFFSET < WIDTH BY <1>2
<1>4. a < b \/ (a = b /\ x < y) BY DEF Before
<1>5. Dot(t, p).location = a * WIDTH + x + OFFSET /\ Dot(t, q).location = b * WIDTH + y + OFFSET BY DEF Dot
<1> HIDE DEF a, b, x, y
<1>6. a < b => a * WIDTH + WIDTH <= b * WIDTH
  <2> SUFFICES ASSUME a < b PROVE a * WIDTH + WIDTH <= b * WIDTH OBVIOUS
  <2> DEFINE d == (b - a) - 1
  <2>1. d \in Nat /\ b = a + 1 + d BY <1>3
  <2> HIDE DEF d
  <2>2. b * WIDTH = a * WIDTH + WIDTH + d * WIDTH BY <1>1, <1>3, <2>1
  <2>3. d * WIDTH \in Nat /\ a * WIDTH \in Nat BY <1>1, <1>3, <2>1
  <2> QED BY <1>1, <2>2, <2>3
<1>7. a * WIDTH \in Nat /\ b * WIDTH \in Nat BY <1>1, <1>3
<1> DEFINE aw == a * WIDTH
           bw == b * WIDTH
<1>8. aw \in Nat /\ bw \in Nat /\ (a < b => aw + WIDTH <= bw) /\ (a = b => aw = bw) BY <1>6, <1>7
<1> HIDE DEF aw, bw
<1>9. aw + x + OFFSET < bw + y + OFFSET BY <1>1, <1>3, <1>4, <1>8
<1> QED BY <1>5, <1>9 DEF aw, bw

\* The cells between that are blank have no blinkers.
LEMMA DrawSkips ==
    ASSUME NEW t, NEW q, NEW r, Drawn(t, q), added' = added,
           \A p \in Cells : Before(p, q) => Before(p, r),
           \A p \in Cells : Before(p, r) /\ ~Before(p, q) => ~InkAt(t, p)
    PROVE  Drawn(t, r)'
<1>1. /\ added \in Seq({Dot(t, p) : p \in Cells})
      /\ \A i \in 1 .. Len(added) : \E p \in Cells : Before(p, q) /\ InkAt(t, p) /\ added[i] = Dot(t, p)
      /\ \A p \in Cells : Before(p, q) /\ InkAt(t, p) => \E i \in 1 .. Len(added) : added[i] = Dot(t, p)
      /\ \A i, j \in 1 .. Len(added) : i < j => added[i].location < added[j].location
  BY DEF Drawn
<1>2. \A i \in 1 .. Len(added) : \E p \in Cells : Before(p, r) /\ InkAt(t, p) /\ added[i] = Dot(t, p)
  BY <1>1
<1>3. \A p \in Cells : Before(p, r) /\ InkAt(t, p) => \E i \in 1 .. Len(added) : added[i] = Dot(t, p)
  BY <1>1
<1> QED BY <1>1, <1>2, <1>3 DEF Drawn

\* A cell with ink is given one.
LEMMA DrawAdds ==
    ASSUME NEW t, NEW q \in Cells, NEW r, Drawn(t, q), InkAt(t, q), added' = Append(added, Dot(t, q)),
           \A p \in Cells : Before(p, r) <=> Before(p, q) \/ p = q
    PROVE  Drawn(t, r)'
<1> DEFINE D == {Dot(t, p) : p \in Cells}
           x == Dot(t, q)
           n == Len(added)
<1>1. /\ added \in Seq(D)
      /\ \A i \in 1 .. n : \E p \in Cells : Before(p, q) /\ InkAt(t, p) /\ added[i] = Dot(t, p)
      /\ \A p \in Cells : Before(p, q) /\ InkAt(t, p) => \E i \in 1 .. n : added[i] = Dot(t, p)
      /\ \A i, j \in 1 .. n : i < j => added[i].location < added[j].location
  BY DEF Drawn
<1>2. x \in D OBVIOUS
<1> HIDE DEF D, x
<1>3. /\ added' \in Seq(D) /\ n \in Nat /\ Len(added') = n + 1
      /\ \A i \in 1 .. n : added'[i] = added[i] /\ i \in 1 .. (n + 1)
      /\ added'[n + 1] = x /\ n + 1 \in 1 .. (n + 1)
      /\ \A i \in 1 .. (n + 1) : i \in 1 .. n \/ i = n + 1
  BY <1>1, <1>2 DEF x
<1> HIDE DEF n
<1>4. \A i \in 1 .. (n + 1) : \E p \in Cells : Before(p, r) /\ InkAt(t, p) /\ added'[i] = Dot(t, p)
  <2> SUFFICES ASSUME NEW i \in 1 .. (n + 1)
               PROVE  \E p \in Cells : Before(p, r) /\ InkAt(t, p) /\ added'[i] = Dot(t, p)
    OBVIOUS
  <2>1. CASE i \in 1 .. n BY <1>1, <1>3, <2>1
  <2>2. CASE i = n + 1 BY <1>3, <2>2 DEF x
  <2> QED BY <1>3, <2>1, <2>2
<1>5. \A p \in Cells : Before(p, r) /\ InkAt(t, p) => \E i \in 1 .. (n + 1) : added'[i] = Dot(t, p)
  <2> SUFFICES ASSUME NEW p \in Cells, Before(p, r), InkAt(t, p)
               PROVE  \E i \in 1 .. (n + 1) : added'[i] = Dot(t, p)
    OBVIOUS
  <2>1. CASE Before(p, q) BY <1>1, <1>3, <2>1
  <2>2. CASE p = q BY <1>3, <2>2 DEF x
  <2> QED BY <2>1, <2>2
<1>6. \A i, j \in 1 .. (n + 1) : i < j => added'[i].location < added'[j].location
  <2> SUFFICES ASSUME NEW i \in 1 .. (n + 1), NEW j \in 1 .. (n + 1), i < j
               PROVE  added'[i].location < added'[j].location
    OBVIOUS
  <2>1. i \in 1 .. n BY <1>3
  <2>2. CASE j \in 1 .. n BY <1>1, <1>3, <2>1, <2>2
  <2>3. CASE j = n + 1
    <3>1. PICK p \in Cells : Before(p, q) /\ added[i] = Dot(t, p) BY <1>1, <2>1
    <3>2. Dot(t, p).location < Dot(t, q).location BY <3>1, LocationsGrow
    <3> QED BY <1>3, <2>1, <2>3, <3>1, <3>2 DEF x
  <2> QED BY <1>3, <2>2, <2>3
<1> QED BY <1>3, <1>4, <1>5, <1>6 DEF Drawn, D
-----------------------------------------------------------------------------
(* Each step keeps it *)

\* A row begins at column 0; or both pictures are at their ends.
LEMMA StartRowKeeps ==
    ASSUME FrameInv, F!StartRow
    PROVE  FrameInv'
<1>1. PICK t : Sketch(t) BY DEF FrameInv
<1>2. FrameTypes(t) /\ Reading(t) /\ Drawn(t, NextCell) BY <1>1 DEF Sketch
<1>3. /\ frame_point = "row" /\ frame_point' = IF eof[0] /\ eof[1] THEN "done" ELSE "read0"
      /\ col' = 0 /\ frame' = frame /\ frame_fpos' = frame_fpos /\ c' = c /\ eof' = eof
      /\ closed' = closed /\ row' = row /\ added' = added
  BY DEF F!StartRow
<1>4. \A f \in F!Both : Ready(t, f, 0) /\ (c[f] = NL => eof[f]) BY <1>2, <1>3 DEF Reading
<1>5. NextCell = Spot(row, 0) /\ NextCell' = Spot(row, 0) BY <1>3 DEF NextCell, Spot
<1>6. Drawn(t, NextCell)' BY <1>2, <1>3, <1>5 DEF Drawn
<1>7. \A f \in F!Both : Ended(t, f, 0) => Ended(t, f, 0)' BY <1>3 DEF Ended
<1>8. \A f \in F!Both : Ready(t, f, 0) => Ready(t, f, col)' BY <1>3, <1>7 DEF Ready, Ended
<1>9. F!Both = {0, 1} BY PictureFacts
<1>10. CASE eof[0] /\ eof[1]
  <2>1. frame_point' = "done" BY <1>3, <1>10
  <2>2. \A f \in F!Both : eof[f] /\ c[f] = NL BY <1>2, <1>9, <1>10 DEF FrameTypes
  <2>3. \A f \in F!Both : Ended(t, f, 0) BY <1>4, <2>2 DEF Ready
  <2>4. Reading(t)' BY <1>3, <1>7, <2>1, <2>2, <2>3 DEF Reading
  <2>5. FrameTypes(t)'
    <3>1. col' \in 0 .. (WIDTH - OFFSET) BY <1>3, PictureFacts
    <3> QED BY <1>2, <1>3, <2>1, <3>1 DEF FrameTypes
  <2> QED BY <1>6, <2>4, <2>5 DEF Sketch, FrameInv
<1>11. CASE ~(eof[0] /\ eof[1])
  <2>1. frame_point' = "read0" BY <1>3, <1>11
  <2>2. Reading(t)' BY <1>4, <1>8, <1>9, <2>1 DEF Reading
  <2>3. PICK f \in F!Both : ~eof[f] BY <1>9, <1>11
  <2>4. row <= MAX_PICTURE
    <3> DEFINE w == F!Places(t[f])
               n == frame_fpos[f]
    <3>1. w[n] = Spot(row, 0) BY <1>4, <2>3 DEF Ready
    <3>2. n \in 0 .. Len(t[f]) /\ t[f] \in Seq(Marks) /\ Len(t[f]) <= MAX_PICTURE
      BY <1>2 DEF FrameTypes, Drawable
    <3>3. w[n].row <= n BY <3>2, PlacesSteps
    <3> HIDE DEF w
    <3>4. row <= n BY <3>1, <3>3 DEF Spot
    <3>5. row \in Nat /\ MAX_PICTURE \in Nat /\ Len(t[f]) \in Nat BY <1>2, <3>2, PictureFacts DEF FrameTypes
    <3> QED BY <3>2, <3>4, <3>5
  <2>5. FrameTypes(t)'
    <3>1. col' \in 0 .. (WIDTH - OFFSET) BY <1>3, PictureFacts
    <3> QED BY <1>2, <1>3, <2>1, <2>4, <3>1 DEF FrameTypes
  <2> QED BY <1>6, <2>2, <2>5 DEF Sketch, FrameInv
<1> QED BY <1>10, <1>11

\* A file is read on by the character of the column, or is at its end.
LEMMA ReadGets ==
    ASSUME NEW t, NEW f \in F!Both, NEW from \in {"read0", "read1"}, NEW to \in {"read1", "add"},
           FrameTypes(t), Ready(t, f, col), F!Read(f, from, to)
    PROVE  FrameTypes(t)' /\ Got(t, f)'
<1> DEFINE w == F!Places(t[f])
           n == frame_fpos[f]
           m == Len(t[f])
<1>1. /\ frame_point = from /\ frame_point' = to /\ frame' = frame /\ closed' = closed
      /\ row' = row /\ col' = col /\ added' = added
      /\ IF c[f] = NL THEN c' = c /\ frame_fpos' = frame_fpos /\ eof' = eof
         ELSE IF n = Len(frame[f])
         THEN /\ c' = [c EXCEPT ![f] = NL] /\ eof' = [eof EXCEPT ![f] = TRUE]
              /\ frame_fpos' = frame_fpos
         ELSE /\ c' = [c EXCEPT ![f] = frame[f][n + 1]]
              /\ frame_fpos' = [frame_fpos EXCEPT ![f] = n + 1]
              /\ eof' = eof
  BY DEF F!Read
<1>2. /\ frame = t /\ t[f] \in Seq(Marks) /\ n \in Nat /\ m \in Nat /\ n <= m /\ row \in Nat /\ col \in Nat
      /\ frame_fpos \in [F!Both -> Nat] /\ c \in [F!Both -> Marks \cup {F!Zero}]
      /\ eof \in [F!Both -> BOOLEAN]
      /\ \A g \in F!Both : frame_fpos[g] <= Len(t[g]) /\ (closed[g] => eof[g]) /\ (eof[g] => c[g] = NL)
  BY PictureFacts DEF FrameTypes, Drawable
<1>3. \A k \in 1 .. m : w[k] = IF t[f][k] = NL THEN [row |-> w[k - 1].row + 1, col |-> 0]
                               ELSE [row |-> w[k - 1].row, col |-> w[k - 1].col + 1]
  BY <1>2, PlacesSteps
<1>4. \A i, j \in 0 .. m : i < j => Before(w[i], w[j]) BY <1>2, PlacesForward
<1>5. FrameTypes(t)'
  <2>1. /\ frame' = t /\ closed' \in [F!Both -> BOOLEAN]
        /\ row' \in 0 .. (MAX_PICTURE + 1) /\ col' \in 0 .. (WIDTH - OFFSET)
        /\ frame_point' \in {"row", "read0", "read1", "add", "done"} /\ row' <= MAX_PICTURE
        /\ \A g \in F!Both : Drawable(t[g])
    BY <1>1 DEF FrameTypes
  <2>2. CASE c[f] = NL BY <1>1, <1>2, <2>1, <2>2 DEF FrameTypes
  <2>3. CASE c[f] # NL /\ n = m
    <3>1. c' = [c EXCEPT ![f] = NL] /\ eof' = [eof EXCEPT ![f] = TRUE] /\ frame_fpos' = frame_fpos
      BY <1>1, <1>2, <2>3
    <3>2. c' \in [F!Both -> Marks \cup {F!Zero}] /\ eof' \in [F!Both -> BOOLEAN]
      BY <1>2, <3>1 DEF Marks
    <3>3. \A g \in F!Both : (closed'[g] => eof'[g]) /\ (eof'[g] => c'[g] = NL)
      BY <1>1, <1>2, <3>1
    <3> QED BY <1>2, <2>1, <3>1, <3>2, <3>3 DEF FrameTypes
  <2>4. CASE c[f] # NL /\ n # m
    <3>1. /\ c' = [c EXCEPT ![f] = t[f][n + 1]] /\ eof' = eof
          /\ frame_fpos' = [frame_fpos EXCEPT ![f] = n + 1]
      BY <1>1, <1>2, <2>4
    <3>2. n + 1 \in 1 .. m /\ n + 1 \in Nat BY <1>2, <2>4
    <3>3. t[f][n + 1] \in Marks BY <1>2, <3>2
    <3>4. c' \in [F!Both -> Marks \cup {F!Zero}] BY <1>2, <3>1, <3>3
    <3>5. frame_fpos' \in [F!Both -> Nat] BY <1>2, <3>1, <3>2
    <3>6. \A g \in F!Both : frame_fpos'[g] <= Len(t[g])
      <4>1. \A g \in F!Both : g # f => frame_fpos'[g] = frame_fpos[g] BY <1>2, <3>1
      <4>2. frame_fpos'[f] = n + 1 BY <1>2, <3>1
      <4>3. n + 1 <= m BY <3>2
      <4> HIDE DEF n
      <4> QED BY <1>2, <4>1, <4>2, <4>3
    <3>7. \A g \in F!Both : (closed'[g] => eof'[g]) /\ (eof'[g] => c'[g] = NL)
      BY <1>1, <1>2, <2>4, <3>1
    <3> QED BY <1>2, <2>1, <3>1, <3>4, <3>5, <3>6, <3>7 DEF FrameTypes
  <2> QED BY <2>2, <2>3, <2>4
<1>6. CASE c[f] = NL
  <2>1. Ended(t, f, col) BY <1>6 DEF Ready
  <2>2. c' = c /\ frame_fpos' = frame_fpos /\ eof' = eof BY <1>1, <1>6
  <2>3. Ended(t, f, col)' BY <1>1, <2>1, <2>2 DEF Ended
  <2>4. Got(t, f)' BY <1>6, <2>2, <2>3 DEF Got
  <2> QED BY <1>5, <2>4
<1>7. CASE c[f] # NL
  <2>1. w[n] = Spot(row, col) BY <1>7 DEF Ready
  <2>2. \A i \in 1 .. n : Before(w[i - 1], Spot(row, col))
    <3> SUFFICES ASSUME NEW i \in 1 .. n PROVE Before(w[i - 1], w[n]) BY <2>1
    <3>1. i - 1 \in 0 .. m /\ n \in 0 .. m /\ i - 1 < n BY <1>2
    <3> HIDE DEF w, n
    <3> QED BY <1>4, <3>1
  <2>3. CASE n = m
    <3>1. /\ c' = [c EXCEPT ![f] = NL] /\ eof' = [eof EXCEPT ![f] = TRUE]
          /\ frame_fpos' = frame_fpos
      BY <1>1, <1>2, <1>7, <2>3
    <3>2. c'[f] = NL /\ eof'[f] BY <1>2, <3>1
    <3>3. Ended(t, f, col)' BY <1>1, <2>2, <2>3, <3>1, <3>2 DEF Ended
    <3>4. Got(t, f)' BY <3>2, <3>3 DEF Got
    <3> QED BY <1>5, <3>4
  <2>4. CASE n # m
    <3>1. /\ c' = [c EXCEPT ![f] = t[f][n + 1]] /\ eof' = eof
          /\ frame_fpos' = [frame_fpos EXCEPT ![f] = n + 1]
      BY <1>1, <1>2, <1>7, <2>4
    <3>2. c'[f] = t[f][n + 1] /\ frame_fpos'[f] = n + 1 /\ ~eof'[f] BY <1>2, <1>7, <3>1
    <3>3. n + 1 \in 1 .. m /\ (n + 1) - 1 = n /\ n + 1 > 0 BY <1>2, <2>4
    <3>4. w[n].row = row /\ w[n].col = col BY <2>1 DEF Spot
    <3>5. w[n + 1] = IF t[f][n + 1] = NL THEN Spot(row + 1, 0) ELSE Spot(row, col + 1)
      BY <1>3, <3>3, <3>4 DEF Spot
    <3>6. CASE t[f][n + 1] = NL
      <4>1. \A i \in 1 .. (n + 1) : i \in 1 .. n \/ i = n + 1 BY <1>2
      <4>2. \A i \in 1 .. (n + 1) : t[f][i] # NL => Before(w[i - 1], Spot(row, col))
        <5> HIDE DEF w, n
        <5> QED BY <2>2, <3>6, <4>1
      <4>3. w[n + 1] = Spot(row + 1, 0) BY <3>5, <3>6
      <4>4. Ended(t, f, col)'
        <5> HIDE DEF n
        <5> QED BY <1>1, <3>2, <3>6, <4>2, <4>3 DEF Ended
      <4>5. Got(t, f)' BY <3>2, <3>6, <4>4 DEF Got
      <4> QED BY <1>5, <4>5
    <3>7. CASE t[f][n + 1] # NL
      <4>1. w[n + 1] = Spot(row, col + 1) BY <3>5, <3>7
      <4>2. Got(t, f)'
        <5> HIDE DEF n
        <5> QED BY <1>1, <2>1, <3>2, <3>3, <3>7, <4>1 DEF Got
      <4> QED BY <1>5, <4>2
    <3> QED BY <3>6, <3>7
  <2> QED BY <2>3, <2>4
<1> QED BY <1>6, <1>7

\* Reading one file leaves how far the other is.
LEMMA ReadLeaves ==
    ASSUME NEW t, NEW f \in F!Both, NEW g \in F!Both, f # g, FrameTypes(t),
           NEW from, NEW to, F!Read(f, from, to)
    PROVE  /\ Got(t, g) => Got(t, g)'
           /\ Ready(t, g, col) => Ready(t, g, col)'
<1>1. row' = row /\ col' = col BY DEF F!Read
<1>2. /\ frame_fpos \in [F!Both -> Nat] /\ c \in [F!Both -> Marks \cup {F!Zero}] /\ eof \in [F!Both -> BOOLEAN]
  BY DEF FrameTypes
<1>3. c'[g] = c[g] /\ frame_fpos'[g] = frame_fpos[g] /\ (eof'[g] <=> eof[g])
  <2>1. CASE c[f] = NL BY <2>1 DEF F!Read
  <2>2. CASE c[f] # NL /\ frame_fpos[f] = Len(frame[f]) BY <1>2, <2>2 DEF F!Read
  <2>3. CASE c[f] # NL /\ frame_fpos[f] # Len(frame[f]) BY <1>2, <2>3 DEF F!Read
  <2> QED BY <2>1, <2>2, <2>3
<1>4. Ended(t, g, col) => Ended(t, g, col)' BY <1>1, <1>3 DEF Ended
<1> QED BY <1>1, <1>3, <1>4 DEF Got, Ready

\* Both reads of a column.
LEMMA ReadsKeep ==
    ASSUME FrameInv, F!Read0 \/ F!Read1
    PROVE  FrameInv'
<1>1. PICK t : Sketch(t) BY DEF FrameInv
<1>2. FrameTypes(t) /\ Reading(t) /\ Drawn(t, NextCell) BY <1>1 DEF Sketch
<1>b. F!Both = {0, 1} /\ 0 # 1 BY PictureFacts
<1>3. CASE F!Read0
  <2>1. F!Read(0, "read0", "read1") BY <1>3 DEF F!Read0
  <2>2. /\ frame_point = "read0" /\ frame_point' = "read1" /\ row' = row /\ col' = col /\ added' = added
    BY <2>1 DEF F!Read
  <2>3. Ready(t, 0, col) /\ Ready(t, 1, col) BY <1>2, <2>2 DEF Reading
  <2>4. FrameTypes(t)' /\ Got(t, 0)' BY <1>2, <1>b, <2>1, <2>3, ReadGets
  <2>5. Ready(t, 1, col)' BY <1>2, <1>b, <2>1, <2>3, ReadLeaves
  <2>6. Reading(t)' BY <2>2, <2>4, <2>5 DEF Reading
  <2>7. NextCell = Spot(row, col) /\ NextCell' = Spot(row, col) BY <2>2 DEF NextCell, Spot
  <2>8. Drawn(t, NextCell)' BY <1>2, <2>2, <2>7 DEF Drawn
  <2> QED BY <2>4, <2>6, <2>8 DEF Sketch, FrameInv
<1>4. CASE F!Read1
  <2>1. F!Read(1, "read1", "add") BY <1>4 DEF F!Read1
  <2>2. /\ frame_point = "read1" /\ frame_point' = "add" /\ row' = row /\ col' = col /\ added' = added
    BY <2>1 DEF F!Read
  <2>3. Got(t, 0) /\ Ready(t, 1, col) BY <1>2, <2>2 DEF Reading
  <2>4. FrameTypes(t)' /\ Got(t, 1)' BY <1>2, <1>b, <2>1, <2>3, ReadGets
  <2>5. Got(t, 0)' BY <1>2, <1>b, <2>1, <2>3, ReadLeaves
  <2>6. Reading(t)' BY <2>2, <2>4, <2>5 DEF Reading
  <2>7. NextCell = Spot(row, col) /\ NextCell' = Spot(row, col) BY <2>2 DEF NextCell, Spot
  <2>8. Drawn(t, NextCell)' BY <1>2, <2>2, <2>7 DEF Drawn
  <2> QED BY <2>4, <2>6, <2>8 DEF Sketch, FrameInv
<1> QED BY <1>3, <1>4

\* What was read for the cell is what the picture has there.
LEMMA GotIsAt ==
    ASSUME NEW t, NEW f \in F!Both, FrameTypes(t), Got(t, f)
    PROVE  /\ F!At(t[f], row, col) = F!Char(f)
           /\ F!Blank(f) <=> F!Char(f) = SPACE
<1> DEFINE q == Spot(row, col)
           n == frame_fpos[f]
<1>1. row \in Nat /\ col \in Nat /\ t[f] \in Seq(Marks) /\ n \in Nat /\ n <= Len(t[f])
  BY PictureFacts DEF FrameTypes, Drawable
<1>2. q \in Spots /\ q.row = row /\ q.col = col /\ ~Before(q, q) BY <1>1 DEF Spots, Spot, Before
<1>3. SPACE # NL BY PictureFacts
<1>4. F!Blank(f) <=> F!Char(f) = SPACE BY <1>3 DEF F!Blank, F!Char
<1>5. CASE c[f] = NL
  <2>1. Ended(t, f, col) BY <1>5 DEF Got
  <2> HIDE DEF q
  <2>2. ~Before(q, Spot(row, col)) BY <1>2 DEF q
  <2>3. F!At(t[f], q.row, q.col) = SPACE BY <1>1, <1>2, <2>1, <2>2, EndedIsBlank
  <2> QED BY <1>2, <1>4, <1>5, <2>3 DEF F!Char
<1>6. CASE c[f] # NL
  <2>1. n > 0 /\ t[f][n] = c[f] /\ F!Places(t[f])[n - 1] = q BY <1>6 DEF Got
  <2>2. n \in 1 .. Len(t[f]) BY <1>1, <2>1
  <2> HIDE DEF q, n
  <2>3. F!At(t[f], q.row, q.col) = t[f][n] BY <1>1, <1>2, <1>6, <2>1, <2>2, AtIs
  <2> QED BY <1>2, <1>4, <1>6, <2>1, <2>3 DEF F!Char
<1> QED BY <1>5, <1>6

\* The blinker of a cell is added, and the next cell is to its right.
LEMMA CellKeeps ==
    ASSUME FrameInv, F!Add
    PROVE  FrameInv'
<1>1. PICK t : Sketch(t) BY DEF FrameInv
<1>2. FrameTypes(t) /\ Reading(t) /\ Drawn(t, NextCell) BY <1>1 DEF Sketch
<1>b. F!Both = {0, 1} BY PictureFacts
<1>3. /\ frame_point = "add" /\ ~(c[0] = NL /\ c[1] = NL) /\ frame_point' = "read0" /\ col' = col + 1
      /\ frame' = frame /\ frame_fpos' = frame_fpos /\ c' = c /\ eof' = eof /\ closed' = closed
      /\ row' = row
      /\ added' = IF F!Blank(0) /\ F!Blank(1) THEN added
                  ELSE Append(added, [location |-> row * WIDTH + col + OFFSET,
                                      on_char |-> F!Char(0), off_char |-> F!Char(1)])
  BY DEF F!Add
<1>4. Got(t, 0) /\ Got(t, 1) BY <1>2, <1>3 DEF Reading
<1> DEFINE q == Spot(row, col)
           r == Spot(row, col + 1)
<1>5. row \in 0 .. MAX_PICTURE /\ row \in Nat /\ col \in Nat BY <1>2, <1>3, PictureFacts DEF FrameTypes
<1>6. NextCell = q /\ NextCell' = r BY <1>3 DEF NextCell, Spot
<1>7. col < WIDTH - OFFSET
  <2>1. PICK f \in F!Both : c[f] # NL BY <1>3, <1>b
  <2>2. /\ frame_fpos[f] > 0 /\ t[f][frame_fpos[f]] = c[f]
        /\ F!Places(t[f])[frame_fpos[f] - 1] = Spot(row, col)
    BY <1>4, <1>b, <2>1 DEF Got
  <2>3. frame_fpos[f] \in 1 .. Len(t[f]) /\ F!Fits(t[f])
    <3>1. t[f] \in Seq(Marks) /\ F!Fits(t[f]) BY <1>2 DEF FrameTypes, Drawable
    <3>2. Len(t[f]) \in Nat /\ frame_fpos[f] \in Nat /\ frame_fpos[f] <= Len(t[f])
      BY <1>2, <3>1 DEF FrameTypes
    <3> QED BY <2>2, <3>1, <3>2
  <2>4. F!Places(t[f])[frame_fpos[f] - 1].col < WIDTH - OFFSET BY <2>1, <2>2, <2>3 DEF F!Fits
  <2> QED BY <2>2, <2>4 DEF Spot
<1>8. q \in Cells BY <1>5, <1>7, PictureFacts DEF Cells, Spot
<1>9. \A p \in Cells : Before(p, r) <=> Before(p, q) \/ p = q
  <2> SUFFICES ASSUME NEW p \in Cells PROVE Before(p, r) <=> Before(p, q) \/ p = q OBVIOUS
  <2>1. p.row \in Nat /\ p.col \in Nat /\ p = [row |-> p.row, col |-> p.col]
    BY PictureFacts DEF Cells
  <2>2. p = q <=> p.row = row /\ p.col = col BY <2>1 DEF Spot
  <2>3. Before(p, q) <=> p.row < row \/ (p.row = row /\ p.col < col) BY DEF Before, Spot
  <2>4. Before(p, r) <=> p.row < row \/ (p.row = row /\ p.col < col + 1) BY DEF Before, Spot
  <2> HIDE DEF q, r
  <2> QED BY <1>5, <2>1, <2>2, <2>3, <2>4
<1>10. /\ F!At(t[0], row, col) = F!Char(0) /\ (F!Blank(0) <=> F!Char(0) = SPACE)
       /\ F!At(t[1], row, col) = F!Char(1) /\ (F!Blank(1) <=> F!Char(1) = SPACE)
  BY <1>2, <1>4, <1>b, GotIsAt
<1>11. InkAt(t, q) <=> ~(F!Blank(0) /\ F!Blank(1)) BY <1>10 DEF InkAt, Spot
<1>12. Dot(t, q) = [location |-> row * WIDTH + col + OFFSET, on_char |-> F!Char(0), off_char |-> F!Char(1)]
  BY <1>10 DEF Dot, Spot
<1>13. Drawn(t, NextCell)'
  <2> HIDE DEF q, r
  <2>1. PICK u, v : u = q /\ v = r OBVIOUS
  <2>2. Drawn(t, u) /\ u \in Cells /\ NextCell' = v BY <1>2, <1>6, <1>8, <2>1
  <2>3. \A p \in Cells : Before(p, v) <=> Before(p, u) \/ p = u BY <1>9, <2>1
  <2>4. Drawn(t, v)'
    <3>1. CASE InkAt(t, u)
      <4>1. added' = Append(added, Dot(t, u)) BY <1>3, <1>11, <1>12, <2>1, <3>1
      <4> QED BY <2>2, <2>3, <3>1, <4>1, DrawAdds
    <3>2. CASE ~InkAt(t, u)
      <4>1. added' = added BY <1>3, <1>11, <2>1, <3>2
      <4>2. \A p \in Cells : Before(p, u) => Before(p, v) BY <2>3
      <4>3. \A p \in Cells : Before(p, v) /\ ~Before(p, u) => ~InkAt(t, p) BY <2>3, <3>2
      <4> QED BY <2>2, <4>1, <4>2, <4>3, DrawSkips
    <3> QED BY <3>1, <3>2
  <2> QED BY <2>2, <2>4 DEF Drawn
<1>14. ASSUME NEW f \in F!Both PROVE Ready(t, f, col)'
  <2>1. Got(t, f) BY <1>4, <1>b
  <2>2. CASE c[f] = NL
    <3>1. Ended(t, f, col) BY <2>1, <2>2 DEF Got
    <3> DEFINE w == F!Places(t[f])
    <3>2. \A i \in 1 .. frame_fpos[f] : w[i - 1] \in Spots
      <4>1. t[f] \in Seq(Marks) BY <1>2 DEF FrameTypes, Drawable
      <4>2. Len(t[f]) \in Nat /\ frame_fpos[f] \in Nat /\ frame_fpos[f] <= Len(t[f])
        BY <1>2, <4>1 DEF FrameTypes
      <4>3. \A i \in 1 .. frame_fpos[f] : i - 1 \in 0 .. Len(t[f]) BY <4>2
      <4> QED BY <4>1, <4>3, PlacesSteps
    <3> HIDE DEF w
    <3>3. \A p \in Spots : Before(p, Spot(row, col)) => Before(p, Spot(row, col + 1))
      BY <1>5 DEF Before, Spots, Spot
    <3>4. \A i \in 1 .. frame_fpos[f] : t[f][i] # NL => Before(w[i - 1], Spot(row, col + 1))
      BY <3>1, <3>2, <3>3 DEF Ended, w
    <3>5. Ended(t, f, col)' BY <1>3, <3>1, <3>4 DEF Ended, w
    <3> QED BY <1>3, <2>2, <3>5 DEF Ready
  <2>3. CASE c[f] # NL BY <1>3, <2>1, <2>3 DEF Got, Ready
  <2> QED BY <2>2, <2>3
<1>15. Reading(t)' BY <1>3, <1>14, <1>b DEF Reading
<1>16. FrameTypes(t)'
  <2>1. col' \in 0 .. (WIDTH - OFFSET) BY <1>3, <1>5, <1>7, PictureFacts
  <2> QED BY <1>2, <1>3, <1>5, <2>1 DEF FrameTypes
<1> QED BY <1>13, <1>15, <1>16 DEF Sketch, FrameInv

\* At the end of both lines nothing is left in the row.
LEMMA EndRowKeeps ==
    ASSUME FrameInv, F!EndRow
    PROVE  FrameInv'
<1>1. PICK t : Sketch(t) BY DEF FrameInv
<1>2. FrameTypes(t) /\ Reading(t) /\ Drawn(t, NextCell) BY <1>1 DEF Sketch
<1>b. F!Both = {0, 1} BY PictureFacts
<1>3. /\ frame_point = "add" /\ c[0] = NL /\ c[1] = NL /\ frame_point' = "row" /\ row' = row + 1
      /\ closed' = [f \in F!Both |-> closed[f] \/ eof[f]]
      /\ c' = [f \in F!Both |-> IF eof[f] THEN NL ELSE F!Zero]
      /\ frame' = frame /\ frame_fpos' = frame_fpos /\ eof' = eof /\ col' = col /\ added' = added
  BY DEF F!EndRow
<1>4. \A f \in F!Both : Ended(t, f, col) BY <1>2, <1>3, <1>b DEF Reading, Got
<1>5. row \in Nat /\ row <= MAX_PICTURE /\ MAX_PICTURE \in Nat /\ col \in Nat
  BY <1>2, <1>3, PictureFacts DEF FrameTypes
<1> DEFINE q == Spot(row, col)
           r == Spot(row + 1, 0)
<1>6. NextCell = q /\ NextCell' = r BY <1>3 DEF NextCell, Spot
<1>7. \A p \in Spots : /\ Before(p, q) => Before(p, r)
                       /\ Before(p, r) /\ ~Before(p, q) => p.row = row
  BY <1>5 DEF Before, Spots, Spot
<1>8. \A p \in Cells : p \in Spots BY PictureFacts DEF Cells, Spots
<1>9. ASSUME NEW p \in Cells, Before(p, r), ~Before(p, q) PROVE ~InkAt(t, p)
  <2>1. p \in Spots /\ p.row = row BY <1>7, <1>8, <1>9
  <2> HIDE DEF r
  <2>2. \A f \in F!Both : F!At(t[f], p.row, p.col) = SPACE
    BY <1>2, <1>4, <1>5, <1>9, <2>1, EndedIsBlank
  <2> QED BY <1>b, <2>2 DEF InkAt
<1>10. Drawn(t, NextCell)'
  <2> HIDE DEF q, r
  <2>1. PICK u, v : u = q /\ v = r OBVIOUS
  <2>2. Drawn(t, u) /\ NextCell' = v BY <1>2, <1>6, <2>1
  <2>3. \A p \in Cells : Before(p, u) => Before(p, v) BY <1>7, <1>8, <2>1
  <2>4. \A p \in Cells : Before(p, v) /\ ~Before(p, u) => ~InkAt(t, p) BY <1>9, <2>1
  <2>5. Drawn(t, v)' BY <1>3, <2>2, <2>3, <2>4, DrawSkips
  <2> QED BY <2>2, <2>5 DEF Drawn
<1>11. ASSUME NEW f \in F!Both PROVE Ready(t, f, 0)' /\ (c'[f] = NL => eof'[f])
  <2>1. F!Zero # NL /\ c'[f] = IF eof[f] THEN NL ELSE F!Zero BY <1>3, PictureFacts
  <2>2. CASE eof[f]
    <3>1. Ended(t, f, col) BY <1>4
    <3> DEFINE w == F!Places(t[f])
    <3>2. \A i \in 1 .. frame_fpos[f] : w[i - 1] \in Spots
      <4>1. t[f] \in Seq(Marks) BY <1>2 DEF FrameTypes, Drawable
      <4>2. Len(t[f]) \in Nat /\ frame_fpos[f] \in Nat /\ frame_fpos[f] <= Len(t[f])
        BY <1>2, <4>1 DEF FrameTypes
      <4>3. \A i \in 1 .. frame_fpos[f] : i - 1 \in 0 .. Len(t[f]) BY <4>2
      <4> QED BY <4>1, <4>3, PlacesSteps
    <3> HIDE DEF w
    <3>3. \A i \in 1 .. frame_fpos[f] : t[f][i] # NL => Before(w[i - 1], Spot(row + 1, 0))
      BY <1>7, <3>1, <3>2 DEF Ended, w
    <3>4. c'[f] = NL /\ eof'[f] BY <1>3, <2>1, <2>2
    <3>5. Ended(t, f, 0)' BY <1>3, <2>2, <3>1, <3>3, <3>4 DEF Ended, w
    <3> QED BY <3>4, <3>5 DEF Ready
  <2>3. CASE ~eof[f]
    <3>1. F!Places(t[f])[frame_fpos[f]] = Spot(row + 1, 0) BY <1>4, <2>3 DEF Ended
    <3>2. c'[f] # NL BY <2>1, <2>3
    <3> QED BY <1>3, <3>1, <3>2 DEF Ready
  <2> QED BY <2>2, <2>3
<1>12. Reading(t)' BY <1>3, <1>11 DEF Reading
<1>13. FrameTypes(t)'
  <2>1. row' \in 0 .. (MAX_PICTURE + 1) BY <1>3, <1>5
  <2>2. c' \in [F!Both -> Marks \cup {F!Zero}] BY <1>3 DEF Marks
  <2>3. closed' \in [F!Both -> BOOLEAN] BY <1>3
  <2>4. \A f \in F!Both : (closed'[f] => eof'[f]) /\ (eof'[f] => c'[f] = NL)
    BY <1>2, <1>3 DEF FrameTypes
  <2>5. frame_point' = "row" BY <1>3
  <2> QED BY <1>2, <1>3, <2>1, <2>2, <2>3, <2>4, <2>5 DEF FrameTypes
<1> QED BY <1>10, <1>12, <1>13 DEF Sketch, FrameInv

\* A step of another program.
LEMMA FramesStay == FrameInv /\ UNCHANGED frameVars => FrameInv'
<1> SUFFICES ASSUME FrameInv, UNCHANGED frameVars PROVE FrameInv' OBVIOUS
<1>1. PICK t : Sketch(t) BY DEF FrameInv
<1>2. /\ frame' = frame /\ frame_fpos' = frame_fpos /\ c' = c /\ eof' = eof /\ closed' = closed
      /\ row' = row /\ col' = col /\ added' = added /\ frame_point' = frame_point
  BY DEF frameVars
<1>3. PICK q : q = NextCell OBVIOUS
<1>4. NextCell' = q /\ Drawn(t, q) BY <1>1, <1>2, <1>3 DEF NextCell, Spot, Sketch
<1>5. Drawn(t, q)' BY <1>2, <1>4 DEF Drawn
<1>6. Drawn(t, NextCell)' BY <1>4, <1>5 DEF Drawn
<1>7. FrameTypes(t)' BY <1>1, <1>2 DEF Sketch, FrameTypes
<1>8. Reading(t)' BY <1>1, <1>2 DEF Sketch, Reading, Got, Ready, Ended
<1> QED BY <1>6, <1>7, <1>8 DEF Sketch, FrameInv

\* The invariant holds before anything is read.
LEMMA FramesStart ==
    ASSUME F!Init
    PROVE  FrameInv
<1>b. F!Both = {0, 1} BY PictureFacts
<1>1. /\ frame \in [F!Both -> F!Pictures] /\ frame_fpos = [f \in F!Both |-> 0]
      /\ c = [f \in F!Both |-> F!Zero] /\ eof = [f \in F!Both |-> FALSE]
      /\ closed = [f \in F!Both |-> FALSE]
      /\ row = 0 /\ col = 0 /\ added = <<>> /\ frame_point = "row"
  BY DEF F!Init
<1>2. PICK t : t = frame OBVIOUS
<1>3. ASSUME NEW f \in F!Both PROVE Drawable(t[f])
  <2>1. t[f] \in F!Pictures BY <1>1, <1>2
  <2>2. PICK n \in 0 .. MAX_PICTURE : t[f] \in [1 .. n -> Marks]
    BY <2>1 DEF F!Pictures, Marks
  <2>3. n \in Nat /\ n <= MAX_PICTURE BY <2>2, PictureFacts
  <2>4. t[f] \in Seq(Marks) /\ Len(t[f]) = n BY <2>2, <2>3
  <2> QED BY <2>1, <2>3, <2>4 DEF Drawable, F!Pictures
<1>4. FrameTypes(t)
  <2>1. \A f \in F!Both : Len(t[f]) \in Nat BY <1>3 DEF Drawable
  <2>2. \A f \in F!Both : frame_fpos[f] <= Len(t[f]) BY <1>1, <2>1
  <2> QED BY <1>1, <1>2, <1>3, <2>2, PictureFacts DEF FrameTypes
<1>5. ASSUME NEW f \in F!Both PROVE Ready(t, f, 0) /\ (c[f] = NL => eof[f])
  <2>1. c[f] # NL /\ frame_fpos[f] = 0 BY <1>1, PictureFacts
  <2>2. F!Places(t[f])[0] = [row |-> 0, col |-> 0] BY <1>3, PlacesSteps DEF Drawable
  <2> QED BY <1>1, <2>1, <2>2 DEF Ready, Spot
<1>6. Reading(t) BY <1>1, <1>5 DEF Reading
<1>7. Drawn(t, NextCell)
  <2>1. NextCell = Spot(0, 0) BY <1>1 DEF NextCell
  <2>2. \A p \in Cells : ~Before(p, Spot(0, 0)) BY PictureFacts DEF Cells, Before, Spot
  <2>3. Len(added) = 0 /\ added \in Seq({Dot(t, p) : p \in Cells}) BY <1>1
  <2>4. \A i \in 1 .. Len(added) : FALSE BY <2>3
  <2> QED BY <2>1, <2>2, <2>3, <2>4 DEF Drawn
<1> QED BY <1>4, <1>6, <1>7 DEF Sketch, FrameInv

\* What the invariant says of the blinkers at the end.
LEMMA FrameInvSays == FrameInv => F!TypeOK /\ F!BothPictures
<1> SUFFICES ASSUME FrameInv PROVE F!TypeOK /\ F!BothPictures OBVIOUS
<1>1. PICK t : Sketch(t) BY DEF FrameInv
<1>2. FrameTypes(t) /\ Reading(t) /\ Drawn(t, NextCell) BY <1>1 DEF Sketch
<1>b. F!Both = {0, 1} BY PictureFacts
<1>3. F!TypeOK
  <2>1. \A f \in F!Both : frame_fpos[f] \in 0 .. Len(frame[f])
    BY <1>2 DEF FrameTypes, Drawable
  <2> QED BY <1>2, <2>1 DEF FrameTypes, F!TypeOK, Marks
<1>4. F!BothPictures
  <2> SUFFICES ASSUME frame_point = "done"
               PROVE  /\ {added[i] : i \in DOMAIN added} = F!Expected
                      /\ \A i, j \in DOMAIN added : i < j => added[i].location < added[j].location
    BY DEF F!BothPictures
  <2> DEFINE q == Spot(row, 0)
             n == Len(added)
  <2>1. NextCell = q BY DEF NextCell
  <2>2. /\ added \in Seq({Dot(t, p) : p \in Cells})
        /\ \A i \in 1 .. n : \E p \in Cells : Before(p, q) /\ InkAt(t, p) /\ added[i] = Dot(t, p)
        /\ \A p \in Cells : Before(p, q) /\ InkAt(t, p) => \E i \in 1 .. n : added[i] = Dot(t, p)
        /\ \A i, j \in 1 .. n : i < j => added[i].location < added[j].location
    BY <1>2, <2>1 DEF Drawn
  <2>3. DOMAIN added = 1 .. n BY <2>2
  <2>4. ASSUME NEW p \in Cells, InkAt(t, p) PROVE Before(p, q)
    <3> SUFFICES ASSUME ~Before(p, q) PROVE FALSE OBVIOUS
    <3>1. p \in Spots BY PictureFacts DEF Cells, Spots
    <3>2. \A f \in F!Both : Ended(t, f, 0) /\ eof[f] BY <1>2 DEF Reading
    <3>3. \A f \in F!Both : F!At(t[f], p.row, p.col) = SPACE
      BY <1>2, <3>1, <3>2, EndedIsBlank
    <3> QED BY <1>b, <2>4, <3>3 DEF InkAt
  <2>5. frame = t BY <1>2 DEF FrameTypes
  <2> DEFINE W == (WIDTH - OFFSET) - 1
  <2>6. \A p \in Cells : /\ p.row \in 0 .. MAX_PICTURE /\ p.col \in 0 .. W
                         /\ F!Place(p.row, p.col) = Dot(t, p)
                         /\ F!Inked(p.row, p.col) <=> InkAt(t, p)
    BY <2>5 DEF Cells, Dot, InkAt, F!Place, F!Inked
  <2>7. \A a \in 0 .. MAX_PICTURE, b \in 0 .. W :
           /\ Spot(a, b) \in Cells /\ F!Place(a, b) = Dot(t, Spot(a, b))
           /\ F!Inked(a, b) <=> InkAt(t, Spot(a, b))
    BY <2>5 DEF Cells, Dot, InkAt, Spot, F!Place, F!Inked
  <2> DEFINE both == {z \in (0 .. MAX_PICTURE) \X (0 .. W) : F!Inked(z[1], z[2])}
  <2>8. F!Expected = {F!Place(z[1], z[2]) : z \in both} BY DEF F!Expected
  <2> HIDE DEF q, n, W
  <2>9. ASSUME NEW i \in 1 .. n PROVE added[i] \in F!Expected
    <3>1. PICK p \in Cells : InkAt(t, p) /\ added[i] = Dot(t, p) BY <2>2
    <3> DEFINE z == <<p.row, p.col>>
    <3>2. p.row \in 0 .. MAX_PICTURE /\ p.col \in 0 .. W /\ F!Inked(p.row, p.col)
          /\ F!Place(p.row, p.col) = Dot(t, p)
      BY <2>6, <3>1
    <3>3. z \in both /\ F!Place(z[1], z[2]) = added[i] BY <3>1, <3>2
    <3> HIDE DEF both, z
    <3> QED BY <2>8, <3>3
  <2>10. ASSUME NEW x \in F!Expected PROVE \E i \in 1 .. n : x = added[i]
    <3>1. PICK z \in both : x = F!Place(z[1], z[2])
      <4> HIDE DEF both
      <4> QED BY <2>8, <2>10
    <3>2. z[1] \in 0 .. MAX_PICTURE /\ z[2] \in 0 .. W /\ F!Inked(z[1], z[2]) BY <3>1
    <3>3. /\ Spot(z[1], z[2]) \in Cells /\ F!Place(z[1], z[2]) = Dot(t, Spot(z[1], z[2]))
          /\ InkAt(t, Spot(z[1], z[2]))
      BY <2>7, <3>2
    <3> QED BY <2>2, <2>4, <3>1, <3>3
  <2> HIDE DEF both
  <2>11. {added[i] : i \in DOMAIN added} = F!Expected BY <2>3, <2>9, <2>10
  <2> QED BY <2>2, <2>3, <2>11
<1> QED BY <1>3, <1>4

\* Every step of the specification keeps it.
LEMMA FramesStep ==
    (program = "pictures" => FrameInv) /\ [ProgramsNext]_allVars => (program = "pictures" => FrameInv)'
<1> SUFFICES ASSUME program = "pictures" => FrameInv, [ProgramsNext]_allVars
             PROVE  (program = "pictures" => FrameInv)'
  OBVIOUS
<1>1. CASE UNCHANGED allVars BY <1>1, FramesStay DEF allVars
<1>2. CASE ProgramsNext /\ ~Pictures
  <2>1. program' = program BY <1>2 DEF ProgramsNext
  <2>2. CASE program = "pictures"
    <3>1. ~Shell /\ ~GrepRuns /\ ~Blinkers BY <2>2 DEF Shell, GrepRuns, Blinkers
    <3> QED BY <1>2, <3>1 DEF ProgramsNext
  <2> QED BY <2>1, <2>2
<1>3. CASE ProgramsNext /\ Pictures
  <2>1. FrameInv /\ F!Next BY <1>3 DEF Pictures
  <2>2. FrameInv' BY <2>1, StartRowKeeps, ReadsKeep, CellKeeps, EndRowKeeps DEF F!Next
  <2> QED BY <2>2
<1> QED BY <1>1, <1>2, <1>3

\* A picture that was closed is not read any more, whichever ends first.
THEOREM ClosedIsNotRead == ProgramsSpec => [][program = "pictures" => F!ReadsOpen]_allVars
<1> DEFINE Inv == program = "pictures" => FrameInv
<1>1. ProgramsInit => Inv BY FramesStart DEF ProgramsInit
<1>2. Inv /\ [ProgramsNext]_allVars => Inv' BY FramesStep
<1>3. Inv /\ [ProgramsNext]_allVars => [program = "pictures" => F!ReadsOpen]_allVars
  <2> SUFFICES ASSUME FrameInv, ProgramsNext, program = "pictures" PROVE F!ReadsOpen OBVIOUS
  <2>1. F!Next
    <3>1. ~Shell /\ ~GrepRuns /\ ~Blinkers BY DEF Shell, GrepRuns, Blinkers
    <3> QED BY <3>1 DEF ProgramsNext, Pictures
  <2>2. PICK t : FrameTypes(t) BY DEF FrameInv, Sketch
  <2> SUFFICES ASSUME NEW f \in F!Both, closed[f] PROVE frame_fpos'[f] = frame_fpos[f] /\ c'[f] = NL
    BY DEF F!ReadsOpen
  <2>3. eof[f] /\ c[f] = NL /\ c \in [F!Both -> Marks \cup {F!Zero}] /\ frame_fpos \in [F!Both -> Nat]
    BY <2>2 DEF FrameTypes
  <2>4. CASE F!StartRow BY <2>3, <2>4 DEF F!StartRow
  <2>5. ASSUME NEW g, NEW from, NEW to, F!Read(g, from, to)
        PROVE  frame_fpos'[f] = frame_fpos[f] /\ c'[f] = NL
    <3>1. CASE c[g] = NL BY <2>3, <2>5, <3>1 DEF F!Read
    <3>2. CASE c[g] # NL
      <4>1. f # g BY <2>3, <3>2
      <4>2. CASE frame_fpos[g] = Len(frame[g]) BY <2>3, <2>5, <3>2, <4>1, <4>2 DEF F!Read
      <4>3. CASE frame_fpos[g] # Len(frame[g]) BY <2>3, <2>5, <3>2, <4>1, <4>3 DEF F!Read
      <4> QED BY <4>2, <4>3
    <3> QED BY <3>1, <3>2
  <2>6. CASE F!Read0 BY <2>5, <2>6 DEF F!Read0
  <2>7. CASE F!Read1 BY <2>5, <2>7 DEF F!Read1
  <2>8. CASE F!Add BY <2>3, <2>8 DEF F!Add
  <2>9. CASE F!EndRow BY <2>3, <2>9 DEF F!EndRow
  <2> QED BY <2>1, <2>4, <2>6, <2>7, <2>8, <2>9 DEF F!Next
<1> QED BY <1>1, <1>2, <1>3, PTL DEF ProgramsSpec

\* For every text, string and size of the buffer, what grep prints is the lines of the
\* text that contain the string; for every two pictures, what fish adds is a blinker
\* for each place with ink in either.
THEOREM TextsAreRight == ASSUME CleanStack PROVE ProgramsSpec => []TextsRight
<1> DEFINE Inv == program = "pictures" => FrameInv
<1>1. ProgramsInit => Inv BY FramesStart DEF ProgramsInit
<1>2. Inv /\ [ProgramsNext]_allVars => Inv' BY FramesStep
<1>3. Inv => (program = "pictures" => F!TypeOK /\ F!BothPictures) BY FrameInvSays
<1>4. (program = "grep" => G!TypeOK /\ G!LinesFound /\ G!BufferIsFile)
      /\ (program = "pictures" => F!TypeOK /\ F!BothPictures) => TextsRight
  BY DEF TextsRight
<1> HIDE DEF Inv
<1> QED BY <1>1, <1>2, <1>3, <1>4, GrepFindsLines, PTL DEF ProgramsSpec
-----------------------------------------------------------------------------
(* What comes to an end *)

\* What grep has still to read, with one read more that finds nothing; and how much of
\* the buffer there is in front of it.
ReadsLeft == 2 * (Len(file) - fpos)
             + (IF point = "read" \/ (point = "line" /\ cnt # 0) THEN 1 ELSE 0)
LinesLeft == IF point = "line" THEN (BUFSIZE + 2) - line_start ELSE 0
GrepFalls == \/ ReadsLeft' < ReadsLeft
             \/ ReadsLeft' = ReadsLeft /\ LinesLeft' < LinesLeft

\* What fish has still to read, and where it is in a turn of its loops: if it does not
\* read the one file it reads the other.
Unread(f) == (Len(frame[f]) - frame_fpos[f]) + (IF eof[f] THEN 0 ELSE 1)
Turn == CASE frame_point = "read1" -> IF c[1] = NL THEN 7 ELSE 3
          [] frame_point = "add"   -> 6
          [] frame_point = "row"   -> 5
          [] frame_point = "read0" -> 4
          [] OTHER                 -> 0
PicturesLeft == 8 * (Unread(0) + Unread(1)) + Turn

\* Each step of grep takes from the one or, the one being as it was, from the other.
LEMMA GrepStepFalls ==
    ASSUME GrepInv, G!Next
    PROVE  GrepFalls
<1>1. PICK f : Progress(f) BY DEF GrepInv
<1>2. /\ BUFSIZE \in Nat /\ Len(file) \in Nat /\ fpos \in 0 .. Len(file) /\ last \in 0 .. BUFSIZE
      /\ cnt \in 0 .. BUFSIZE /\ line_start \in 0 .. (BUFSIZE + 1) /\ data \in [0 .. BUFSIZE -> G!Chars]
  BY GrepFacts DEF GrepInv, GrepTypes
<1>3. CASE G!Read
  <2> DEFINE n == G!Lesser(BUFSIZE - last, Len(file) - fpos)
  <2>1. /\ point = "read" /\ point' = "line" /\ cnt' = n /\ fpos' = fpos + n /\ line_start' = 0 /\ file' = file
    BY <1>3 DEF G!Read
  <2>2. last < BUFSIZE BY <1>1, <2>1 DEF Progress
  <2>3. n \in Nat BY <1>2, <2>2 DEF G!Lesser
  <2>4. ReadsLeft = 2 * (Len(file) - fpos) + 1 BY <2>1 DEF ReadsLeft
  <2>5. ReadsLeft' = 2 * (Len(file) - (fpos + n)) + (IF n # 0 THEN 1 ELSE 0) BY <2>1 DEF ReadsLeft
  <2> HIDE DEF n
  <2>6. ReadsLeft' < ReadsLeft
    <3>1. CASE n = 0 BY <1>2, <2>4, <2>5, <3>1
    <3>2. CASE n # 0 BY <1>2, <2>3, <2>4, <2>5, <3>2
    <3> QED BY <3>1, <3>2
  <2> QED BY <2>6 DEF GrepFalls
<1>4. CASE G!MoveLine
  <2>1. /\ point = "line" /\ point' = "read" /\ cnt # 0 /\ cnt' = cnt /\ fpos' = fpos /\ file' = file
    BY <1>4 DEF G!MoveLine, G!Cut
  <2>2. ReadsLeft' = ReadsLeft BY <2>1 DEF ReadsLeft
  <2>3. LinesLeft = (BUFSIZE + 2) - line_start /\ LinesLeft' = 0 BY <2>1 DEF LinesLeft
  <2> QED BY <1>2, <2>2, <2>3 DEF GrepFalls
<1>5. CASE G!SearchLine
  <2> DEFINE e == G!LineEnd
  <2>1. /\ point = "line" /\ cnt' = cnt /\ fpos' = fpos /\ file' = file /\ line_start' = e + 1
        /\ point' \in {"line", "done", "read"} /\ (point' = "read" => cnt # 0)
        /\ (point' = "done" => cnt = 0)
    BY <1>5 DEF G!SearchLine
  <2>2. line_start <= last BY <1>1, <2>1 DEF Progress
  <2>3. e \in Nat /\ line_start <= e BY <1>2, <2>2, LineEndIs DEF GrepInv
  <2> HIDE DEF e
  <2>4. ReadsLeft' = ReadsLeft BY <2>1 DEF ReadsLeft
  <2>5. LinesLeft = (BUFSIZE + 2) - line_start BY <2>1 DEF LinesLeft
  <2>6. LinesLeft' = IF point' = "line" THEN (BUFSIZE + 2) - (e + 1) ELSE 0 BY <2>1 DEF LinesLeft
  <2>7. LinesLeft' < LinesLeft BY <1>2, <2>3, <2>5, <2>6
  <2> QED BY <2>4, <2>7 DEF GrepFalls
<1> QED BY <1>3, <1>4, <1>5 DEF G!Next

\* Where a turn begins one of the two files is not at the end of its row.
Reads == frame_point = "read0" => c[0] # NL \/ c[1] # NL

\* What the invariant of the pictures says of what is left to read.
LEMMA UnreadIs ==
    ASSUME FrameInv
    PROVE  /\ \A f \in F!Both : /\ Len(frame[f]) \in Nat /\ frame_fpos[f] \in 0 .. Len(frame[f])
                                /\ Unread(f) \in Nat /\ (eof[f] => c[f] = NL)
           /\ c \in [F!Both -> Marks \cup {F!Zero}] /\ eof \in [F!Both -> BOOLEAN]
           /\ frame_fpos \in [F!Both -> Nat] /\ 0 \in F!Both /\ 1 \in F!Both
           /\ frame_point = "row" => \A f \in F!Both : c[f] = NL => eof[f]
<1>1. PICK t : FrameTypes(t) /\ Reading(t) BY DEF FrameInv, Sketch
<1>2. ASSUME NEW f \in F!Both
      PROVE  /\ Len(frame[f]) \in Nat /\ frame_fpos[f] \in 0 .. Len(frame[f])
             /\ Unread(f) \in Nat /\ (eof[f] => c[f] = NL)
  <2>1. /\ frame[f] \in Seq(Marks) /\ frame_fpos[f] \in Nat /\ frame_fpos[f] <= Len(frame[f])
        /\ (eof[f] => c[f] = NL)
    BY <1>1 DEF FrameTypes, Drawable
  <2>2. Len(frame[f]) \in Nat BY <2>1
  <2>3. (IF eof[f] THEN 0 ELSE 1) \in Nat OBVIOUS
  <2> QED BY <2>1, <2>2, <2>3 DEF Unread
<1>3. 0 \in F!Both /\ 1 \in F!Both BY DEF F!Both
<1> QED BY <1>1, <1>2, <1>3 DEF FrameTypes, Reading

\* Reading a file on leaves less of it, and leaves the other.
LEMMA ReadTakes ==
    ASSUME FrameInv, NEW f \in F!Both, NEW from, NEW to, F!Read(f, from, to)
    PROVE  /\ \A g \in F!Both : g # f => Unread(g)' = Unread(g) /\ c'[g] = c[g]
           /\ c[f] # NL => Unread(f)' = Unread(f) - 1
           /\ c[f] = NL => Unread(f)' = Unread(f) /\ c'[f] = NL
<1>1. /\ Len(frame[f]) \in Nat /\ frame_fpos[f] \in 0 .. Len(frame[f]) /\ (eof[f] => c[f] = NL)
      /\ c \in [F!Both -> Marks \cup {F!Zero}] /\ eof \in [F!Both -> BOOLEAN]
      /\ frame_fpos \in [F!Both -> Nat]
  BY UnreadIs
<1>2. frame' = frame BY DEF F!Read
<1>3. CASE c[f] = NL
  <2>1. frame_fpos' = frame_fpos /\ c' = c /\ eof' = eof BY <1>3 DEF F!Read
  <2> QED BY <1>2, <1>3, <2>1 DEF Unread
<1>4. CASE c[f] # NL /\ frame_fpos[f] = Len(frame[f])
  <2>1. /\ c' = [c EXCEPT ![f] = NL] /\ eof' = [eof EXCEPT ![f] = TRUE] /\ frame_fpos' = frame_fpos
    BY <1>4 DEF F!Read
  <2>2. ~eof[f] /\ eof'[f] BY <1>1, <1>4, <2>1
  <2>3. \A g \in F!Both : g # f => c'[g] = c[g] /\ eof'[g] = eof[g] BY <1>1, <2>1
  <2>4. Unread(f) = (Len(frame[f]) - frame_fpos[f]) + 1 BY <2>2 DEF Unread
  <2>5. Unread(f)' = (Len(frame[f]) - frame_fpos[f]) + 0 BY <1>2, <2>1, <2>2 DEF Unread
  <2>6. \A g \in F!Both : g # f => Unread(g)' = Unread(g) BY <1>2, <2>1, <2>3 DEF Unread
  <2>7. Unread(f)' = Unread(f) - 1 BY <1>1, <2>4, <2>5
  <2> QED BY <1>4, <2>3, <2>6, <2>7
<1>5. CASE c[f] # NL /\ frame_fpos[f] # Len(frame[f])
  <2>1. /\ c' = [c EXCEPT ![f] = frame[f][frame_fpos[f] + 1]] /\ eof' = eof
        /\ frame_fpos' = [frame_fpos EXCEPT ![f] = @ + 1]
    BY <1>5 DEF F!Read
  <2>2. ~eof[f] /\ ~eof'[f] /\ frame_fpos'[f] = frame_fpos[f] + 1 BY <1>1, <1>5, <2>1
  <2>3. \A g \in F!Both : g # f => c'[g] = c[g] /\ frame_fpos'[g] = frame_fpos[g] BY <1>1, <2>1
  <2>4. Unread(f) = (Len(frame[f]) - frame_fpos[f]) + 1 BY <2>2 DEF Unread
  <2>5. Unread(f)' = (Len(frame[f]) - (frame_fpos[f] + 1)) + 1 BY <1>2, <2>1, <2>2 DEF Unread
  <2>6. \A g \in F!Both : g # f => Unread(g)' = Unread(g) BY <1>2, <2>1, <2>3 DEF Unread
  <2>7. Unread(f)' = Unread(f) - 1 BY <1>1, <2>4, <2>5
  <2> QED BY <1>5, <2>3, <2>6, <2>7
<1> QED BY <1>3, <1>4, <1>5

\* Each step of fish's loops takes from what is left.
LEMMA PictureStepFalls ==
    ASSUME FrameInv, Reads, F!Next
    PROVE  PicturesLeft' < PicturesLeft /\ Reads'
<1> DEFINE a == Unread(0)
           b == Unread(1)
<1>1. /\ a \in Nat /\ b \in Nat /\ 0 \in F!Both /\ 1 \in F!Both
      /\ c \in [F!Both -> Marks \cup {F!Zero}] /\ eof \in [F!Both -> BOOLEAN]
  BY UnreadIs
<1>2. /\ frame_point = "read1" => Turn = IF c[1] = NL THEN 7 ELSE 3
      /\ frame_point = "add" => Turn = 6
      /\ frame_point = "row" => Turn = 5
      /\ frame_point = "read0" => Turn = 4
      /\ frame_point = "done" => Turn = 0
  BY DEF Turn
<1>3. /\ frame_point' = "read1" => Turn' = IF c'[1] = NL THEN 7 ELSE 3
      /\ frame_point' = "add" => Turn' = 6
      /\ frame_point' = "row" => Turn' = 5
      /\ frame_point' = "read0" => Turn' = 4
      /\ frame_point' = "done" => Turn' = 0
  BY DEF Turn
<1>4. PicturesLeft = 8 * (a + b) + Turn /\ PicturesLeft' = 8 * (a' + b') + Turn'
  BY DEF PicturesLeft
<1>5. ASSUME UNCHANGED <<frame, frame_fpos, eof>> PROVE a' = a /\ b' = b BY <1>5 DEF Unread
<1>6. CASE F!StartRow
  <2>1. /\ frame_point = "row" /\ frame_point' = IF eof[0] /\ eof[1] THEN "done" ELSE "read0"
        /\ UNCHANGED <<frame, frame_fpos, eof>> /\ c' = c
    BY <1>6 DEF F!StartRow
  <2>2. frame_point' = "read0" => c'[0] # NL \/ c'[1] # NL BY <1>1, <2>1, UnreadIs
  <2>3. a' = a /\ b' = b BY <1>5, <2>1
  <2>4. Turn = 5 /\ (Turn' = 0 \/ Turn' = 4) BY <1>2, <1>3, <2>1
  <2> HIDE DEF a, b
  <2>5. PicturesLeft' < PicturesLeft BY <1>1, <1>4, <2>3, <2>4
  <2> QED BY <2>2, <2>5 DEF Reads
<1>7. CASE F!Read0
  <2>1. frame_point = "read0" /\ frame_point' = "read1" /\ F!Read(0, "read0", "read1")
    BY <1>7 DEF F!Read0, F!Read
  <2>2. b' = b /\ c'[1] = c[1] /\ (c[0] # NL => a' = a - 1) /\ (c[0] = NL => a' = a)
    <3>1. 0 # 1 OBVIOUS
    <3> QED BY <1>1, <2>1, <3>1, ReadTakes
  <2>3. c[0] = NL => c[1] # NL BY <2>1 DEF Reads
  <2>4. Turn = 4 /\ (Turn' = 3 \/ Turn' = 7) /\ (c[1] # NL => Turn' = 3) BY <1>2, <1>3, <2>1, <2>2
  <2> HIDE DEF a, b
  <2>5. PicturesLeft' < PicturesLeft
    <3>1. CASE c[0] = NL BY <1>1, <1>4, <2>2, <2>3, <2>4, <3>1
    <3>2. CASE c[0] # NL BY <1>1, <1>4, <2>2, <2>4, <3>2
    <3> QED BY <3>1, <3>2
  <2> QED BY <2>1, <2>5 DEF Reads
<1>8. CASE F!Read1
  <2>1. frame_point = "read1" /\ frame_point' = "add" /\ F!Read(1, "read1", "add")
    BY <1>8 DEF F!Read1, F!Read
  <2>2. a' = a /\ (c[1] # NL => b' = b - 1) /\ (c[1] = NL => b' = b)
    <3>1. 0 # 1 OBVIOUS
    <3> QED BY <1>1, <2>1, <3>1, ReadTakes
  <2>3. (c[1] = NL => Turn = 7) /\ (c[1] # NL => Turn = 3) /\ Turn' = 6 BY <1>2, <1>3, <2>1
  <2> HIDE DEF a, b
  <2>4. PicturesLeft' < PicturesLeft
    <3>1. CASE c[1] = NL BY <1>1, <1>4, <2>2, <2>3, <3>1
    <3>2. CASE c[1] # NL BY <1>1, <1>4, <2>2, <2>3, <3>2
    <3> QED BY <3>1, <3>2
  <2> QED BY <2>1, <2>4 DEF Reads
<1>9. CASE F!Add
  <2>1. /\ frame_point = "add" /\ frame_point' = "read0" /\ ~(c[0] = NL /\ c[1] = NL)
        /\ UNCHANGED <<frame, frame_fpos, eof>> /\ c' = c
    BY <1>9 DEF F!Add
  <2>2. a' = a /\ b' = b BY <1>5, <2>1
  <2>3. Turn = 6 /\ Turn' = 4 BY <1>2, <1>3, <2>1
  <2> HIDE DEF a, b
  <2>4. PicturesLeft' < PicturesLeft BY <1>1, <1>4, <2>2, <2>3
  <2> QED BY <2>1, <2>4 DEF Reads
<1>10. CASE F!EndRow
  <2>1. /\ frame_point = "add" /\ frame_point' = "row" /\ UNCHANGED <<frame, frame_fpos, eof>>
    BY <1>10 DEF F!EndRow
  <2>2. a' = a /\ b' = b BY <1>5, <2>1
  <2>3. Turn = 6 /\ Turn' = 5 BY <1>2, <1>3, <2>1
  <2> HIDE DEF a, b
  <2>4. PicturesLeft' < PicturesLeft BY <1>1, <1>4, <2>2, <2>3
  <2> QED BY <2>1, <2>4 DEF Reads
<1> QED BY <1>6, <1>7, <1>8, <1>9, <1>10 DEF F!Next

\* Neither grep nor the reading of the pictures goes on for ever: whatever the texts, each
\* step of grep lowers the pair of what is to be read and what is in the buffer, in that
\* order, and each step of fish's loops lowers one natural number.
THEOREM TextsRunOut ==
    ASSUME CleanStack
    PROVE  ProgramsSpec => /\ [](program = "grep" => ReadsLeft \in Nat /\ LinesLeft \in Nat)
                           /\ [](program = "pictures" => PicturesLeft \in Nat)
                           /\ [][program = "grep" => GrepFalls]_allVars
                           /\ [][program = "pictures" => PicturesLeft' < PicturesLeft]_allVars
<1> DEFINE GInv == program = "grep" => GrepInv
           FInv == program = "pictures" => FrameInv
           RInv == program = "pictures" => Reads
<1>1. ProgramsInit => GInv /\ FInv /\ RInv
  <2>1. program = "pictures" /\ ProgramsInit => Reads BY DEF ProgramsInit, F!Init, Reads
  <2> QED BY <2>1, GrepStarts, FramesStart DEF ProgramsInit
<1>2. GInv /\ [ProgramsNext]_allVars => GInv' BY GrepStep
<1>3. FInv /\ [ProgramsNext]_allVars => FInv' BY FramesStep
<1>4. FInv /\ RInv /\ [ProgramsNext]_allVars => RInv' /\ [program = "pictures" => PicturesLeft' < PicturesLeft]_allVars
  <2> SUFFICES ASSUME FInv, RInv, [ProgramsNext]_allVars
               PROVE  RInv' /\ (~UNCHANGED allVars => (program = "pictures" => PicturesLeft' < PicturesLeft))
    OBVIOUS
  <2>1. CASE UNCHANGED allVars BY <2>1 DEF allVars, frameVars, Reads
  <2>2. CASE ProgramsNext /\ program # "pictures" BY <2>2 DEF ProgramsNext
  <2>3. CASE ProgramsNext /\ program = "pictures"
    <3>1. ~Shell /\ ~GrepRuns /\ ~Blinkers BY <2>3 DEF Shell, GrepRuns, Blinkers
    <3>2. F!Next BY <2>3, <3>1 DEF ProgramsNext, Pictures
    <3>3. PicturesLeft' < PicturesLeft /\ Reads' BY <2>3, <3>2, PictureStepFalls
    <3> QED BY <3>3
  <2> QED BY <2>1, <2>2, <2>3
<1>5. GInv /\ [ProgramsNext]_allVars => [program = "grep" => GrepFalls]_allVars
  <2> SUFFICES ASSUME GrepInv, ProgramsNext, program = "grep" PROVE GrepFalls OBVIOUS
  <2>1. ~Shell /\ ~Pictures /\ ~Blinkers BY DEF Shell, Pictures, Blinkers
  <2>2. G!Next BY <2>1 DEF ProgramsNext, GrepRuns
  <2> QED BY <2>2, GrepStepFalls
<1>6. GInv => (program = "grep" => ReadsLeft \in Nat /\ LinesLeft \in Nat)
  <2> SUFFICES ASSUME GrepInv PROVE ReadsLeft \in Nat /\ LinesLeft \in Nat OBVIOUS
  <2>1. /\ BUFSIZE \in Nat /\ Len(file) \in Nat /\ fpos \in 0 .. Len(file)
        /\ line_start \in 0 .. (BUFSIZE + 1)
    BY GrepFacts DEF GrepInv, GrepTypes
  <2>2. ReadsLeft \in Nat BY <2>1 DEF ReadsLeft
  <2>3. LinesLeft \in Nat BY <2>1 DEF LinesLeft
  <2> QED BY <2>2, <2>3
<1>7. FInv => (program = "pictures" => PicturesLeft \in Nat)
  <2> SUFFICES ASSUME FrameInv PROVE PicturesLeft \in Nat OBVIOUS
  <2>1. Unread(0) \in Nat /\ Unread(1) \in Nat BY UnreadIs
  <2>2. Turn \in Nat BY DEF Turn
  <2> QED BY <2>1, <2>2 DEF PicturesLeft
<1> HIDE DEF GInv, FInv, RInv
<1> QED BY <1>1, <1>2, <1>3, <1>4, <1>5, <1>6, <1>7, PTL DEF ProgramsSpec
=============================================================================
