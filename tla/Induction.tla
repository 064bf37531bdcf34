----------------------------- MODULE Induction -----------------------------
(***************************************************************************)
(* Induction and recursion over the naturals without an operator as a      *)
(* parameter: what holds of every number is stated as a set of numbers, a  *)
(* step as a function.  The proofs about loops and about recursive         *)
(* functions (FilesProof, LibraryProof) rest on these lemmas.              *)
(***************************************************************************)
EXTENDS Integers, TLAPS, WellFoundedInduction

\* A set of naturals that is not empty has a least element.
LEMMA Least ==
    ASSUME NEW T, T \subseteq Nat, T # {}
    PROVE  \E x \in T : \A y \in T : x <= y
<1> DEFINE R == OpToRel(<, Nat)
<1>1. IsWellFoundedOn(R, Nat) BY NatLessThanWellFounded
<1>2. \A x, y \in Nat : y < x => <<y, x>> \in R BY DEF OpToRel
<1> HIDE DEF R
<1>3. PICK x \in T : \A y \in T : ~(<<y, x>> \in R) BY <1>1, WFMin
<1>4. \A y \in T : ~(y < x) BY <1>2, <1>3
<1>5. \A y \in T : x <= y BY <1>3, <1>4
<1> QED BY <1>3, <1>5

\* Induction from one number to the next.
LEMMA Induction ==
    ASSUME NEW S, 0 \in S, \A n \in Nat : n \in S => n + 1 \in S
    PROVE  Nat \subseteq S
<1> SUFFICES ASSUME NEW m \in Nat, m \notin S PROVE FALSE OBVIOUS
<1> DEFINE T == {n \in Nat : n \notin S}
<1>1. T \subseteq Nat /\ T # {} OBVIOUS
<1>2. PICK x \in T : \A y \in T : x <= y BY <1>1, Least
<1>3. x - 1 \in Nat /\ x - 1 \in S BY <1>2
<1>4. (x - 1) + 1 \in S BY <1>3
<1> QED BY <1>2, <1>4

\* Induction from all smaller numbers.
LEMMA StrongInduction ==
    ASSUME NEW S, \A n \in Nat : (\A m \in 0 .. (n - 1) : m \in S) => n \in S
    PROVE  Nat \subseteq S
<1> SUFFICES ASSUME NEW m \in Nat, m \notin S PROVE FALSE OBVIOUS
<1> DEFINE T == {n \in Nat : n \notin S}
<1>1. T \subseteq Nat /\ T # {} OBVIOUS
<1>2. PICK x \in T : \A y \in T : x <= y BY <1>1, Least
<1>3. \A k \in 0 .. (x - 1) : k \in S BY <1>2
<1> QED BY <1>2, <1>3

-----------------------------------------------------------------------------
(* Recursion *)

\* What is done with each number, a change of an element of A; and a function
\* that does it from one number to the next.
Steps(A) == [Nat -> [A -> A]]
Recurs(f, A, a, F) == f \in [Nat -> A] /\ f[0] = a /\ \A n \in Nat : f[n + 1] = F[n][f[n]]

\* The functions that follow the recursion up to n.
Partial(A, a, F, n) ==
    {g \in [0 .. n -> A] : g[0] = a /\ \A i \in 0 .. (n - 1) : g[i + 1] = F[i][g[i]]}

\* There is one of each length ...
LEMMA PartialExists ==
    ASSUME NEW A, NEW a \in A, NEW F \in [Nat -> [A -> A]]
    PROVE  \A n \in Nat : Partial(A, a, F, n) # {}
<1> DEFINE S == {n \in Nat : Partial(A, a, F, n) # {}}
<1>1. 0 \in S
  <2> DEFINE g == [i \in 0 .. 0 |-> a]
  <2>1. g \in Partial(A, a, F, 0) BY DEF Partial
  <2> QED BY <2>1
<1>2. ASSUME NEW n \in Nat, n \in S PROVE n + 1 \in S
  <2>1. PICK g : g \in Partial(A, a, F, n) BY <1>2
  <2> DEFINE h == [i \in 0 .. (n + 1) |-> IF i <= n THEN g[i] ELSE F[n][g[n]]]
  <2>2. g \in [0 .. n -> A] /\ g[0] = a BY <2>1 DEF Partial
  <2>3. F[n][g[n]] \in A BY <2>2
  <2>4. h \in [0 .. (n + 1) -> A] BY <2>2, <2>3
  <2>5. h[0] = a BY <2>2
  <2>6. ASSUME NEW i \in 0 .. n PROVE h[i + 1] = F[i][h[i]]
    <3>1. CASE i = n BY <3>1
    <3>2. CASE i < n
      <4>1. h[i + 1] = g[i + 1] /\ h[i] = g[i] BY <3>2
      <4>2. i \in 0 .. (n - 1) BY <3>2
      <4> QED BY <4>1, <4>2, <2>1 DEF Partial
    <3> QED BY <3>1, <3>2
  <2> HIDE DEF h
  <2>7. (n + 1) - 1 = n OBVIOUS
  <2>8. h \in Partial(A, a, F, n + 1) BY <2>4, <2>5, <2>6, <2>7 DEF Partial
  <2> QED BY <2>8
<1> HIDE DEF S
<1>3. Nat \subseteq S BY <1>1, <1>2, Induction
<1> QED BY <1>3 DEF S

\* ... and any two of them agree as far as both go.
LEMMA PartialAgree ==
    ASSUME NEW A, NEW a \in A, NEW F \in [Nat -> [A -> A]],
           NEW m \in Nat, NEW n \in Nat,
           NEW g \in Partial(A, a, F, m), NEW h \in Partial(A, a, F, n)
    PROVE  \A i \in Nat : i <= m /\ i <= n => g[i] = h[i]
<1> DEFINE S == {i \in Nat : i <= m /\ i <= n => g[i] = h[i]}
<1>1. 0 \in S BY DEF Partial
<1>2. ASSUME NEW i \in Nat, i \in S PROVE i + 1 \in S
  <2> SUFFICES ASSUME i + 1 <= m, i + 1 <= n PROVE g[i + 1] = h[i + 1] OBVIOUS
  <2>1. g[i] = h[i] BY <1>2
  <2>2. i \in 0 .. (m - 1) /\ i \in 0 .. (n - 1) OBVIOUS
  <2> QED BY <2>1, <2>2 DEF Partial
<1> HIDE DEF S
<1>3. Nat \subseteq S BY <1>1, <1>2, Induction
<1> QED BY <1>3 DEF S

\* A function may be defined by its value at 0 and the step from each number to
\* the next.
LEMMA Recursion ==
    ASSUME NEW A, NEW a, NEW F, a \in A, F \in Steps(A)
    PROVE  \E f : Recurs(f, A, a, F)
<1> USE DEF Steps
<1> DEFINE P(n) == CHOOSE g : g \in Partial(A, a, F, n)
<1>1. \A n \in Nat : P(n) \in Partial(A, a, F, n) BY PartialExists
<1> HIDE DEF P
<1> DEFINE f == [n \in Nat |-> P(n)[n]]
<1>2. f \in [Nat -> A]
  <2>1. ASSUME NEW n \in Nat PROVE P(n)[n] \in A
    <3>1. P(n) \in [0 .. n -> A] BY <1>1 DEF Partial
    <3> QED BY <3>1
  <2> QED BY <2>1
<1>3. f[0] = a BY <1>1 DEF Partial
<1>4. ASSUME NEW n \in Nat PROVE f[n + 1] = F[n][f[n]]
  <2>1. P(n) \in Partial(A, a, F, n) /\ P(n + 1) \in Partial(A, a, F, n + 1) BY <1>1
  <2>2. P(n)[n] = P(n + 1)[n] BY <2>1, PartialAgree
  <2>3. n \in 0 .. ((n + 1) - 1) OBVIOUS
  <2>4. P(n + 1)[n + 1] = F[n][P(n + 1)[n]] BY <2>1, <2>3 DEF Partial
  <2> QED BY <2>2, <2>4
<1> HIDE DEF f
<1> QED BY <1>2, <1>3, <1>4 DEF Recurs

\* What leads from each number but 0 to a smaller one; and a function that does
\* F to its value there.
Backwards(back) == back \in [Nat -> Nat] /\ \A n \in Nat \ {0} : back[n] < n
RecursBack(f, A, a, F, back) ==
    f \in [Nat -> A] /\ f[0] = a /\ \A n \in Nat \ {0} : f[n] = F[n][f[back[n]]]

\* A function may be defined by its value at 0 and a step from a smaller number.
LEMMA BackRecursion ==
    ASSUME NEW A, NEW a, NEW F, NEW back,
           a \in A, F \in Steps(A), Backwards(back)
    PROVE  \E f : RecursBack(f, A, a, F, back)
<1> USE DEF Steps, Backwards
<1> DEFINE B == [Nat -> A]
           b == [n \in Nat |-> a]
           turn(g) == [n \in Nat |-> IF n = 0 THEN a ELSE F[n][g[back[n]]]]
           G == [k \in Nat |-> [g \in B |-> turn(g)]]
<1>1. b \in B OBVIOUS
<1>2. \A g \in B : turn(g) \in B OBVIOUS
<1>3. G \in Steps(B) BY <1>2 DEF Steps
<1>4. \A k \in Nat, g \in B : G[k][g] = turn(g) BY Zenon
<1> HIDE DEF b, G, B, turn
<1>14. PICK r : Recurs(r, B, b, G) BY <1>1, <1>3, Recursion
<1>5. r \in [Nat -> B] /\ r[0] = b /\ \A k \in Nat : r[k + 1] = G[k][r[k]] BY <1>14 DEF Recurs
<1>6. ASSUME NEW k \in Nat PROVE r[k] \in B /\ r[k + 1] = turn(r[k])
  <2>1. r[k] \in B BY <1>5
  <2> QED BY <2>1, <1>4, <1>5
<1>7. \A k \in Nat, n \in Nat : r[k][n] \in A BY <1>6 DEF B
<1>8. \A k \in Nat : r[k][0] = a
  <2>1. r[0][0] = a BY <1>5 DEF b
  <2>2. ASSUME NEW k \in Nat, k # 0 PROVE r[k][0] = a
    <3>1. k - 1 \in Nat /\ (k - 1) + 1 = k BY <2>2
    <3> QED BY <1>6, <3>1 DEF turn
  <2> QED BY <2>1, <2>2
<1>9. ASSUME NEW k \in Nat, NEW n \in Nat \ {0} PROVE r[k + 1][n] = F[n][r[k][back[n]]]
  <2>1. r[k + 1] = turn(r[k]) BY <1>6
  <2> QED BY <2>1, Zenon DEF turn
\* From the n-th function on the value at n stands.
<1> DEFINE S == {n \in Nat : \A k \in Nat : k >= n => r[k][n] = r[n][n]}
<1>10. Nat \subseteq S
  <2>1. ASSUME NEW n \in Nat, \A m \in 0 .. (n - 1) : m \in S PROVE n \in S
    <3> SUFFICES ASSUME NEW k \in Nat, k >= n PROVE r[k][n] = r[n][n] OBVIOUS
    <3>1. CASE n = 0 BY <3>1, <1>8
    <3>2. CASE n # 0
      <4>1. k - 1 \in Nat /\ n - 1 \in Nat /\ (k - 1) + 1 = k /\ (n - 1) + 1 = n BY <3>2
      <4>2. r[k][n] = F[n][r[k - 1][back[n]]] /\ r[n][n] = F[n][r[n - 1][back[n]]]
        BY <4>1, <3>2, <1>9
      <4>3. back[n] \in S /\ back[n] <= n - 1 /\ back[n] \in Nat BY <3>2, <2>1
      <4>4. r[k - 1][back[n]] = r[back[n]][back[n]] BY <4>1, <4>3
      <4>5. r[n - 1][back[n]] = r[back[n]][back[n]] BY <4>1, <4>3
      <4> QED BY <4>2, <4>4, <4>5
    <3> QED BY <3>1, <3>2
  <2> HIDE DEF S
  <2> QED BY <2>1, StrongInduction
<1> DEFINE f == [n \in Nat |-> r[n][n]]
<1>11. f \in [Nat -> A] BY <1>7
<1>12. f[0] = a BY <1>8
<1>13. ASSUME NEW n \in Nat \ {0} PROVE f[n] = F[n][f[back[n]]]
  <2>1. n - 1 \in Nat /\ (n - 1) + 1 = n OBVIOUS
  <2>2. r[n][n] = F[n][r[n - 1][back[n]]] BY <2>1, <1>9
  <2>3. back[n] \in Nat /\ back[n] <= n - 1 OBVIOUS
  <2>4. r[n - 1][back[n]] = r[back[n]][back[n]] BY <2>1, <2>3, <1>10
  <2> QED BY <2>2, <2>3, <2>4
<1> HIDE DEF f
<1> QED BY <1>11, <1>12, <1>13 DEF RecursBack
=============================================================================
