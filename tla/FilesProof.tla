----------------------------- MODULE FilesProof -----------------------------
(***************************************************************************)
(* Theorems about the files and descriptors, under any programs and under  *)
(* the conformance tests (modules Files and Syserr):                       *)
(*   DescriptorTypes     the types                                         *)
(*   FilesAreRead        what is read from offset 0 is the file            *)
(*   DirectoryIsListed   a directory is listed in order, once              *)
(*   TestsAllPass        every call of the tests is answered as expected   *)
(* The loop of read_data is a recursive function of its turns; what it     *)
(* copies is proved with the lemmas of module Induction.                   *)
(***************************************************************************)
EXTENDS Syserr, Induction

\* What a byte of the disk may be, and the state of read_data's loop.
DiskBytes == (Inodes \X Nat) \cup {NoByte}
LoopStates == [d : Nat, left : Nat, offset : Nat, out : Seq(DiskBytes), fault : BOOLEAN]
Entry(f, offset, n) == [d |-> offset \div BLOCK, left |-> Lesser(n, length[f]),
                        offset |-> offset, out |-> <<>>, fault |-> FALSE]
Turns(f, start) ==
    LET loop[k \in Nat] == IF k = 0 THEN start ELSE Turn(f, loop[k - 1]) IN loop

\* read_data runs the turns of its loop.
LEMMA ReadIsTurns ==
    ASSUME NEW f, NEW offset, NEW n
    PROVE  read_data(f, offset, n) =
              IF offset >= length[f] THEN [Entry(f, offset, n) EXCEPT !.left = 0]
              ELSE Turns(f, Entry(f, offset, n))[Entry(f, offset, n).left \div BLOCK + 3]
BY DEF read_data, Turns, Entry

\* What the image holds.
Image == length \in [Inodes -> 0 .. MAX_LENGTH]

\* Arithmetic with a divisor: INODES, and BLOCK.
LEMMA Divides ==
    ASSUME NEW n \in Nat, NEW m \in Nat \ {0}
    PROVE  n \div m \in Nat /\ n % m \in 0 .. (m - 1) /\ n = m * (n \div m) + (n % m)
OBVIOUS

\* Every byte of the disk belongs to one of the files or to none.
LEMMA ByteType ==
    ASSUME Image, NEW block \in Nat, NEW offset \in Nat
    PROVE  Byte(block, offset) \in DiskBytes
<1> DEFINE b == block + (offset \div BLOCK)
           f == b % INODES
           i == (b \div INODES) * BLOCK + (offset % BLOCK)
<1>1. BLOCK \in Nat \ {0} /\ INODES \in Nat \ {0} BY FilesAssumption
<1>2. b \in Nat BY <1>1, Divides
<1>3. f \in Inodes BY <1>1, <1>2, Divides DEF Inodes
<1>4. b \div INODES \in Nat /\ offset % BLOCK \in Nat BY <1>1, <1>2, Divides
<1> DEFINE q == b \div INODES
           r == offset % BLOCK
<1>5. \A x \in Nat, y \in Nat : x * y \in Nat OBVIOUS
<1>6. q * BLOCK \in Nat BY <1>1, <1>4, <1>5
<1>7. i \in Nat BY <1>4, <1>6
<1>8. Byte(block, offset) = IF i < length[f] THEN <<f, i>> ELSE NoByte BY DEF Byte
<1> HIDE DEF i, f
<1> QED BY <1>3, <1>7, <1>8 DEF DiskBytes

\* memcpy gives as many bytes as it is asked for.
LEMMA CopyType ==
    ASSUME Image, NEW block \in Nat, NEW offset \in Nat, NEW n \in Nat
    PROVE  memcpy(block, offset, n) \in Seq(DiskBytes) /\ Len(memcpy(block, offset, n)) = n
<1>1. \A i \in 1 .. n : Byte(block, offset + i - 1) \in DiskBytes BY ByteType
<1> QED BY <1>1 DEF memcpy

\* The number of a data block.
LEMMA BlockType ==
    ASSUME Image, NEW f \in Inodes, NEW k \in Nat
    PROVE  data_block_num(f, k) \in Nat
<1>1. k * INODES \in Nat BY FilesAssumption
<1> QED BY <1>1 DEF data_block_num, Inodes

\* A turn of the loop keeps its types.
LEMMA TurnType ==
    ASSUME Image, NEW f \in Inodes, NEW s \in LoopStates
    PROVE  Turn(f, s) \in LoopStates
<1>0. BLOCK \in Nat \ {0} BY FilesAssumption
<1>1. s.d \in Nat /\ s.left \in Nat /\ s.offset \in Nat /\ s.out \in Seq(DiskBytes)
  BY DEF LoopStates
<1>2. data_block_num(f, s.d) \in Nat BY <1>1, BlockType
<1> DEFINE block == data_block_num(f, s.d)
           rest == memcpy(block, s.offset, s.left)
           whole == memcpy(block, s.offset, BLOCK - s.offset)
<1>3. rest \in Seq(DiskBytes) BY <1>1, <1>2, CopyType
<1>8. s.offset <= BLOCK => BLOCK - s.offset \in Nat BY <1>0, <1>1
<1>4. s.offset <= BLOCK => whole \in Seq(DiskBytes) BY <1>1, <1>2, <1>8, CopyType
<1>5. s.out \o rest \in Seq(DiskBytes) BY <1>1, <1>3
<1>6. s.offset <= BLOCK => s.out \o whole \in Seq(DiskBytes) BY <1>1, <1>4
<1>7. Turn(f, s) =
         IF s.left = 0 THEN s
         ELSE IF s.left < BLOCK
         THEN [s EXCEPT !.out = s.out \o rest, !.left = 0]
         ELSE IF s.offset > BLOCK THEN [s EXCEPT !.left = 0, !.fault = TRUE]
         ELSE [s EXCEPT !.out = s.out \o whole, !.d = s.d + 1,
                        !.left = s.left - (BLOCK - s.offset), !.offset = 0]
  BY Zenon DEF Turn
<1> DEFINE out1 == s.out \o rest
           out2 == s.out \o whole
           left2 == s.left - (BLOCK - s.offset)
<1>9. s.left >= BLOCK /\ s.offset <= BLOCK => left2 \in Nat BY <1>0, <1>1
<1>10. s.d + 1 \in Nat BY <1>1
<1> HIDE DEF rest, whole, block, out1, out2, left2
<1>11. CASE s.left = 0 BY <1>7, <1>11
<1>12. CASE s.left # 0 /\ s.left < BLOCK
  <2>1. out1 \in Seq(DiskBytes) BY <1>5 DEF out1
  <2>2. Turn(f, s) = [s EXCEPT !.out = out1, !.left = 0] BY <1>7, <1>12 DEF out1
  <2>3. [s EXCEPT !.out = out1, !.left = 0] \in LoopStates BY <2>1 DEF LoopStates
  <2> QED BY <2>2, <2>3
<1>13. CASE s.left >= BLOCK /\ s.left # 0 /\ s.offset > BLOCK
  <2>1. Turn(f, s) = [s EXCEPT !.left = 0, !.fault = TRUE] BY <1>0, <1>1, <1>7, <1>13
  <2>2. [s EXCEPT !.left = 0, !.fault = TRUE] \in LoopStates BY DEF LoopStates
  <2> QED BY <2>1, <2>2
<1>14. CASE s.left >= BLOCK /\ s.left # 0 /\ s.offset <= BLOCK
  <2>1. out2 \in Seq(DiskBytes) BY <1>6, <1>14 DEF out2
  <2>2. Turn(f, s) = [s EXCEPT !.out = out2, !.d = s.d + 1, !.left = left2, !.offset = 0]
    BY <1>0, <1>1, <1>7, <1>14 DEF out2, left2
  <2>3. left2 \in Nat BY <1>9, <1>14
  <2>4. [s EXCEPT !.out = out2, !.d = s.d + 1, !.left = left2, !.offset = 0] \in LoopStates
    BY <2>1, <2>3, <1>10 DEF LoopStates
  <2> QED BY <2>2, <2>4
<1> QED BY <1>0, <1>1, <1>11, <1>12, <1>13, <1>14

\* The turns are a recursion: the next one from the last.
LEMMA TurnsRecur ==
    ASSUME Image, NEW f \in Inodes, NEW start \in LoopStates
    PROVE  Recurs(Turns(f, start), LoopStates, start,
                  [k \in Nat |-> [s \in LoopStates |-> Turn(f, s)]])
<1> DEFINE F == [k \in Nat |-> [s \in LoopStates |-> Turn(f, s)]]
           T == Turns(f, start)
           Solves(g) == g = [k \in Nat |-> IF k = 0 THEN start ELSE Turn(f, g[k - 1])]
<1>1. F \in Steps(LoopStates) BY TurnType DEF Steps
<1>2. \A k \in Nat, s \in LoopStates : F[k][s] = Turn(f, s) BY Zenon
<1> HIDE DEF F
<1>3. PICK g : Recurs(g, LoopStates, start, F) BY <1>1, Recursion
<1>4. g \in [Nat -> LoopStates] /\ g[0] = start /\ \A k \in Nat : g[k + 1] = Turn(f, g[k])
  BY <1>2, <1>3 DEF Recurs
<1>5. Solves(g)
  <2>1. ASSUME NEW k \in Nat PROVE g[k] = IF k = 0 THEN start ELSE Turn(f, g[k - 1])
    <3>1. CASE k = 0 BY <3>1, <1>4
    <3>2. CASE k # 0
      <4>1. k - 1 \in Nat /\ (k - 1) + 1 = k BY <3>2
      <4> QED BY <4>1, <3>2, <1>4
    <3> QED BY <3>1, <3>2
  <2> QED BY <2>1, <1>4
<1>6. T = CHOOSE h : Solves(h) BY DEF Turns
<1>7. Solves(T) BY <1>5, <1>6
<1>8. T = [k \in Nat |-> IF k = 0 THEN start ELSE Turn(f, T[k - 1])] BY <1>7
<1> HIDE DEF T, Solves
<1>9. T[0] = start /\ \A k \in Nat : T[k + 1] = Turn(f, T[k])
  <2>1. T[0] = start BY <1>8
  <2>2. ASSUME NEW k \in Nat PROVE T[k + 1] = Turn(f, T[k])
    <3>1. k + 1 \in Nat /\ k + 1 # 0 /\ (k + 1) - 1 = k OBVIOUS
    <3> QED BY <3>1, <1>8
  <2> QED BY <2>1, <2>2
<1> DEFINE S == {k \in Nat : T[k] \in LoopStates}
<1>10. Nat \subseteq S
  <2>1. 0 \in S BY <1>9
  <2>2. \A k \in Nat : k \in S => k + 1 \in S BY <1>9, TurnType
  <2> HIDE DEF S
  <2> QED BY <2>1, <2>2, Induction
<1>11. T \in [Nat -> LoopStates] BY <1>8, <1>10
<1> QED BY <1>2, <1>9, <1>11 DEF Recurs, T

-----------------------------------------------------------------------------
(* What read_data reads *)

\* What read_data gives is of the right types whatever it is asked for.
LEMMA ReadType ==
    ASSUME Image, NEW f \in Inodes, NEW offset \in Nat, NEW n \in Nat
    PROVE  read_data(f, offset, n) \in LoopStates
<1> DEFINE start == Entry(f, offset, n)
           more == [start EXCEPT !.left = 0]
           k == start.left \div BLOCK + 3
<1>0. BLOCK \in Nat \ {0} BY FilesAssumption
<1>1. offset \div BLOCK \in Nat BY <1>0, Divides
<1>2. Lesser(n, length[f]) \in Nat BY DEF Lesser, Image
<1>3. start \in LoopStates BY <1>1, <1>2 DEF Entry, LoopStates
<1>4. more \in LoopStates BY <1>3 DEF LoopStates
<1>5. start.left \in Nat BY <1>3 DEF LoopStates
<1>6. k \in Nat
  <2>1. start.left \div BLOCK \in Nat BY <1>0, <1>5, Divides
  <2> QED BY <2>1
<1>7. read_data(f, offset, n) = IF offset >= length[f] THEN more ELSE Turns(f, start)[k]
  BY ReadIsTurns
<1> HIDE DEF start, more, k
<1>8. Turns(f, start) \in [Nat -> LoopStates] BY <1>3, TurnsRecur DEF Recurs
<1>9. Turns(f, start)[k] \in LoopStates BY <1>6, <1>8
<1> QED BY <1>4, <1>7, <1>9

\* A byte of the file's k-th block is where the image puts it.
LEMMA ByteOfFile ==
    ASSUME Image, NEW f \in Inodes, NEW k \in Nat, NEW o \in 0 .. (BLOCK - 1),
           k * BLOCK + o < length[f]
    PROVE  Byte(data_block_num(f, k), o) = <<f, k * BLOCK + o>>
<1>0. BLOCK \in Nat \ {0} /\ INODES \in Nat \ {0} BY FilesAssumption
<1>1. f \in 0 .. (INODES - 1) BY DEF Inodes
<1>2. length[f] \in Nat BY DEF Image
<1> DEFINE at0 == k * BLOCK
<1>3. at0 \in Nat BY <1>0
<1>4. at0 < length[f] BY <1>2, <1>3
<1>5. data_block_num(f, k) = k * INODES + f BY <1>4 DEF data_block_num
<1> DEFINE b == k * INODES + f
<1>6. o \div BLOCK = 0 /\ o % BLOCK = o BY <1>0
<1>7. b \in Nat BY <1>0, <1>1
<1>8. b \div INODES = k /\ b % INODES = f BY <1>0, <1>1
<1>9. Byte(data_block_num(f, k), o) =
         LET c == b + (o \div BLOCK)
             i == (c \div INODES) * BLOCK + (o % BLOCK)
         IN  IF i < length[c % INODES] THEN <<c % INODES, i>> ELSE NoByte
  BY <1>5 DEF Byte
<1> HIDE DEF b
<1>10. b + 0 = b BY <1>7
<1>11. Byte(data_block_num(f, k), o) = IF k * BLOCK + o < length[f] THEN <<f, k * BLOCK + o>> ELSE NoByte
  BY <1>6, <1>8, <1>9, <1>10, Zenon
<1> QED BY <1>11

\* What the loop has when it started at the first byte, to read want of them.
FromStart(f, want) ==
    {s \in LoopStates : /\ ~s.fault /\ s.offset = 0
                        /\ Len(s.out) + s.left = want
                        /\ \A i \in 1 .. Len(s.out) : s.out[i] = <<f, i - 1>>
                        /\ s.left > 0 => Len(s.out) = s.d * BLOCK}

\* What a turn appends are the bytes that come next.
LEMMA Appends ==
    ASSUME Image, NEW f \in Inodes, NEW k \in Nat, NEW n \in 0 .. BLOCK,
           k * BLOCK + n <= length[f],
           NEW out \in Seq(DiskBytes), Len(out) = k * BLOCK,
           \A i \in 1 .. Len(out) : out[i] = <<f, i - 1>>
    PROVE  LET more == out \o memcpy(data_block_num(f, k), 0, n)
           IN  /\ more \in Seq(DiskBytes) /\ Len(more) = k * BLOCK + n
               /\ \A i \in 1 .. Len(more) : more[i] = <<f, i - 1>>
<1> DEFINE block == data_block_num(f, k)
           copy == memcpy(block, 0, n)
           at0 == k * BLOCK
<1>0. BLOCK \in Nat \ {0} /\ n \in Nat BY FilesAssumption
<1>1. block \in Nat BY BlockType
<1>2. copy \in Seq(DiskBytes) /\ Len(copy) = n BY <1>0, <1>1, CopyType
<1>3. at0 \in Nat BY <1>0
<1>4. length[f] \in Nat BY DEF Image
<1>5. ASSUME NEW i \in 1 .. n PROVE copy[i] = <<f, at0 + (i - 1)>>
  <2>1. i - 1 \in 0 .. (BLOCK - 1) /\ at0 + (i - 1) < length[f] BY <1>0, <1>3, <1>4
  <2>2. Byte(block, i - 1) = <<f, at0 + (i - 1)>> BY <2>1, ByteOfFile
  <2>3. 0 + i - 1 = i - 1 OBVIOUS
  <2>4. copy[i] = Byte(block, 0 + i - 1) BY DEF memcpy
  <2> QED BY <2>2, <2>3, <2>4
<1>10. Len(out) = at0 OBVIOUS
<1> HIDE DEF copy, block, at0
<1> DEFINE more == out \o copy
<1>6. more \in Seq(DiskBytes) /\ Len(more) = at0 + n
  <2>1. more \in Seq(DiskBytes) BY <1>2
  <2>3. \A x, y \in Seq(DiskBytes) : Len(x \o y) = Len(x) + Len(y) OBVIOUS
  <2>2. Len(more) = Len(out) + Len(copy) BY <1>2, <2>3, Zenon
  <2> QED BY <2>1, <2>2, <1>2, <1>10
<1>7. ASSUME NEW i \in 1 .. Len(more) PROVE more[i] = <<f, i - 1>>
  <2>1. CASE i <= at0 BY <2>1, <1>2, <1>3, <1>10
  <2>2. CASE i > at0
    <3>1. i - at0 \in 1 .. n BY <2>2, <1>0, <1>3, <1>6
    <3>2. more[i] = copy[i - Len(out)]
      <4>1. i \in 1 .. (Len(out) + Len(copy)) /\ i > Len(out) BY <2>2, <1>2, <1>3, <1>6, <1>10
      <4> QED BY <4>1, <1>2
    <3>3. at0 + ((i - at0) - 1) = i - 1 BY <1>3
    <3> QED BY <3>1, <3>2, <3>3, <1>5, <1>10
  <2> QED BY <2>1, <2>2, <1>3
<1>8. Len(more) = k * BLOCK + n BY <1>6 DEF at0
<1>9. \A i \in 1 .. Len(more) : more[i] = <<f, i - 1>> BY <1>7
<1> QED BY <1>6, <1>8, <1>9, Zenon DEF copy, block

\* A turn keeps that, and while there is more to read it has read one block more.
LEMMA TurnFromStart ==
    ASSUME Image, NEW f \in Inodes, NEW want \in Nat, want <= length[f],
           NEW s \in FromStart(f, want)
    PROVE  /\ Turn(f, s) \in FromStart(f, want)
           /\ Turn(f, s).left > 0 => s.left > 0 /\ Turn(f, s).d = s.d + 1
<1>0. BLOCK \in Nat \ {0} BY FilesAssumption
<1>1. s \in LoopStates BY DEF FromStart
<1>2. s.d \in Nat /\ s.left \in Nat /\ s.out \in Seq(DiskBytes) BY <1>1 DEF LoopStates
<1>3. /\ s.fault = FALSE /\ s.offset = 0 /\ Len(s.out) + s.left = want
      /\ \A i \in 1 .. Len(s.out) : s.out[i] = <<f, i - 1>>
      /\ s.left > 0 => Len(s.out) = s.d * BLOCK
  BY <1>1 DEF FromStart, LoopStates
<1>4. length[f] \in Nat BY DEF Image
<1>5. Turn(f, s) \in LoopStates BY <1>1, TurnType
<1>6. CASE s.left = 0
  <2>1. Turn(f, s) = s BY <1>6 DEF Turn
  <2> QED BY <2>1, <1>6
<1>7. CASE s.left # 0 /\ s.left < BLOCK
  <2> DEFINE more == s.out \o memcpy(data_block_num(f, s.d), 0, s.left)
  <2>1. Turn(f, s) = [s EXCEPT !.out = more, !.left = 0] BY <1>3, <1>7 DEF Turn
  <2>2. Len(s.out) = s.d * BLOCK BY <1>2, <1>3, <1>7
  <2>3. s.left \in 0 .. BLOCK /\ s.d * BLOCK + s.left <= length[f] BY <1>0, <1>2, <1>3, <1>4, <1>7, <2>2
  <2>4. /\ Len(more) = s.d * BLOCK + s.left
        /\ \A i \in 1 .. Len(more) : more[i] = <<f, i - 1>>
    <3> DEFINE out == s.out
               d == s.d
               n == s.left
    <3>1. /\ d \in Nat /\ n \in 0 .. BLOCK /\ d * BLOCK + n <= length[f]
          /\ out \in Seq(DiskBytes) /\ Len(out) = d * BLOCK
          /\ \A i \in 1 .. Len(out) : out[i] = <<f, i - 1>>
      BY <1>2, <1>3, <2>2, <2>3
    <3> HIDE DEF out, d, n
    <3>2. /\ Len(out \o memcpy(data_block_num(f, d), 0, n)) = d * BLOCK + n
          /\ \A i \in 1 .. Len(out \o memcpy(data_block_num(f, d), 0, n)) :
                (out \o memcpy(data_block_num(f, d), 0, n))[i] = <<f, i - 1>>
      BY <3>1, Appends
    <3> QED BY <3>2 DEF out, d, n
  <2>5. Len(more) = want BY <1>3, <2>2, <2>4
  <2> HIDE DEF more
  <2>6. /\ Turn(f, s).fault = FALSE /\ Turn(f, s).offset = 0 /\ Turn(f, s).out = more
        /\ Turn(f, s).left = 0
    BY <2>1, <1>1, <1>3 DEF LoopStates
  <2> QED BY <1>5, <2>4, <2>5, <2>6 DEF FromStart
<1>8. CASE s.left # 0 /\ s.left >= BLOCK
  <2> DEFINE more == s.out \o memcpy(data_block_num(f, s.d), 0, BLOCK)
             left == s.left - BLOCK
  <2>1. Turn(f, s) = [s EXCEPT !.out = more, !.d = s.d + 1, !.left = left, !.offset = 0]
    <3>1. BLOCK - s.offset = BLOCK /\ ~(s.offset > BLOCK) /\ ~(s.left < BLOCK) BY <1>0, <1>2, <1>3, <1>8
    <3> QED BY <3>1, <1>3, <1>8 DEF Turn
  <2>2. Len(s.out) = s.d * BLOCK BY <1>2, <1>3, <1>8
  <2>3. BLOCK \in 0 .. BLOCK /\ s.d * BLOCK + BLOCK <= length[f] BY <1>0, <1>2, <1>3, <1>4, <1>8, <2>2
  <2>4. /\ Len(more) = s.d * BLOCK + BLOCK
        /\ \A i \in 1 .. Len(more) : more[i] = <<f, i - 1>>
    BY <1>2, <1>3, <2>2, <2>3, Appends
  <2>10. left \in Nat /\ s.left = BLOCK + left BY <1>0, <1>2, <1>8
  <2>5. left \in Nat /\ Len(more) + left = want
    <3> DEFINE p == s.d * BLOCK
    <3>1. p \in Nat /\ p + s.left = want BY <1>0, <1>2, <1>3, <2>2
    <3>2. Len(more) = p + BLOCK BY <2>4
    <3> HIDE DEF p, more, left
    <3> QED BY <3>1, <3>2, <1>0, <2>10
  <2>6. Len(more) = (s.d + 1) * BLOCK
    <3>1. (s.d + 1) * BLOCK = s.d * BLOCK + BLOCK BY <1>0, <1>2
    <3> QED BY <3>1, <2>4
  <2> HIDE DEF more, left
  <2>7. /\ Turn(f, s).fault = FALSE /\ Turn(f, s).offset = 0 /\ Turn(f, s).out = more
        /\ Turn(f, s).left = left /\ Turn(f, s).d = s.d + 1
    BY <2>1, <1>1, <1>3 DEF LoopStates
  <2>8. s.left > 0 BY <1>2, <1>8
  <2>9. Turn(f, s) \in FromStart(f, want) BY <1>5, <2>4, <2>5, <2>6, <2>7 DEF FromStart
  <2> QED BY <2>7, <2>8, <2>9
<1> QED BY <1>0, <1>2, <1>6, <1>7, <1>8

\* From its start on a file is read as it is, up to the count or its end,
\* through however many blocks.
LEMMA ReadFromStart ==
    ASSUME Image, NEW f \in Inodes, NEW n \in Nat
    PROVE  /\ ~read_data(f, 0, n).fault
           /\ read_data(f, 0, n).out = Contents(f, 0, n)
<1> DEFINE want == Lesser(n, length[f])
           start == Entry(f, 0, n)
           T == Turns(f, start)
           F == [k \in Nat |-> [s \in LoopStates |-> Turn(f, s)]]
<1>0. BLOCK \in Nat \ {0} BY FilesAssumption
<1>1. length[f] \in Nat BY DEF Image
<1>2. want \in Nat /\ want <= length[f] /\ want <= n BY <1>1 DEF Lesser
<1>3. length[f] - 0 = length[f] BY <1>1
<1>4. Contents(f, 0, n) = [i \in 1 .. want |-> <<f, 0 + i - 1>>] BY <1>3 DEF Contents
<1>5. 0 \div BLOCK = 0 BY <1>0
<1>6. start = [d |-> 0, left |-> want, offset |-> 0, out |-> <<>>, fault |-> FALSE]
  BY <1>5 DEF Entry
<1> HIDE DEF want, start
<1>7. start \in LoopStates BY <1>2, <1>6 DEF LoopStates
<1>8. CASE length[f] = 0
  <2>1. want = 0 BY <1>2, <1>8
  <2>2. read_data(f, 0, n) = [start EXCEPT !.left = 0] BY <1>8, ReadIsTurns DEF start
  <2>3. read_data(f, 0, n).out = <<>> /\ read_data(f, 0, n).fault = FALSE BY <2>2, <1>6
  <2>4. Contents(f, 0, n) = <<>> BY <2>1, <1>4
  <2> QED BY <2>3, <2>4
<1>9. CASE length[f] > 0
  <2> DEFINE m == want \div BLOCK + 3
  <2>13. want \div BLOCK \in Nat BY <1>0, <1>2, Divides
  <2>1. want \div BLOCK \in Nat /\ m \in Nat BY <2>13
  <2>2. read_data(f, 0, n) = T[m]
    <3>1. start.left = want BY <1>6
    <3> QED BY <3>1, <1>1, <1>9, ReadIsTurns DEF start
  <2>3. Recurs(T, LoopStates, start, F) BY <1>7, TurnsRecur
  <2>4. \A k \in Nat, s \in LoopStates : F[k][s] = Turn(f, s) BY Zenon
  <2> HIDE DEF T, F
  <2>5. /\ T[0] = start /\ T \in [Nat -> LoopStates]
        /\ \A k \in Nat : T[k + 1] = Turn(f, T[k])
    BY <2>3, <2>4 DEF Recurs
  <2> DEFINE S == {k \in Nat : T[k] \in FromStart(f, want) /\ (T[k].left > 0 => T[k].d = k)}
  <2>6. 0 \in S
    <3>1. start.fault = FALSE /\ start.offset = 0 /\ start.out = <<>> /\ start.left = want /\ start.d = 0
      BY <1>6
    <3>2. start \in FromStart(f, want) BY <3>1, <1>0, <1>2, <1>7 DEF FromStart
    <3> QED BY <3>1, <3>2, <2>5
  <2>7. ASSUME NEW k \in Nat, k \in S PROVE k + 1 \in S
    <3>1. T[k] \in FromStart(f, want) /\ T[k + 1] = Turn(f, T[k]) BY <2>5, <2>7
    <3>2. /\ T[k + 1] \in FromStart(f, want)
          /\ T[k + 1].left > 0 => T[k].left > 0 /\ T[k + 1].d = T[k].d + 1
      BY <3>1, <1>2, TurnFromStart
    <3> QED BY <3>2, <2>7
  <2> HIDE DEF S
  <2>8. m \in S BY <2>1, <2>6, <2>7, Induction
  <2>9. /\ T[m] \in LoopStates /\ T[m].fault = FALSE /\ Len(T[m].out) + T[m].left = want
        /\ \A i \in 1 .. Len(T[m].out) : T[m].out[i] = <<f, i - 1>>
        /\ T[m].left > 0 => Len(T[m].out) = T[m].d * BLOCK /\ T[m].d = m
    BY <2>8 DEF S, FromStart, LoopStates
  <2>10. T[m].left \in Nat /\ T[m].out \in Seq(DiskBytes) BY <2>9 DEF LoopStates
  <2>11. T[m].left = 0
    <3> SUFFICES ASSUME T[m].left > 0 PROVE FALSE BY <2>10
    <3>1. Len(T[m].out) = m * BLOCK /\ Len(T[m].out) <= want BY <2>9, <2>10
    <3> DEFINE q == want \div BLOCK
    <3>2. q \in Nat /\ want < (q + 1) * BLOCK BY <1>0, <1>2
    <3>3. (q + 1) * BLOCK <= m * BLOCK BY <1>0, <3>2
    <3> QED BY <3>1, <3>2, <3>3, <1>0, <1>2, <2>1
  <2>12. T[m].out = [i \in 1 .. want |-> <<f, 0 + i - 1>>]
    <3>1. Len(T[m].out) = want BY <2>9, <2>10, <2>11
    <3>2. \A i \in 1 .. want : T[m].out[i] = <<f, 0 + i - 1>> BY <2>9, <3>1
    <3>3. T[m].out = [i \in 1 .. Len(T[m].out) |-> T[m].out[i]] BY <2>10
    <3> QED BY <3>1, <3>2, <3>3
  <2> QED BY <2>2, <2>9, <2>12, <1>4
<1> QED BY <1>1, <1>8, <1>9

-----------------------------------------------------------------------------
(* The steps of the programs, on the descriptors *)

Ops == {"none", "stdin", "stdout", "file", "dir", "rtc"}
Descriptors == [op : Ops, inode : Inodes, fpos : Nat, open : BOOLEAN]

\* The types of the state, file_array and listed as the functions they are.
Typed ==
    /\ Image
    /\ running \in BOOLEAN /\ crashed \in BOOLEAN
    /\ file_array \in [Fds -> Descriptors]
    /\ rtc_scale \in 1 .. 15
    /\ result.ret \in Int
    /\ listed \in [Fds -> Seq(Names)]

\* A descriptor on the directory has listed the names before its position.
Lists(fd) == file_array[fd].open /\ file_array[fd].op = "dir"
Listing ==
    \A fd \in Fds : Lists(fd) =>
        /\ file_array[fd].fpos = Len(listed[fd]) /\ Len(listed[fd]) <= INODES + 2
        /\ listed[fd] = [i \in 1 .. Len(listed[fd]) |-> i - 1]
\* Where dread has just said that there is no other name, there is none.
Exhausted ==
    (result.call = "dread" /\ result.ret = 0) =>
        \A fd \in Fds : Lists(fd) /\ result.fd = fd => Len(listed[fd]) = INODES + 2

FilesInv == Typed /\ Listing /\ Exhausted /\ ReadsFromStart

\* A call that returns without having read or listed anything.
Reply(call, fd, ret) ==
    [call |-> call, fd |-> fd, from |-> 0, want |-> 0, ret |-> ret, bytes |-> <<>>]
Plain == {"none", "open", "close", "read", "write", "device", "other"}
Replies == \E call \in Plain, ret \in Int : \E fd : result' = Reply(call, fd, ret)

\* What a step of any program, the tests included, does to the files.
FilesStep ==
    \/ Execute \/ Halt
    \/ \E n \in Names : system_open(n) \/ ExecuteFile(n)
    \/ \E fd \in Fds : system_close(fd) \/ dread(fd) \/ \E n \in Sizes : fread(fd, n)
    \/ /\ Replies /\ rtc_scale' \in 1 .. 15
       /\ UNCHANGED <<length, running, file_array, listed, crashed>>
    \/ /\ crashed' \in BOOLEAN
       /\ UNCHANGED <<length, running, file_array, listed, rtc_scale, result>>

\* Return gives a reply.
LEMMA ReturnReplies ==
    ASSUME NEW call, NEW fd, NEW ret, Return(call, fd, ret)
    PROVE  result' = Reply(call, fd, ret)
BY DEF Return, Reply, NoResult

\* After a reply nothing is claimed of what was read.
LEMMA RepliesKeep ==
    ASSUME Replies
    PROVE  /\ result'.ret \in Int
           /\ result'.call \notin {"fread", "execute", "dread"}
BY DEF Replies, Reply, Plain

\* The numbers the model counts with.
LEMMA Numbers ==
    /\ 0 \in Fds /\ 1 \in Fds /\ 0 \in Inodes
    /\ \A fd \in Fds : fd \in Nat
    /\ Names \subseteq Nat /\ \A n \in Nat : n <= INODES + 1 => n \in Names
    /\ \A n \in Names : filetype(n) \in Ops /\ inode_num(n) \in Inodes
    /\ \A n \in Sizes : n \in Nat
    /\ EXEC_SIZE \in Nat
<1>1. FILE_ARRAY_SIZE \in Nat /\ FILE_ARRAY_SIZE > 2 /\ INODES \in Nat /\ INODES > 0 /\ EXEC_SIZE \in Nat
  BY FilesAssumption
<1>2. \A n \in Sizes : n \in Nat BY FilesAssumption
<1>3. \A n \in Names : filetype(n) \in Ops /\ inode_num(n) \in Inodes
  <2> SUFFICES ASSUME NEW n \in Names PROVE filetype(n) \in Ops /\ inode_num(n) \in Inodes OBVIOUS
  <2>1. n \in Int /\ 0 <= n /\ n <= INODES + 1 BY <1>1 DEF Names
  <2>2. CASE n = 0 BY <2>2, <1>1 DEF filetype, inode_num, Ops, Inodes
  <2>3. CASE n = 1 BY <2>3, <1>1 DEF filetype, inode_num, Ops, Inodes
  <2>4. CASE n > 1
    <3>1. filetype(n) = "file" BY <2>1, <2>4 DEF filetype
    <3>2. n - 2 \in Inodes BY <2>1, <2>4, <1>1 DEF Inodes
    <3> QED BY <3>1, <3>2, <2>1, <2>4 DEF inode_num, Ops
  <2> QED BY <2>1, <2>2, <2>3, <2>4
<1> QED BY <1>1, <1>2, <1>3 DEF Fds, Inodes, Names

\* The descriptor that open takes is the lowest free one.
LEMMA FirstFreeIs ==
    ASSUME FreeFds # {}
    PROVE  FirstFree \in FreeFds /\ \A e \in FreeFds : FirstFree <= e
<1>1. FreeFds \subseteq Nat BY Numbers DEF FreeFds
<1>2. \E fd \in FreeFds : \A e \in FreeFds : fd <= e BY <1>1, Least
<1> QED BY <1>2, Zenon DEF FirstFree

\* Initially nothing is open.
LEMMA FilesInit == Init => FilesInv
<1> SUFFICES ASSUME Init PROVE FilesInv OBVIOUS
<1>1. /\ result.ret = 0 /\ result.call = "none" BY DEF Init, NoResult
<1>2. \A fd \in Fds : file_array[fd] = Closed /\ listed[fd] = <<>> BY DEF Init
<1>3. Closed \in Descriptors /\ Closed.open = FALSE BY Numbers DEF Closed, Descriptors, Ops
<1>4. file_array \in [Fds -> Descriptors] BY <1>3 DEF Init
<1>5. listed \in [Fds -> Seq(Names)]
  <2>1. <<>> \in Seq(Names) OBVIOUS
  <2> DEFINE none == <<>>
  <2>2. none \in Seq(Names) BY <2>1
  <2>3. listed = [fd \in Fds |-> none] BY DEF Init
  <2> HIDE DEF none
  <2> QED BY <2>2, <2>3
<1>6. Image /\ running \in BOOLEAN /\ crashed \in BOOLEAN /\ rtc_scale \in 1 .. 15
  <2>1. running \in BOOLEAN /\ crashed \in BOOLEAN BY Zenon DEF Init
  <2>2. Image /\ rtc_scale \in 1 .. 15 BY DEF Init, Image
  <2> QED BY <2>1, <2>2
<1>7. Typed BY <1>1, <1>4, <1>5, <1>6 DEF Typed
<1>8. \A fd \in Fds : ~Lists(fd) BY <1>2, <1>3 DEF Lists
<1>9. Listing /\ Exhausted BY <1>1, <1>8 DEF Listing, Exhausted
<1>10. ReadsFromStart BY <1>1 DEF ReadsFromStart, LastRead
<1> QED BY <1>7, <1>9, <1>10 DEF FilesInv

\* Calls that leave the descriptors alone.
LEMMA ReplyKeeps ==
    ASSUME FilesInv, Replies, rtc_scale' \in 1 .. 15,
           UNCHANGED <<length, running, file_array, listed, crashed>>
    PROVE  FilesInv'
<1>1. /\ length' = length /\ running' = running /\ file_array' = file_array
      /\ listed' = listed /\ crashed' = crashed
  OBVIOUS
<1>2. result'.ret \in Int /\ result'.call \notin {"fread", "execute", "dread"} BY RepliesKeep
<1>3. Typed' BY <1>1, <1>2 DEF FilesInv, Typed, Image
<1>4. Listing' BY <1>1 DEF FilesInv, Listing, Lists
<1>5. Exhausted' /\ ReadsFromStart' BY <1>2 DEF Exhausted, ReadsFromStart, LastRead
<1> QED BY <1>3, <1>4, <1>5 DEF FilesInv

\* A step that is no call, or the crash.
LEMMA IdleKeeps ==
    ASSUME FilesInv, crashed' \in BOOLEAN,
           UNCHANGED <<length, running, file_array, listed, rtc_scale, result>>
    PROVE  FilesInv'
<1>1. /\ length' = length /\ running' = running /\ file_array' = file_array
      /\ listed' = listed /\ rtc_scale' = rtc_scale /\ result' = result
  OBVIOUS
<1>3. Typed' BY <1>1 DEF FilesInv, Typed, Image
<1>4. Listing' BY <1>1 DEF FilesInv, Listing, Lists
<1>5. Exhausted' BY <1>1 DEF FilesInv, Exhausted, Lists
<1>6. ReadsFromStart' BY <1>1 DEF FilesInv, ReadsFromStart, LastRead, AsWanted, LastFile, Contents
<1> QED BY <1>3, <1>4, <1>5, <1>6 DEF FilesInv

\* A step that ends without a read and closes descriptors or opens what is no
\* directory.
LEMMA ClosingKeeps ==
    ASSUME FilesInv, running' \in BOOLEAN, rtc_scale' \in 1 .. 15,
           file_array' \in [Fds -> Descriptors],
           \A fd \in Fds : Lists(fd)' => file_array'[fd] = file_array[fd],
           Replies, UNCHANGED <<length, listed, crashed>>
    PROVE  FilesInv'
<1>1. length' = length /\ listed' = listed /\ crashed' = crashed OBVIOUS
<1>2. result'.ret \in Int /\ result'.call \notin {"fread", "execute", "dread"} BY RepliesKeep
<1>3. Typed' BY <1>1, <1>2 DEF FilesInv, Typed, Image
<1>4. Listing'
  <2> SUFFICES ASSUME NEW fd \in Fds, Lists(fd)'
               PROVE  /\ file_array'[fd].fpos = Len(listed[fd]) /\ Len(listed[fd]) <= INODES + 2
                      /\ listed[fd] = [i \in 1 .. Len(listed[fd]) |-> i - 1]
    BY <1>1 DEF Listing
  <2>1. Lists(fd) /\ file_array'[fd] = file_array[fd] BY DEF Lists
  <2> QED BY <2>1 DEF FilesInv, Listing
<1>5. Exhausted' /\ ReadsFromStart' BY <1>2 DEF Exhausted, ReadsFromStart, LastRead
<1> QED BY <1>3, <1>4, <1>5 DEF FilesInv

\* system_execute: the new program's first two descriptors.
LEMMA ExecuteKeeps == ASSUME FilesInv, Execute PROVE FilesInv'
<1> DEFINE in == [op |-> "stdin", inode |-> 0, fpos |-> 0, open |-> TRUE]
           out == [op |-> "stdout", inode |-> 0, fpos |-> 0, open |-> TRUE]
<1>1. in \in Descriptors /\ out \in Descriptors BY Numbers DEF Descriptors, Ops
<1>2. file_array \in [Fds -> Descriptors] /\ rtc_scale \in 1 .. 15 BY DEF FilesInv, Typed
<1>3. in.op # "dir" /\ out.op # "dir" OBVIOUS
<1>4. file_array' = [file_array EXCEPT ![0] = in, ![1] = out] BY DEF Execute
<1>5. running' = TRUE /\ rtc_scale' = rtc_scale /\ UNCHANGED <<length, listed, crashed>> BY DEF Execute
<1> HIDE DEF in, out
<1>6. file_array' \in [Fds -> Descriptors] BY <1>1, <1>2, <1>4
<1>7. ASSUME NEW fd \in Fds, Lists(fd)' PROVE file_array'[fd] = file_array[fd]
  <2>1. fd = 0 => file_array'[fd] \in {in, out} BY <1>2, <1>4, Numbers
  <2>2. fd = 1 => file_array'[fd] \in {in, out} BY <1>2, <1>4, Numbers
  <2>3. fd # 0 /\ fd # 1 BY <2>1, <2>2, <1>3, <1>7 DEF Lists
  <2> QED BY <2>3, <1>2, <1>4
<1>8. Replies
  <2>1. result' = Reply("none", -1, 0) BY DEF Execute, NoResult, Reply
  <2> QED BY <2>1 DEF Replies, Plain
<1> QED BY <1>2, <1>5, <1>6, <1>7, <1>8, ClosingKeeps

\* A descriptor that is closed.
LEMMA ClosedType ==
    ASSUME NEW e \in Descriptors
    PROVE  [e EXCEPT !.open = FALSE] \in Descriptors /\ [e EXCEPT !.open = FALSE].open = FALSE
BY DEF Descriptors

\* system_halt closes them.
LEMMA HaltKeeps == ASSUME FilesInv, Halt PROVE FilesInv'
<1>2. file_array \in [Fds -> Descriptors] /\ rtc_scale \in 1 .. 15 BY DEF FilesInv, Typed
<1>4. file_array' = [fd \in Fds |-> IF fd >= 2 THEN [file_array[fd] EXCEPT !.open = FALSE]
                                    ELSE file_array[fd]]
  BY DEF Halt
<1>5. running' = FALSE /\ rtc_scale' = rtc_scale /\ UNCHANGED <<length, listed, crashed>> BY DEF Halt
<1>3. \A fd \in Fds : /\ [file_array[fd] EXCEPT !.open = FALSE] \in Descriptors
                      /\ [file_array[fd] EXCEPT !.open = FALSE].open = FALSE
  BY <1>2, ClosedType
<1>6. file_array' \in [Fds -> Descriptors] BY <1>2, <1>3, <1>4
<1>7. ASSUME NEW fd \in Fds, Lists(fd)' PROVE file_array'[fd] = file_array[fd]
  <2>1. CASE fd >= 2
    <3>1. file_array'[fd] = [file_array[fd] EXCEPT !.open = FALSE] BY <1>4, <2>1
    <3>2. file_array'[fd].open = FALSE BY <3>1, <1>3
    <3> QED BY <3>2, <1>7 DEF Lists
  <2> QED BY <2>1, <1>4
<1>8. Replies
  <2>1. result' = Reply("none", -1, 0) BY DEF Halt, NoResult, Reply
  <2> QED BY <2>1 DEF Replies, Plain
<1> QED BY <1>2, <1>5, <1>6, <1>7, <1>8, ClosingKeeps

\* system_close.
LEMMA CloseKeeps == ASSUME FilesInv, NEW fd \in Fds, system_close(fd) PROVE FilesInv'
<1>2. file_array \in [Fds -> Descriptors] /\ rtc_scale \in 1 .. 15 /\ running \in BOOLEAN
  BY DEF FilesInv, Typed
<1> DEFINE e == [file_array[fd] EXCEPT !.open = FALSE]
<1>3. e \in Descriptors /\ e.open = FALSE BY <1>2, ClosedType
<1>4. file_array' = [file_array EXCEPT ![fd] = e] BY DEF system_close
<1>5. rtc_scale' \in 1 .. 15 /\ UNCHANGED <<length, running, listed, crashed>>
  BY <1>2 DEF system_close
<1> HIDE DEF e
<1>6. file_array' \in [Fds -> Descriptors] BY <1>2, <1>3, <1>4
<1>7. ASSUME NEW d \in Fds, Lists(d)' PROVE file_array'[d] = file_array[d]
  <2>1. d = fd => file_array'[d] = e BY <1>2, <1>4
  <2>2. d # fd BY <2>1, <1>3, <1>7 DEF Lists
  <2> QED BY <2>2, <1>2, <1>4
<1>8. Replies
  <2>1. Return("close", fd, 0) BY DEF system_close
  <2>2. result' = Reply("close", fd, 0) BY <2>1, ReturnReplies
  <2> QED BY <2>2 DEF Replies, Plain
<1>9. running' = running BY <1>5
<1> QED BY <1>2, <1>5, <1>6, <1>7, <1>8, <1>9, ClosingKeeps

\* system_open: the lowest free descriptor, from the start of the file.
LEMMA OpenKeeps == ASSUME FilesInv, NEW n \in Names, system_open(n) PROVE FilesInv'
<1>1. CASE FreeFds = {}
  <2> DEFINE ret == IF filetype(n) = "rtc" THEN 0 ELSE -1
  <2>1. Return("open", -1, ret) /\ UNCHANGED <<file_array, listed>> BY <1>1 DEF system_open
  <2>2. result' = Reply("open", -1, ret) BY <2>1, ReturnReplies
  <2>3. ret \in Int OBVIOUS
  <2> HIDE DEF ret
  <2>4. Replies BY <2>2, <2>3 DEF Replies, Plain
  <2>5. UNCHANGED <<length, running, file_array, listed, crashed>> /\ rtc_scale' \in 1 .. 15
    BY <2>1 DEF system_open, FilesInv, Typed
  <2> QED BY <2>4, <2>5, ReplyKeeps
<1>2. CASE FreeFds # {}
  <2> DEFINE fd == FirstFree
             e == Opened(fd, n)
  <2>1. fd \in FreeFds BY <1>2, FirstFreeIs
  <2>2. fd \in Fds BY <2>1 DEF FreeFds
  <2>3. /\ Return("open", -1, fd) /\ UNCHANGED <<length, running, rtc_scale, crashed>>
        /\ file_array' = [file_array EXCEPT ![fd] = e]
        /\ listed' = [listed EXCEPT ![fd] = <<>>]
    BY <1>2 DEF system_open
  <2>4. e \in Descriptors /\ e.fpos = 0 BY Numbers DEF Opened, Descriptors
  <2>5. result' = Reply("open", -1, fd) BY <2>3, ReturnReplies
  <2> HIDE DEF e, fd
  <2>6. result'.ret \in Int /\ result'.call \notin {"fread", "execute", "dread"}
    BY <2>2, <2>5, Numbers DEF Reply
  <2> DEFINE none == <<>>
  <2>7. none \in Seq(Names) /\ Len(none) = 0 /\ none = [i \in 1 .. 0 |-> i - 1] OBVIOUS
  <2>8. listed' = [listed EXCEPT ![fd] = none] BY <2>3
  <2> HIDE DEF none
  <2>9. file_array \in [Fds -> Descriptors] /\ listed \in [Fds -> Seq(Names)] BY DEF FilesInv, Typed
  <2>10. file_array' \in [Fds -> Descriptors] /\ listed' \in [Fds -> Seq(Names)]
    BY <2>3, <2>4, <2>7, <2>8, <2>9
  <2>11. length' = length /\ running' = running /\ rtc_scale' = rtc_scale /\ crashed' = crashed BY <2>3
  <2>12. Typed' BY <2>6, <2>10, <2>11 DEF FilesInv, Typed, Image
  <2>13. Listing'
    <3> SUFFICES ASSUME NEW d \in Fds, Lists(d)'
                 PROVE  /\ file_array'[d].fpos = Len(listed'[d]) /\ Len(listed'[d]) <= INODES + 2
                        /\ listed'[d] = [i \in 1 .. Len(listed'[d]) |-> i - 1]
      BY DEF Listing
    <3>1. CASE d = fd
      <4>1. listed'[d] = none /\ file_array'[d] = e BY <3>1, <2>2, <2>3, <2>8, <2>9
      <4>2. 0 <= INODES + 2 BY FilesAssumption
      <4> QED BY <4>1, <4>2, <2>4, <2>7
    <3>2. CASE d # fd
      <4>1. listed'[d] = listed[d] /\ file_array'[d] = file_array[d] BY <3>2, <2>3, <2>8, <2>9
      <4>2. Lists(d) BY <4>1 DEF Lists
      <4> QED BY <4>1, <4>2 DEF FilesInv, Listing
    <3> QED BY <3>1, <3>2
  <2>14. Exhausted' /\ ReadsFromStart' BY <2>6 DEF Exhausted, ReadsFromStart, LastRead
  <2> QED BY <2>12, <2>13, <2>14 DEF FilesInv
<1> QED BY <1>1, <1>2

\* system_execute's own reads: they start at the start of the file.
LEMMA ExecuteFileKeeps == ASSUME FilesInv, NEW n \in Names, ExecuteFile(n) PROVE FilesInv'
<1> DEFINE f == inode_num(n)
           image == read_data(f, 0, length[f])
           header == read_data(f, 0, EXEC_SIZE)
<1>1. f \in Inodes BY Numbers
<1>2. /\ file_array \in [Fds -> Descriptors] /\ rtc_scale \in 1 .. 15 /\ running \in BOOLEAN
      /\ Image /\ Listing /\ listed \in [Fds -> Seq(Names)] /\ crashed \in BOOLEAN
  BY DEF FilesInv, Typed
<1>3. length[f] \in Nat BY <1>1, <1>2 DEF Image
<1>4. UNCHANGED <<length, running, rtc_scale, listed, crashed>> BY DEF ExecuteFile
<1>5. length' = length /\ running' = running /\ rtc_scale' = rtc_scale /\ listed' = listed
      /\ crashed' = crashed
  BY <1>4
<1>6. image \in LoopStates /\ header \in LoopStates BY <1>1, <1>2, <1>3, Numbers, ReadType
<1>7. Len(image.out) \in Nat /\ Len(header.out) \in Nat
  <2>1. image.out \in Seq(DiskBytes) /\ header.out \in Seq(DiskBytes) BY <1>6 DEF LoopStates
  <2> QED BY <2>1
<1>8. image.out = Contents(f, 0, length[f]) BY <1>1, <1>2, <1>3, ReadFromStart
<1>9. \/ FreeFds = {} /\ Return("execute", -1, -1) /\ UNCHANGED file_array
      \/ /\ FreeFds # {}
         /\ file_array' = [file_array EXCEPT ![FirstFree] =
               [op |-> "file", inode |-> f, open |-> FALSE, fpos |-> Len(header.out)]]
         /\ \/ Return("execute", -1, -1)
            \/ result' = [call |-> "execute", fd |-> FirstFree, from |-> 0,
                          want |-> length[f], ret |-> Len(image.out), bytes |-> image.out]
  BY Zenon DEF ExecuteFile
<1> HIDE DEF image, header, f
<1>10. Typed /\ Listing BY DEF FilesInv
<1>11. /\ result'.ret \in Int /\ result'.call = "execute"
  <2>1. ASSUME Return("execute", -1, -1) PROVE result'.ret \in Int /\ result'.call = "execute"
    <3>1. result' = Reply("execute", -1, -1) BY <2>1, ReturnReplies
    <3> QED BY <3>1 DEF Reply
  <2> QED BY <1>7, <1>9, <2>1
<1>12. Exhausted' BY <1>11 DEF Exhausted
<1>13. CASE FreeFds = {}
  <2>1. Return("execute", -1, -1) /\ file_array' = file_array BY <1>9, <1>13
  <2>2. result' = Reply("execute", -1, -1) BY <2>1, ReturnReplies
  <2>3. Typed' BY <1>5, <1>10, <1>11, <2>1 DEF Typed, Image
  <2>4. Listing' BY <1>5, <1>10, <2>1 DEF Listing, Lists
  <2>5. ReadsFromStart'
    <3>1. result'.ret = -1 BY <2>2 DEF Reply
    <3> QED BY <3>1, <1>11 DEF ReadsFromStart, LastRead
  <2> QED BY <2>3, <2>4, <2>5, <1>12 DEF FilesInv
<1>14. CASE FreeFds # {}
  <2> DEFINE fd == FirstFree
             e == [op |-> "file", inode |-> f, open |-> FALSE, fpos |-> Len(header.out)]
  <2>1. fd \in Fds BY <1>14, FirstFreeIs DEF FreeFds
  <2>2. e \in Descriptors /\ e.open = FALSE /\ e.inode = f BY <1>1, <1>7 DEF Descriptors, Ops
  <2>3. file_array' = [file_array EXCEPT ![fd] = e] BY <1>9, <1>14
  <2> HIDE DEF e, fd
  <2>4. file_array' \in [Fds -> Descriptors] BY <1>2, <2>2, <2>3
  <2>5. Typed' BY <1>5, <1>10, <1>11, <2>4 DEF Typed, Image
  <2>6. Listing'
    <3> SUFFICES ASSUME NEW d \in Fds, Lists(d)'
                 PROVE  /\ file_array'[d].fpos = Len(listed[d]) /\ Len(listed[d]) <= INODES + 2
                        /\ listed[d] = [i \in 1 .. Len(listed[d]) |-> i - 1]
      BY <1>5 DEF Listing
    <3>1. d = fd => file_array'[d] = e BY <1>2, <2>3
    <3>2. d # fd BY <3>1, <2>2 DEF Lists
    <3>3. file_array'[d] = file_array[d] BY <3>2, <1>2, <2>3
    <3>4. Lists(d) BY <3>3 DEF Lists
    <3> QED BY <3>3, <3>4, <1>2 DEF Listing
  <2>7. ReadsFromStart'
    <3>1. CASE Return("execute", -1, -1)
      <4>1. result'.ret = -1 BY <3>1, ReturnReplies DEF Reply
      <4> QED BY <4>1, <1>11 DEF ReadsFromStart, LastRead
    <3>2. CASE result' = [call |-> "execute", fd |-> FirstFree, from |-> 0,
                          want |-> length[f], ret |-> Len(image.out), bytes |-> image.out]
      <4>1. result'.fd = fd /\ result'.want = length[f] /\ result'.bytes = Contents(f, 0, length[f])
        BY <3>2, <1>8 DEF fd
      <4>2. file_array'[fd].inode = f BY <1>2, <2>1, <2>2, <2>3
      <4>3. AsWanted(0)'
        BY <4>1, <4>2, <1>5 DEF AsWanted, LastFile, Contents
      <4> QED BY <4>3, <1>11 DEF ReadsFromStart, LastRead
    <3> QED BY <3>1, <3>2, <1>9, <1>14
  <2> QED BY <2>5, <2>6, <2>7, <1>12 DEF FilesInv
<1> QED BY <1>13, <1>14

\* fread.
LEMMA FreadKeeps ==
    ASSUME FilesInv, NEW fd \in Fds, NEW n \in Sizes, fread(fd, n)
    PROVE  FilesInv'
<1> DEFINE e == file_array[fd]
           r == read_data(e.inode, e.fpos, n)
           pos == e.fpos + Len(r.out)
           e2 == [e EXCEPT !.fpos = pos]
<1>1. /\ Typed /\ Listing /\ Image /\ listed \in [Fds -> Seq(Names)]
      /\ file_array \in [Fds -> Descriptors] /\ running \in BOOLEAN
  BY DEF FilesInv, Typed
<1>2. e \in Descriptors /\ e.inode \in Inodes /\ e.fpos \in Nat BY <1>1 DEF Descriptors
<1>3. n \in Nat BY Numbers
<1>4. r \in LoopStates BY <1>1, <1>2, <1>3, ReadType
<1>5. Len(r.out) \in Nat
  <2>1. r.out \in Seq(DiskBytes) BY <1>4 DEF LoopStates
  <2> QED BY <2>1
<1>6. e.op = "file" /\ ReadPasses(fd) BY DEF fread
<1>7. UNCHANGED <<length, running, rtc_scale, listed>> BY DEF fread
<1>8. \/ crashed' = TRUE /\ UNCHANGED <<file_array, result>>
      \/ /\ ~r.fault /\ UNCHANGED crashed
         /\ result' = [call |-> "fread", fd |-> fd, from |-> e.fpos, want |-> n,
                       ret |-> Len(r.out), bytes |-> r.out]
         /\ file_array' = [file_array EXCEPT ![fd] = e2]
  BY DEF fread
<1>9. CASE crashed' = TRUE /\ UNCHANGED <<file_array, result>>
  BY <1>7, <1>9, IdleKeeps
<1>10. CASE /\ ~r.fault /\ UNCHANGED crashed
            /\ result' = [call |-> "fread", fd |-> fd, from |-> e.fpos, want |-> n,
                          ret |-> Len(r.out), bytes |-> r.out]
            /\ file_array' = [file_array EXCEPT ![fd] = e2]
  <2>1. pos \in Nat BY <1>2, <1>5
  <2>2. e2 \in Descriptors /\ e2.inode = e.inode /\ e2.op = "file"
    <3> HIDE DEF pos, e
    <3> QED BY <2>1, <1>2, <1>6 DEF Descriptors
  <2>3. e.fpos = 0 => r.out = Contents(e.inode, 0, n) BY <1>1, <1>2, <1>3, ReadFromStart
  <2>4. /\ result'.call = "fread" /\ result'.ret \in Int /\ result'.fd = fd
        /\ result'.from = e.fpos /\ result'.want = n /\ result'.bytes = r.out
    BY <1>5, <1>10
  <2>5. /\ length' = length /\ running' = running /\ rtc_scale' = rtc_scale
        /\ listed' = listed /\ crashed' = crashed
    BY <1>7, <1>10
  <2> HIDE DEF e2, r
  <2>6. file_array' \in [Fds -> Descriptors] /\ file_array'[fd] = e2 BY <2>2, <1>1, <1>10
  <2>7. Typed' BY <2>4, <2>5, <2>6, <1>1 DEF Typed, Image
  <2>8. Listing'
    <3> SUFFICES ASSUME NEW d \in Fds, Lists(d)'
                 PROVE  /\ file_array'[d].fpos = Len(listed[d]) /\ Len(listed[d]) <= INODES + 2
                        /\ listed[d] = [i \in 1 .. Len(listed[d]) |-> i - 1]
      BY <2>5 DEF Listing
    <3>1. d # fd BY <2>2, <2>6 DEF Lists
    <3>2. file_array'[d] = file_array[d] BY <3>1, <1>1, <1>10
    <3>3. Lists(d) BY <3>2 DEF Lists
    <3> QED BY <3>2, <3>3, <1>1 DEF Listing
  <2>9. Exhausted' BY <2>4 DEF Exhausted
  <2>10. ReadsFromStart'
    <3>1. e.fpos = 0 => AsWanted(0)'
      BY <2>2, <2>3, <2>4, <2>5, <2>6 DEF AsWanted, LastFile, Contents
    <3> QED BY <3>1, <2>4 DEF ReadsFromStart, LastRead
  <2> QED BY <2>7, <2>8, <2>9, <2>10 DEF FilesInv
<1> QED BY <1>8, <1>9, <1>10

\* dread: the name at the position, or 0 when there is none.
LEMMA DreadKeeps == ASSUME FilesInv, NEW fd \in Fds, dread(fd) PROVE FilesInv'
<1> DEFINE next == file_array[fd].fpos
           e == [file_array[fd] EXCEPT !.fpos = next + 1]
           list == Append(listed[fd], next)
<1>1. /\ Typed /\ Listing /\ Image /\ listed \in [Fds -> Seq(Names)]
      /\ file_array \in [Fds -> Descriptors] /\ rtc_scale \in 1 .. 15
  BY DEF FilesInv, Typed
<1>2. file_array[fd] \in Descriptors /\ next \in Nat BY <1>1 DEF Descriptors
<1>3. file_array[fd].op = "dir" /\ file_array[fd].open
  <2>1. ReadPasses(fd) /\ file_array[fd].op = "dir" BY DEF dread
  <2>2. fd # FILE_ARRAY_SIZE BY FilesAssumption DEF Fds
  <2> QED BY <2>1, <2>2 DEF ReadPasses, Passes
<1>4. /\ next = Len(listed[fd]) /\ next <= INODES + 2
      /\ listed[fd] = [i \in 1 .. Len(listed[fd]) |-> i - 1]
  BY <1>1, <1>3 DEF Listing, Lists
<1>5. UNCHANGED <<length, running, rtc_scale, crashed>> BY DEF dread
<1>6. INODES \in Nat BY FilesAssumption
<1>7. CASE next \in Names
  <2>1. /\ Return("dread", fd, 32)
        /\ file_array' = [file_array EXCEPT ![fd] = e]
        /\ listed' = [listed EXCEPT ![fd] = list]
    BY <1>7 DEF dread
  <2>2. result' = Reply("dread", fd, 32) BY <2>1, ReturnReplies
  <2>3. result'.ret = 32 /\ result'.call = "dread" BY <2>2 DEF Reply
  <2>4. next <= INODES + 1 BY <1>2, <1>6, <1>7 DEF Names
  <2>5. listed[fd] \in Seq(Names) BY <1>1
  <2>6. list \in Seq(Names) /\ Len(list) = next + 1 BY <1>4, <1>7, <2>5
  <2>7. list = [i \in 1 .. (next + 1) |-> i - 1]
    <3>1. ASSUME NEW i \in 1 .. (next + 1) PROVE list[i] = i - 1
      <4>1. CASE i = next + 1 BY <4>1, <1>2, <1>4, <2>5
      <4>2. CASE i <= next
        <5>1. i \in 1 .. Len(listed[fd]) BY <4>2, <1>2, <1>4
        <5>2. list[i] = listed[fd][i] BY <5>1, <2>5
        <5> QED BY <5>1, <5>2, <1>4
      <4>3. i = next + 1 \/ i <= next BY <1>2
      <4> QED BY <4>1, <4>2, <4>3
    <3>2. list = [i \in 1 .. (next + 1) |-> list[i]] BY <2>6
    <3> QED BY <3>1, <3>2
  <2>8. e \in Descriptors /\ e.fpos = next + 1
    <3>1. next + 1 \in Nat BY <1>2
    <3> HIDE DEF next
    <3> QED BY <3>1, <1>2 DEF Descriptors
  <2> HIDE DEF e, list, next
  <2>9. file_array' \in [Fds -> Descriptors] /\ listed' \in [Fds -> Seq(Names)]
    BY <2>1, <2>6, <2>8, <1>1
  <2>10. length' = length /\ running' = running /\ rtc_scale' = rtc_scale /\ crashed' = crashed
    BY <1>5
  <2>11. Typed' BY <2>3, <2>9, <2>10, <1>1 DEF Typed, Image
  <2>12. Listing'
    <3> SUFFICES ASSUME NEW d \in Fds, Lists(d)'
                 PROVE  /\ file_array'[d].fpos = Len(listed'[d]) /\ Len(listed'[d]) <= INODES + 2
                        /\ listed'[d] = [i \in 1 .. Len(listed'[d]) |-> i - 1]
      BY DEF Listing
    <3>1. CASE d = fd
      <4>1. listed'[d] = list /\ file_array'[d] = e BY <3>1, <2>1, <1>1
      <4>2. next + 1 <= INODES + 2 BY <2>4, <1>2, <1>6
      <4> QED BY <4>1, <4>2, <2>6, <2>7, <2>8
    <3>2. CASE d # fd
      <4>1. listed'[d] = listed[d] /\ file_array'[d] = file_array[d] BY <3>2, <2>1, <1>1
      <4>2. Lists(d) BY <4>1 DEF Lists
      <4> QED BY <4>1, <4>2, <1>1 DEF Listing
    <3> QED BY <3>1, <3>2
  <2>13. Exhausted' /\ ReadsFromStart' BY <2>3 DEF Exhausted, ReadsFromStart, LastRead
  <2> QED BY <2>11, <2>12, <2>13 DEF FilesInv
<1>8. CASE next \notin Names
  <2>1. Return("dread", fd, 0) /\ UNCHANGED <<file_array, listed>> BY <1>8 DEF dread
  <2>2. result' = Reply("dread", fd, 0) BY <2>1, ReturnReplies
  <2>3. result'.ret = 0 /\ result'.call = "dread" /\ result'.fd = fd BY <2>2 DEF Reply
  <2>4. Len(listed[fd]) = INODES + 2 BY <1>2, <1>4, <1>6, <1>8 DEF Names
  <2>5. /\ length' = length /\ running' = running /\ rtc_scale' = rtc_scale /\ crashed' = crashed
        /\ file_array' = file_array /\ listed' = listed
    BY <1>5, <2>1
  <2> HIDE DEF next
  <2>6. Typed' BY <2>3, <2>5, <1>1 DEF Typed, Image
  <2>7. Listing' BY <2>5, <1>1 DEF Listing, Lists
  <2>8. Exhausted' BY <2>3, <2>4, <2>5 DEF Exhausted
  <2>9. ReadsFromStart' BY <2>3 DEF ReadsFromStart, LastRead
  <2> QED BY <2>6, <2>7, <2>8, <2>9 DEF FilesInv
<1> QED BY <1>7, <1>8

\* Every step of any program.
LEMMA FilesKept == ASSUME FilesInv, FilesStep PROVE FilesInv'
<1>1. CASE Execute BY <1>1, ExecuteKeeps
<1>2. CASE Halt BY <1>2, HaltKeeps
<1>3. CASE \E n \in Names : system_open(n) \/ ExecuteFile(n)
  BY <1>3, OpenKeeps, ExecuteFileKeeps
<1>4. CASE \E fd \in Fds : system_close(fd) \/ dread(fd) \/ \E n \in Sizes : fread(fd, n)
  BY <1>4, CloseKeeps, DreadKeeps, FreadKeeps
<1>5. CASE /\ Replies /\ rtc_scale' \in 1 .. 15
           /\ UNCHANGED <<length, running, file_array, listed, crashed>>
  BY <1>5, ReplyKeeps
<1>6. CASE /\ crashed' \in BOOLEAN
           /\ UNCHANGED <<length, running, file_array, listed, rtc_scale, result>>
  BY <1>6, IdleKeeps
<1> QED BY <1>1, <1>2, <1>3, <1>4, <1>5, <1>6 DEF FilesStep

-----------------------------------------------------------------------------
(* The rate of the RTC *)

\* log2 is defined for every valid frequency and is what its name says.
LEMMA Log2Is ==
    /\ log2[2] = 1 /\ log2[4] = 2 /\ log2[8] = 3 /\ log2[16] = 4 /\ log2[32] = 5
    /\ log2[64] = 6 /\ log2[128] = 7 /\ log2[256] = 8 /\ log2[512] = 9 /\ log2[1024] = 10
<1> DEFINE value(f) == CASE f = 2 -> 1 [] f = 4 -> 2 [] f = 8 -> 3 [] f = 16 -> 4 [] f = 32 -> 5
                         [] f = 64 -> 6 [] f = 128 -> 7 [] f = 256 -> 8 [] f = 512 -> 9
                         [] f = 1024 -> 10
           w == [f \in ValidFreqs |-> value(f)]
           Solves(g) == g = [f \in ValidFreqs |-> IF f = 2 THEN 1 ELSE 1 + g[f \div 2]]
<1>1. /\ w[2] = 1 /\ w[4] = 2 /\ w[8] = 3 /\ w[16] = 4 /\ w[32] = 5
      /\ w[64] = 6 /\ w[128] = 7 /\ w[256] = 8 /\ w[512] = 9 /\ w[1024] = 10
  BY DEF ValidFreqs
<1> HIDE DEF value
<1>2. /\ 4 \div 2 = 2 /\ 8 \div 2 = 4 /\ 16 \div 2 = 8 /\ 32 \div 2 = 16 /\ 64 \div 2 = 32
      /\ 128 \div 2 = 64 /\ 256 \div 2 = 128 /\ 512 \div 2 = 256 /\ 1024 \div 2 = 512
  OBVIOUS
<1>3. Solves(w)
  <2>1. w = [f \in ValidFreqs |-> w[f]] OBVIOUS
  <2> HIDE DEF w
  <2>2. \A f \in ValidFreqs : w[f] = IF f = 2 THEN 1 ELSE 1 + w[f \div 2]
    BY <1>1, <1>2 DEF ValidFreqs
  <2>3. [f \in ValidFreqs |-> w[f]] = [f \in ValidFreqs |-> IF f = 2 THEN 1 ELSE 1 + w[f \div 2]]
    BY <2>2
  <2> QED BY <2>1, <2>3
<1>4. log2 = CHOOSE g : Solves(g) BY DEF log2
<1> HIDE DEF w
<1>5. Solves(log2) BY <1>3, <1>4
<1>6. \A f \in ValidFreqs : log2[f] = IF f = 2 THEN 1 ELSE 1 + log2[f \div 2] BY <1>5, Zenon
<1> HIDE DEF Solves
<1>7. \A f \in {2, 4, 8, 16, 32, 64, 128, 256, 512, 1024} :
         log2[f] = IF f = 2 THEN 1 ELSE 1 + log2[f \div 2]
  BY <1>6 DEF ValidFreqs
<1> QED BY <1>2, <1>7

\* rtc_write divides by no less than 6: the scale is 1 or 2.
LEMMA ScaleType == ASSUME NEW f \in ValidFreqs PROVE 15 \div (16 - log2[f]) \in 1 .. 15
BY Log2Is DEF ValidFreqs

-----------------------------------------------------------------------------
(* The tests, and the programs before and after them *)

\* The entry that is found is one of the directory.
LEMMA FoundIs ==
    ASSUME NEW fname, read_dentry_by_name(fname) # -1
    PROVE  read_dentry_by_name(fname) \in Names
<1>1. Found(fname) # {} BY DEF read_dentry_by_name
<1>2. Found(fname) \subseteq Nat /\ Found(fname) \subseteq Names BY Numbers DEF Found
<1>3. \E n \in Found(fname) : \A m \in Found(fname) : n <= m BY <1>1, <1>2, Least
<1>4. (CHOOSE n \in Found(fname) : \A m \in Found(fname) : n <= m) \in Found(fname) BY <1>3
<1> QED BY <1>1, <1>2, <1>4 DEF read_dentry_by_name

\* A call that is refused, whatever it is given, or that does no more than answer.
LEMMA RejectReplies ==
    ASSUME Typed, NEW call \in Plain, NEW fd, NEW allowed, Reject(call, fd, allowed)
    PROVE  FilesStep
<1>1. result' = Reply(call, fd, -1) BY ReturnReplies DEF Reject
<1>2. Replies BY <1>1 DEF Replies
<1>3. UNCHANGED <<length, running, file_array, listed, crashed>> /\ rtc_scale' = rtc_scale
  BY DEF Reject
<1> QED BY <1>2, <1>3 DEF FilesStep, Typed

\* The calls of a program on a descriptor, right or wrong.
LEMMA CallReplies ==
    ASSUME Typed, NEW fd,
           \/ DeviceRead(fd) \/ DeviceWrite(fd) \/ WriteNothing(fd)
           \/ \E freq \in Freqs : rtc_write(fd, freq)
           \/ \E ret \in Int : Answer(ret)
    PROVE  FilesStep
<1>1. rtc_scale \in 1 .. 15 BY DEF Typed
<1>2. ASSUME NEW call \in Plain, NEW d, NEW ret \in Int, Return(call, d, ret),
             UNCHANGED <<length, running, file_array, listed, crashed>>, rtc_scale' \in 1 .. 15
      PROVE  FilesStep
  <2>1. result' = Reply(call, d, ret) BY <1>2, ReturnReplies
  <2> QED BY <2>1, <1>2 DEF Replies, FilesStep
<1>3. "device" \in Plain /\ "write" \in Plain /\ "other" \in Plain /\ 0 \in Int /\ -1 \in Int
  BY DEF Plain
<1>4. CASE DeviceRead(fd)
  <2>1. Return("device", fd, 0) /\ UNCHANGED <<length, running, file_array, rtc_scale, listed, crashed>>
    BY <1>4 DEF DeviceRead
  <2> QED BY <2>1, <1>1, <1>2, <1>3
<1>5. CASE DeviceWrite(fd)
  <2>1. Return("device", fd, 0) /\ UNCHANGED <<length, running, file_array, rtc_scale, listed, crashed>>
    BY <1>5 DEF DeviceWrite
  <2> QED BY <2>1, <1>1, <1>2, <1>3
<1>6. CASE WriteNothing(fd)
  <2>1. Return("write", fd, -1) /\ UNCHANGED <<length, running, file_array, rtc_scale, listed, crashed>>
    BY <1>6 DEF WriteNothing
  <2> QED BY <2>1, <1>1, <1>2, <1>3
<1>7. ASSUME NEW freq \in Freqs, rtc_write(fd, freq) PROVE FilesStep
  <2>1. UNCHANGED <<length, running, file_array, listed, crashed>> BY <1>7 DEF rtc_write
  <2>2. CASE freq \in ValidFreqs
    <3>1. Return("write", fd, 0) /\ rtc_scale' = 15 \div (16 - log2[freq])
      BY <1>7, <2>2 DEF rtc_write
    <3>2. rtc_scale' \in 1 .. 15 BY <3>1, <2>2, ScaleType
    <3> QED BY <2>1, <3>1, <3>2, <1>2, <1>3
  <2>3. CASE freq \notin ValidFreqs
    <3>1. Return("write", fd, -1) /\ rtc_scale' = rtc_scale BY <1>7, <2>3 DEF rtc_write
    <3> QED BY <2>1, <3>1, <1>1, <1>2, <1>3
  <2> QED BY <2>2, <2>3
<1>8. ASSUME NEW ret \in Int, Answer(ret) PROVE FilesStep
  <2>1. /\ Return("other", -1, ret)
        /\ UNCHANGED <<length, running, file_array, rtc_scale, listed, crashed>>
    BY <1>8 DEF Answer
  <2> QED BY <2>1, <1>1, <1>2, <1>3
<1> QED BY <1>4, <1>5, <1>6, <1>7, <1>8

\* Any program.
LEMMA NextSteps == ASSUME Typed, Next PROVE FilesStep
<1>1. CASE Execute \/ Halt \/ \E n \in Names : system_open(n) BY <1>1 DEF FilesStep
<1>2. CASE \E n \in Names : ExecuteFile(n) BY <1>2 DEF FilesStep
<1>3. CASE Reject("open", -1, FALSE) BY <1>3, RejectReplies DEF Plain
<1>4. CASE BeyondArray
  <2>1. crashed' = TRUE /\ UNCHANGED <<length, running, file_array, listed, rtc_scale, result>>
    BY <1>4 DEF BeyondArray
  <2> QED BY <2>1 DEF FilesStep
<1>5. ASSUME NEW fd \in -1 .. FILE_ARRAY_SIZE,
             \/ system_close(fd)
             \/ \E n \in Sizes : fread(fd, n)
             \/ dread(fd) \/ DeviceRead(fd) \/ DeviceWrite(fd)
             \/ WriteNothing(fd) \/ \E freq \in Freqs : rtc_write(fd, freq)
             \/ Reject("close", fd, Passes(fd, 2)) \/ Reject("read", fd, ReadPasses(fd))
             \/ Reject("write", fd, WritePasses(fd))
      PROVE  FilesStep
  <2>1. CASE system_close(fd)
    <3>1. fd \in Fds BY <2>1 DEF system_close
    <3> QED BY <3>1, <2>1 DEF FilesStep
  <2>2. ASSUME NEW n \in Sizes, fread(fd, n) PROVE FilesStep
    <3>1. fd \in Fds BY <2>2 DEF fread
    <3> QED BY <3>1, <2>2 DEF FilesStep
  <2>3. CASE dread(fd)
    <3>1. fd \in Fds BY <2>3 DEF dread
    <3> QED BY <3>1, <2>3 DEF FilesStep
  <2>4. CASE \/ DeviceRead(fd) \/ DeviceWrite(fd) \/ WriteNothing(fd)
             \/ \E freq \in Freqs : rtc_write(fd, freq)
    BY <2>4, CallReplies
  <2>5. CASE \/ Reject("close", fd, Passes(fd, 2)) \/ Reject("read", fd, ReadPasses(fd))
             \/ Reject("write", fd, WritePasses(fd))
    BY <2>5, RejectReplies DEF Plain
  <2> QED BY <1>5, <2>1, <2>2, <2>3, <2>4, <2>5
<1> QED BY <1>1, <1>2, <1>3, <1>4, <1>5 DEF Next

\* An answer is a step on the descriptors that changes none of them.
LEMMA AnswerSteps == ASSUME Typed, Answer(-1) \/ Answer(0) PROVE FilesStep
<1>1. -1 \in Int /\ 0 \in Int OBVIOUS
<1>2. \E ret \in Int : Answer(ret) BY <1>1, Zenon
<1> QED BY <1>2, CallReplies, Zenon

\* A call of the tests.
LEMMA PerformSteps ==
    ASSUME Typed, NEW c, Perform(c),
           c.call \in {"read", "write", "close", "close lots", "open", "open lots",
                       "vidmap", "number", "count"}
    PROVE  FilesStep
<1>1. CASE c.call = "read"
  <2>1. Read(c.arg) BY <1>1 DEF Perform
  <2>2. ASSUME NEW n \in Sizes, fread(c.arg, n) PROVE FilesStep
    <3>1. c.arg \in Fds BY <2>2 DEF fread
    <3> QED BY <3>1, <2>2 DEF FilesStep
  <2>3. CASE dread(c.arg)
    <3>1. c.arg \in Fds BY <2>3 DEF dread
    <3> QED BY <3>1, <2>3 DEF FilesStep
  <2>4. CASE DeviceRead(c.arg) BY <2>4, CallReplies
  <2>5. CASE Reject("read", c.arg, ReadPasses(c.arg)) BY <2>5, RejectReplies DEF Plain
  <2> QED BY <2>1, <2>2, <2>3, <2>4, <2>5 DEF Read
<1>2. CASE c.call = "write"
  <2>1. Write(c.arg) BY <1>2 DEF Perform
  <2>2. CASE Reject("write", c.arg, WritePasses(c.arg)) BY <2>2, RejectReplies DEF Plain
  <2> QED BY <2>1, <2>2, CallReplies DEF Write
<1>3. CASE c.call \in {"close", "close lots"}
  <2>1. Close(c.arg) BY <1>3 DEF Perform
  <2>2. CASE Reject("close", c.arg, Passes(c.arg, 2)) BY <2>2, RejectReplies DEF Plain
  <2>3. CASE system_close(c.arg)
    <3>1. c.arg \in Fds BY <2>3 DEF system_close
    <3> QED BY <3>1, <2>3 DEF FilesStep
  <2> QED BY <2>1, <2>2, <2>3 DEF Close
<1>4. CASE c.call \in {"open", "open lots"}
  <2>1. Open(c.arg) BY <1>4 DEF Perform
  <2>2. CASE read_dentry_by_name(c.arg) = -1
    <3>1. Reject("open", -1, FALSE) BY <2>1, <2>2 DEF Open
    <3> QED BY <3>1, RejectReplies DEF Plain
  <2>3. CASE read_dentry_by_name(c.arg) # -1
    <3>1. system_open(read_dentry_by_name(c.arg)) BY <2>1, <2>3 DEF Open
    <3>2. read_dentry_by_name(c.arg) \in Names BY <2>3, FoundIs
    <3> QED BY <3>1, <3>2 DEF FilesStep
  <2> QED BY <2>2, <2>3
<1>5. CASE c.call = "vidmap"
  <2>1. Vidmap(c.arg) BY <1>5 DEF Perform
  <2>3. Answer(-1) \/ Answer(0) BY <2>1 DEF Vidmap
  <2> QED BY <2>3, AnswerSteps
<1>6. CASE c.call = "number"
  <2>1. Number(c.arg) BY <1>6 DEF Perform
  <2>3. Answer(-1) BY <2>1 DEF Number
  <2> QED BY <2>3, AnswerSteps
<1>7. CASE c.call = "count"
  <2>1. UNCHANGED vars BY <1>7 DEF Perform
  <2>2. UNCHANGED <<length, running, file_array, listed, rtc_scale, result>> /\ crashed' = crashed
    BY <2>1 DEF vars
  <2>3. crashed' \in BOOLEAN BY <2>2 DEF Typed
  <2> QED BY <2>2, <2>3 DEF FilesStep
<1> QED BY <1>1, <1>2, <1>3, <1>4, <1>5, <1>6, <1>7

-----------------------------------------------------------------------------
(* The scripts of the tests *)

FOUR_MB == 4194304

\* Calls that must be answered -1 while nothing is open from descriptor 2 on.
Wrong == [test : Tests \ {3}, call : {"read"}, arg : {NEG_FD, BIG_FD, 1} \cup 2 .. LAST_FD]
         \cup [test : Tests \ {3}, call : {"write"}, arg : {NEG_FD, BIG_FD, 0} \cup 2 .. LAST_FD]
         \cup [test : Tests \ {3}, call : {"close"}, arg : {NEG_FD, BIG_FD} \cup 0 .. LAST_FD]
         \cup [test : Tests \ {3}, call : {"open"}, arg : {helloo, shel, <<>>}]
         \cup [test : Tests \ {3}, call : {"vidmap"}, arg : {0, FOUR_MB}]
         \cup [test : Tests \ {3}, call : {"number"}, arg : {BIG_NUM, NEG_NUM, 0}]

\* The i-th call of err_open_lots: it opens one descriptor more than there are,
\* closes them all and compares the count of opens that failed.
Lots(i) == IF i <= LAST_FD THEN CallOf(3, "open lots", Dot)
           ELSE IF i < 2 * LAST_FD THEN CallOf(3, "close lots", i - LAST_FD + 1)
           ELSE CallOf(3, "count", 1)
Entries == Wrong \cup {Lots(i) : i \in 1 .. (2 * LAST_FD)}

\* Where err_open_lots begins in a script, if it is part of it.
HasLots(s) == s \in {0, 3}
Base(s) == IF s = 0 THEN 6 ELSE 0
InLots(s, i) == HasLots(s) /\ i > Base(s) /\ i <= Base(s) + 2 * LAST_FD
Laid(s, script) ==
    /\ script \in Seq(Entries)
    /\ HasLots(s) => Len(script) >= Base(s) + 2 * LAST_FD
    /\ \A i \in 1 .. Len(script) : IF InLots(s, i) THEN script[i] = Lots(i - Base(s))
                                   ELSE script[i] \in Wrong

\* There is a last descriptor, and it is not one of the first two.
LEMMA LastFd == LAST_FD \in Nat /\ LAST_FD >= 2 /\ FILE_ARRAY_SIZE = LAST_FD + 1
BY FilesAssumption DEF LAST_FD

\* A function on 1 .. n is a sequence.
LEMMA IsSeq == ASSUME NEW E, NEW n \in Nat, NEW f \in [1 .. n -> E]
               PROVE  f \in Seq(E) /\ Len(f) = n
OBVIOUS

\* Sequences one after the other.
IsJoined(a, b, c) ==
    /\ Len(c) = Len(a) + Len(b)
    /\ \A i \in 1 .. Len(c) : c[i] = IF i <= Len(a) THEN a[i] ELSE b[i - Len(a)]
\* The concatenation of two sequences is such a joint.
LEMMA Joined ==
    ASSUME NEW E, NEW a \in Seq(E), NEW b \in Seq(E)
    PROVE  a \o b \in Seq(E) /\ IsJoined(a, b, a \o b)
BY DEF IsJoined

\* err_open_lots is what Lots says.
LEMMA LotsIs ==
    /\ err_open_lots \in Seq(Entries) /\ Len(err_open_lots) = 2 * LAST_FD
    /\ \A i \in 1 .. (2 * LAST_FD) : err_open_lots[i] = Lots(i)
<1> DEFINE E == Entries
           opens == [i \in 1 .. LAST_FD |-> CallOf(3, "open lots", Dot)]
           closes == Over(3, "close lots", 2, LAST_FD)
           count == << CallOf(3, "count", 1) >>
           L == LAST_FD
<1>0. L \in Nat /\ L >= 2 BY LastFd
<1>1. \A i \in 1 .. (2 * L) : Lots(i) \in E BY DEF Entries
<1> HIDE DEF L
<1>2. opens \in Seq(E) /\ Len(opens) = L /\ \A i \in 1 .. L : opens[i] = Lots(i)
  <2>1. \A i \in 1 .. L : CallOf(3, "open lots", Dot) = Lots(i) BY DEF Lots, L
  <2>2. \A i \in 1 .. L : opens[i] = Lots(i) BY <2>1 DEF L
  <2>3. \A i \in 1 .. L : i \in 1 .. (2 * L) BY <1>0
  <2>4. \A i \in 1 .. L : CallOf(3, "open lots", Dot) \in E BY <2>1, <2>3, <1>1
  <2>5. opens = [i \in 1 .. L |-> CallOf(3, "open lots", Dot)] BY DEF L
  <2> HIDE DEF E, opens
  <2>7. opens \in [1 .. L -> E] BY <2>4, <2>5
  <2>6. opens \in Seq(E) /\ Len(opens) = L BY <2>7, <1>0, IsSeq, Zenon
  <2> QED BY <2>2, <2>6
<1>3. closes \in Seq(E) /\ Len(closes) = L - 1 /\ \A i \in 1 .. (L - 1) : closes[i] = Lots(i + L)
  <2>1. closes = [i \in 1 .. (L - 1) |-> CallOf(3, "close lots", 2 + i - 1)]
    <3>1. L - 2 + 1 = L - 1 BY <1>0
    <3> QED BY <3>1 DEF Over, L
  <2>2. \A i \in 1 .. (L - 1) : CallOf(3, "close lots", 2 + i - 1) = Lots(i + L)
    <3> SUFFICES ASSUME NEW i \in 1 .. (L - 1) PROVE CallOf(3, "close lots", 2 + i - 1) = Lots(i + L) OBVIOUS
    <3>1. ~(i + L <= L) /\ i + L < 2 * L /\ (i + L) - L + 1 = 2 + i - 1 BY <1>0
    <3> QED BY <3>1 DEF Lots, L
  <2>3. \A i \in 1 .. (L - 1) : i + L \in 1 .. (2 * L) BY <1>0
  <2>4. \A i \in 1 .. (L - 1) : CallOf(3, "close lots", 2 + i - 1) \in E BY <2>2, <2>3, <1>1
  <2> HIDE DEF E, closes
  <2>8. L - 1 \in Nat BY <1>0
  <2> DEFINE m == L - 1
  <2>9. closes = [i \in 1 .. m |-> CallOf(3, "close lots", 2 + i - 1)] BY <2>1
  <2>10. \A i \in 1 .. m : CallOf(3, "close lots", 2 + i - 1) \in E BY <2>4
  <2> HIDE DEF m
  <2>11. closes \in [1 .. m -> E] BY <2>9, <2>10
  <2>7. closes \in [1 .. (L - 1) -> E] /\ L - 1 \in Nat BY <2>8, <2>11 DEF m
  <2>5. closes \in Seq(E) /\ Len(closes) = L - 1 BY <2>7, IsSeq, Zenon
  <2>6. \A i \in 1 .. (L - 1) : closes[i] = Lots(i + L) BY <2>1, <2>2
  <2> QED BY <2>5, <2>6
<1>4. count \in Seq(E) /\ Len(count) = 1 /\ count[1] = Lots(2 * L)
  <2>1. ~(2 * L <= L) /\ ~(2 * L < 2 * L) BY <1>0
  <2>2. Lots(2 * L) = CallOf(3, "count", 1) BY <2>1 DEF Lots, L
  <2>3. 2 * L \in 1 .. (2 * L) BY <1>0
  <2>4. CallOf(3, "count", 1) \in E BY <2>2, <2>3, <1>1
  <2> HIDE DEF E
  <2> QED BY <2>2, <2>4
<1>5. err_open_lots = (opens \o closes) \o count BY DEF err_open_lots, L
<1> HIDE DEF E, opens, closes, count
<1> DEFINE a == opens \o closes
<1>13. a \in Seq(E) /\ IsJoined(opens, closes, a) BY <1>2, <1>3, Joined, Zenon
<1> HIDE DEF a
<1>6. /\ a \in Seq(E) /\ Len(a) = Len(opens) + Len(closes)
      /\ \A i \in 1 .. Len(a) : a[i] = IF i <= Len(opens) THEN opens[i] ELSE closes[i - Len(opens)]
  BY <1>13 DEF IsJoined
<1>7. Len(a) = 2 * L - 1 BY <1>0, <1>2, <1>3, <1>6
<1>8. ASSUME NEW i \in 1 .. (2 * L - 1) PROVE a[i] = Lots(i)
  <2>1. CASE i <= L
    <3>1. a[i] = opens[i] /\ i \in 1 .. L BY <2>1, <1>0, <1>2, <1>6, <1>7
    <3> QED BY <3>1, <1>2
  <2>2. CASE i > L
    <3>1. a[i] = closes[i - L] /\ i - L \in 1 .. (L - 1) /\ (i - L) + L = i
      BY <2>2, <1>0, <1>2, <1>6, <1>7
    <3> QED BY <3>1, <1>3
  <2> QED BY <2>1, <2>2, <1>0
<1> DEFINE b == a \o count
<1>14. b \in Seq(E) /\ IsJoined(a, count, b) BY <1>4, <1>6, Joined, Zenon
<1>10. err_open_lots = b BY <1>5 DEF a
<1> HIDE DEF b
<1>9. /\ b \in Seq(E) /\ Len(b) = Len(a) + Len(count)
      /\ \A i \in 1 .. Len(b) : b[i] = IF i <= Len(a) THEN a[i] ELSE count[i - Len(a)]
  BY <1>14 DEF IsJoined
<1>11. Len(b) = 2 * L BY <1>0, <1>4, <1>7, <1>9
<1>12. ASSUME NEW i \in 1 .. (2 * L) PROVE b[i] = Lots(i)
  <2>1. CASE i <= 2 * L - 1
    <3>1. b[i] = a[i] /\ i \in 1 .. (2 * L - 1) BY <2>1, <1>0, <1>7, <1>9, <1>11
    <3> QED BY <3>1, <1>8
  <2>2. CASE i = 2 * L
    <3>1. b[i] = count[1] BY <2>2, <1>0, <1>7, <1>9, <1>11
    <3> QED BY <3>1, <2>2, <1>4
  <2> QED BY <2>1, <2>2, <1>0
<1> QED BY <1>9, <1>10, <1>11, <1>12 DEF E, L

\* The other tests make calls that are to be refused.
LEMMA OthersAreWrong ==
    /\ err_neg_fd \in Seq(Wrong) /\ Len(err_neg_fd) = 3
    /\ err_big_fd \in Seq(Wrong) /\ Len(err_big_fd) = 3
    /\ err_open \in Seq(Wrong) /\ err_unopened \in Seq(Wrong) /\ err_vidmap \in Seq(Wrong)
    /\ err_stdin_out \in Seq(Wrong) /\ err_syscall_num \in Seq(Wrong)
<1>0. LAST_FD \in Nat /\ LAST_FD >= 2 BY LastFd
<1> DEFINE W == Wrong
<1>1. \A t \in Tests \ {3} :
        /\ \A fd \in {NEG_FD, BIG_FD, 1} \cup 2 .. LAST_FD : CallOf(t, "read", fd) \in W
        /\ \A fd \in {NEG_FD, BIG_FD, 0} \cup 2 .. LAST_FD : CallOf(t, "write", fd) \in W
        /\ \A fd \in {NEG_FD, BIG_FD} \cup 0 .. LAST_FD : CallOf(t, "close", fd) \in W
        /\ \A name \in {helloo, shel, <<>>} : CallOf(t, "open", name) \in W
        /\ \A a \in {0, FOUR_MB} : CallOf(t, "vidmap", a) \in W
        /\ \A a \in {BIG_NUM, NEG_NUM, 0} : CallOf(t, "number", a) \in W
  BY DEF CallOf, Wrong
<1>2. {1, 2, 4, 5, 6, 7, 8} \subseteq Tests \ {3} BY DEF Tests
<1> HIDE DEF W
<1>3. /\ CallOf(1, "read", NEG_FD) \in W /\ CallOf(1, "write", NEG_FD) \in W
      /\ CallOf(1, "close", NEG_FD) \in W
      /\ CallOf(2, "read", BIG_FD) \in W /\ CallOf(2, "write", BIG_FD) \in W
      /\ CallOf(2, "close", BIG_FD) \in W
      /\ CallOf(4, "open", helloo) \in W /\ CallOf(4, "open", shel) \in W
      /\ CallOf(4, "open", <<>>) \in W
      /\ CallOf(6, "vidmap", 0) \in W /\ CallOf(6, "vidmap", FOUR_MB) \in W
      /\ CallOf(7, "write", 0) \in W /\ CallOf(7, "read", 1) \in W
      /\ CallOf(8, "number", BIG_NUM) \in W /\ CallOf(8, "number", NEG_NUM) \in W
      /\ CallOf(8, "number", 0) \in W
  BY <1>1, <1>2
<1>4. \A a, b \in W : <<a, b>> \in Seq(W) OBVIOUS
<1>5. \A a, b, c \in W : <<a, b, c>> \in Seq(W) /\ Len(<<a, b, c>>) = 3 OBVIOUS
<1>6. err_neg_fd \in Seq(W) /\ Len(err_neg_fd) = 3 BY <1>3, <1>5, Zenon DEF err_neg_fd
<1>7. err_big_fd \in Seq(W) /\ Len(err_big_fd) = 3 BY <1>3, <1>5, Zenon DEF err_big_fd
<1>8. err_open \in Seq(W) BY <1>3, <1>5, Zenon DEF err_open
<1>19. err_vidmap = << CallOf(6, "vidmap", 0), CallOf(6, "vidmap", FOUR_MB) >>
  BY SMT DEF err_vidmap, FOUR_MB
<1>9. err_vidmap \in Seq(W) BY <1>3, <1>4, <1>19, Zenon
<1>10. err_stdin_out \in Seq(W) BY <1>3, <1>4, Zenon DEF err_stdin_out
<1>11. err_syscall_num \in Seq(W) BY <1>3, <1>5, Zenon DEF err_syscall_num
\* One call for each of the descriptors in a range.
<1>12. ASSUME NEW call, NEW first \in Nat, first <= LAST_FD,
              \A fd \in first .. LAST_FD : CallOf(5, call, fd) \in W
       PROVE  Over(5, call, first, LAST_FD) \in Seq(W)
  <2> DEFINE n == LAST_FD - first + 1
             f == Over(5, call, first, LAST_FD)
  <2>1. n \in Nat BY <1>0, <1>12
  <2>2. f = [i \in 1 .. n |-> CallOf(5, call, first + i - 1)] BY DEF Over
  <2>3. \A i \in 1 .. n : first + i - 1 \in first .. LAST_FD BY <1>0, <1>12
  <2>4. \A i \in 1 .. n : CallOf(5, call, first + i - 1) \in W BY <2>3, <1>12
  <2> HIDE DEF n, f
  <2>5. f \in [1 .. n -> W] BY <2>2, <2>4
  <2>6. f \in Seq(W) BY <2>1, <2>5, IsSeq, Zenon
  <2> QED BY <2>6 DEF f
<1>13. /\ \A fd \in 0 .. LAST_FD : CallOf(5, "close", fd) \in W
       /\ \A fd \in 2 .. LAST_FD : CallOf(5, "read", fd) \in W
       /\ \A fd \in 2 .. LAST_FD : CallOf(5, "write", fd) \in W
  BY <1>1, <1>2
<1>14. 0 \in Nat /\ 2 \in Nat /\ 0 <= LAST_FD /\ 2 <= LAST_FD BY <1>0
<1>15. /\ Over(5, "close", 0, LAST_FD) \in Seq(W) /\ Over(5, "read", 2, LAST_FD) \in Seq(W)
       /\ Over(5, "write", 2, LAST_FD) \in Seq(W)
  BY <1>12, <1>13, <1>14, Zenon
<1>16. \A a, b \in Seq(W) : a \o b \in Seq(W) OBVIOUS
<1>17. Over(5, "close", 0, LAST_FD) \o Over(5, "read", 2, LAST_FD) \in Seq(W)
  BY <1>15, <1>16, Zenon
<1>18. err_unopened \in Seq(W) BY <1>15, <1>16, <1>17, Zenon DEF err_unopened
<1> QED BY <1>6, <1>7, <1>8, <1>9, <1>10, <1>11, <1>18 DEF W

\* Calls that are to be refused, added to a script that is laid out.
LEMMA LaidOn ==
    ASSUME NEW s, NEW a, Laid(s, a), NEW b \in Seq(Wrong)
    PROVE  Laid(s, a \o b)
<1> DEFINE E == Entries
           W == Wrong
           c == a \o b
           n == Base(s) + 2 * LAST_FD
           Lot(i) == Lots(i - Base(s))
<1>0. LAST_FD \in Nat BY LastFd
<1>1. W \subseteq E BY DEF Entries
<1>2. /\ a \in Seq(E)
      /\ HasLots(s) => Len(a) >= n
      /\ \A i \in 1 .. Len(a) : IF InLots(s, i) THEN a[i] = Lot(i) ELSE a[i] \in W
  BY DEF Laid
<1>3. b \in Seq(W) OBVIOUS
<1>4. n \in Nat BY <1>0 DEF Base
<1>5. \A i : InLots(s, i) => HasLots(s) /\ i <= n BY DEF InLots
<1> HIDE DEF E, W, n, Lot
<1>6. b \in Seq(E) BY <1>1, <1>3
<1>7. c \in Seq(E) /\ IsJoined(a, b, c) BY <1>2, <1>6, Joined, Zenon
<1> HIDE DEF c
<1>8. /\ Len(c) = Len(a) + Len(b)
      /\ \A i \in 1 .. Len(c) : c[i] = IF i <= Len(a) THEN a[i] ELSE b[i - Len(a)]
  BY <1>7 DEF IsJoined
<1>9. Len(a) \in Nat /\ Len(b) \in Nat BY <1>2, <1>6
<1>10. HasLots(s) => Len(c) >= n BY <1>2, <1>4, <1>8, <1>9
<1>11. ASSUME NEW i \in 1 .. Len(c) PROVE IF InLots(s, i) THEN c[i] = Lot(i) ELSE c[i] \in W
  <2>1. CASE i <= Len(a)
    <3>1. c[i] = a[i] /\ i \in 1 .. Len(a) BY <2>1, <1>8, <1>9
    <3> QED BY <3>1, <1>2
  <2>2. CASE i > Len(a)
    <3>1. c[i] = b[i - Len(a)] /\ i - Len(a) \in 1 .. Len(b) BY <2>2, <1>8, <1>9
    <3>2. c[i] \in W BY <3>1, <1>3
    <3>3. ~InLots(s, i) BY <2>2, <1>2, <1>4, <1>5, <1>9
    <3> QED BY <3>2, <3>3
  <2>3. i <= Len(a) \/ i > Len(a) BY <1>9, <1>8
  <2> QED BY <2>1, <2>2, <2>3
<1>12. Laid(s, c) BY <1>7, <1>10, <1>11 DEF Laid, E, W, n, Lot
<1> QED BY <1>12 DEF c

\* The beginning of the script of all tests: six calls, and err_open_lots.
LEMMA LaidFirst == Laid(0, (err_neg_fd \o err_big_fd) \o err_open_lots)
<1> DEFINE E == Entries
           W == Wrong
           lots == err_open_lots
           a == err_neg_fd \o err_big_fd
           c == a \o lots
           m == 2 * LAST_FD
<1>0. m \in Nat BY LastFd
<1>1. W \subseteq E BY DEF Entries
<1>2. lots \in Seq(E) /\ Len(lots) = m /\ \A i \in 1 .. m : lots[i] = Lots(i) BY LotsIs
<1> HIDE DEF E, W, lots, m
<1>3. err_neg_fd \in Seq(W) /\ Len(err_neg_fd) = 3 /\ err_big_fd \in Seq(W) /\ Len(err_big_fd) = 3
  BY OthersAreWrong DEF W
<1>4. a \in Seq(W) /\ IsJoined(err_neg_fd, err_big_fd, a) BY <1>3, Joined, Zenon
<1> HIDE DEF a
<1>5. Len(a) = 6 BY <1>3, <1>4 DEF IsJoined
<1>6. a \in Seq(E) BY <1>1, <1>4
<1>7. c \in Seq(E) /\ IsJoined(a, lots, c) BY <1>2, <1>6, Joined, Zenon
<1> HIDE DEF c
<1>8. Len(c) = 6 + m /\ \A i \in 1 .. Len(c) : c[i] = IF i <= 6 THEN a[i] ELSE lots[i - 6]
  BY <1>2, <1>5, <1>7 DEF IsJoined
<1>9. Base(0) = 6 /\ HasLots(0) BY DEF Base, HasLots
<1>10. ASSUME NEW i \in 1 .. Len(c)
       PROVE  IF InLots(0, i) THEN c[i] = Lots(i - Base(0)) ELSE c[i] \in W
  <2>1. InLots(0, i) <=> i > 6 BY <1>0, <1>8, <1>9 DEF InLots, m
  <2>2. CASE i <= 6
    <3>1. c[i] = a[i] /\ i \in 1 .. Len(a) BY <2>2, <1>0, <1>5, <1>8
    <3> QED BY <3>1, <2>1, <2>2, <1>4
  <2>3. CASE i > 6
    <3>1. c[i] = lots[i - 6] /\ i - 6 \in 1 .. m BY <2>3, <1>0, <1>8
    <3>2. c[i] = Lots(i - 6) BY <3>1, <1>2
    <3> QED BY <3>2, <2>1, <2>3, <1>9
  <2> QED BY <2>2, <2>3
<1>11. Len(c) >= Base(0) + 2 * LAST_FD BY <1>0, <1>8, <1>9 DEF m
<1>12. Laid(0, c) BY <1>7, <1>10, <1>11 DEF Laid, E, W
<1> QED BY <1>12 DEF c, a, lots

\* Every script is laid out so.
LEMMA ScriptLaid == ASSUME NEW s \in -1 .. 9 PROVE Laid(s, Script(s))
<1>1. CASE s = 0
  <2> DEFINE c1 == (err_neg_fd \o err_big_fd) \o err_open_lots
             c2 == c1 \o err_open
             c3 == c2 \o err_unopened
             c4 == c3 \o err_vidmap
             c5 == c4 \o err_stdin_out
             c6 == c5 \o err_syscall_num
  <2>1. Laid(0, c1) BY LaidFirst
  <2> HIDE DEF c1
  <2>2. Laid(0, c2) BY <2>1, OthersAreWrong, LaidOn
  <2> HIDE DEF c2
  <2>3. Laid(0, c3) BY <2>2, OthersAreWrong, LaidOn
  <2> HIDE DEF c3
  <2>4. Laid(0, c4) BY <2>3, OthersAreWrong, LaidOn
  <2> HIDE DEF c4
  <2>5. Laid(0, c5) BY <2>4, OthersAreWrong, LaidOn
  <2> HIDE DEF c5
  <2>6. Laid(0, c6) BY <2>5, OthersAreWrong, LaidOn
  <2>8. Script(0) = err_neg_fd \o err_big_fd \o err_open_lots \o err_open \o err_unopened
                    \o err_vidmap \o err_stdin_out \o err_syscall_num
    <3>1. 0 \notin Tests BY DEF Tests
    <3> QED BY <3>1 DEF Script
  <2>7. Script(0) = c6 BY <2>8 DEF c5, c4, c3, c2, c1
  <2> QED BY <2>6, <2>7, <1>1
<1>2. ASSUME NEW a \in Seq(Wrong), ~HasLots(s) PROVE Laid(s, a)
  <2> DEFINE E == Entries
             W == Wrong
  <2>1. W \subseteq E BY DEF Entries
  <2>2. a \in Seq(W) OBVIOUS
  <2>3. \A i : ~InLots(s, i) BY <1>2 DEF InLots
  <2> HIDE DEF E, W
  <2>4. a \in Seq(E) /\ \A i \in 1 .. Len(a) : a[i] \in W BY <2>1, <2>2
  <2> QED BY <2>3, <2>4, <1>2 DEF Laid, E, W
<1>3. CASE s = 3
  <2> DEFINE lots == err_open_lots
             m == 2 * LAST_FD
  <2>1. lots \in Seq(Entries) /\ Len(lots) = m /\ \A i \in 1 .. m : lots[i] = Lots(i) BY LotsIs
  <2>2. Script(3) = lots
    <3>1. 3 \in Tests /\ 3 # 0 BY DEF Tests
    <3>2. Program[3] = lots BY DEF Program
    <3> QED BY <3>1, <3>2 DEF Script
  <2>3. m \in Nat BY LastFd
  <2>4. Base(3) = 0 /\ HasLots(3) BY DEF Base, HasLots
  <2>5. 0 + m = m /\ \A i \in 1 .. m : i - 0 = i BY <2>3
  <2>6. \A i \in 1 .. m : InLots(3, i) BY <2>3, <2>4 DEF InLots
  <2> HIDE DEF lots
  <2>7. Laid(3, lots) BY <2>1, <2>3, <2>4, <2>5, <2>6 DEF Laid
  <2> QED BY <2>2, <2>7, <1>3
<1>4. CASE s \in Tests \ {3}
  <2>1. ~HasLots(s) /\ s # 0 BY <1>4 DEF HasLots, Tests
  <2>2. Script(s) = Program[s] BY <2>1, <1>4 DEF Script
  <2>3. s \in {1, 2, 4, 5, 6, 7, 8} BY <1>4 DEF Tests
  <2>4. /\ Program[1] = err_neg_fd /\ Program[2] = err_big_fd /\ Program[4] = err_open
        /\ Program[5] = err_unopened /\ Program[6] = err_vidmap /\ Program[7] = err_stdin_out
        /\ Program[8] = err_syscall_num
    BY DEF Program
  <2>5. Program[s] \in Seq(Wrong) BY <2>3, <2>4, OthersAreWrong
  <2> QED BY <2>1, <2>2, <2>5, <1>2
<1>5. CASE s \in {-1, 9}
  <2>1. ~HasLots(s) /\ s # 0 /\ s \notin Tests BY <1>5 DEF HasLots, Tests
  <2>2. Script(s) = <<>> BY <2>1 DEF Script
  <2>3. <<>> \in Seq(Wrong) OBVIOUS
  <2> QED BY <2>1, <2>2, <2>3, <1>2
<1>6. s \in {-1, 0, 3, 9} \/ s \in Tests \ {3} BY DEF Tests
<1> QED BY <1>1, <1>3, <1>4, <1>5, <1>6

-----------------------------------------------------------------------------
(* The theorems about files *)

\* Where the tests are.
Where == select \in -1 .. 9 /\ at \in Nat

\* What an entry of a script may be.
LEMMA EntryIs ==
    ASSUME Where, at < Len(Script(select))
    PROVE  /\ IF InLots(select, at + 1) THEN Current = Lots((at + 1) - Base(select))
              ELSE Current \in Wrong
           /\ Current.call \in {"read", "write", "close", "close lots", "open", "open lots",
                                "vidmap", "number", "count"}
<1>1. Laid(select, Script(select)) BY ScriptLaid DEF Where
<1>2. Script(select) \in Seq(Entries) BY <1>1 DEF Laid
<1>3. at + 1 \in 1 .. Len(Script(select)) BY <1>2 DEF Where
<1>4. IF InLots(select, at + 1) THEN Current = Lots((at + 1) - Base(select)) ELSE Current \in Wrong
  <2>1. \A i \in 1 .. Len(Script(select)) :
           IF InLots(select, i) THEN Script(select)[i] = Lots(i - Base(select))
           ELSE Script(select)[i] \in Wrong
    BY <1>1 DEF Laid
  <2>2. Current = Script(select)[at + 1] BY DEF Current
  <2> DEFINE script == Script(select)
             next == at + 1
  <2>3. next \in 1 .. Len(script) BY <1>3
  <2>4. \A i \in 1 .. Len(script) :
           IF InLots(select, i) THEN script[i] = Lots(i - Base(select)) ELSE script[i] \in Wrong
    BY <2>1
  <2> HIDE DEF script, next
  <2>5. IF InLots(select, next) THEN script[next] = Lots(next - Base(select))
        ELSE script[next] \in Wrong
    BY <2>3, <2>4
  <2>6. Current = script[next] BY <2>2 DEF script, next
  <2>7. next = at + 1 BY DEF next
  <2>8. CASE InLots(select, at + 1)
    <3>1. script[next] = Lots(next - Base(select)) BY <2>5, <2>7, <2>8
    <3>2. Lots(next - Base(select)) = Lots((at + 1) - Base(select)) BY DEF next
    <3>3. Current = Lots((at + 1) - Base(select)) BY <2>6, <3>1, <3>2, Zenon
    <3> QED BY <2>8, <3>3, Zenon
  <2>9. CASE ~InLots(select, at + 1)
    <3>1. script[next] \in Wrong BY <2>5, <2>7, <2>9
    <3>2. Current \in Wrong BY <2>6, <3>1
    <3> QED BY <2>9, <3>2, Zenon
  <2> QED BY <2>8, <2>9
<1>5. \A i : Lots(i).call \in {"open lots", "close lots", "count"} BY DEF Lots, CallOf
<1>6. \A e \in Wrong : e.call \in {"read", "write", "close", "open", "vidmap", "number"}
  BY DEF Wrong
<1> QED BY <1>4, <1>5, <1>6

\* Whoever runs, a step is one of those on the descriptors.
LEMMA StepIs ==
    ASSUME FilesInv, Where, [TestNext]_allVars
    PROVE  FilesStep /\ Where'
<1>0. Typed BY DEF FilesInv
<1>1. CASE Others
  <2>1. select' = select /\ at' = at BY <1>1 DEF Others, testVars
  <2>2. FilesStep BY <1>0, <1>1, NextSteps DEF Others
  <2> QED BY <2>1, <2>2 DEF Where
<1>2. CASE TestStep
  <2>1. Perform(Current) /\ at < Len(Script(select)) /\ select' = select /\ at' = at + 1
    BY <1>2 DEF TestStep
  <2>2. Current.call \in {"read", "write", "close", "close lots", "open", "open lots",
                          "vidmap", "number", "count"}
    BY <2>1, EntryIs
  <2>3. FilesStep BY <1>0, <2>1, <2>2, PerformSteps
  <2> QED BY <2>1, <2>3 DEF Where
<1>3. CASE Finish
  <2>1. Halt /\ select' = -1 /\ at' = 0 BY <1>3 DEF Finish
  <2> QED BY <2>1 DEF Where, FilesStep
<1>4. ASSUME NEW s \in 0 .. 9, Start(s) PROVE FilesStep /\ Where'
  <2>1. Execute /\ select' = s /\ at' = at BY <1>4 DEF Start
  <2> QED BY <2>1 DEF Where, FilesStep
<1>5. CASE UNCHANGED allVars
  <2>1. UNCHANGED vars /\ select' = select /\ at' = at BY <1>5 DEF allVars, testVars
  <2>2. UNCHANGED <<length, running, file_array, listed, rtc_scale, result>> /\ crashed' = crashed
    BY <2>1 DEF vars
  <2>3. crashed' \in BOOLEAN BY <2>2, <1>0 DEF Typed
  <2> QED BY <2>1, <2>2, <2>3 DEF FilesStep, Where
<1> QED BY <1>1, <1>2, <1>3, <1>4, <1>5 DEF TestNext

\* The invariant of the descriptors, under any programs and the tests.
THEOREM DescriptorsInvariant == TestSpec => [](FilesInv /\ Where)
<1>1. TestInit => FilesInv /\ Where
  <2> SUFFICES ASSUME TestInit PROVE FilesInv /\ Where OBVIOUS
  <2>1. Init /\ select = -1 /\ at = 0 BY DEF TestInit
  <2> QED BY <2>1, FilesInit DEF Where
<1>2. FilesInv /\ Where /\ [TestNext]_allVars => FilesInv' /\ Where' BY StepIs, FilesKept
<1> QED BY <1>1, <1>2, PTL DEF TestSpec

\* For every image, number of descriptors and size of the reads, positions,
\* rates and lists keep their types, whatever programs follow each other.
THEOREM DescriptorTypes == TestSpec => []TypeOK
<1>1. FilesInv => TypeOK
  <2> SUFFICES ASSUME FilesInv PROVE TypeOK OBVIOUS
  <2>1. Typed BY DEF FilesInv
  <2>2. \A fd \in Fds : file_array[fd] \in Descriptors BY <2>1 DEF Typed
  <2>3. ASSUME NEW fd \in Fds
        PROVE  /\ file_array[fd].op \in {"none", "stdin", "stdout", "file", "dir", "rtc"}
               /\ file_array[fd].inode \in Inodes /\ file_array[fd].fpos \in Nat
               /\ file_array[fd].open \in BOOLEAN
    BY <2>2 DEF Descriptors, Ops
  <2> QED BY <2>1, <2>3 DEF TypeOK, Typed, Image
<1> QED BY <1>1, DescriptorsInvariant, PTL

\* What is read from the start of a file is the file, through any number of
\* blocks, to its end or the count: every program is loaded as it is on the disk.
THEOREM FilesAreRead == TestSpec => []ReadsFromStart
<1>1. FilesInv => ReadsFromStart BY DEF FilesInv
<1> QED BY <1>1, DescriptorsInvariant, PTL

\* However opens, closes and reads of any number of descriptors are mixed, one on
\* the directory gives each name once and in order.
THEOREM DirectoryIsListed == TestSpec => []DirectoryInOrder
<1>1. FilesInv => DirectoryInOrder
  <2> SUFFICES ASSUME FilesInv, NEW fd \in Fds, file_array[fd].open, file_array[fd].op = "dir"
               PROVE  /\ listed[fd] = [i \in 1 .. Len(listed[fd]) |-> i - 1]
                      /\ (result.call = "dread" /\ result.fd = fd /\ result.ret = 0)
                            => Len(listed[fd]) = INODES + 2
    BY DEF DirectoryInOrder
  <2>1. Listing /\ Exhausted /\ Lists(fd) BY DEF FilesInv, Lists
  <2> QED BY <2>1 DEF Listing, Exhausted
<1> QED BY <1>1, DescriptorsInvariant, PTL

-----------------------------------------------------------------------------
(* The tests pass *)

\* What is open while the i-th call of err_open_lots is due, from descriptor 2 on.
OpenAt(i, fd) == IF i <= LAST_FD THEN fd <= i ELSE fd > i - LAST_FD
AllClosed == \A fd \in Fds : fd >= 2 => ~file_array[fd].open
AtLots(i) ==
    /\ \A fd \in Fds : fd >= 2 => (file_array[fd].open <=> OpenAt(i, fd))
    /\ cnt = IF i <= LAST_FD THEN 0 ELSE 1
Progress ==
    IF InLots(select, at + 1) THEN AtLots((at + 1) - Base(select))
    ELSE AllClosed /\ (at < Base(select) => cnt = 0)

TestInv ==
    /\ at <= Len(Script(select))
    /\ select = -1 => at = 0 /\ cnt = 0
    /\ fail = {}
    /\ select = -1 /\ ~running => AllClosed
    /\ select >= 0 => Progress

\* The names the tests open that no file has: each differs from every name of the
\* image before both end.
LEMMA NotFound ==
    ASSUME NEW fname \in {helloo, shel, <<>>}
    PROVE  read_dentry_by_name(fname) = -1
<1>1. ASSUME NEW n \in Names PROVE ~strncmp(fname, filename(n))
  <2> DEFINE CharAt(s, i) == IF i <= Len(s) THEN s[i] ELSE "nul"
             name == filename(n)
  <2>1. n \in Nat BY <1>1, Numbers
  <2>2. name \in {<<".">>, <<"r", "t", "c">>, <<"s", "h", "e", "l", "l">>,
                  <<"h", "e", "l", "l", "o">>, <<"other">>}
    <3>1. n = 0 \/ n = 1 \/ n = 2 \/ n = 3 \/ ~(n < 4) BY <2>1
    <3>2. Len(FileNames) = 4 BY DEF FileNames
    <3> QED BY <3>1, <3>2 DEF filename, FileNames
  <2> HIDE DEF name
  \* The first place at which they differ is before the end of both.
  <2>3. \E i \in 1 .. 6 : /\ CharAt(fname, i) # CharAt(name, i)
                          /\ \A j \in 1 .. (i - 1) : CharAt(fname, j) # "nul"
    <3>1. CASE fname = <<>>
      <4>1. CharAt(fname, 1) = "nul" BY <3>1
      <4>2. CharAt(name, 1) \in {".", "r", "s", "h", "other"} BY <2>2
      <4>3. CharAt(fname, 1) # CharAt(name, 1) BY <4>1, <4>2
      <4>4. 1 \in 1 .. 6 /\ \A j \in 1 .. (1 - 1) : CharAt(fname, j) # "nul" OBVIOUS
      <4> HIDE DEF CharAt
      <4> QED BY <4>3, <4>4
    <3>2. CASE fname = shel
      <4>1. /\ CharAt(fname, 1) = "s" /\ CharAt(fname, 2) = "h" /\ CharAt(fname, 3) = "e"
            /\ CharAt(fname, 4) = "l" /\ CharAt(fname, 5) = "nul"
        BY <3>2 DEF shel
      <4>2. CharAt(name, 1) # "s" \/ CharAt(name, 5) = "l" BY <2>2
      <4> HIDE DEF CharAt
      <4>3. \A j \in 1 .. 4 : CharAt(fname, j) # "nul" BY <4>1
      <4> QED BY <4>1, <4>2, <4>3
    <3>3. CASE fname = helloo
      <4>1. /\ CharAt(fname, 1) = "h" /\ CharAt(fname, 2) = "e" /\ CharAt(fname, 3) = "l"
            /\ CharAt(fname, 4) = "l" /\ CharAt(fname, 5) = "o" /\ CharAt(fname, 6) = "o"
        BY <3>3 DEF helloo
      <4>2. CharAt(name, 1) # "h" \/ CharAt(name, 6) = "nul" BY <2>2
      <4> HIDE DEF CharAt
      <4>3. \A j \in 1 .. 5 : CharAt(fname, j) # "nul" BY <4>1
      <4> QED BY <4>1, <4>2, <4>3
    <3> QED BY <3>1, <3>2, <3>3
  <2> HIDE DEF CharAt
  <2>4. strncmp(fname, name) = \A i \in 1 .. FILE_NAME_SIZE :
            CharAt(fname, i) = CharAt(name, i)
            \/ \E j \in 1 .. (i - 1) : CharAt(fname, j) = "nul" /\ CharAt(name, j) = "nul"
    BY Zenon DEF strncmp, CharAt
  <2>5. \A i \in 1 .. 6 : i \in 1 .. FILE_NAME_SIZE BY DEF FILE_NAME_SIZE
  <2>6. ~strncmp(fname, name) BY <2>3, <2>4, <2>5
  <2> QED BY <2>6 DEF name
<1>2. Found(fname) = {} BY <1>1 DEF Found
<1> QED BY <1>2 DEF read_dentry_by_name

\* The name of the directory is found at the first entry.
LEMMA DotFound == read_dentry_by_name(Dot) = 0
<1>1. strncmp(Dot, filename(0)) BY DEF strncmp, Dot
<1>2. 0 \in Names BY FilesAssumption DEF Names
<1>3. 0 \in Found(Dot) BY <1>1, <1>2 DEF Found
<1>4. \A m \in Found(Dot) : m \in Nat BY Numbers DEF Found
<1>5. \A m \in Found(Dot) : 0 <= m BY <1>4
<1>6. \A n \in Found(Dot) : (\A m \in Found(Dot) : n <= m) => n = 0 BY <1>3, <1>4
<1>7. (CHOOSE n \in Found(Dot) : \A m \in Found(Dot) : n <= m) = 0 BY <1>3, <1>5, <1>6
<1> QED BY <1>3, <1>7 DEF read_dentry_by_name

\* What opens, closes and refusals leave open.
Opens(fd) == file_array[fd].open
SameOpens == \A fd \in Fds : fd >= 2 => (file_array'[fd].open <=> file_array[fd].open)

\* An open with a descriptor free opens the lowest one.
LEMMA OpenOpens ==
    ASSUME Typed, NEW n \in Names, n # 1, system_open(n)
    PROVE  /\ FreeFds = {} => result'.ret = -1 /\ SameOpens
           /\ FreeFds # {} => /\ result'.ret = FirstFree
                              /\ \A fd \in Fds : Opens(fd)' <=> (Opens(fd) \/ fd = FirstFree)
<1>0. file_array \in [Fds -> Descriptors] BY DEF Typed
<1>1. CASE FreeFds = {}
  <2>1. filetype(n) # "rtc"
    <3>1. n \in Int BY FilesAssumption DEF Names
    <3> QED BY <3>1 DEF filetype
  <2>2. Return("open", -1, -1) /\ file_array' = file_array BY <1>1, <2>1 DEF system_open
  <2>3. result'.ret = -1 BY <2>2, ReturnReplies DEF Reply
  <2> QED BY <1>1, <2>2, <2>3 DEF SameOpens
<1>2. CASE FreeFds # {}
  <2> DEFINE fd == FirstFree
             e == Opened(fd, n)
  <2>1. fd \in Fds BY <1>2, FirstFreeIs DEF FreeFds
  <2>2. Return("open", -1, fd) /\ file_array' = [file_array EXCEPT ![fd] = e]
    BY <1>2 DEF system_open
  <2>3. e.open = TRUE BY DEF Opened
  <2>4. result'.ret = fd BY <2>2, ReturnReplies DEF Reply
  <2> HIDE DEF e, fd
  <2>5. ASSUME NEW d \in Fds PROVE Opens(d)' <=> (Opens(d) \/ d = fd)
    <3>1. d = fd => file_array'[d] = e BY <1>0, <2>2
    <3>2. d # fd => file_array'[d] = file_array[d] BY <1>0, <2>2
    <3> QED BY <3>1, <3>2, <2>3, Zenon DEF Opens
  <2> QED BY <1>2, <2>4, <2>5 DEF fd
<1> QED BY <1>1, <1>2

\* What is refused changes nothing.
LEMMA RejectRefuses ==
    ASSUME NEW call, NEW fd, NEW allowed, Reject(call, fd, allowed)
    PROVE  result'.ret = -1 /\ file_array' = file_array /\ ~allowed
BY ReturnReplies DEF Reject, Reply

\* With nothing open from descriptor 2 on, the calls of the other tests fail.
LEMMA WrongRefused ==
    ASSUME Typed, AllClosed, NEW c \in Wrong, Perform(c)
    PROVE  result'.ret = -1 /\ file_array' = file_array
<1>0. LAST_FD \in Nat /\ FILE_ARRAY_SIZE = LAST_FD + 1 /\ LAST_FD >= 2 BY LastFd
<1>1. Fds = 0 .. LAST_FD BY <1>0 DEF Fds
<1>2. NEG_FD < 0 /\ NEG_FD \in Int /\ BIG_FD \in Int /\ BIG_FD > 2 BY SMT DEF NEG_FD, BIG_FD
\* The checks of a descriptor that is closed or out of range.
<1>3. ASSUME NEW first \in {0, 1, 2},
             NEW fd \in {NEG_FD, BIG_FD} \cup 2 .. LAST_FD, Passes(fd, first)
      PROVE  fd = FILE_ARRAY_SIZE
  <2>1. fd \in Fds => fd >= 2 BY <1>1, <1>2, <1>3 DEF Passes
  <2> QED BY <2>1, <1>3 DEF Passes, AllClosed
<1>4. ASSUME NEW n \in Sizes, NEW fd PROVE fread(fd, n) => fd \in Fds /\ ReadPasses(fd)
  BY DEF fread
<1>5. ASSUME NEW fd PROVE dread(fd) \/ DeviceRead(fd) => fd \in Fds /\ ReadPasses(fd)
  BY DEF dread, DeviceRead
<1>6. ASSUME NEW fd, NEW freq \in Freqs
      PROVE  DeviceWrite(fd) \/ WriteNothing(fd) \/ rtc_write(fd, freq) => fd \in Fds /\ WritePasses(fd)
  BY DEF DeviceWrite, WriteNothing, rtc_write
<1>7. FILE_ARRAY_SIZE \notin Fds BY <1>0, <1>1
<1>8. CASE c.call = "read"
  <2>1. c.arg \in {NEG_FD, BIG_FD, 1} \cup 2 .. LAST_FD BY <1>8 DEF Wrong
  <2>2. ~(c.arg \in Fds /\ ReadPasses(c.arg))
    <3>1. CASE c.arg = 1 BY <3>1 DEF ReadPasses
    <3>2. CASE c.arg # 1 BY <3>2, <2>1, <1>3, <1>7 DEF ReadPasses
    <3> QED BY <3>1, <3>2
  <2>3. Read(c.arg) BY <1>8 DEF Perform
  <2>4. Reject("read", c.arg, ReadPasses(c.arg)) BY <2>2, <2>3, <1>4, <1>5 DEF Read
  <2> QED BY <2>4, RejectRefuses
<1>9. CASE c.call = "write"
  <2>1. c.arg \in {NEG_FD, BIG_FD, 0} \cup 2 .. LAST_FD BY <1>9 DEF Wrong
  <2>2. ~(c.arg \in Fds /\ WritePasses(c.arg))
    <3>1. CASE c.arg = 0 BY <3>1 DEF WritePasses, Passes
    <3>2. CASE c.arg # 0 BY <3>2, <2>1, <1>3, <1>7 DEF WritePasses
    <3> QED BY <3>1, <3>2
  <2>3. Write(c.arg) BY <1>9 DEF Perform
  <2>4. Reject("write", c.arg, WritePasses(c.arg))
    <3>1. ~DeviceWrite(c.arg) /\ ~WriteNothing(c.arg) BY <2>2 DEF DeviceWrite, WriteNothing
    <3>2. \A freq \in Freqs : ~rtc_write(c.arg, freq) BY <2>2 DEF rtc_write
    <3> QED BY <3>1, <3>2, <2>3 DEF Write
  <2> QED BY <2>4, RejectRefuses
<1>10. CASE c.call = "close"
  <2>1. c.arg \in {NEG_FD, BIG_FD} \cup 0 .. LAST_FD BY <1>10 DEF Wrong
  <2>2. ~(c.arg \in Fds /\ Passes(c.arg, 2))
    <3>1. CASE c.arg \in {0, 1} BY <3>1 DEF Passes
    <3>2. CASE c.arg \notin {0, 1}
      <4>1. c.arg \in {NEG_FD, BIG_FD} \cup 2 .. LAST_FD BY <2>1, <3>2
      <4> QED BY <4>1, <1>3, <1>7
    <3> QED BY <3>1, <3>2
  <2>3. Close(c.arg) BY <1>10 DEF Perform
  <2>4. Reject("close", c.arg, Passes(c.arg, 2)) BY <2>2, <2>3 DEF Close, system_close
  <2> QED BY <2>4, RejectRefuses
<1>11. CASE c.call = "open"
  <2>1. c.arg \in {helloo, shel, <<>>} BY <1>11 DEF Wrong
  <2>2. read_dentry_by_name(c.arg) = -1 BY <2>1, NotFound
  <2>3. Open(c.arg) BY <1>11 DEF Perform
  <2>4. Reject("open", -1, FALSE) BY <2>2, <2>3 DEF Open
  <2> QED BY <2>4, RejectRefuses
<1>12. ASSUME Answer(-1) PROVE result'.ret = -1 /\ file_array' = file_array
  BY <1>12, ReturnReplies DEF Answer, Reply
<1>13. CASE c.call = "vidmap"
  <2>1. c.arg \in {0, FOUR_MB} BY <1>13 DEF Wrong
  <2>2. c.arg < USER_PROGRAM_MEM BY <2>1, SMT DEF USER_PROGRAM_MEM, FOUR_MB
  <2>3. Vidmap(c.arg) BY <1>13 DEF Perform
  <2>4. Answer(-1) BY <2>2, <2>3 DEF Vidmap
  <2> QED BY <2>4, <1>12
<1>14. CASE c.call = "number"
  <2>1. Number(c.arg) BY <1>14 DEF Perform
  <2>2. Answer(-1) BY <2>1 DEF Number
  <2> QED BY <2>2, <1>12
<1>15. c.call \in {"read", "write", "close", "open", "vidmap", "number"} BY DEF Wrong
<1> QED BY <1>8, <1>9, <1>10, <1>11, <1>13, <1>14, <1>15

\* A close closes one descriptor.
LEMMA CloseCloses ==
    ASSUME Typed, NEW fd \in Fds, Opens(fd), fd >= 2, Close(fd)
    PROVE  \A d \in Fds : Opens(d)' <=> (Opens(d) /\ d # fd)
<1>0. file_array \in [Fds -> Descriptors] BY DEF Typed
<1>1. Passes(fd, 2) BY DEF Passes, Opens
<1>2. ~Reject("close", fd, Passes(fd, 2)) BY <1>1 DEF Reject
<1>3. system_close(fd) BY <1>2 DEF Close
<1> DEFINE e == [file_array[fd] EXCEPT !.open = FALSE]
<1>4. e.open = FALSE BY <1>0, ClosedType
<1>5. file_array' = [file_array EXCEPT ![fd] = e] BY <1>3 DEF system_close
<1> HIDE DEF e
<1> SUFFICES ASSUME NEW d \in Fds PROVE Opens(d)' <=> (Opens(d) /\ d # fd) OBVIOUS
<1>6. d = fd => file_array'[d] = e BY <1>0, <1>5
<1>7. d # fd => file_array'[d] = file_array[d] BY <1>0, <1>5
<1> QED BY <1>4, <1>6, <1>7, Zenon DEF Opens

\* What the step counts.
Counted == cnt' = IF Current.call = "open lots" /\ result'.ret = -1 THEN cnt + 1 ELSE cnt

\* A call of err_open_lots brings about what the next one finds.
LEMMA LotsStep ==
    ASSUME Typed, NEW i \in 1 .. (2 * LAST_FD), AtLots(i), Current = Lots(i),
           Perform(Current), Counted
    PROVE  /\ i < 2 * LAST_FD => AtLots(i + 1)'
           /\ i = 2 * LAST_FD => AllClosed'
           /\ ~Expects(Current.call)
           /\ Current.call = "count" => cnt = Current.arg
<1> DEFINE L == LAST_FD
<1>0. L \in Nat /\ L >= 2 BY LastFd
<1>1. Fds = 0 .. L
  <2>1. FILE_ARRAY_SIZE - 1 = LAST_FD BY DEF LAST_FD
  <2> QED BY <2>1 DEF Fds
<1>2. \A fd \in Fds : fd >= 2 => (Opens(fd) <=> OpenAt(i, fd)) BY DEF AtLots, Opens
<1>3. FreeFds = {fd \in Fds : fd >= 2 /\ ~OpenAt(i, fd)} BY <1>2 DEF FreeFds, Opens
<1>4. cnt = IF i <= L THEN 0 ELSE 1 BY DEF AtLots
<1>5. /\ i <= L => \A k \in Fds : OpenAt(i, k) <=> k <= i
      /\ ~(i <= L) => \A k \in Fds : OpenAt(i, k) <=> k > i - L
  BY DEF OpenAt
<1>6. /\ i + 1 <= L => \A k \in Fds : OpenAt(i + 1, k) <=> k <= i + 1
      /\ ~(i + 1 <= L) => \A k \in Fds : OpenAt(i + 1, k) <=> k > (i + 1) - L
  BY DEF OpenAt
<1>7. Lots(i) = IF i <= L THEN CallOf(3, "open lots", Dot)
                ELSE IF i < 2 * L THEN CallOf(3, "close lots", i - L + 1)
                ELSE CallOf(3, "count", 1)
  BY DEF Lots
<1>8. /\ \A arg : CallOf(3, "open lots", arg).call = "open lots"
      /\ \A arg : CallOf(3, "open lots", arg).arg = arg
      /\ \A arg : CallOf(3, "close lots", arg).call = "close lots"
      /\ \A arg : CallOf(3, "close lots", arg).arg = arg
  BY DEF CallOf
<1>9. AtLots(i + 1)' = (/\ \A fd \in Fds : fd >= 2 => (Opens(fd)' <=> OpenAt(i + 1, fd))
                        /\ cnt' = IF i + 1 <= L THEN 0 ELSE 1)
  BY DEF AtLots, Opens, OpenAt
<1> HIDE DEF L
<1>10. i \in Nat /\ 1 <= i /\ i <= 2 * L BY <1>0 DEF L
<1>11. CASE i <= L
  <2>1. Current = CallOf(3, "open lots", Dot) BY <1>7, <1>11
  <2>2. Current.call = "open lots" /\ Current.arg = Dot BY <2>1, <1>8
  <2>10. ~Expects(Current.call) /\ Current.call # "count" BY <2>2 DEF Expects
  <2>3. Open(Dot) BY <2>2 DEF Perform
  <2>4. system_open(0) BY <2>3, DotFound DEF Open
  <2>5. 0 \in Names /\ 0 # 1 BY FilesAssumption DEF Names
  <2>6. /\ FreeFds = {} => result'.ret = -1 /\ SameOpens
        /\ FreeFds # {} => /\ result'.ret = FirstFree
                           /\ \A fd \in Fds : Opens(fd)' <=> (Opens(fd) \/ fd = FirstFree)
    BY <2>4, <2>5, OpenOpens
  <2>7. i < 2 * L BY <1>0, <1>10, <1>11
  <2>8. CASE i < L
    <3>1. i + 1 \in FreeFds BY <1>0, <1>1, <1>3, <1>5, <1>10, <2>8
    <3>2. \A fd \in FreeFds : fd \in Nat /\ fd >= i + 1 BY <1>1, <1>3, <1>5, <1>10, <1>11
    <3>3. FirstFree = i + 1
      <4>1. FirstFree \in FreeFds /\ \A e \in FreeFds : FirstFree <= e BY <3>1, FirstFreeIs
      <4> QED BY <3>1, <3>2, <4>1, <1>10
    <3>4. result'.ret = i + 1 /\ \A fd \in Fds : Opens(fd)' <=> (Opens(fd) \/ fd = i + 1)
      BY <2>6, <3>1, <3>3
    <3>5. cnt' = 0
      <4>1. result'.ret # -1 BY <3>4, <1>10
      <4> QED BY <4>1, <1>4, <1>11 DEF Counted
    <3>6. \A fd \in Fds : fd >= 2 => (Opens(fd)' <=> OpenAt(i + 1, fd))
      <4> SUFFICES ASSUME NEW fd \in Fds, fd >= 2 PROVE Opens(fd)' <=> OpenAt(i + 1, fd) OBVIOUS
      <4>1. Opens(fd)' <=> (OpenAt(i, fd) \/ fd = i + 1) BY <1>2, <3>4
      <4>2. (OpenAt(i, fd) <=> fd <= i) /\ (OpenAt(i + 1, fd) <=> fd <= i + 1)
        BY <1>0, <1>5, <1>6, <1>10, <2>8
      <4>3. (fd <= i \/ fd = i + 1) <=> fd <= i + 1 BY <1>0, <1>1, <1>10
      <4> QED BY <4>1, <4>2, <4>3, Zenon
    <3>7. i + 1 <= L BY <1>0, <1>10, <2>8
    <3>8. AtLots(i + 1)' BY <1>9, <3>5, <3>6, <3>7
    <3> QED BY <3>8, <2>10, <2>7 DEF L
  <2>9. CASE i = L
    <3>1. FreeFds = {} BY <1>0, <1>1, <1>3, <1>5, <2>9
    <3>2. result'.ret = -1 /\ SameOpens BY <2>6, <3>1
    <3>3. cnt' = 1
      <4>1. cnt' = cnt + 1 BY <2>2, <3>2 DEF Counted
      <4> QED BY <4>1, <1>4, <1>11
    <3>4. \A fd \in Fds : fd >= 2 => (Opens(fd)' <=> OpenAt(i + 1, fd))
      <4> SUFFICES ASSUME NEW fd \in Fds, fd >= 2 PROVE Opens(fd)' <=> OpenAt(i + 1, fd) OBVIOUS
      <4>1. Opens(fd)' <=> OpenAt(i, fd) BY <1>2, <3>2 DEF SameOpens, Opens
      <4>2. OpenAt(i, fd) /\ OpenAt(i + 1, fd) BY <1>0, <1>1, <1>5, <1>6, <2>9
      <4> QED BY <4>1, <4>2
    <3>5. ~(i + 1 <= L) BY <1>0, <2>9
    <3>6. AtLots(i + 1)' BY <1>9, <3>3, <3>4, <3>5
    <3> QED BY <3>6, <2>10, <2>7 DEF L
  <2> QED BY <1>0, <1>10, <1>11, <2>8, <2>9
<1>12. CASE L < i /\ i < 2 * L
  <2> DEFINE fd0 == i - L + 1
  <2>1. Current = CallOf(3, "close lots", fd0)
    <3>1. ~(i <= L) /\ i < 2 * L BY <1>0, <1>10, <1>12
    <3> QED BY <1>7, <3>1, Zenon
  <2>2. Current.call = "close lots" /\ Current.arg = fd0 BY <2>1, <1>8
  <2>12. ~Expects(Current.call) /\ Current.call # "count" BY <2>2 DEF Expects
  <2>3. fd0 \in Fds /\ fd0 >= 2 BY <1>0, <1>1, <1>10, <1>12
  <2>4. OpenAt(i, fd0)
    <3>1. ~(i <= L) /\ fd0 > i - L BY <1>0, <1>10, <1>12
    <3> HIDE DEF fd0
    <3> QED BY <3>1, <2>3, <1>5
  <2>5. Opens(fd0) BY <1>2, <2>3, <2>4
  <2>6. Close(fd0) BY <2>2 DEF Perform
  <2>7. \A d \in Fds : Opens(d)' <=> (Opens(d) /\ d # fd0)
    <3> HIDE DEF fd0
    <3> QED BY <2>3, <2>5, <2>6, CloseCloses
  <2>8. cnt' = 1
    <3>1. cnt = 1 BY <1>4, <1>0, <1>10, <1>12
    <3>2. Current.call # "open lots" BY <2>2
    <3> QED BY <3>1, <3>2 DEF Counted
  <2>9. \A fd \in Fds : fd >= 2 => (Opens(fd)' <=> OpenAt(i + 1, fd))
    <3> SUFFICES ASSUME NEW fd \in Fds, fd >= 2 PROVE Opens(fd)' <=> OpenAt(i + 1, fd) OBVIOUS
    <3>1. Opens(fd)' <=> (OpenAt(i, fd) /\ fd # fd0) BY <1>2, <2>7
    <3>2. (OpenAt(i, fd) <=> fd > i - L) /\ (OpenAt(i + 1, fd) <=> fd > (i + 1) - L)
      BY <1>0, <1>5, <1>6, <1>10, <1>12
    <3>3. (fd > i - L /\ fd # fd0) <=> fd > (i + 1) - L BY <1>0, <1>1, <1>10, <1>12
    <3> QED BY <3>1, <3>2, <3>3, Zenon
  <2>10. ~(i + 1 <= L) /\ i < 2 * L BY <1>0, <1>10, <1>12
  <2>11. AtLots(i + 1)' BY <1>9, <2>8, <2>9, <2>10
  <2> QED BY <2>12, <2>10, <2>11 DEF L
<1>13. CASE i = 2 * L
  <2>1. ~(i <= L) /\ ~(i < 2 * L) BY <1>0, <1>13
  <2>2. Current = CallOf(3, "count", 1) BY <1>7, <2>1
  <2>3. Current.call = "count" /\ Current.arg = 1 BY <2>2 DEF CallOf
  <2>4. file_array' = file_array BY <2>3 DEF Perform, vars
  <2>5. cnt = 1 BY <1>4, <2>1
  <2>6. \A fd \in Fds : ~OpenAt(i, fd) BY <1>0, <1>1, <1>5, <1>13
  <2>7. AllClosed' BY <1>2, <2>4, <2>6 DEF AllClosed, Opens
  <2> QED BY <2>1, <2>3, <2>5, <2>7 DEF Expects, L
<1> QED BY <1>0, <1>10, <1>11, <1>12, <1>13
\* A program that halts closes what it opened.
LEMMA HaltCloses == ASSUME Typed, Halt PROVE AllClosed'
<1> SUFFICES ASSUME NEW fd \in Fds, fd >= 2 PROVE ~file_array'[fd].open BY DEF AllClosed
<1>1. file_array[fd] \in Descriptors BY DEF Typed
<1> DEFINE e == [file_array[fd] EXCEPT !.open = FALSE]
<1>2. e.open = FALSE BY <1>1, ClosedType
<1>3. file_array'[fd] = e BY DEF Halt
<1> HIDE DEF e
<1> QED BY <1>2, <1>3
\* While no program runs, or the tests are starting, nothing is left open.
LEMMA ClosedAgain ==
    ASSUME Typed, FilesStep, ~running => AllClosed
    PROVE  ~running' => AllClosed'
<1>1. CASE Execute BY <1>1 DEF Execute
<1>2. CASE Halt BY <1>2, HaltCloses
<1>3. CASE /\ \E n \in Names : system_open(n) \/ ExecuteFile(n)
  BY <1>3 DEF system_open, ExecuteFile, Call
<1>4. CASE \E fd \in Fds : system_close(fd) \/ dread(fd) \/ \E n \in Sizes : fread(fd, n)
  <2>1. running' = running /\ running BY <1>4 DEF system_close, dread, fread, Call
  <2> QED BY <2>1
<1>5. CASE running' = running /\ file_array' = file_array BY <1>5 DEF AllClosed
<1>6. \/ running' = running /\ file_array' = file_array
      \/ Execute \/ Halt
      \/ \E n \in Names : system_open(n) \/ ExecuteFile(n)
      \/ \E fd \in Fds : system_close(fd) \/ dread(fd) \/ \E n \in Sizes : fread(fd, n)
  BY DEF FilesStep
<1> QED BY <1>1, <1>2, <1>3, <1>4, <1>5, <1>6

\* The tests start in a PCB in which nothing is open.
LEMMA TestStarts ==
    ASSUME Typed, TestInv, NEW s \in 0 .. 9, Start(s)
    PROVE  TestInv'
<1>0. /\ select = -1 /\ at = 0 /\ cnt = 0 /\ fail = {} /\ AllClosed
      /\ select' = s /\ at' = at /\ cnt' = cnt /\ fail' = fail
  BY DEF Start, TestInv, Execute
<1>1. AllClosed'
  <2>0. file_array \in [Fds -> Descriptors] BY DEF Typed
  <2>1. \A fd \in Fds : fd >= 2 => file_array'[fd] = file_array[fd]
    <3> DEFINE e0 == [op |-> "stdin", inode |-> 0, fpos |-> 0, open |-> TRUE]
               e1 == [op |-> "stdout", inode |-> 0, fpos |-> 0, open |-> TRUE]
    <3>1. file_array' = [file_array EXCEPT ![0] = e0, ![1] = e1] BY DEF Start, Execute
    <3> HIDE DEF e0, e1
    <3>2. \A fd \in Fds : fd # 0 /\ fd # 1 => file_array'[fd] = file_array[fd] BY <2>0, <3>1
    <3> QED BY <3>2
  <2> QED BY <1>0, <2>1 DEF AllClosed
<1>2. Laid(s, Script(s)) BY ScriptLaid
<1>3. Script(select)' = Script(s) BY <1>0 DEF Script
<1>4. Len(Script(s)) \in Nat BY <1>2 DEF Laid
<1>5. at' <= Len(Script(select))' BY <1>0, <1>3, <1>4
<1>6. Progress'
  <2>1. CASE InLots(s, 1)
    <3>1. Base(s) = 0 BY <2>1, LastFd DEF InLots, Base, HasLots
    <3>2. \A fd \in Fds : fd >= 2 => ~OpenAt(1, fd) BY LastFd DEF OpenAt, Fds
    <3>3. AtLots(1)' BY <1>0, <1>1, <3>2, LastFd DEF AtLots, AllClosed
    <3> QED BY <1>0, <2>1, <3>1, <3>3 DEF Progress
  <2>2. CASE ~InLots(s, 1) BY <1>0, <1>1, <2>2 DEF Progress
  <2> QED BY <2>1, <2>2
<1> QED BY <1>0, <1>5, <1>6 DEF TestInv
\* The next call due is the j-th of err_open_lots.
LotsNext(j) ==
    /\ \A fd \in Fds : fd >= 2 => (file_array'[fd].open <=> OpenAt(j, fd))
    /\ cnt' = IF j <= LAST_FD THEN 0 ELSE 1

\* A call of the tests is answered as they expect.
LEMMA TestRuns ==
    ASSUME Typed, Where, TestInv, TestStep
    PROVE  TestInv'
<1>0. /\ select \in 0 .. 9 /\ at \in Nat /\ at < Len(Script(select))
      /\ select' = select /\ at' = at + 1 /\ Perform(Current) /\ Counted
  <2>1. select >= 0 /\ at < Len(Script(select)) /\ select' = select /\ at' = at + 1
        /\ Perform(Current)
    BY DEF TestStep
  <2>2. Counted BY DEF TestStep, Counted
  <2>3. select \in 0 .. 9 /\ at \in Nat BY <2>1 DEF Where
  <2> QED BY <2>1, <2>2, <2>3
<1>1. /\ fail = {} /\ Progress BY <1>0 DEF TestInv
<1>2. /\ fail' = IF \/ Expects(Current.call) /\ result'.ret # -1
                    \/ Current.call = "count" /\ cnt # Current.arg
                 THEN fail \cup {Current.test} ELSE fail
  BY DEF TestStep
<1>3. Script(select)' = Script(select) BY <1>0 DEF Script
<1>4. Laid(select, Script(select)) BY <1>0, ScriptLaid
<1>5. Len(Script(select)) \in Nat BY <1>4 DEF Laid
<1>6. at' <= Len(Script(select))' BY <1>0, <1>3, <1>5
<1>7. Base(select) \in Nat BY DEF Base
<1>8. LAST_FD \in Nat /\ LAST_FD >= 2 BY LastFd
<1> DEFINE B == Base(select)
<1>9. /\ InLots(select, at + 2) => (Progress' <=> LotsNext((at + 2) - B))
      /\ ~InLots(select, at + 2) => (Progress' <=> (AllClosed' /\ (at + 1 < B => cnt' = 0)))
  <2>1. at' + 1 = at + 2 /\ at' = at + 1 BY <1>0
  <2>2. Base(select)' = B BY <1>0 DEF Base
  <2>3. InLots(select, at + 1)' <=> InLots(select, at + 2) BY <1>0, <2>1 DEF InLots, Base, HasLots
  <2>4. AtLots((at + 1) - Base(select))' <=> LotsNext((at + 2) - B)
    BY <2>1, <2>2 DEF AtLots, LotsNext
  <2> QED BY <2>1, <2>2, <2>3, <2>4 DEF Progress
<1>10. IF InLots(select, at + 1) THEN Current = Lots((at + 1) - B) ELSE Current \in Wrong
  BY <1>0, EntryIs
<1>11. CASE InLots(select, at + 1)
  <2>0. (at + 1) - B \in 1 .. (2 * LAST_FD) BY <1>0, <1>7, <1>8, <1>11 DEF InLots
  <2>2. PICK i \in 1 .. (2 * LAST_FD) : i = (at + 1) - B BY <2>0
  <2>1. Current = Lots(i) /\ AtLots(i) BY <1>1, <1>10, <1>11, <2>2 DEF Progress
  <2>3. /\ i < 2 * LAST_FD => AtLots(i + 1)'
        /\ i = 2 * LAST_FD => AllClosed'
        /\ ~Expects(Current.call)
        /\ Current.call = "count" => cnt = Current.arg
    BY <1>0, <2>1, <2>2, LotsStep
  <2>4. fail' = {} BY <1>1, <1>2, <2>3
  <2>5. Progress'
    <3>1. CASE i < 2 * LAST_FD
      <4>1. InLots(select, at + 2) BY <1>0, <1>7, <1>8, <1>11, <2>2, <3>1 DEF InLots
      <4>2. i + 1 = (at + 2) - B BY <1>0, <1>7, <2>2
      <4>3. LotsNext(i + 1) BY <2>3, <3>1 DEF AtLots, LotsNext
      <4> QED BY <1>9, <4>1, <4>2, <4>3
    <3>2. CASE i = 2 * LAST_FD
      <4>1. ~InLots(select, at + 2) BY <1>0, <1>7, <1>8, <2>2, <3>2 DEF InLots
      <4>2. ~(at + 1 < B) BY <1>0, <1>7, <1>11 DEF InLots
      <4> QED BY <1>9, <2>3, <3>2, <4>1, <4>2
    <3> QED BY <1>8, <2>2, <3>1, <3>2
  <2> QED BY <1>0, <1>6, <2>4, <2>5 DEF TestInv
<1>12. CASE ~InLots(select, at + 1)
  <2>1. Current \in Wrong /\ AllClosed /\ (at < B => cnt = 0)
    BY <1>1, <1>10, <1>12 DEF Progress
  <2>2. result'.ret = -1 /\ file_array' = file_array BY <1>0, <2>1, WrongRefused
  <2>3. Current.call # "count" /\ Current.call # "open lots" BY <2>1 DEF Wrong
  <2>4. fail' = {} BY <1>1, <1>2, <2>2, <2>3
  <2>5. cnt' = cnt BY <1>0, <2>3 DEF Counted
  <2>6. AllClosed' BY <2>1, <2>2 DEF AllClosed
  <2>7. Progress'
    <3>1. CASE InLots(select, at + 2)
      <4>1. at + 1 = B BY <1>0, <1>7, <1>8, <1>12, <3>1 DEF InLots
      <4>2. cnt' = 0 /\ (at + 2) - B = 1 BY <1>0, <1>7, <2>1, <2>5, <4>1
      <4>3. \A fd \in Fds : fd >= 2 => ~OpenAt(1, fd) BY <1>8 DEF OpenAt, Fds
      <4>4. LotsNext(1) BY <2>6, <4>2, <4>3, <1>8 DEF LotsNext, AllClosed
      <4> QED BY <1>9, <3>1, <4>2, <4>4
    <3>2. CASE ~InLots(select, at + 2)
      <4>1. at + 1 < B => cnt' = 0 BY <1>0, <1>7, <2>1, <2>5
      <4> QED BY <1>9, <2>6, <3>2, <4>1
    <3> QED BY <3>1, <3>2
  <2> QED BY <1>0, <1>6, <2>4, <2>7 DEF TestInv
<1> QED BY <1>11, <1>12

\* The invariant of the tests.
LEMMA TestsKept ==
    ASSUME FilesInv, Where, TestInv, [TestNext]_allVars
    PROVE  TestInv'
<1>0. Typed BY DEF FilesInv
<1>1. CASE Others
  <2>1. select = -1 /\ select' = -1 /\ at' = at /\ cnt' = cnt /\ fail' = fail
    BY <1>1 DEF Others, testVars
  <2>2. FilesStep BY <1>0, <1>1, NextSteps DEF Others
  <2>3. ~running' => AllClosed' BY <1>0, <2>1, <2>2, ClosedAgain DEF TestInv
  <2>4. Script(select)' = Script(select) BY <2>1 DEF Script
  <2> QED BY <2>1, <2>3, <2>4 DEF TestInv
<1>2. CASE TestStep BY <1>0, <1>2, TestRuns
<1>3. CASE Finish
  <2>1. select' = -1 /\ at' = 0 /\ fail' = {} /\ cnt' = 0 /\ Halt BY <1>3 DEF Finish
  <2>2. AllClosed' BY <1>0, <2>1, HaltCloses
  <2>3. Laid(-1, Script(-1)) BY ScriptLaid
  <2>4. Script(select)' = Script(-1) BY <2>1 DEF Script
  <2>5. Len(Script(-1)) >= 0 BY <2>3 DEF Laid
  <2> QED BY <2>1, <2>2, <2>4, <2>5 DEF TestInv
<1>4. ASSUME NEW s \in 0 .. 9, Start(s) PROVE TestInv'
  BY <1>0, <1>4, TestStarts
<1>5. CASE UNCHANGED allVars
  <2>1. /\ select' = select /\ at' = at /\ cnt' = cnt /\ fail' = fail
        /\ running' = running /\ file_array' = file_array
    BY <1>5 DEF allVars, testVars, vars
  <2>2. Script(select)' = Script(select) BY <2>1 DEF Script
  <2>3. AllClosed' = AllClosed /\ (Progress <=> Progress')
    BY <2>1 DEF AllClosed, Progress, AtLots
  <2> QED BY <2>1, <2>2, <2>3 DEF TestInv
<1> QED BY <1>1, <1>2, <1>3, <1>4, <1>5 DEF TestNext

\* Every call that the conformance tests make is answered as they expect,
\* whatever programs ran before, with any number of files and descriptors.
THEOREM TestsAllPass == TestSpec => []TestsPass
<1>1. TestInit => TestInv
  <2> SUFFICES ASSUME TestInit PROVE TestInv OBVIOUS
  <2>1. select = -1 /\ at = 0 /\ cnt = 0 /\ fail = {} /\ Init BY DEF TestInit
  <2>2. AllClosed BY <2>1 DEF Init, AllClosed, Closed
  <2>3. Laid(-1, Script(-1)) BY ScriptLaid
  <2>4. Len(Script(-1)) >= 0 BY <2>3 DEF Laid
  <2> QED BY <2>1, <2>2, <2>4 DEF TestInv
<1>2. FilesInv /\ Where /\ TestInv /\ [TestNext]_allVars => TestInv'
  BY TestsKept
<1>3. FilesInv /\ Where /\ TestInv => TestsPass
  <2> SUFFICES ASSUME Where, TestInv PROVE fail = {} /\ NothingLeft BY DEF TestsPass
  <2>1. fail = {} BY DEF TestInv
  <2>2. ASSUME select >= 0, at = Len(Script(select)) \/ Current.test # 3 PROVE AllClosed
    <3>1. Progress BY <2>2 DEF TestInv
    <3>2. Laid(select, Script(select)) BY ScriptLaid DEF Where
    <3> SUFFICES ASSUME InLots(select, at + 1) PROVE FALSE BY <3>1 DEF Progress
    <3>3. at < Len(Script(select))
      <4>1. Base(select) \in Nat BY DEF Base
      <4> QED BY <3>2, <4>1, LastFd DEF Where, InLots, Laid
    <3>4. Current = Lots((at + 1) - Base(select)) BY <3>3, EntryIs
    <3>5. \A i : Lots(i).test = 3 BY DEF Lots, CallOf
    <3> QED BY <2>2, <3>3, <3>4, <3>5
  <2>3. NothingLeft
    <3> SUFFICES ASSUME select >= 0, at = Len(Script(select)) \/ Current.test # 3,
                        NEW fd \in Fds, file_array[fd].open
                 PROVE  fd < 2
      BY DEF NothingLeft
    <3>1. AllClosed BY <2>2
    <3>2. fd \in Nat BY DEF Fds
    <3> QED BY <3>1, <3>2 DEF AllClosed
  <2> QED BY <2>1, <2>3
<1> QED BY <1>1, <1>2, <1>3, DescriptorsInvariant, PTL DEF TestSpec
=============================================================================
