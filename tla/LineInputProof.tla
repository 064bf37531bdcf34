--------------------------- MODULE LineInputProof ---------------------------
(* Proofs about LineInput for every number of terminals, size of the buffer *)
(* and of the reads.                                                        *)
EXTENDS LineInput, TLAPS, SequenceTheorems

-----------------------------------------------------------------------------
(* Types *)

Bytes == Chars \cup {NUL}
Rows  == [0 .. (KEYBUFSIZE - 1) -> Bytes]

\* What a read has copied so far is a sequence no longer than the buffer.
LEMMA ShortIs == \A u : u \in Short <=> u \in Seq(Bytes) /\ Len(u) <= KEYBUFSIZE
<1> KEYBUFSIZE \in Nat BY LineInputAssumption
<1>1. ASSUME NEW u, u \in Short PROVE u \in Seq(Bytes) /\ Len(u) <= KEYBUFSIZE
  <2>1. PICK n \in 0 .. KEYBUFSIZE : u \in [1 .. n -> Bytes] BY <1>1 DEF Short, Bytes
  <2>2. n \in Nat OBVIOUS
  <2> QED BY <2>1, <2>2
<1>2. ASSUME NEW u, u \in Seq(Bytes), Len(u) <= KEYBUFSIZE PROVE u \in Short
  <2>1. Len(u) \in 0 .. KEYBUFSIZE /\ u \in [1 .. Len(u) -> Bytes] BY <1>2
  <2> QED BY <2>1 DEF Short, Bytes
<1> QED BY <1>1, <1>2

\* So is nothing at all.
LEMMA NoneShort == <<>> \in Short
<1> DEFINE none == <<>>
<1>1. none \in Seq(Bytes) /\ Len(none) = 0 OBVIOUS
<1> HIDE DEF none
<1>2. Len(none) <= KEYBUFSIZE BY <1>1, LineInputAssumption
<1>3. none \in Short BY <1>1, <1>2, ShortIs, Zenon
<1> QED BY <1>3 DEF none

\* The parts of the state that hold numbers and characters.
DataOK ==
    /\ curr_term \in Terms /\ held \subseteq FlagKeys
    /\ keybuf \in [Terms -> Rows]
    /\ buflen \in [Terms -> 0 .. KEYBUFSIZE]
    /\ enter_pressed \in [Terms -> {0, 1}]
    /\ pc \in [Terms -> Labels] /\ nbytes \in [Terms -> Sizes \cup {0}]
    /\ to_copy \in [Terms -> 0 .. KEYBUFSIZE]
    /\ ubuf \in [Terms -> Short]

\* And those that hold flags.
FlagsOK == /\ shift \in [Terms -> BOOLEAN] /\ caps_lock \in [Terms -> BOOLEAN]
           /\ ctrl \in [Terms -> BOOLEAN] /\ alt \in [Terms -> BOOLEAN]

\* Together they are the type invariant.
LEMMA TypeParts == TypeOK <=> DataOK /\ FlagsOK
BY DEF TypeOK, DataOK, FlagsOK, Rows, Bytes

\* The numbers.
LEMMA Sized == /\ KEYBUFSIZE \in Nat \ {0} /\ Sizes \subseteq Nat \ {0} /\ 0 \in Terms
               /\ \A n \in Sizes \cup {0} : Least(n, KEYBUFSIZE) \in 0 .. KEYBUFSIZE
BY LineInputAssumption DEF Least, Terms

\* A character is stored in its row; the last cell takes what does not fit.
LEMMA StoredEffect ==
    ASSUME DataOK, NEW t \in Terms, NEW c \in Chars, Stored(t, c)
    PROVE  /\ keybuf' \in [Terms -> Rows] /\ buflen' \in [Terms -> 0 .. KEYBUFSIZE]
           /\ \A u \in Terms \ {t} : keybuf'[u] = keybuf[u] /\ buflen'[u] = buflen[u]
           /\ buflen[t] < KEYBUFSIZE =>
                 /\ buflen'[t] = buflen[t] + 1 /\ keybuf'[t][buflen[t]] = c
                 /\ \A i \in 0 .. (buflen[t] - 1) : keybuf'[t][i] = keybuf[t][i]
           /\ ~(buflen[t] < KEYBUFSIZE) => ~Rule("fits")
<1> DEFINE b == buflen[t]
<1>0. b \in 0 .. KEYBUFSIZE /\ keybuf[t] \in Rows /\ KEYBUFSIZE \in Nat \ {0} BY Sized DEF DataOK
<1>1. CASE b < KEYBUFSIZE
  <2> DEFINE row == [keybuf[t] EXCEPT ![b] = c]
             up  == b + 1
  <2>1. keybuf' = [keybuf EXCEPT ![t] = row] BY <1>1 DEF Stored
  <2>2. buflen' = [buflen EXCEPT ![t] = up] BY <1>1 DEF Stored
  <2>3. b \in 0 .. (KEYBUFSIZE - 1) /\ up \in 0 .. KEYBUFSIZE BY <1>0, <1>1
  <2>4. row \in Rows /\ row[b] = c /\ \A i \in 0 .. (b - 1) : row[i] = keybuf[t][i]
    BY <1>0, <2>3 DEF Rows, Bytes
  <2>5. up = b + 1 OBVIOUS
  <2> HIDE DEF row, up
  <2>6. /\ keybuf'[t] = row /\ keybuf' \in [Terms -> Rows]
        /\ \A u \in Terms \ {t} : keybuf'[u] = keybuf[u]
    BY <2>1, <2>4 DEF DataOK
  <2>7. /\ buflen'[t] = up /\ buflen' \in [Terms -> 0 .. KEYBUFSIZE]
        /\ \A u \in Terms \ {t} : buflen'[u] = buflen[u]
    BY <2>2, <2>3 DEF DataOK
  <2> QED BY <1>1, <2>4, <2>5, <2>6, <2>7
<1>2. CASE ~(b < KEYBUFSIZE)
  <2> DEFINE row == [keybuf[t] EXCEPT ![KEYBUFSIZE - 1] = "esc"]
  <2>1. keybuf' = [keybuf EXCEPT ![t] = row] /\ buflen' = buflen /\ ~Rule("fits")
    BY <1>2 DEF Stored
  <2>2. row \in Rows BY <1>0 DEF Rows, Bytes, Chars
  <2> HIDE DEF row
  <2>3. /\ keybuf' \in [Terms -> Rows]
        /\ \A u \in Terms \ {t} : keybuf'[u] = keybuf[u]
    BY <2>1, <2>2 DEF DataOK
  <2> QED BY <1>2, <2>1, <2>3 DEF DataOK
<1> QED BY <1>1, <1>2

\* So does a branch that leaves outchar as it is.
LEMMA UnassignedEffect ==
    ASSUME DataOK, NEW t \in Terms, Unassigned(t)
    PROVE  /\ keybuf' \in [Terms -> Rows] /\ buflen' \in [Terms -> 0 .. KEYBUFSIZE]
           /\ Rule("slot") => UNCHANGED <<keybuf, buflen>>
<1>1. "other" \in Chars BY DEF Chars
<1>2. CASE UNCHANGED <<keybuf, buflen>> BY <1>2 DEF DataOK
<1>3. CASE ~Rule("slot") /\ Stored(t, "other") BY <1>1, <1>3, StoredEffect
<1> QED BY <1>2, <1>3 DEF Unassigned

\* The byte a read copies next.
LEMMA CopyEffect ==
    ASSUME DataOK, NEW t \in Terms, ReadCopy(t)
    PROVE  /\ ubuf' \in [Terms -> Short] /\ pc' \in [Terms -> Labels] /\ pc[t] = "copy"
           /\ \A u \in Terms \ {t} : ubuf'[u] = ubuf[u] /\ pc'[u] = pc[u]
           /\ Len(ubuf[t]) \in 0 .. KEYBUFSIZE /\ to_copy[t] \in 0 .. KEYBUFSIZE
           /\ Len(ubuf[t]) < to_copy[t] =>
                 /\ pc'[t] = "copy" /\ Len(ubuf'[t]) = Len(ubuf[t]) + 1
                 /\ ubuf'[t][Len(ubuf[t]) + 1] = keybuf[t][Len(ubuf[t])]
                 /\ \A i \in 1 .. Len(ubuf[t]) : ubuf'[t][i] = ubuf[t][i]
           /\ ~(Len(ubuf[t]) < to_copy[t]) => pc'[t] = "answer" /\ ubuf' = ubuf
<1>1. /\ KEYBUFSIZE \in Nat /\ to_copy[t] \in 0 .. KEYBUFSIZE
      /\ ubuf[t] \in Seq(Bytes) /\ Len(ubuf[t]) \in 0 .. KEYBUFSIZE
  BY ShortIs, Sized DEF DataOK
<1>2. CASE Len(ubuf[t]) < to_copy[t]
  <2> DEFINE n == Len(ubuf[t])
             c == keybuf[t][n]
             v == Append(ubuf[t], c)
  <2>1. ubuf' = [ubuf EXCEPT ![t] = v] /\ pc' = [pc EXCEPT ![t] = "copy"] /\ pc[t] = "copy"
    BY <1>2 DEF ReadCopy, Goto, DataOK
  <2>2. n \in 0 .. (KEYBUFSIZE - 1) /\ n + 1 <= KEYBUFSIZE BY <1>1, <1>2
  <2>3. c \in Bytes BY <2>2 DEF DataOK, Rows
  <2>4. v \in Seq(Bytes) /\ Len(v) = n + 1 /\ v[n + 1] = c /\ \A i \in 1 .. n : v[i] = ubuf[t][i]
    BY <1>1, <2>3
  <2>5. v \in Short BY <2>2, <2>4, ShortIs
  <2> HIDE DEF v
  <2>6. ubuf'[t] = v /\ ubuf' \in [Terms -> Short] /\ \A u \in Terms \ {t} : ubuf'[u] = ubuf[u]
    BY <2>1, <2>5 DEF DataOK
  <2> QED BY <1>1, <1>2, <2>1, <2>4, <2>6 DEF DataOK, Labels
<1>3. CASE ~(Len(ubuf[t]) < to_copy[t])
  <2>1. ubuf' = ubuf /\ pc' = [pc EXCEPT ![t] = "answer"] /\ pc[t] = "copy"
    BY <1>3 DEF ReadCopy, Goto
  <2> QED BY <1>1, <1>3, <2>1 DEF DataOK, Labels
<1> QED BY <1>2, <1>3

\* What a step of a read changes, its pc among them.
LEMMA GotoEffect ==
    ASSUME DataOK, NEW t \in Terms, NEW l \in Labels, NEW m \in Labels, Goto(t, l, m)
    PROVE  pc[t] = l /\ pc' \in [Terms -> Labels] /\ pc'[t] = m /\ \A u \in Terms \ {t} : pc'[u] = pc[u]
BY DEF Goto, DataOK

\* No step takes a number, a row or a label out of its type.
LEMMA DataNext == DataOK /\ [Next]_vars => DataOK'
<1> SUFFICES ASSUME DataOK, [Next]_vars PROVE DataOK' OBVIOUS
<1> USE DEF DataOK
<1>1. ASSUME NEW k \in FlagKeys, PressFlag(k) \/ ReleaseFlag(k) PROVE DataOK'
  BY <1>1 DEF PressFlag, ReleaseFlag, buffer, reader
<1>2. CASE PressLetter
  <2>1. keybuf' \in [Terms -> Rows] /\ buflen' \in [Terms -> 0 .. KEYBUFSIZE]
    <3>1. Letter(curr_term) \in Chars BY DEF Letter, Chars
    <3> QED BY <1>2, <3>1, StoredEffect, UnassignedEffect DEF PressLetter
  <2> QED BY <1>2, <2>1 DEF PressLetter, reader
<1>3. CASE PressEnter
  <2>1. keybuf' \in [Terms -> Rows] /\ buflen' \in [Terms -> 0 .. KEYBUFSIZE]
    BY <1>3, StoredEffect DEF PressEnter, Chars
  <2> QED BY <1>3, <2>1 DEF PressEnter, reader
<1>4. CASE PressBack
  <2>1. keybuf' \in [Terms -> Rows] /\ buflen' \in [Terms -> 0 .. KEYBUFSIZE]
    <3>1. CASE buflen[curr_term] >= 1
      <4> DEFINE n == buflen[curr_term] - 1
      <4>1. buflen' = [buflen EXCEPT ![curr_term] = n] /\ keybuf' = keybuf
        BY <1>4, <3>1 DEF PressBack
      <4>2. n \in 0 .. KEYBUFSIZE BY <3>1, Sized
      <4> HIDE DEF n
      <4> QED BY <4>1, <4>2
    <3>2. CASE ~(buflen[curr_term] >= 1) BY <1>4, <3>2, UnassignedEffect DEF PressBack
    <3> QED BY <3>1, <3>2
  <2> QED BY <1>4, <2>1 DEF PressBack, reader
<1>5. ASSUME NEW t \in Terms, PressSwitch(t) PROVE DataOK'
  BY <1>5, UnassignedEffect DEF PressSwitch, reader
<1>6. ASSUME NEW t \in Terms, ReadCall(t) PROVE DataOK'
  <2>1. <<>> \in Short BY NoneShort
  <2>2. PICK n \in Sizes : nbytes' = [nbytes EXCEPT ![t] = n] BY <1>6 DEF ReadCall
  <2>3. ubuf' = [ubuf EXCEPT ![t] = <<>>] /\ Goto(t, "user", "wait") BY <1>6 DEF ReadCall
  <2> QED BY <1>6, <2>1, <2>2, <2>3, GotoEffect DEF ReadCall, buffer, Labels
<1>7. ASSUME NEW t \in Terms, ReadWait(t) PROVE DataOK'
  BY <1>7, GotoEffect DEF ReadWait, buffer, Labels
<1>8. ASSUME NEW t \in Terms, ReadMeasure(t) PROVE DataOK'
  <2> DEFINE l == IF buflen[t] < Least(nbytes[t], KEYBUFSIZE) THEN "shorten" ELSE "copy"
             n == Least(nbytes[t], KEYBUFSIZE)
  <2>1. Goto(t, "measure", l) /\ to_copy' = [to_copy EXCEPT ![t] = n] BY <1>8 DEF ReadMeasure
  <2>2. l \in Labels BY DEF Labels
  <2>3. n \in 0 .. KEYBUFSIZE BY Sized
  <2> HIDE DEF l, n
  <2>4. pc' \in [Terms -> Labels] BY <2>1, <2>2, GotoEffect DEF Labels
  <2>5. to_copy' \in [Terms -> 0 .. KEYBUFSIZE] BY <2>1, <2>3
  <2> QED BY <1>8, <2>4, <2>5 DEF ReadMeasure, buffer
<1>9. ASSUME NEW t \in Terms, ReadShorten(t) PROVE DataOK'
  BY <1>9, GotoEffect DEF ReadShorten, buffer, Labels
<1>10. ASSUME NEW t \in Terms, ReadCopy(t) PROVE DataOK'
  BY <1>10, CopyEffect DEF ReadCopy, buffer
<1>11. ASSUME NEW t \in Terms, ReadAnswer(t) PROVE DataOK'
  BY <1>11, GotoEffect DEF ReadAnswer, Labels
<1>12. ASSUME NEW t \in Terms, ReadWipe(t) PROVE DataOK'
  <2>1. [i \in 0 .. (KEYBUFSIZE - 1) |-> NUL] \in Rows BY DEF Rows, Bytes
  <2> QED BY <1>12, <2>1, GotoEffect DEF ReadWipe, Labels
<1>13. ASSUME NEW t \in Terms, ReadEmpty(t) PROVE DataOK'
  BY <1>13, Sized, GotoEffect DEF ReadEmpty, Done, Labels
<1>14. CASE UNCHANGED vars BY <1>14 DEF vars, buffer, reader
<1> QED BY <1>1, <1>2, <1>3, <1>4, <1>5, <1>6, <1>7, <1>8, <1>9, <1>10, <1>11, <1>12, <1>13, <1>14
        DEF Next, ReadStep

-----------------------------------------------------------------------------
(* The flags *)

\* A flag key changes one flag of the displayed terminal.
LEMMA HoldEffect ==
    ASSUME FlagsOK, curr_term \in Terms, NEW k \in FlagKeys, NEW d \in BOOLEAN, Hold(k, d)
    PROVE  /\ FlagsOK' /\ (k = "Alt" => alt'[curr_term] = d)
           /\ (k # "Alt" => alt' = alt)
<1>1. shift' \in [Terms -> BOOLEAN]
  <2>1. CASE k \in {"LShift", "RShift"}
    <3>1. shift' = [shift EXCEPT ![curr_term] = d] BY <2>1 DEF Hold
    <3> QED BY <3>1, Zenon DEF FlagsOK
  <2>2. CASE k \notin {"LShift", "RShift"} BY <2>2 DEF Hold, FlagsOK
  <2> QED BY <2>1, <2>2
<1>2. ctrl' \in [Terms -> BOOLEAN]
  <2>1. CASE k = "Ctrl"
    <3>1. ctrl' = [ctrl EXCEPT ![curr_term] = d] BY <2>1 DEF Hold
    <3> QED BY <3>1, Zenon DEF FlagsOK
  <2>2. CASE k # "Ctrl" BY <2>2 DEF Hold, FlagsOK
  <2> QED BY <2>1, <2>2
<1>3. alt' \in [Terms -> BOOLEAN] /\ (k = "Alt" => alt'[curr_term] = d) /\ (k # "Alt" => alt' = alt)
  <2>1. CASE k = "Alt"
    <3>1. alt' = [alt EXCEPT ![curr_term] = d] BY <2>1 DEF Hold
    <3>2. alt'[curr_term] = d BY <3>1, Zenon DEF FlagsOK
    <3>3. alt' \in [Terms -> BOOLEAN] BY <3>1, Zenon DEF FlagsOK
    <3> QED BY <2>1, <3>2, <3>3
  <2>2. CASE k # "Alt" BY <2>2 DEF Hold, FlagsOK
  <2> QED BY <2>1, <2>2
<1>4. caps_lock' \in [Terms -> BOOLEAN]
  <2>1. CASE k = "Caps" /\ d
    <3>1. caps_lock' = [caps_lock EXCEPT ![curr_term] = ~caps_lock[curr_term]] BY <2>1 DEF Hold
    <3>2. CASE caps_lock[curr_term] = TRUE
      <4>1. caps_lock' = [caps_lock EXCEPT ![curr_term] = FALSE] BY <3>1, <3>2
      <4> QED BY <4>1, Zenon DEF FlagsOK
    <3>3. CASE caps_lock[curr_term] = FALSE
      <4>1. caps_lock' = [caps_lock EXCEPT ![curr_term] = TRUE] BY <3>1, <3>3
      <4> QED BY <4>1, Zenon DEF FlagsOK
    <3> QED BY <3>2, <3>3 DEF FlagsOK
  <2>2. CASE ~(k = "Caps" /\ d) BY <2>2 DEF Hold, FlagsOK
  <2> QED BY <2>1, <2>2
<1> QED BY <1>1, <1>2, <1>3, <1>4 DEF FlagsOK

\* Only the flag keys touch the flags and what is held.
LEMMA OthersKeepFlags ==
    ASSUME [Next]_vars, \A k \in FlagKeys : ~PressFlag(k) /\ ~ReleaseFlag(k)
    PROVE  UNCHANGED <<held, shift, caps_lock, ctrl, alt>>
<1>1. ASSUME NEW t \in Terms, PressSwitch(t) \/ ReadCall(t) \/ ReadStep(t)
      PROVE  UNCHANGED <<held, flags>>
  BY <1>1 DEF PressSwitch, ReadCall, ReadStep, ReadWait, ReadMeasure, ReadShorten, ReadCopy,
              ReadAnswer, ReadWipe, ReadEmpty
<1>2. CASE PressLetter BY <1>2 DEF PressLetter, flags
<1>3. CASE PressEnter BY <1>3 DEF PressEnter, flags
<1>4. CASE PressBack BY <1>4 DEF PressBack, flags
<1>5. CASE UNCHANGED vars BY <1>5 DEF vars, flags
<1> QED BY <1>1, <1>2, <1>3, <1>4, <1>5 DEF Next, flags

\* A flag of a terminal that is left while it is set is set when it is met again.
LEMMA FlagsNext ==
    DataOK /\ FlagsOK /\ AltIsHeld /\ [Next]_vars => FlagsOK' /\ AltIsHeld'
<1> SUFFICES ASSUME DataOK, FlagsOK, AltIsHeld, [Next]_vars PROVE FlagsOK' /\ AltIsHeld' OBVIOUS
<1>0. curr_term \in Terms BY DEF DataOK
<1>1. ASSUME NEW k \in FlagKeys, PressFlag(k) PROVE FlagsOK' /\ AltIsHeld'
  <2>1. Hold(k, TRUE) /\ held' = held \cup {k} /\ curr_term' = curr_term BY <1>1 DEF PressFlag
  <2>2. /\ FlagsOK' /\ (k = "Alt" => alt'[curr_term] = TRUE) /\ (k # "Alt" => alt' = alt)
    BY <1>0, <2>1, HoldEffect
  <2> QED BY <2>1, <2>2 DEF AltIsHeld
<1>2. ASSUME NEW k \in FlagKeys, ReleaseFlag(k) PROVE FlagsOK' /\ AltIsHeld'
  <2>1. Hold(k, FALSE) /\ held' = held \ {k} /\ curr_term' = curr_term BY <1>2 DEF ReleaseFlag
  <2>2. /\ FlagsOK' /\ (k = "Alt" => alt'[curr_term] = FALSE) /\ (k # "Alt" => alt' = alt)
    BY <1>0, <2>1, HoldEffect
  <2> QED BY <2>1, <2>2 DEF AltIsHeld
<1>3. CASE \A k \in FlagKeys : ~PressFlag(k) /\ ~ReleaseFlag(k)
  <2>1. UNCHANGED <<held, shift, caps_lock, ctrl, alt>> BY <1>3, OthersKeepFlags
  <2>2. FlagsOK' BY <2>1 DEF FlagsOK
  <2>3. ASSUME NEW t \in Terms, PressSwitch(t) PROVE AltIsHeld'
    BY <2>1, <2>3 DEF PressSwitch, AltIsHeld
  <2>4. CASE \A t \in Terms : ~PressSwitch(t)
    <3>1. curr_term' = curr_term
      BY <1>3, <2>4 DEF Next, vars, PressLetter, PressEnter, PressBack, ReadCall, ReadStep, ReadWait,
         ReadMeasure, ReadShorten, ReadCopy, ReadAnswer, ReadWipe, ReadEmpty
    <3>2. alt' = alt /\ held' = held BY <2>1
    <3> QED BY <2>2, <3>1, <3>2 DEF AltIsHeld
  <2> QED BY <2>2, <2>3, <2>4
<1> QED BY <1>1, <1>2, <1>3

\* The boot.
LEMMA TypesInit == Init => DataOK /\ FlagsOK /\ AltIsHeld
<1> SUFFICES ASSUME Init PROVE DataOK /\ FlagsOK /\ AltIsHeld OBVIOUS
<1>1. <<>> \in Short BY NoneShort
<1>2. [t \in Terms |-> [i \in 0 .. (KEYBUFSIZE - 1) |-> NUL]] \in [Terms -> Rows]
  BY DEF Rows, Bytes
<1>3. DataOK BY <1>1, <1>2, Sized DEF Init, DataOK, Labels
<1>4. FlagsOK BY Zenon DEF Init, FlagsOK
<1>5. alt[curr_term] = FALSE BY Sized DEF Init
<1> QED BY <1>3, <1>4, <1>5 DEF AltIsHeld

\* The buffer and its count, the flags and what a read works with keep their
\* types, whatever is typed when, under no discipline: no key is stored, and no
\* byte read, outside of the buffer.
THEOREM LineTypes == Spec => []TypeOK
<1>1. Init => DataOK /\ FlagsOK /\ AltIsHeld BY TypesInit
<1>2. DataOK /\ FlagsOK /\ AltIsHeld /\ [Next]_vars => (DataOK /\ FlagsOK /\ AltIsHeld)'
  BY DataNext, FlagsNext
<1> QED BY <1>1, <1>2, TypeParts, PTL DEF Spec

\* The displayed terminal never takes Alt for held when it is not.
THEOREM AltIsTrue == Spec => []AltIsHeld
<1>1. Init => DataOK /\ FlagsOK /\ AltIsHeld BY TypesInit
<1>2. DataOK /\ FlagsOK /\ AltIsHeld /\ [Next]_vars => (DataOK /\ FlagsOK /\ AltIsHeld)'
  BY DataNext, FlagsNext
<1> QED BY <1>1, <1>2, PTL DEF Spec

-----------------------------------------------------------------------------
(* What was typed, as a sequence *)

\* The first b characters of a row.
Prefix(f, b) == [i \in 1 .. b |-> f[i - 1]]

\* They are a sequence,
LEMMA PrefixSeq ==
    ASSUME NEW f \in Rows, NEW b \in 0 .. KEYBUFSIZE
    PROVE  Prefix(f, b) \in Seq(Bytes) /\ Len(Prefix(f, b)) = b
<1> KEYBUFSIZE \in Nat BY LineInputAssumption
<1>1. \A i \in 1 .. b : f[i - 1] \in Bytes BY DEF Rows
<1>2. Prefix(f, b) \in [1 .. b -> Bytes] BY <1>1 DEF Prefix
<1> HIDE DEF Prefix
<1> QED BY <1>2

\* the next character is appended to them,
LEMMA PrefixNext ==
    ASSUME NEW f \in Rows, NEW g \in Rows, NEW b \in 0 .. (KEYBUFSIZE - 1), NEW c \in Bytes,
           g[b] = c, \A i \in 0 .. (b - 1) : g[i] = f[i]
    PROVE  Prefix(g, b + 1) = Append(Prefix(f, b), c)
<1> KEYBUFSIZE \in Nat BY LineInputAssumption
<1> DEFINE s == Prefix(f, b)
           v == Prefix(g, b + 1)
           a == Append(s, c)
<1>1. s \in Seq(Bytes) /\ Len(s) = b BY PrefixSeq
<1>2. b + 1 \in 0 .. KEYBUFSIZE OBVIOUS
<1>3. v \in Seq(Bytes) /\ Len(v) = b + 1 BY <1>2, PrefixSeq
<1>4. \A i \in 1 .. (b + 1) : v[i] = g[i - 1] BY DEF Prefix
<1>5. \A i \in 1 .. b : s[i] = f[i - 1] BY DEF Prefix
<1> HIDE DEF s, v
<1>6. /\ a \in Seq(Bytes) /\ Len(a) = b + 1 /\ a[b + 1] = c /\ \A i \in 1 .. b : a[i] = s[i]
  BY <1>1
<1>7. \A i \in 1 .. (b + 1) : v[i] = a[i] BY <1>4, <1>5, <1>6
<1> HIDE DEF a
<1>8. v = a BY <1>3, <1>6, <1>7, SeqEqual
<1> QED BY <1>8 DEF v, a, s

\* and fewer of them are a beginning of more.
LEMMA PrefixCut ==
    ASSUME NEW f \in Rows, NEW b \in 0 .. KEYBUFSIZE, NEW k \in 0 .. b
    PROVE  SubSeq(Prefix(f, b), 1, k) = Prefix(f, k)
<1> KEYBUFSIZE \in Nat BY LineInputAssumption
<1> DEFINE s == Prefix(f, b)
           v == Prefix(f, k)
           a == SubSeq(s, 1, k)
<1>1. s \in Seq(Bytes) /\ Len(s) = b BY PrefixSeq
<1>2. v \in Seq(Bytes) /\ Len(v) = k BY PrefixSeq
<1>3. \A i \in 1 .. k : v[i] = f[i - 1] BY DEF Prefix
<1>4. \A i \in 1 .. b : s[i] = f[i - 1] BY DEF Prefix
<1> HIDE DEF s, v
<1>5. \A i \in 1 .. k : s[i] \in Bytes BY <1>1
<1>6. a \in Seq(Bytes) /\ Len(a) = k /\ \A i \in 1 .. k : a[i] = s[i]
  BY <1>5, SubSeqProperties
<1>7. \A i \in 1 .. k : v[i] = a[i] BY <1>3, <1>4, <1>6
<1> HIDE DEF a
<1>8. v = a BY <1>2, <1>6, <1>7, SeqEqual
<1> QED BY <1>8 DEF v, a, s

-----------------------------------------------------------------------------
(* A read, from label to label *)

\* Where a read of terminal t has got to with the line.
Good(t) ==
    /\ nbytes[t] = 0 <=> pc[t] = "user"
    /\ pc[t] \in {"measure", "shorten", "copy", "answer"} => enter_pressed[t] = 0
    /\ pc[t] \in {"wipe", "empty"} => enter_pressed[t] = 1
    /\ pc[t] \in {"wait", "measure", "shorten"} => ubuf[t] = <<>>
    /\ pc[t] = "shorten" => buflen[t] < Least(nbytes[t], KEYBUFSIZE)
    /\ pc[t] \in {"copy", "answer", "wipe"} =>
          /\ to_copy[t] = Least(nbytes[t], buflen[t]) /\ Len(ubuf[t]) <= to_copy[t]
          /\ \A i \in 1 .. Len(ubuf[t]) : ubuf[t][i] = keybuf[t][i - 1]
    /\ pc[t] \in {"answer", "wipe"} => Len(ubuf[t]) = to_copy[t]

ReadInv == \A t \in Terms : Good(t)

\* Nothing of terminal t changes.
Same(t) ==
    /\ pc'[t] = pc[t] /\ nbytes'[t] = nbytes[t] /\ enter_pressed'[t] = enter_pressed[t]
    /\ ubuf'[t] = ubuf[t] /\ to_copy'[t] = to_copy[t] /\ buflen'[t] = buflen[t]
    /\ keybuf'[t] = keybuf[t]

\* Whoever keeps to the rules types only while the displayed terminal's program
\* does not copy, and never into a full buffer.
LEMMA KeyTypes ==
    ASSUME Rules \subseteq Discipline, DataOK, NEW k, Key(k)
    PROVE  curr_term \in Terms /\ pc[curr_term] \in {"user", "wait"}
<1>1. Rule("pause") BY DEF Rule, Rules
<1> QED BY <1>1 DEF Key, Reading, DataOK

\* A key changes the line and perhaps the signal of a terminal, no reader.
LEMMA KeyKeeps ==
    ASSUME DataOK, ReadInv, NEW t \in Terms, pc[t] \in {"user", "wait"},
           UNCHANGED <<pc, nbytes, to_copy, ubuf>>,
           \A u \in Terms \ {t} : Same(u)
    PROVE  ReadInv'
<1>1. Good(t)' BY DEF ReadInv, Good
<1>2. ASSUME NEW u \in Terms \ {t} PROVE Good(u)'
  <2>1. Good(u) /\ Same(u) BY DEF ReadInv
  <2> QED BY <2>1 DEF Good, Same
<1> QED BY <1>1, <1>2 DEF ReadInv

\* A step of the reader of t.
LEMMA ReadKeeps ==
    ASSUME ReadInv, NEW t \in Terms, Good(t)', \A u \in Terms \ {t} : Same(u)
    PROVE  ReadInv'
<1>2. ASSUME NEW u \in Terms \ {t} PROVE Good(u)'
  <2>1. Good(u) /\ Same(u) BY DEF ReadInv
  <2> QED BY <2>1 DEF Good, Same
<1> QED BY <1>2 DEF ReadInv

\* Under the rules every step keeps to that.
LEMMA ReadInvNext ==
    Rules \subseteq Discipline => (DataOK /\ ReadInv /\ [Next]_vars => ReadInv')
<1> SUFFICES ASSUME Rules \subseteq Discipline, DataOK, ReadInv, [Next]_vars PROVE ReadInv'
  OBVIOUS
<1>a. Rule("slot") BY DEF Rule, Rules
<1>b. /\ KEYBUFSIZE \in Nat \ {0} /\ curr_term \in Terms
      /\ \A n \in Sizes \cup {0} : n \in Nat
      /\ \A t \in Terms : nbytes[t] \in Nat /\ buflen[t] \in 0 .. KEYBUFSIZE /\ nbytes[t] \in Sizes \cup {0}
  <2>1. \A n \in Sizes \cup {0} : n \in Nat BY LineInputAssumption
  <2>2. \A t \in Terms : buflen[t] \in 0 .. KEYBUFSIZE /\ nbytes[t] \in Sizes \cup {0} BY DEF DataOK
  <2> QED BY <2>1, <2>2, LineInputAssumption DEF DataOK
\* Keys.
<1>1. ASSUME NEW k \in FlagKeys, PressFlag(k) \/ ReleaseFlag(k) PROVE ReadInv'
  <2>1. UNCHANGED <<keybuf, buflen, enter_pressed, pc, nbytes, to_copy, ubuf>>
    BY <1>1 DEF PressFlag, ReleaseFlag, buffer, reader
  <2> QED BY <2>1 DEF ReadInv, Good
<1>k. ASSUME NEW c \in Chars, Key("L") \/ Key("Enter"), Stored(curr_term, c), UNCHANGED reader,
             \A u \in Terms \ {curr_term} : enter_pressed'[u] = enter_pressed[u]
      PROVE  ReadInv'
  <2>1. pc[curr_term] \in {"user", "wait"} BY <1>k, KeyTypes
  <2>2. \A u \in Terms \ {curr_term} : keybuf'[u] = keybuf[u] /\ buflen'[u] = buflen[u]
    BY <1>b, <1>k, StoredEffect
  <2>3. UNCHANGED <<pc, nbytes, to_copy, ubuf>> BY <1>k DEF reader
  <2>4. \A u \in Terms \ {curr_term} : Same(u) BY <1>k, <2>2, <2>3 DEF Same
  <2> QED BY <1>b, <2>1, <2>3, <2>4, KeyKeeps
<1>2. CASE PressLetter
  <2>1. CASE ctrl[curr_term]
    <3>1. Unassigned(curr_term) BY <1>2, <2>1 DEF PressLetter
    <3>2. UNCHANGED <<keybuf, buflen>> BY <1>a, <1>b, <3>1, UnassignedEffect
    <3> QED BY <1>2, <3>2 DEF PressLetter, reader, ReadInv, Good
  <2>2. CASE ~ctrl[curr_term]
    <3>1. Key("L") /\ Stored(curr_term, Letter(curr_term)) /\ UNCHANGED <<enter_pressed, reader>>
      BY <1>2, <2>2 DEF PressLetter
    <3>2. Letter(curr_term) \in Chars BY DEF Letter, Chars
    <3> QED BY <1>k, <3>1, <3>2
  <2> QED BY <2>1, <2>2
<1>3. CASE PressEnter
  <2>1. /\ Key("Enter") /\ Stored(curr_term, "nl") /\ UNCHANGED reader
        /\ enter_pressed' = [enter_pressed EXCEPT ![curr_term] = 0]
    BY <1>3 DEF PressEnter
  <2>2. \A u \in Terms \ {curr_term} : enter_pressed'[u] = enter_pressed[u] BY <2>1 DEF DataOK
  <2>3. "nl" \in Chars BY DEF Chars
  <2> QED BY <1>k, <2>1, <2>2, <2>3
<1>4. CASE PressBack
  <2>1. CASE buflen[curr_term] >= 1
    <3>1. /\ Key("Back") /\ UNCHANGED <<keybuf, enter_pressed, reader>>
          /\ buflen' = [buflen EXCEPT ![curr_term] = @ - 1]
      BY <1>4, <2>1 DEF PressBack
    <3>2. \A u \in Terms \ {curr_term} : buflen'[u] = buflen[u] BY <3>1 DEF DataOK
    <3>3. UNCHANGED <<pc, nbytes, to_copy, ubuf>> BY <3>1 DEF reader
    <3>4. \A u \in Terms \ {curr_term} : Same(u) BY <3>1, <3>2, <3>3 DEF Same
    <3>5. pc[curr_term] \in {"user", "wait"} BY <3>1, KeyTypes
    <3> QED BY <1>b, <3>3, <3>4, <3>5, KeyKeeps
  <2>2. CASE ~(buflen[curr_term] >= 1)
    <3>1. Unassigned(curr_term) BY <1>4, <2>2 DEF PressBack
    <3>2. UNCHANGED <<keybuf, buflen>> BY <1>a, <1>b, <3>1, UnassignedEffect
    <3> QED BY <1>4, <3>2 DEF PressBack, reader, ReadInv, Good
  <2> QED BY <2>1, <2>2
<1>5. ASSUME NEW t \in Terms, PressSwitch(t) PROVE ReadInv'
  <2>1. UNCHANGED <<keybuf, buflen>> BY <1>5, <1>a, <1>b, UnassignedEffect DEF PressSwitch
  <2> QED BY <1>5, <2>1 DEF PressSwitch, reader, ReadInv, Good
\* The read.
<1>6. ASSUME NEW t \in Terms, ReadCall(t) PROVE ReadInv'
  <2>1. PICK n \in Sizes : nbytes' = [nbytes EXCEPT ![t] = n] BY <1>6 DEF ReadCall
  <2>2. /\ ubuf' = [ubuf EXCEPT ![t] = <<>>] /\ Goto(t, "user", "wait")
        /\ UNCHANGED <<keybuf, buflen, enter_pressed, to_copy>>
    BY <1>6 DEF ReadCall, buffer
  <2>3. pc'[t] = "wait" /\ \A u \in Terms \ {t} : pc'[u] = pc[u]
    BY <2>2, GotoEffect DEF Labels
  <2>4. nbytes'[t] = n /\ n # 0 /\ \A u \in Terms \ {t} : nbytes'[u] = nbytes[u]
    BY <2>1, Sized DEF DataOK
  <2>5. ubuf'[t] = <<>> /\ \A u \in Terms \ {t} : ubuf'[u] = ubuf[u] BY <2>2 DEF DataOK
  <2>6. Good(t)' BY <2>3, <2>4, <2>5 DEF Good
  <2>7. \A u \in Terms \ {t} : Same(u) BY <2>2, <2>3, <2>4, <2>5 DEF Same
  <2> QED BY <2>6, <2>7, ReadKeeps
<1>7. ASSUME NEW t \in Terms, ReadWait(t) PROVE ReadInv'
  <2>1. /\ Goto(t, "wait", "measure") /\ enter_pressed[t] = 0
        /\ UNCHANGED <<keybuf, buflen, enter_pressed, nbytes, to_copy, ubuf>>
    BY <1>7 DEF ReadWait, buffer
  <2>2. pc[t] = "wait" /\ pc'[t] = "measure" /\ \A u \in Terms \ {t} : pc'[u] = pc[u]
    BY <2>1, GotoEffect DEF Labels
  <2>3. Good(t)' BY <2>1, <2>2 DEF Good, ReadInv
  <2>4. \A u \in Terms \ {t} : Same(u) BY <2>1, <2>2 DEF Same
  <2> QED BY <2>3, <2>4, ReadKeeps
<1>8. ASSUME NEW t \in Terms, ReadMeasure(t) PROVE ReadInv'
  <2> DEFINE l == IF buflen[t] < Least(nbytes[t], KEYBUFSIZE) THEN "shorten" ELSE "copy"
             n == Least(nbytes[t], KEYBUFSIZE)
  <2>1. /\ Goto(t, "measure", l) /\ to_copy' = [to_copy EXCEPT ![t] = n]
        /\ UNCHANGED <<keybuf, buflen, enter_pressed, nbytes, ubuf>>
    BY <1>8 DEF ReadMeasure, buffer
  <2>2. pc[t] = "measure" /\ pc'[t] = l /\ \A u \in Terms \ {t} : pc'[u] = pc[u]
    BY <2>1, GotoEffect DEF Labels
  <2>3. to_copy'[t] = n /\ \A u \in Terms \ {t} : to_copy'[u] = to_copy[u]
    BY <2>1 DEF DataOK
  <2>4. /\ l = "shorten" => buflen[t] < n
        /\ l = "copy" => n = Least(nbytes[t], buflen[t])
        /\ l \in {"shorten", "copy"} /\ n \in Nat
    BY <1>b DEF Least
  <2> HIDE DEF l
  <2>5. ubuf[t] = <<>> /\ enter_pressed[t] = 0 /\ nbytes[t] # 0 BY <2>2 DEF Good, ReadInv
  <2>6. Len(ubuf[t]) = 0 BY <2>5
  <2>7. Good(t)' BY <2>1, <2>2, <2>3, <2>4, <2>5, <2>6 DEF Good
  <2>8. \A u \in Terms \ {t} : Same(u) BY <2>1, <2>2, <2>3 DEF Same
  <2> QED BY <2>7, <2>8, ReadKeeps
<1>9. ASSUME NEW t \in Terms, ReadShorten(t) PROVE ReadInv'
  <2>1. /\ Goto(t, "shorten", "copy") /\ to_copy' = [to_copy EXCEPT ![t] = buflen[t]]
        /\ UNCHANGED <<keybuf, buflen, enter_pressed, nbytes, ubuf>>
    BY <1>9 DEF ReadShorten, buffer
  <2>2. pc[t] = "shorten" /\ pc'[t] = "copy" /\ \A u \in Terms \ {t} : pc'[u] = pc[u]
    BY <2>1, GotoEffect DEF Labels
  <2>3. to_copy'[t] = buflen[t] /\ \A u \in Terms \ {t} : to_copy'[u] = to_copy[u]
    BY <2>1 DEF DataOK
  <2>5. ubuf[t] = <<>> /\ enter_pressed[t] = 0 /\ nbytes[t] # 0
        /\ buflen[t] < Least(nbytes[t], KEYBUFSIZE)
    BY <2>2 DEF Good, ReadInv
  <2>6. Len(ubuf[t]) = 0 /\ buflen[t] = Least(nbytes[t], buflen[t]) BY <1>b, <2>5 DEF Least
  <2>7. Good(t)' BY <1>b, <2>1, <2>2, <2>3, <2>5, <2>6 DEF Good
  <2>8. \A u \in Terms \ {t} : Same(u) BY <2>1, <2>2, <2>3 DEF Same
  <2> QED BY <2>7, <2>8, ReadKeeps
<1>10. ASSUME NEW t \in Terms, ReadCopy(t) PROVE ReadInv'
  <2>1. UNCHANGED <<keybuf, buflen, enter_pressed, nbytes, to_copy>> BY <1>10 DEF ReadCopy, buffer
  <2> DEFINE n == Len(ubuf[t])
  <2>2. /\ pc[t] = "copy" /\ \A u \in Terms \ {t} : ubuf'[u] = ubuf[u] /\ pc'[u] = pc[u]
        /\ n \in 0 .. KEYBUFSIZE /\ to_copy[t] \in 0 .. KEYBUFSIZE
        /\ n < to_copy[t] =>
              /\ pc'[t] = "copy" /\ Len(ubuf'[t]) = n + 1
              /\ ubuf'[t][n + 1] = keybuf[t][n]
              /\ \A i \in 1 .. n : ubuf'[t][i] = ubuf[t][i]
        /\ ~(n < to_copy[t]) => pc'[t] = "answer" /\ ubuf' = ubuf
    BY <1>10, CopyEffect
  <2> HIDE DEF n
  <2>3. /\ enter_pressed[t] = 0 /\ nbytes[t] # 0
        /\ to_copy[t] = Least(nbytes[t], buflen[t]) /\ n <= to_copy[t]
        /\ \A i \in 1 .. n : ubuf[t][i] = keybuf[t][i - 1]
    BY <2>2 DEF Good, ReadInv, n
  <2>4. Good(t)'
    <3>1. CASE n < to_copy[t]
      <4>1. Len(ubuf'[t]) <= to_copy[t] BY <2>2, <3>1
      <4>2. \A i \in 1 .. Len(ubuf'[t]) : ubuf'[t][i] = keybuf[t][i - 1]
        <5> SUFFICES ASSUME NEW i \in 1 .. (n + 1) PROVE ubuf'[t][i] = keybuf[t][i - 1]
          BY <2>2, <3>1
        <5>1. CASE i = n + 1
          <6>1. i - 1 = n BY <2>2, <5>1
          <6> QED BY <2>2, <3>1, <5>1, <6>1
        <5>2. CASE i # n + 1
          <6>1. i \in 1 .. n BY <2>2, <5>2
          <6> QED BY <2>2, <2>3, <3>1, <6>1
        <5> QED BY <5>1, <5>2
      <4> QED BY <2>1, <2>2, <2>3, <3>1, <4>1, <4>2 DEF Good
    <3>2. CASE ~(n < to_copy[t])
      <4>1. Len(ubuf'[t]) = n /\ ubuf' = ubuf /\ pc'[t] = "answer" BY <2>2, <3>2 DEF n
      <4>2. n = to_copy[t] BY <2>2, <2>3, <3>2
      <4> QED BY <2>1, <2>3, <4>1, <4>2 DEF Good
    <3> QED BY <3>1, <3>2
  <2>5. \A u \in Terms \ {t} : Same(u) BY <2>1, <2>2 DEF Same
  <2> QED BY <2>4, <2>5, ReadKeeps
<1>11. ASSUME NEW t \in Terms, ReadAnswer(t) PROVE ReadInv'
  <2>1. /\ Goto(t, "answer", "wipe") /\ enter_pressed' = [enter_pressed EXCEPT ![t] = 1]
        /\ UNCHANGED <<keybuf, buflen, nbytes, to_copy, ubuf>>
    BY <1>11 DEF ReadAnswer
  <2>2. pc[t] = "answer" /\ pc'[t] = "wipe" /\ \A u \in Terms \ {t} : pc'[u] = pc[u]
    BY <2>1, GotoEffect DEF Labels
  <2>3. enter_pressed'[t] = 1 /\ \A u \in Terms \ {t} : enter_pressed'[u] = enter_pressed[u]
    BY <2>1 DEF DataOK
  <2>4. Good(t)' BY <2>1, <2>2, <2>3 DEF Good, ReadInv
  <2>5. \A u \in Terms \ {t} : Same(u) BY <2>1, <2>2, <2>3 DEF Same
  <2> QED BY <2>4, <2>5, ReadKeeps
<1>12. ASSUME NEW t \in Terms, ReadWipe(t) PROVE ReadInv'
  <2>1. /\ Goto(t, "wipe", "empty")
        /\ keybuf' = [keybuf EXCEPT ![t] = [i \in 0 .. (KEYBUFSIZE - 1) |-> NUL]]
        /\ UNCHANGED <<buflen, enter_pressed, nbytes, to_copy, ubuf>>
    BY <1>12 DEF ReadWipe
  <2>2. pc[t] = "wipe" /\ pc'[t] = "empty" /\ \A u \in Terms \ {t} : pc'[u] = pc[u]
    BY <2>1, GotoEffect DEF Labels
  <2>3. \A u \in Terms \ {t} : keybuf'[u] = keybuf[u] BY <2>1 DEF DataOK
  <2>4. enter_pressed[t] = 1 /\ nbytes[t] # 0 BY <2>2 DEF Good, ReadInv
  <2>5. Good(t)' BY <2>1, <2>2, <2>4 DEF Good
  <2>6. \A u \in Terms \ {t} : Same(u) BY <2>1, <2>2, <2>3 DEF Same
  <2> QED BY <2>5, <2>6, ReadKeeps
<1>13. ASSUME NEW t \in Terms, ReadEmpty(t) PROVE ReadInv'
  <2>1. /\ Goto(t, "empty", "user") /\ buflen' = [buflen EXCEPT ![t] = 0]
        /\ nbytes' = [nbytes EXCEPT ![t] = 0] /\ to_copy' = [to_copy EXCEPT ![t] = 0]
        /\ UNCHANGED <<keybuf, enter_pressed, ubuf>>
    BY <1>13 DEF ReadEmpty, Done
  <2>2. pc'[t] = "user" /\ \A u \in Terms \ {t} : pc'[u] = pc[u]
    BY <2>1, GotoEffect DEF Labels
  <2>3. nbytes'[t] = 0 /\ \A u \in Terms \ {t} : /\ buflen'[u] = buflen[u]
                                                 /\ nbytes'[u] = nbytes[u] /\ to_copy'[u] = to_copy[u]
    BY <2>1 DEF DataOK
  <2>4. Good(t)' BY <2>2, <2>3 DEF Good
  <2>5. \A u \in Terms \ {t} : Same(u) BY <2>1, <2>2, <2>3 DEF Same
  <2> QED BY <2>4, <2>5, ReadKeeps
<1>14. CASE UNCHANGED vars BY <1>14 DEF vars, buffer, reader, ReadInv, Good
<1> QED BY <1>1, <1>2, <1>3, <1>4, <1>5, <1>6, <1>7, <1>8, <1>9, <1>10, <1>11, <1>12, <1>13, <1>14
        DEF Next, ReadStep

-----------------------------------------------------------------------------
(* The lines of Lines *)

\* What Typed takes from the state.
TypedNow   == [t \in Terms |-> IF pc[t] = "empty" THEN <<>>
                               ELSE [i \in 1 .. buflen[t] |-> keybuf[t][i - 1]]]
EnteredNow == {t \in Terms : enter_pressed[t] = 0 \/ pc[t] = "wipe"}
AskedNow   == [t \in Terms |-> IF pc[t] = "empty" THEN 0 ELSE nbytes[t]]
GotNow     == [t \in Terms |-> IF pc[t] \in {"empty", "user"} THEN ubuf[t] ELSE <<>>]
linesNow   == <<TypedNow, EnteredNow, AskedNow, GotNow>>

\* The steps of Lines, as they look from here.
Types1(t, c) ==
    /\ Len(TypedNow[t]) < KEYBUFSIZE
    /\ TypedNow' = [TypedNow EXCEPT ![t] = Append(@, c)]
    /\ EnteredNow' = IF c = "nl" THEN EnteredNow \cup {t} ELSE EnteredNow
    /\ AskedNow' = AskedNow /\ GotNow' = GotNow
Erases(t) ==
    /\ TypedNow[t] # <<>> /\ TypedNow[t][Len(TypedNow[t])] # "nl"
    /\ TypedNow' = [TypedNow EXCEPT ![t] = SubSeq(@, 1, Len(@) - 1)]
    /\ EnteredNow' = EnteredNow /\ AskedNow' = AskedNow /\ GotNow' = GotNow
Asks(t, n) ==
    /\ AskedNow[t] = 0
    /\ AskedNow' = [AskedNow EXCEPT ![t] = n]
    /\ GotNow' = [GotNow EXCEPT ![t] = <<>>]
    /\ TypedNow' = TypedNow /\ EnteredNow' = EnteredNow
Delivers(t) ==
    /\ AskedNow[t] # 0 /\ t \in EnteredNow
    /\ GotNow' = [GotNow EXCEPT ![t] =
                    SubSeq(TypedNow[t], 1, IF AskedNow[t] < Len(TypedNow[t]) THEN AskedNow[t]
                                           ELSE Len(TypedNow[t]))]
    /\ TypedNow' = [TypedNow EXCEPT ![t] = <<>>]
    /\ EnteredNow' = EnteredNow \ {t}
    /\ AskedNow' = [AskedNow EXCEPT ![t] = 0]
LinesStep ==
    \/ \E t \in Terms : \/ \E c \in {"l", "L", "nl"} : Types1(t, c)
                        \/ Erases(t)
                        \/ \E n \in Sizes : Asks(t, n)
                        \/ Delivers(t)
    \/ UNCHANGED linesNow

\* They are its steps.
LEMMA LinesSteps == LinesStep => [Typed!Next]_linesNow
<1> SUFFICES ASSUME LinesStep PROVE [Typed!Next]_linesNow OBVIOUS
<1>1. ASSUME NEW t \in Terms, NEW c \in {"l", "L", "nl"}, Types1(t, c) PROVE Typed!Next
  <2>1. Typed!Type(t, c)
    BY <1>1 DEF Types1, Typed!Type, TypedNow, EnteredNow, AskedNow, GotNow
  <2> QED BY <2>1 DEF Typed!Next
<1>2. ASSUME NEW t \in Terms, Erases(t) PROVE Typed!Next
  <2>1. Typed!Erase(t)
    BY <1>2 DEF Erases, Typed!Erase, TypedNow, EnteredNow, AskedNow, GotNow
  <2> QED BY <2>1 DEF Typed!Next
<1>3. ASSUME NEW t \in Terms, NEW n \in Sizes, Asks(t, n) PROVE Typed!Next
  <2>1. Typed!Ask(t, n)
    BY <1>3 DEF Asks, Typed!Ask, TypedNow, EnteredNow, AskedNow, GotNow
  <2> QED BY <2>1 DEF Typed!Next
<1>4. ASSUME NEW t \in Terms, Delivers(t) PROVE Typed!Next
  <2>1. Typed!Deliver(t)
    BY <1>4 DEF Delivers, Typed!Deliver, TypedNow, EnteredNow, AskedNow, GotNow
  <2> QED BY <2>1 DEF Typed!Next
<1> QED BY <1>1, <1>2, <1>3, <1>4 DEF LinesStep

\* Typed characters are a prefix of the row, but for a line just delivered.
LEMMA NowIs ==
    ASSUME DataOK, NEW t \in Terms
    PROVE  /\ pc[t] # "empty" => TypedNow[t] = Prefix(keybuf[t], buflen[t])
           /\ keybuf[t] \in Rows /\ buflen[t] \in 0 .. KEYBUFSIZE
           /\ pc[t] # "empty" => TypedNow[t] \in Seq(Bytes) /\ Len(TypedNow[t]) = buflen[t]
<1>1. keybuf[t] \in Rows /\ buflen[t] \in 0 .. KEYBUFSIZE BY DEF DataOK
<1>2. pc[t] # "empty" => TypedNow[t] = Prefix(keybuf[t], buflen[t]) BY DEF TypedNow, Prefix
<1> QED BY <1>1, <1>2, PrefixSeq

\* A terminal to which nothing happens, in the words of Lines.
LEMMA NowSame ==
    ASSUME NEW u \in Terms, Same(u)
    PROVE  /\ TypedNow'[u] = TypedNow[u] /\ AskedNow'[u] = AskedNow[u] /\ GotNow'[u] = GotNow[u]
           /\ u \in EnteredNow' <=> u \in EnteredNow
BY DEF Same, TypedNow, AskedNow, GotNow, EnteredNow

\* A step of a read at which Lines sees nothing.
LEMMA NowStutters ==
    ASSUME NEW t \in Terms, \A u \in Terms \ {t} : Same(u),
           TypedNow'[t] = TypedNow[t], AskedNow'[t] = AskedNow[t], GotNow'[t] = GotNow[t],
           t \in EnteredNow' <=> t \in EnteredNow
    PROVE  LinesStep
<1>1. \A u \in Terms : /\ TypedNow'[u] = TypedNow[u] /\ AskedNow'[u] = AskedNow[u]
                       /\ GotNow'[u] = GotNow[u] /\ (u \in EnteredNow' <=> u \in EnteredNow)
  BY NowSame
<1>2. TypedNow' = TypedNow BY <1>1 DEF TypedNow
<1>3. AskedNow' = AskedNow BY <1>1 DEF AskedNow
<1>4. GotNow' = GotNow BY <1>1 DEF GotNow
<1>5. EnteredNow' = EnteredNow
  <2>1. EnteredNow \subseteq Terms /\ EnteredNow' \subseteq Terms BY DEF EnteredNow
  <2> QED BY <1>1, <2>1
<1> QED BY <1>2, <1>3, <1>4, <1>5 DEF LinesStep, linesNow

\* A key that types a character.
LEMMA KeyIsTyped ==
    ASSUME Rules \subseteq Discipline, DataOK, NEW c \in {"l", "L", "nl"}, NEW k, Key(k),
           Stored(curr_term, c), UNCHANGED reader,
           c = "nl" => enter_pressed' = [enter_pressed EXCEPT ![curr_term] = 0],
           c # "nl" => enter_pressed' = enter_pressed
    PROVE  LinesStep
<1> DEFINE t == curr_term
           b == buflen[t]
<1>1. t \in Terms /\ pc[t] \in {"user", "wait"} BY KeyTypes
<1>2. c \in Chars /\ c \in Bytes /\ Rule("fits") BY DEF Chars, Bytes, Rule, Rules
<1> HIDE DEF t
<1>3. /\ b \in 0 .. KEYBUFSIZE /\ keybuf[t] \in Rows
      /\ TypedNow[t] = Prefix(keybuf[t], b) /\ Len(TypedNow[t]) = b
  BY <1>1, NowIs
<1>4. /\ keybuf' \in [Terms -> Rows] /\ b < KEYBUFSIZE
      /\ \A u \in Terms \ {t} : keybuf'[u] = keybuf[u] /\ buflen'[u] = buflen[u]
      /\ buflen'[t] = b + 1 /\ keybuf'[t][b] = c
      /\ \A i \in 0 .. (b - 1) : keybuf'[t][i] = keybuf[t][i]
  BY <1>1, <1>2, StoredEffect DEF t
<1>5. pc' = pc /\ nbytes' = nbytes /\ to_copy' = to_copy /\ ubuf' = ubuf BY DEF reader
<1>6. b \in 0 .. (KEYBUFSIZE - 1) /\ keybuf'[t] \in Rows BY <1>1, <1>3, <1>4, Sized
<1>7. Prefix(keybuf'[t], b + 1) = Append(Prefix(keybuf[t], b), c)
  BY <1>2, <1>3, <1>4, <1>6, PrefixNext
<1>8. TypedNow'[t] = Append(TypedNow[t], c)
  <2>1. TypedNow'[t] = Prefix(keybuf'[t], buflen'[t]) BY <1>1, <1>5 DEF TypedNow, Prefix
  <2> QED BY <1>3, <1>4, <1>7, <2>1
<1>9. \A u \in Terms \ {t} : enter_pressed'[u] = enter_pressed[u] BY DEF t, DataOK
<1>10. \A u \in Terms \ {t} : Same(u) BY <1>4, <1>5, <1>9 DEF Same
<1>11. \A u \in Terms \ {t} : /\ TypedNow'[u] = TypedNow[u]
                              /\ u \in EnteredNow' <=> u \in EnteredNow
  BY <1>10, NowSame
<1>12. TypedNow' = [TypedNow EXCEPT ![t] = Append(@, c)]
  <2> DEFINE a == Append(TypedNow[t], c)
  <2>1. TypedNow'[t] = a BY <1>8
  <2> HIDE DEF a
  <2>2. TypedNow' = [TypedNow EXCEPT ![t] = a]
    <3>1. TypedNow' = [u \in Terms |-> TypedNow'[u]] /\ TypedNow = [u \in Terms |-> TypedNow[u]]
      BY DEF TypedNow
    <3> QED BY <1>1, <1>11, <2>1, <3>1
  <2> QED BY <2>2 DEF a
<1>13. EnteredNow' = IF c = "nl" THEN EnteredNow \cup {t} ELSE EnteredNow
  <2>1. EnteredNow \subseteq Terms /\ EnteredNow' \subseteq Terms BY DEF EnteredNow
  <2>2. c = "nl" => t \in EnteredNow' BY <1>1 DEF EnteredNow, t, DataOK
  <2>3. c # "nl" => (t \in EnteredNow' <=> t \in EnteredNow) BY <1>5 DEF EnteredNow
  <2> QED BY <1>1, <1>11, <2>1, <2>2, <2>3
<1>14. AskedNow' = AskedNow /\ GotNow' = GotNow BY <1>5 DEF AskedNow, GotNow
<1> QED BY <1>1, <1>3, <1>4, <1>12, <1>13, <1>14 DEF LinesStep, Types1

\* Backspace.
LEMMA KeyErases ==
    ASSUME Rules \subseteq Discipline, DataOK, PressBack, buflen[curr_term] >= 1
    PROVE  LinesStep
<1> DEFINE t == curr_term
           b == buflen[t]
           d == b - 1
<1>0. Key("Back") /\ UNCHANGED <<keybuf, enter_pressed, reader>> BY DEF PressBack
<1>1. t \in Terms /\ pc[t] \in {"user", "wait"} BY <1>0, KeyTypes
<1>2. keybuf[t][d] # "nl" /\ buflen' = [buflen EXCEPT ![t] = d] BY DEF PressBack, Rule, Rules
<1> HIDE DEF t
<1>3. /\ b \in 0 .. KEYBUFSIZE /\ keybuf[t] \in Rows /\ b >= 1 /\ KEYBUFSIZE \in Nat
      /\ TypedNow[t] = Prefix(keybuf[t], b) /\ Len(TypedNow[t]) = b
      /\ TypedNow[t] \in Seq(Bytes)
  BY <1>1, NowIs, Sized DEF t
<1>4. d \in 0 .. b /\ b \in 1 .. b BY <1>3
<1>5. TypedNow[t][b] = keybuf[t][d] BY <1>3, <1>4 DEF Prefix
<1>6. SubSeq(TypedNow[t], 1, d) = Prefix(keybuf[t], d) BY <1>3, <1>4, PrefixCut
<1> HIDE DEF d
<1>7. buflen'[t] = d /\ \A u \in Terms \ {t} : buflen'[u] = buflen[u] BY <1>1, <1>2 DEF DataOK
<1>8. pc' = pc /\ nbytes' = nbytes /\ to_copy' = to_copy /\ ubuf' = ubuf BY <1>0 DEF reader
<1>9. \A u \in Terms \ {t} : Same(u) BY <1>0, <1>7, <1>8 DEF Same
<1>10. \A u \in Terms \ {t} : TypedNow'[u] = TypedNow[u] BY <1>9, NowSame
<1>11. TypedNow'[t] = SubSeq(TypedNow[t], 1, d)
  <2>1. TypedNow'[t] = Prefix(keybuf[t], d) BY <1>0, <1>1, <1>7, <1>8 DEF TypedNow, Prefix
  <2> QED BY <1>6, <2>1
<1>12. TypedNow' = [TypedNow EXCEPT ![t] = SubSeq(@, 1, Len(@) - 1)]
  <2> DEFINE a == SubSeq(TypedNow[t], 1, d)
  <2>1. TypedNow'[t] = a BY <1>11
  <2> HIDE DEF a
  <2>2. TypedNow' = [TypedNow EXCEPT ![t] = a]
    <3>1. TypedNow' = [u \in Terms |-> TypedNow'[u]] /\ TypedNow = [u \in Terms |-> TypedNow[u]]
      BY DEF TypedNow
    <3> QED BY <1>1, <1>10, <2>1, <3>1
  <2>3. Len(TypedNow[t]) - 1 = d BY <1>3 DEF d
  <2> QED BY <2>2, <2>3 DEF a
<1>13. EnteredNow' = EnteredNow /\ AskedNow' = AskedNow /\ GotNow' = GotNow
  BY <1>0, <1>8 DEF EnteredNow, AskedNow, GotNow
<1>14. TypedNow[t] # <<>> BY <1>3
<1>15. TypedNow[t][Len(TypedNow[t])] # "nl" BY <1>2, <1>3, <1>5
<1> QED BY <1>1, <1>12, <1>13, <1>14, <1>15 DEF LinesStep, Erases

\* A read that begins asks for some characters.
LEMMA CallAsks ==
    ASSUME DataOK, ReadInv, NEW t \in Terms, ReadCall(t)
    PROVE  LinesStep
<1>1. PICK n \in Sizes : nbytes' = [nbytes EXCEPT ![t] = n] BY DEF ReadCall
<1>2. /\ ubuf' = [ubuf EXCEPT ![t] = <<>>] /\ Goto(t, "user", "wait")
      /\ UNCHANGED <<keybuf, buflen, enter_pressed, to_copy>>
  BY DEF ReadCall, buffer
<1>3. pc[t] = "user" /\ pc'[t] = "wait" /\ \A u \in Terms \ {t} : pc'[u] = pc[u]
  BY <1>2, GotoEffect DEF Labels
<1>4. nbytes'[t] = n /\ \A u \in Terms \ {t} : nbytes'[u] = nbytes[u] BY <1>1 DEF DataOK
<1>5. \A u \in Terms \ {t} : ubuf'[u] = ubuf[u] BY <1>2 DEF DataOK
<1>6. \A u \in Terms \ {t} : Same(u) BY <1>2, <1>3, <1>4, <1>5 DEF Same
<1>7. \A u \in Terms \ {t} : /\ AskedNow'[u] = AskedNow[u] /\ GotNow'[u] = GotNow[u]
                             /\ TypedNow'[u] = TypedNow[u]
  BY <1>6, NowSame
<1>8. AskedNow[t] = 0 BY <1>3 DEF AskedNow, ReadInv, Good
<1>9. AskedNow' = [AskedNow EXCEPT ![t] = n]
  <2>1. AskedNow'[t] = n BY <1>3, <1>4 DEF AskedNow
  <2>2. AskedNow' = [u \in Terms |-> AskedNow'[u]] /\ AskedNow = [u \in Terms |-> AskedNow[u]]
    BY DEF AskedNow
  <2> QED BY <1>7, <2>1, <2>2
<1>10. GotNow' = [GotNow EXCEPT ![t] = <<>>]
  <2>1. GotNow'[t] = <<>> BY <1>3 DEF GotNow
  <2>2. GotNow' = [u \in Terms |-> GotNow'[u]] /\ GotNow = [u \in Terms |-> GotNow[u]]
    BY DEF GotNow
  <2> QED BY <1>7, <2>1, <2>2
<1>11. TypedNow' = TypedNow
  <2>1. TypedNow'[t] = TypedNow[t] BY <1>2, <1>3 DEF TypedNow
  <2>2. TypedNow' = [u \in Terms |-> TypedNow'[u]] /\ TypedNow = [u \in Terms |-> TypedNow[u]]
    BY DEF TypedNow
  <2> QED BY <1>7, <2>1, <2>2
<1>12. EnteredNow' = EnteredNow
  <2>1. \A u \in Terms : u \in EnteredNow' <=> u \in EnteredNow
    BY <1>2, <1>3 DEF EnteredNow
  <2>2. EnteredNow \subseteq Terms /\ EnteredNow' \subseteq Terms BY DEF EnteredNow
  <2> QED BY <2>1, <2>2
<1> QED BY <1>8, <1>9, <1>10, <1>11, <1>12 DEF LinesStep, Asks

\* The line is delivered when the buffer is wiped.
LEMMA WipeDelivers ==
    ASSUME DataOK, ReadInv, NEW t \in Terms, ReadWipe(t)
    PROVE  LinesStep
<1> DEFINE b == buflen[t]
           k == to_copy[t]
<1>1. /\ Goto(t, "wipe", "empty")
      /\ keybuf' = [keybuf EXCEPT ![t] = [i \in 0 .. (KEYBUFSIZE - 1) |-> NUL]]
      /\ UNCHANGED <<buflen, enter_pressed, nbytes, to_copy, ubuf>>
  BY DEF ReadWipe
<1>2. pc[t] = "wipe" /\ pc'[t] = "empty" /\ \A u \in Terms \ {t} : pc'[u] = pc[u]
  BY <1>1, GotoEffect DEF Labels
<1>3. \A u \in Terms \ {t} : keybuf'[u] = keybuf[u] BY <1>1 DEF DataOK
<1>4. /\ enter_pressed[t] = 1 /\ nbytes[t] # 0 /\ k = Least(nbytes[t], b) /\ Len(ubuf[t]) = k
      /\ \A i \in 1 .. k : ubuf[t][i] = keybuf[t][i - 1]
  BY <1>2 DEF ReadInv, Good
<1>5. /\ b \in 0 .. KEYBUFSIZE /\ keybuf[t] \in Rows /\ KEYBUFSIZE \in Nat
      /\ TypedNow[t] = Prefix(keybuf[t], b) /\ Len(TypedNow[t]) = b
  BY <1>2, NowIs, Sized
<1>6. nbytes[t] \in Nat
  <2>1. nbytes[t] \in Sizes \cup {0} BY DEF DataOK
  <2>2. \A n \in Sizes \cup {0} : n \in Nat BY LineInputAssumption
  <2> QED BY <2>1, <2>2
<1>7. k \in 0 .. b /\ k \in 0 .. KEYBUFSIZE BY <1>4, <1>5, <1>6 DEF Least
<1>8. ubuf[t] = Prefix(keybuf[t], k)
  <2>1. Prefix(keybuf[t], k) \in Seq(Bytes) /\ Len(Prefix(keybuf[t], k)) = k
    BY <1>5, <1>7, PrefixSeq
  <2>2. \A i \in 1 .. k : Prefix(keybuf[t], k)[i] = keybuf[t][i - 1] BY DEF Prefix
  <2>3. ubuf[t] \in Seq(Bytes) BY ShortIs DEF DataOK
  <2> QED BY <1>4, <2>1, <2>2, <2>3, SeqEqual
<1>9. ubuf[t] = SubSeq(TypedNow[t], 1, k) BY <1>5, <1>7, <1>8, PrefixCut
<1>10. AskedNow[t] = nbytes[t] /\ AskedNow'[t] = 0 /\ TypedNow'[t] = <<>>
       /\ GotNow'[t] = ubuf[t]
  BY <1>1, <1>2 DEF AskedNow, TypedNow, GotNow
<1>11. k = IF AskedNow[t] < Len(TypedNow[t]) THEN AskedNow[t] ELSE Len(TypedNow[t])
  BY <1>4, <1>5, <1>10 DEF Least
<1>12. \A u \in Terms \ {t} : Same(u) BY <1>1, <1>2, <1>3 DEF Same
<1>13. \A u \in Terms \ {t} : /\ AskedNow'[u] = AskedNow[u] /\ GotNow'[u] = GotNow[u]
                              /\ TypedNow'[u] = TypedNow[u]
                              /\ u \in EnteredNow' <=> u \in EnteredNow
  BY <1>12, NowSame
<1>14. AskedNow' = [AskedNow EXCEPT ![t] = 0]
  <2>1. AskedNow' = [u \in Terms |-> AskedNow'[u]] /\ AskedNow = [u \in Terms |-> AskedNow[u]]
    BY DEF AskedNow
  <2> QED BY <1>10, <1>13, <2>1
<1>15. GotNow' = [GotNow EXCEPT ![t] = ubuf[t]]
  <2>1. GotNow' = [u \in Terms |-> GotNow'[u]] /\ GotNow = [u \in Terms |-> GotNow[u]]
    BY DEF GotNow
  <2> QED BY <1>10, <1>13, <2>1
<1>16. TypedNow' = [TypedNow EXCEPT ![t] = <<>>]
  <2>1. TypedNow' = [u \in Terms |-> TypedNow'[u]] /\ TypedNow = [u \in Terms |-> TypedNow[u]]
    BY DEF TypedNow
  <2> QED BY <1>10, <1>13, <2>1
<1>17. t \in EnteredNow /\ EnteredNow' = EnteredNow \ {t}
  <2>1. t \in EnteredNow /\ t \notin EnteredNow' BY <1>1, <1>2, <1>4 DEF EnteredNow
  <2>2. EnteredNow \subseteq Terms /\ EnteredNow' \subseteq Terms BY DEF EnteredNow
  <2> QED BY <1>13, <2>1, <2>2
<1>18. GotNow' = [GotNow EXCEPT ![t] =
         SubSeq(TypedNow[t], 1, IF AskedNow[t] < Len(TypedNow[t]) THEN AskedNow[t]
                                ELSE Len(TypedNow[t]))]
  BY <1>9, <1>11, <1>15
<1>19. AskedNow[t] # 0 BY <1>4, <1>10
<1> HIDE DEF b, k
<1> QED BY <1>14, <1>16, <1>17, <1>18, <1>19 DEF LinesStep, Delivers

\* The other labels only pass.
LEMMA ReadPasses ==
    ASSUME DataOK, ReadInv, NEW t \in Terms, ReadStep(t), ~ReadWipe(t)
    PROVE  LinesStep
<1>1. CASE ReadWait(t)
  <2>1. /\ Goto(t, "wait", "measure")
        /\ UNCHANGED <<keybuf, buflen, enter_pressed, nbytes, to_copy, ubuf>>
    BY <1>1 DEF ReadWait, buffer
  <2>2. pc[t] = "wait" /\ pc'[t] = "measure" /\ \A u \in Terms \ {t} : pc'[u] = pc[u]
    BY <2>1, GotoEffect DEF Labels
  <2>3. \A u \in Terms \ {t} : Same(u) BY <2>1, <2>2 DEF Same
  <2>4. /\ TypedNow'[t] = TypedNow[t] /\ AskedNow'[t] = AskedNow[t] /\ GotNow'[t] = GotNow[t]
        /\ t \in EnteredNow' <=> t \in EnteredNow
    BY <2>1, <2>2 DEF TypedNow, AskedNow, GotNow, EnteredNow
  <2> QED BY <2>3, <2>4, NowStutters
<1>2. CASE ReadMeasure(t)
  <2> DEFINE l == IF buflen[t] < Least(nbytes[t], KEYBUFSIZE) THEN "shorten" ELSE "copy"
             n == Least(nbytes[t], KEYBUFSIZE)
  <2>1. /\ Goto(t, "measure", l) /\ to_copy' = [to_copy EXCEPT ![t] = n]
        /\ UNCHANGED <<keybuf, buflen, enter_pressed, nbytes, ubuf>>
    BY <1>2 DEF ReadMeasure, buffer
  <2>0. l \in {"shorten", "copy"} OBVIOUS
  <2> HIDE DEF l, n
  <2>2. pc[t] = "measure" /\ pc'[t] = l /\ \A u \in Terms \ {t} : pc'[u] = pc[u]
    BY <2>0, <2>1, GotoEffect DEF Labels
  <2>3. \A u \in Terms \ {t} : to_copy'[u] = to_copy[u] BY <2>1 DEF DataOK
  <2>4. \A u \in Terms \ {t} : Same(u) BY <2>1, <2>2, <2>3 DEF Same
  <2>5. /\ TypedNow'[t] = TypedNow[t] /\ AskedNow'[t] = AskedNow[t] /\ GotNow'[t] = GotNow[t]
        /\ t \in EnteredNow' <=> t \in EnteredNow
    BY <2>0, <2>1, <2>2 DEF TypedNow, AskedNow, GotNow, EnteredNow
  <2> QED BY <2>4, <2>5, NowStutters
<1>3. CASE ReadShorten(t)
  <2>1. /\ Goto(t, "shorten", "copy") /\ to_copy' = [to_copy EXCEPT ![t] = buflen[t]]
        /\ UNCHANGED <<keybuf, buflen, enter_pressed, nbytes, ubuf>>
    BY <1>3 DEF ReadShorten, buffer
  <2>2. pc[t] = "shorten" /\ pc'[t] = "copy" /\ \A u \in Terms \ {t} : pc'[u] = pc[u]
    BY <2>1, GotoEffect DEF Labels
  <2>3. \A u \in Terms \ {t} : to_copy'[u] = to_copy[u] BY <2>1 DEF DataOK
  <2>4. \A u \in Terms \ {t} : Same(u) BY <2>1, <2>2, <2>3 DEF Same
  <2>5. /\ TypedNow'[t] = TypedNow[t] /\ AskedNow'[t] = AskedNow[t] /\ GotNow'[t] = GotNow[t]
        /\ t \in EnteredNow' <=> t \in EnteredNow
    BY <2>1, <2>2 DEF TypedNow, AskedNow, GotNow, EnteredNow
  <2> QED BY <2>4, <2>5, NowStutters
<1>4. CASE ReadCopy(t)
  <2>1. UNCHANGED <<keybuf, buflen, enter_pressed, nbytes, to_copy>>
    BY <1>4 DEF ReadCopy, buffer
  <2>2. /\ pc[t] = "copy" /\ pc'[t] \in {"copy", "answer"}
        /\ \A u \in Terms \ {t} : ubuf'[u] = ubuf[u] /\ pc'[u] = pc[u]
    BY <1>4, CopyEffect
  <2>3. \A u \in Terms \ {t} : Same(u) BY <2>1, <2>2 DEF Same
  <2>4. /\ TypedNow'[t] = TypedNow[t] /\ AskedNow'[t] = AskedNow[t] /\ GotNow'[t] = GotNow[t]
        /\ t \in EnteredNow' <=> t \in EnteredNow
    BY <2>1, <2>2 DEF TypedNow, AskedNow, GotNow, EnteredNow
  <2> QED BY <2>3, <2>4, NowStutters
<1>5. CASE ReadAnswer(t)
  <2>1. /\ Goto(t, "answer", "wipe") /\ enter_pressed' = [enter_pressed EXCEPT ![t] = 1]
        /\ UNCHANGED <<keybuf, buflen, nbytes, to_copy, ubuf>>
    BY <1>5 DEF ReadAnswer
  <2>2. pc[t] = "answer" /\ pc'[t] = "wipe" /\ \A u \in Terms \ {t} : pc'[u] = pc[u]
    BY <2>1, GotoEffect DEF Labels
  <2>3. \A u \in Terms \ {t} : enter_pressed'[u] = enter_pressed[u] BY <2>1 DEF DataOK
  <2>4. enter_pressed[t] = 0 BY <2>2 DEF ReadInv, Good
  <2>5. \A u \in Terms \ {t} : Same(u) BY <2>1, <2>2, <2>3 DEF Same
  <2>6. TypedNow'[t] = TypedNow[t] /\ AskedNow'[t] = AskedNow[t] /\ GotNow'[t] = GotNow[t]
    BY <2>1, <2>2 DEF TypedNow, AskedNow, GotNow
  <2>7. t \in EnteredNow' /\ t \in EnteredNow BY <2>2, <2>4 DEF EnteredNow
  <2> QED BY <2>5, <2>6, <2>7, NowStutters
<1>6. CASE ReadEmpty(t)
  <2>1. /\ Goto(t, "empty", "user") /\ buflen' = [buflen EXCEPT ![t] = 0]
        /\ nbytes' = [nbytes EXCEPT ![t] = 0] /\ to_copy' = [to_copy EXCEPT ![t] = 0]
        /\ UNCHANGED <<keybuf, enter_pressed, ubuf>>
    BY <1>6 DEF ReadEmpty, Done
  <2>2. pc[t] = "empty" /\ pc'[t] = "user" /\ \A u \in Terms \ {t} : pc'[u] = pc[u]
    BY <2>1, GotoEffect DEF Labels
  <2>3. nbytes'[t] = 0 /\ buflen'[t] = 0
        /\ \A u \in Terms \ {t} : /\ buflen'[u] = buflen[u]
                                  /\ nbytes'[u] = nbytes[u] /\ to_copy'[u] = to_copy[u]
    BY <2>1 DEF DataOK
  <2>4. \A u \in Terms \ {t} : Same(u) BY <2>1, <2>2, <2>3 DEF Same
  <2>5. AskedNow'[t] = AskedNow[t] /\ GotNow'[t] = GotNow[t]
        /\ (t \in EnteredNow' <=> t \in EnteredNow)
    BY <2>1, <2>2, <2>3 DEF AskedNow, GotNow, EnteredNow
  <2>6. TypedNow'[t] = TypedNow[t]
    <3>1. TypedNow[t] = <<>> BY <2>2 DEF TypedNow
    <3>2. TypedNow'[t] = [i \in 1 .. 0 |-> keybuf'[t][i - 1]] BY <2>2, <2>3 DEF TypedNow
    <3>3. [i \in 1 .. 0 |-> keybuf'[t][i - 1]] = <<>> OBVIOUS
    <3> QED BY <3>1, <3>2, <3>3
  <2> QED BY <2>4, <2>5, <2>6, NowStutters
<1> QED BY <1>1, <1>2, <1>3, <1>4, <1>5, <1>6 DEF ReadStep

\* Under the rules every step is one of Lines or passes.
LEMMA LinesNext ==
    Rules \subseteq Discipline => (DataOK /\ ReadInv /\ [Next]_vars => LinesStep)
<1> SUFFICES ASSUME Rules \subseteq Discipline, DataOK, ReadInv, [Next]_vars PROVE LinesStep
  OBVIOUS
<1>a. Rule("slot") /\ curr_term \in Terms BY DEF Rule, Rules, DataOK
<1>s. ASSUME UNCHANGED <<keybuf, buflen, enter_pressed, reader>> PROVE LinesStep
  BY <1>s DEF LinesStep, linesNow, TypedNow, EnteredNow, AskedNow, GotNow, reader
<1>1. ASSUME NEW k \in FlagKeys, PressFlag(k) \/ ReleaseFlag(k) PROVE LinesStep
  BY <1>1, <1>s DEF PressFlag, ReleaseFlag, buffer
<1>2. CASE PressLetter
  <2>1. CASE ctrl[curr_term]
    <3>1. UNCHANGED <<keybuf, buflen>>
      BY <1>2, <1>a, <2>1, UnassignedEffect DEF PressLetter
    <3> QED BY <1>2, <1>s, <3>1 DEF PressLetter
  <2>2. CASE ~ctrl[curr_term]
    <3>1. Key("L") /\ Stored(curr_term, Letter(curr_term)) /\ UNCHANGED <<enter_pressed, reader>>
      BY <1>2, <2>2 DEF PressLetter
    <3>2. Letter(curr_term) \in {"l", "L"} BY DEF Letter
    <3> QED BY <3>1, <3>2, KeyIsTyped
  <2> QED BY <2>1, <2>2
<1>3. CASE PressEnter BY <1>3, KeyIsTyped DEF PressEnter
<1>4. CASE PressBack
  <2>1. CASE buflen[curr_term] >= 1 BY <1>4, <2>1, KeyErases
  <2>2. CASE ~(buflen[curr_term] >= 1)
    <3>1. UNCHANGED <<keybuf, buflen>>
      BY <1>4, <1>a, <2>2, UnassignedEffect DEF PressBack
    <3> QED BY <1>4, <1>s, <3>1 DEF PressBack
  <2> QED BY <2>1, <2>2
<1>5. ASSUME NEW t \in Terms, PressSwitch(t) PROVE LinesStep
  <2>1. UNCHANGED <<keybuf, buflen>> BY <1>5, <1>a, UnassignedEffect DEF PressSwitch
  <2> QED BY <1>5, <1>s, <2>1 DEF PressSwitch
<1>6. ASSUME NEW t \in Terms, ReadCall(t) PROVE LinesStep BY <1>6, CallAsks
<1>7. ASSUME NEW t \in Terms, ReadStep(t) PROVE LinesStep BY <1>7, WipeDelivers, ReadPasses
<1>8. CASE UNCHANGED vars BY <1>8, <1>s DEF vars, buffer
<1> QED BY <1>1, <1>2, <1>3, <1>4, <1>5, <1>6, <1>7, <1>8 DEF Next

\* The programs of each terminal read the lines typed on it: nothing lost,
\* doubled, reordered or made up, whatever is switched, for every number of
\* terminals, size of the buffer and of the reads.
THEOREM LinesAreRead == Rules \subseteq Discipline => (Spec => ImplementsLines)
<1> SUFFICES ASSUME Rules \subseteq Discipline PROVE Spec => ImplementsLines OBVIOUS
<1> DEFINE I == DataOK /\ FlagsOK /\ AltIsHeld /\ ReadInv
<1>1. Init => I
  <2> SUFFICES ASSUME Init PROVE ReadInv BY TypesInit
  <2>1. \A t \in Terms : pc[t] = "user" /\ nbytes[t] = 0 BY DEF Init
  <2> QED BY <2>1 DEF ReadInv, Good
<1>2. I /\ [Next]_vars => I' BY DataNext, FlagsNext, ReadInvNext
<1>3. Init => Typed!Init
  <2> SUFFICES ASSUME Init PROVE Typed!Init OBVIOUS
  <2>1. \A t \in Terms : pc[t] = "user" /\ nbytes[t] = 0 /\ ubuf[t] = <<>> /\ buflen[t] = 0
                         /\ enter_pressed[t] = 1
    BY DEF Init
  <2>2. \A t \in Terms : [i \in 1 .. buflen[t] |-> keybuf[t][i - 1]] = <<>>
    <3> SUFFICES ASSUME NEW t \in Terms PROVE [i \in 1 .. buflen[t] |-> keybuf[t][i - 1]] = <<>>
      OBVIOUS
    <3>1. [i \in 1 .. 0 |-> keybuf[t][i - 1]] = <<>> OBVIOUS
    <3> QED BY <2>1, <3>1
  <2> QED BY <2>1, <2>2 DEF Typed!Init
<1>4. I /\ [Next]_vars => [Typed!Next]_linesNow BY LinesNext, LinesSteps
<1> QED BY <1>1, <1>2, <1>3, <1>4, PTL
        DEF Spec, ImplementsLines, Typed!Spec, linesNow, TypedNow, EnteredNow, AskedNow, GotNow
=============================================================================
