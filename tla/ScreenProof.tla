---------------------------- MODULE ScreenProof ----------------------------
(* Proofs about Screen for every size of screen, every number of terminals  *)
(* and every character printed or typed.                                    *)
EXTENDS Screen, TLAPS

-----------------------------------------------------------------------------
(* Screens as records *)

ScreenRecord == [x : Int, y : Int, runon : {0, 1}, ink : SUBSET Int]

\* What a screen's fields hold.
LEMMA Fields ==
    ASSUME NEW s \in ScreenRecord
    PROVE  s.x \in Int /\ s.y \in Int /\ s.runon \in {0, 1} /\ s.ink \in SUBSET Int
BY DEF ScreenRecord

-----------------------------------------------------------------------------
(* Where the cursor goes *)

\* The cells of a page a store may reach: the screen and one row below it.
Page == 0 .. (Size + NUM_COLS - 1)

\* In the middle of a putc the cursor may stand off the right edge, by a tab.
OnRows(s) == s \in ScreenRecord /\ s.y \in 0 .. (NUM_ROWS - 1) /\ s.x \in 0 .. (NUM_COLS - 1 + TAB4)
Inside(s) == OnRows(s) /\ s.x <= NUM_COLS - 2

\* Going back from the first cell of a screen that has wrapped.
InCorner(s, g) == g = "bs" /\ s.x = 0 /\ s.y = 0 /\ s.runon = 1

\* The sizes are numbers, and a row has room for the text and a run-on.
LEMMA Numbers == /\ NUM_COLS \in Nat \ {0, 1} /\ NUM_ROWS \in Nat \ {0} /\ TAB4 \in Nat
                 /\ BACK2 \in 2 .. NUM_COLS /\ Size \in Nat
BY DrawingAssumption DEF Size

\* Before the store a cursor goes back or on by a tab, and stays on its row,
\* or goes to the end of the row before.
LEMMA AimedInside ==
    ASSUME NEW s, NEW g \in Glyphs, OnRows(s), ~InCorner(s, g),
           s.x <= NUM_COLS - 2 \/ g # "tab"
    PROVE  LET v == Aimed(s, g) IN
           /\ OnRows(v) /\ v.ink = s.ink /\ v.runon = s.runon
           /\ (s.x <= NUM_COLS - 2 /\ g # "tab") => v.x <= NUM_COLS - 2
           /\ g = "bs" /\ s.x >= 1 => v.x = s.x - 1 /\ v.y = s.y
           /\ g = "bs" /\ s.x < 1 /\ s.runon = 1 => v.x = NUM_COLS - BACK2 /\ v.y = s.y - 1
           /\ g = "bs" /\ s.x < 1 /\ s.runon # 1 => v = s
           /\ g = "tab" => v.x = s.x + TAB4 /\ v.y = s.y
           /\ g \notin {"bs", "tab"} => v = s
<1> DEFINE v == Aimed(s, g)
<1>0. s \in ScreenRecord /\ s.x \in Int /\ s.y \in Int BY Fields DEF OnRows
<1>1. CASE g = "bs" /\ s.x >= 1
  <2>1. v = [s EXCEPT !.x = s.x - 1] BY <1>0, <1>1 DEF Aimed
  <2>2. s.x - 1 \in Int BY <1>0
  <2>3. /\ v \in ScreenRecord /\ v.x = s.x - 1 /\ v.y = s.y /\ v.runon = s.runon
        /\ v.ink = s.ink
    BY <1>0, <2>1, <2>2 DEF ScreenRecord
  <2> QED BY <1>0, <1>1, <2>3, Numbers DEF OnRows
<1>2. CASE g = "bs" /\ s.x < 1 /\ s.runon = 1
  <2> DEFINE a == NUM_COLS - BACK2
             b == s.y - 1
  <2>1. v = [s EXCEPT !.x = a, !.y = b] BY <1>0, <1>2 DEF Aimed
  <2>2. a \in Int /\ b \in Int BY <1>0, Numbers
  <2>3. a \in 0 .. (NUM_COLS - 2) /\ b \in 0 .. (NUM_ROWS - 1)
    BY <1>0, <1>2, Numbers DEF OnRows, InCorner
  <2> HIDE DEF a, b
  <2>4. v \in ScreenRecord /\ v.x = a /\ v.y = b /\ v.runon = s.runon /\ v.ink = s.ink
    BY <1>0, <2>1, <2>2 DEF ScreenRecord
  <2>5. v.x = NUM_COLS - BACK2 /\ v.y = s.y - 1 BY <2>4 DEF a, b
  <2> QED BY <1>0, <1>2, <2>2, <2>3, <2>4, <2>5, Numbers DEF OnRows
<1>3. CASE g = "tab"
  <2>1. v = [s EXCEPT !.x = s.x + TAB4] BY <1>3 DEF Aimed
  <2>2. s.x + TAB4 \in Int BY <1>0, Numbers
  <2>3. /\ v \in ScreenRecord /\ v.x = s.x + TAB4 /\ v.y = s.y /\ v.runon = s.runon
        /\ v.ink = s.ink
    BY <1>0, <2>1, <2>2 DEF ScreenRecord
  <2> QED BY <1>0, <1>3, <2>3, Numbers DEF OnRows
<1>4. CASE g # "tab" /\ ~(g = "bs" /\ s.x >= 1) /\ ~(g = "bs" /\ s.x < 1 /\ s.runon = 1)
  <2>1. v = s BY <1>4 DEF Aimed
  <2> QED BY <1>0, <1>4, <2>1 DEF OnRows
<1> QED BY <1>1, <1>2, <1>3, <1>4

\* Scrolling leaves the cells where the page has room for them.
LEMMA ScrolledInside ==
    ASSUME NEW s \in ScreenRecord
    PROVE  LET v == Scrolled(s) IN
           /\ Inside(v) /\ v.y = NUM_ROWS - 1 /\ v.x = 0 /\ v.runon = s.runon
           /\ v.ink = {c \in s.ink : c \notin 0 .. (Size - 1)}
                      \cup {c - NUM_COLS : c \in s.ink \cap (NUM_COLS .. (Size - 1))}
           /\ s.ink \subseteq Page => v.ink \subseteq Page
<1> DEFINE v == Scrolled(s)
           a == 0
           b == NUM_ROWS - 1
           k == {c \in s.ink : c \notin 0 .. (Size - 1)}
                \cup {c - NUM_COLS : c \in s.ink \cap (NUM_COLS .. (Size - 1))}
<1>1. s.ink \subseteq Int BY Fields
<1>2. k \in SUBSET Int BY <1>1, Numbers
<1>3. s.ink \subseteq Page => k \subseteq Page BY Numbers DEF Page
<1>4. v = [s EXCEPT !.x = a, !.y = b, !.ink = k] BY DEF Scrolled
<1>5a. a \in Int /\ b \in Int BY Numbers
<1>5. a = 0 /\ b = NUM_ROWS - 1 BY Numbers
<1> HIDE DEF a, b, k
<1>6. /\ v \in ScreenRecord /\ v.x = a /\ v.y = b /\ v.runon = s.runon /\ v.ink = k
  BY <1>2, <1>4, <1>5a DEF ScreenRecord
<1>7. Inside(v) BY <1>5, <1>6, Numbers DEF Inside, OnRows
<1> QED BY <1>3, <1>5, <1>6, <1>7 DEF k

\* Where a character moves the cursor.
LEMMA MovedOnRows ==
    ASSUME NEW s, NEW g \in Glyphs, OnRows(s)
    PROVE  LET v == Moved(s, g) IN
           /\ OnRows(v) /\ (v.x <= NUM_COLS - 1 \/ v.x = s.x)
           /\ s.ink \subseteq Page => v.ink \subseteq Page
           /\ g \in {"nl", "esc"} => /\ v.x = 0
                                     /\ v.y = IF s.y >= NUM_ROWS - 1 THEN NUM_ROWS - 1 ELSE s.y + 1
                                     /\ v.ink = IF s.y >= NUM_ROWS - 1 THEN Scrolled(s).ink ELSE s.ink
           /\ g = "char" => v.y = s.y /\ v.ink = s.ink
           /\ g = "char" /\ s.x <= NUM_COLS - 2 => v.x = s.x + 1
           /\ g \notin {"nl", "esc", "char"} => v = s
<1> DEFINE v == Moved(s, g)
<1>0. s \in ScreenRecord /\ s.x \in Int /\ s.y \in 0 .. (NUM_ROWS - 1) BY Fields DEF OnRows
<1>1. CASE g = "nl" /\ s.y >= NUM_ROWS - 1
  <2>1. v = Scrolled(s) BY <1>1 DEF Moved
  <2>2. /\ Inside(v) /\ v.x = 0 /\ v.y = NUM_ROWS - 1
        /\ s.ink \subseteq Page => v.ink \subseteq Page
    BY <1>0, <2>1, ScrolledInside, Zenon
  <2>3. OnRows(v) /\ v.x <= NUM_COLS - 1 BY <2>2, Numbers DEF Inside
  <2> QED BY <1>1, <2>1, <2>2, <2>3, Zenon
<1>2. CASE g = "nl" /\ ~(s.y >= NUM_ROWS - 1)
  <2> DEFINE a == 0
             b == s.y + 1
  <2>1. v = [s EXCEPT !.y = b, !.x = a] BY <1>2 DEF Moved
  <2>2. a \in Int /\ b \in Int BY <1>0
  <2>3. a = 0 /\ b \in 0 .. (NUM_ROWS - 1) BY <1>0, <1>2, Numbers
  <2> HIDE DEF a, b
  <2>4. v \in ScreenRecord /\ v.x = a /\ v.y = b /\ v.runon = s.runon /\ v.ink = s.ink
    BY <1>0, <2>1, <2>2 DEF ScreenRecord
  <2>5. v.y = s.y + 1 BY <2>4 DEF b
  <2>6. OnRows(v) /\ v.x = 0 /\ v.x <= NUM_COLS - 1 BY <1>0, <2>3, <2>4, Numbers DEF OnRows
  <2>7. /\ v.y = IF s.y >= NUM_ROWS - 1 THEN NUM_ROWS - 1 ELSE s.y + 1
        /\ v.ink = IF s.y >= NUM_ROWS - 1 THEN Scrolled(s).ink ELSE s.ink
    BY <1>2, <2>5, <2>4
  <2> QED BY <1>2, <2>4, <2>6, <2>7
<1>3. CASE g = "esc" /\ s.y >= NUM_ROWS - 1
  <2>1. v = [Scrolled(s) EXCEPT !.runon = 0] BY <1>3 DEF Moved
  <2> DEFINE w == Scrolled(s)
  <2>2. /\ Inside(w) /\ w.x = 0 /\ w.y = NUM_ROWS - 1
        /\ s.ink \subseteq Page => w.ink \subseteq Page
    BY <1>0, ScrolledInside, Zenon
  <2>3. v = [w EXCEPT !.runon = 0] BY <2>1
  <2>4. /\ v \in ScreenRecord /\ v.x = w.x /\ v.y = w.y /\ v.ink = w.ink
    BY <2>2, <2>3 DEF Inside, OnRows, ScreenRecord
  <2>5. OnRows(v) /\ v.x = 0 /\ v.x <= NUM_COLS - 1 BY <2>2, <2>4, Numbers DEF Inside, OnRows
  <2> QED BY <1>3, <2>2, <2>4, <2>5, Zenon
<1>4. CASE g = "esc" /\ ~(s.y >= NUM_ROWS - 1)
  <2> DEFINE a == 0
             b == s.y + 1
             r == 0
  <2>1. v = [s EXCEPT !.y = b, !.x = a, !.runon = r] BY <1>4 DEF Moved
  <2>2. a \in Int /\ b \in Int /\ r \in {0, 1} BY <1>0
  <2>4. a = 0 /\ b \in 0 .. (NUM_ROWS - 1) BY <1>0, <1>4, Numbers
  <2> HIDE DEF a, b, r
  <2>3. v \in ScreenRecord /\ v.x = a /\ v.y = b /\ v.runon = r /\ v.ink = s.ink
    BY <1>0, <2>1, <2>2 DEF ScreenRecord
  <2>5. v.y = s.y + 1 BY <2>3 DEF b
  <2>6. OnRows(v) /\ v.x = 0 /\ v.x <= NUM_COLS - 1 BY <1>0, <2>3, <2>4, Numbers DEF OnRows
  <2>7. /\ v.y = IF s.y >= NUM_ROWS - 1 THEN NUM_ROWS - 1 ELSE s.y + 1
        /\ v.ink = IF s.y >= NUM_ROWS - 1 THEN Scrolled(s).ink ELSE s.ink
    BY <1>4, <2>5, <2>3
  <2> QED BY <1>4, <2>3, <2>6, <2>7
<1>5. CASE g = "char"
  <2> DEFINE a == (s.x + 1) % NUM_COLS
             b == IF s.y < 0 THEN s.y ELSE s.y % NUM_ROWS
  <2>1. v = [s EXCEPT !.x = a, !.y = b] BY <1>5 DEF Moved
  <2>2. a \in 0 .. (NUM_COLS - 1) BY <1>0, Numbers
  <2>3. b = s.y /\ b \in Int BY <1>0, Numbers
  <2>5. a \in Int /\ b \in Int BY <2>2, <2>3
  <2> HIDE DEF a, b
  <2>4. v \in ScreenRecord /\ v.x = a /\ v.y = b /\ v.runon = s.runon /\ v.ink = s.ink
    BY <1>0, <2>1, <2>5 DEF ScreenRecord
  <2>6. s.x <= NUM_COLS - 2 => v.x = s.x + 1
    <3>1. s.x \in Nat BY Numbers DEF OnRows
    <3>2. s.x <= NUM_COLS - 2 => a = s.x + 1 BY <3>1, Numbers DEF a
    <3> QED BY <2>4, <3>2
  <2>7. OnRows(v) /\ v.x <= NUM_COLS - 1 BY <1>0, <2>2, <2>3, <2>4, Numbers DEF OnRows
  <2> QED BY <1>5, <2>3, <2>4, <2>6, <2>7, Zenon
<1>6. CASE g \notin {"nl", "esc", "char"}
  <2>1. v = s BY <1>6 DEF Moved
  <2> QED BY <1>0, <1>6, <2>1 DEF OnRows
<1> QED BY <1>1, <1>2, <1>3, <1>4, <1>5, <1>6 DEF Glyphs

\* A row ends before the next one begins.
LEMMA Rows ==
    ASSUME NEW i \in Nat, NEW j \in Nat, i < j
    PROVE  NUM_COLS * i + NUM_COLS <= NUM_COLS * j /\ NUM_COLS * i \in Nat
<1>1. NUM_COLS \in Nat BY Numbers
<1>2. PICK d \in Nat : j = i + 1 + d
  <2>1. j - i - 1 \in Nat /\ j = i + 1 + (j - i - 1) OBVIOUS
  <2> QED BY <2>1
<1>3. NUM_COLS * (i + 1 + d) = NUM_COLS * i + NUM_COLS + NUM_COLS * d BY <1>1
<1>4. NUM_COLS * d \in Nat /\ NUM_COLS * i \in Nat BY <1>1
<1> QED BY <1>1, <1>2, <1>3, <1>4

\* An address that putc computes lies on the page, and on the screen when the
\* cursor does.
LEMMA CellOnPage ==
    ASSUME NEW s, OnRows(s)
    PROVE  /\ Cell(s) \in Nat
           /\ s.x <= NUM_COLS - 1 => Cell(s) \in 0 .. (Size - 1)
           /\ TAB4 <= NUM_COLS => Cell(s) \in Page
<1>1. s.x \in Nat /\ s.y \in 0 .. (NUM_ROWS - 1) /\ s.x <= NUM_COLS - 1 + TAB4
  BY Numbers DEF OnRows
<1>2. NUM_COLS * s.y \in Nat /\ NUM_COLS * s.y + NUM_COLS <= NUM_COLS * NUM_ROWS
  BY <1>1, Rows, Numbers
<1>3. NUM_COLS * NUM_ROWS = Size BY Numbers DEF Size
<1> QED BY <1>1, <1>2, <1>3, Numbers DEF Cell, Page

\* A store changes the text and not the cursor.
LEMMA StoredOnRows ==
    ASSUME NEW s, NEW g \in Glyphs, OnRows(s)
    PROVE  LET v == Stored(s, g) IN
           /\ OnRows(v) /\ v.x = s.x /\ v.y = s.y /\ v.runon = s.runon
           /\ v.ink = IF Stores(g) THEN Inked(s.ink, Cell(s), g) ELSE s.ink
           /\ (s.ink \subseteq Page /\ (g = "char" => Cell(s) \in Page)) => v.ink \subseteq Page
<1> DEFINE v == Stored(s, g)
           k == Inked(s.ink, Cell(s), g)
<1>0. s \in ScreenRecord /\ s.ink \in SUBSET Int /\ Cell(s) \in Int BY CellOnPage, Fields DEF OnRows
<1>1. CASE Stores(g)
  <2>1. v = [s EXCEPT !.ink = k] BY <1>1 DEF Stored
  <2>2. k \in SUBSET Int BY <1>0 DEF Inked
  <2>3. (s.ink \subseteq Page /\ (g = "char" => Cell(s) \in Page)) => k \subseteq Page
    BY DEF Inked
  <2> HIDE DEF k
  <2>4. v \in ScreenRecord /\ v.x = s.x /\ v.y = s.y /\ v.runon = s.runon /\ v.ink = k
    BY <1>0, <2>1, <2>2 DEF ScreenRecord
  <2> QED BY <1>1, <2>3, <2>4 DEF OnRows, k
<1>2. CASE ~Stores(g)
  <2>1. v = s BY <1>2 DEF Stored
  <2> QED BY <1>2, <2>1
<1> QED BY <1>1, <1>2

\* Vertical scrolling leaves room for the run-on line below.
LEMMA ScrolledDownOnRows ==
    ASSUME NEW s, OnRows(s)
    PROVE  LET v == ScrolledDown(s) IN
           /\ OnRows(v) /\ v.x <= s.x /\ (v.x >= NUM_COLS - 1 => v.y < NUM_ROWS - 1)
           /\ s.ink \subseteq Page => v.ink \subseteq Page
<1> DEFINE v == ScrolledDown(s)
<1>0. s \in ScreenRecord /\ s.x \in Nat /\ s.y \in Nat /\ s.y <= NUM_ROWS - 1 BY Numbers DEF OnRows
<1>1. CASE s.x >= NUM_COLS - 1 /\ s.y >= NUM_ROWS - 1
  <2>1. v = Scrolled(s) BY <1>1 DEF ScrolledDown
  <2>2. /\ Inside(v) /\ v.y = NUM_ROWS - 1 /\ v.x = 0
        /\ s.ink \subseteq Page => v.ink \subseteq Page
    BY <1>0, <2>1, ScrolledInside, Zenon
  <2> QED BY <1>0, <2>2, Numbers DEF Inside
<1>2. CASE ~(s.x >= NUM_COLS - 1 /\ s.y >= NUM_ROWS - 1)
  <2>1. v = s BY <1>2 DEF ScrolledDown
  <2> QED BY <1>0, <1>2, <2>1, Numbers
<1> QED BY <1>1, <1>2

\* The run-on line, when it is not the last.
LEMMA RunOnInside ==
    ASSUME NEW s, OnRows(s), s.y < NUM_ROWS - 1
    PROVE  LET v == RunOn(s) IN
           Inside(v) /\ v.x = 0 /\ v.y = s.y + 1 /\ v.runon = 1 /\ v.ink = s.ink
<1> DEFINE v == RunOn(s)
           a == 0
           b == s.y + 1
           r == 1
<1>0. s \in ScreenRecord /\ s.y \in Int BY Fields DEF OnRows
<1>1. v = [s EXCEPT !.runon = r, !.y = b, !.x = a] BY DEF RunOn
<1>2. a \in Int /\ b \in Int /\ r \in {0, 1} BY <1>0
<1>3. a = 0 /\ b = s.y + 1 /\ b \in 0 .. (NUM_ROWS - 1) /\ r = 1 BY <1>0, Numbers DEF OnRows
<1> HIDE DEF a, b, r
<1>4. v \in ScreenRecord /\ v.x = a /\ v.y = b /\ v.runon = r /\ v.ink = s.ink
  BY <1>0, <1>1, <1>2 DEF ScreenRecord
<1> QED BY <1>3, <1>4, Numbers DEF Inside, OnRows

\* putc leaves the cursor on the screen wherever it found it on the rows.
LEMMA AfterStoreInside ==
    ASSUME NEW s, NEW g \in Glyphs, OnRows(s)
    PROVE  LET v == AfterStore(s, g) IN
           Inside(v) /\ (s.ink \subseteq Page => v.ink \subseteq Page)
<1> DEFINE m == Moved(s, g)
           w == ScrolledDown(m)
           v == AfterStore(s, g)
<1>1. OnRows(m) /\ (s.ink \subseteq Page => m.ink \subseteq Page) BY MovedOnRows, Zenon
<1>2. /\ OnRows(w) /\ (w.x >= NUM_COLS - 1 => w.y < NUM_ROWS - 1)
      /\ m.ink \subseteq Page => w.ink \subseteq Page
  BY <1>1, ScrolledDownOnRows, Zenon
<1>3. v = IF w.x >= NUM_COLS - 1 THEN RunOn(w) ELSE w BY DEF AfterStore
<1> HIDE DEF m, w, v
<1>4. w.x \in Nat BY <1>2, Numbers DEF OnRows
<1>5. CASE w.x >= NUM_COLS - 1
  <2>1. Inside(RunOn(w)) /\ RunOn(w).ink = w.ink BY <1>2, <1>5, RunOnInside
  <2> QED BY <1>1, <1>2, <1>3, <1>5, <2>1 DEF v
<1>6. CASE ~(w.x >= NUM_COLS - 1)
  <2>1. v = w /\ Inside(w) BY <1>2, <1>3, <1>4, <1>6, Numbers DEF Inside
  <2> QED BY <1>1, <1>2, <2>1 DEF v
<1> QED BY <1>5, <1>6

\* echo too, if it found it on the screen; in the middle of a putc it may leave
\* it off the right edge.
LEMMA AfterEchoOnRows ==
    ASSUME NEW s, NEW g \in Glyphs, OnRows(s)
    PROVE  LET v == AfterEcho(s, g) IN
           /\ OnRows(v) /\ (s.x <= NUM_COLS - 2 => Inside(v) /\ v = AfterStore(s, g))
           /\ s.ink \subseteq Page => v.ink \subseteq Page
<1> DEFINE m == Moved(s, g)
           w == ScrolledDown(m)
           v == AfterEcho(s, g)
<1>1. /\ OnRows(m) /\ (m.x <= NUM_COLS - 1 \/ m.x = s.x)
      /\ s.ink \subseteq Page => m.ink \subseteq Page
  BY MovedOnRows, Zenon
<1>2. /\ OnRows(w) /\ w.x <= m.x /\ (w.x >= NUM_COLS - 1 => w.y < NUM_ROWS - 1)
      /\ m.ink \subseteq Page => w.ink \subseteq Page
  BY <1>1, ScrolledDownOnRows, Zenon
<1>3. v = IF w.x = NUM_COLS - 1 THEN RunOn(w) ELSE w BY DEF AfterEcho
<1>3a. AfterStore(s, g) = IF w.x >= NUM_COLS - 1 THEN RunOn(w) ELSE w BY DEF AfterStore
<1> HIDE DEF m, w, v
<1>4. w.x \in Nat /\ m.x \in Nat /\ s.x \in Nat BY <1>1, <1>2, Numbers DEF OnRows
<1>5. CASE w.x = NUM_COLS - 1
  <2>1. Inside(RunOn(w)) /\ RunOn(w).ink = w.ink BY <1>2, <1>4, <1>5, RunOnInside, Numbers
  <2> QED BY <1>1, <1>2, <1>3, <1>3a, <1>4, <1>5, <2>1, Numbers DEF v, Inside
<1>6. CASE ~(w.x = NUM_COLS - 1)
  <2>1. v = w /\ (s.x <= NUM_COLS - 2 => w.x <= NUM_COLS - 2)
    BY <1>1, <1>2, <1>3, <1>4, <1>6, Numbers
  <2> QED BY <1>1, <1>2, <1>3a, <1>4, <2>1, Numbers DEF v, Inside
<1> QED BY <1>5, <1>6

-----------------------------------------------------------------------------
(* Where the text is *)

\* No text stands in the last column, and none at or after the cursor, or none
\* after it.
Columns == 0 .. (NUM_COLS - 2)
Behind(s) == \A c \in s.ink : \E j \in 0 .. s.y, i \in Columns :
                c = NUM_COLS * j + i /\ (j = s.y => i < s.x)
UpTo(s) == \A c \in s.ink : \E j \in 0 .. s.y, i \in Columns :
                c = NUM_COLS * j + i /\ (j = s.y => i <= s.x)

\* Text behind the cursor is not past it.
LEMMA BehindUpTo == ASSUME NEW s, OnRows(s), Behind(s) PROVE UpTo(s)
<1> SUFFICES ASSUME NEW c \in s.ink
             PROVE  \E j \in 0 .. s.y, i \in Columns : c = NUM_COLS * j + i /\ (j = s.y => i <= s.x)
  BY DEF UpTo
<1>1. s.x \in Int BY Fields DEF OnRows
<1>2. PICK j \in 0 .. s.y, i \in Columns : c = NUM_COLS * j + i /\ (j = s.y => i < s.x)
  BY DEF Behind
<1> QED BY <1>1, <1>2, Numbers DEF Columns

\* Text before the cursor stands in cells before the cursor's.
LEMMA BehindCell ==
    ASSUME NEW s, OnRows(s), Behind(s), NEW c \in s.ink
    PROVE  c < Cell(s)
<1>1. s.x \in Nat /\ s.y \in Nat BY Numbers DEF OnRows
<1>2. PICK j \in 0 .. s.y, i \in Columns : c = NUM_COLS * j + i /\ (j = s.y => i < s.x)
  BY DEF Behind
<1>3. CASE j = s.y BY <1>1, <1>2, <1>3, Numbers DEF Cell, Columns
<1>4. CASE j # s.y
  <2>1. NUM_COLS * j + NUM_COLS <= NUM_COLS * s.y /\ NUM_COLS * j \in Nat /\ NUM_COLS * s.y \in Nat
    BY <1>1, <1>4, Rows, Numbers
  <2> QED BY <1>1, <1>2, <2>1, Numbers DEF Cell, Columns
<1> QED BY <1>3, <1>4

\* Going back, by one cell or to the end of the row before, or on by a tab.
LEMMA AimedInk ==
    ASSUME NEW s, NEW g \in Glyphs, Inside(s), Behind(s), ~InCorner(s, g), BACK2 = 2
    PROVE  LET v == Aimed(s, g) IN IF g = "bs" THEN UpTo(v) ELSE Behind(v)
<1> DEFINE v == Aimed(s, g)
<1>0. OnRows(s) /\ s.x \in Nat /\ s.y \in Nat /\ s.x <= NUM_COLS - 2 BY Numbers DEF Inside, OnRows
<1>1. /\ OnRows(v) /\ v.ink = s.ink
      /\ g = "bs" /\ s.x >= 1 => v.x = s.x - 1 /\ v.y = s.y
      /\ g = "bs" /\ s.x < 1 /\ s.runon = 1 => v.x = NUM_COLS - BACK2 /\ v.y = s.y - 1
      /\ g = "bs" /\ s.x < 1 /\ s.runon # 1 => v = s
      /\ g = "tab" => v.x = s.x + TAB4 /\ v.y = s.y
      /\ g \notin {"bs", "tab"} => v = s
  BY <1>0, AimedInside, Zenon
<1>2. \A c \in v.ink : \E j \in 0 .. s.y, i \in Columns : c = NUM_COLS * j + i /\ (j = s.y => i < s.x)
  BY <1>1 DEF Behind
<1> HIDE DEF v
<1>3. CASE g = "bs" /\ s.x >= 1
  <2> SUFFICES ASSUME NEW c \in v.ink
               PROVE  \E j \in 0 .. v.y, i \in Columns : c = NUM_COLS * j + i /\ (j = v.y => i <= v.x)
    BY <1>3 DEF UpTo, v
  <2>1. PICK j \in 0 .. s.y, i \in Columns : c = NUM_COLS * j + i /\ (j = s.y => i < s.x) BY <1>2
  <2>2. v.y = s.y /\ v.x = s.x - 1 BY <1>1, <1>3
  <2>3. j = v.y => i <= v.x BY <1>0, <2>1, <2>2, Numbers DEF Columns
  <2> QED BY <2>1, <2>2, <2>3
<1>4. CASE g = "bs" /\ s.x < 1 /\ s.runon = 1
  <2> SUFFICES ASSUME NEW c \in v.ink
               PROVE  \E j \in 0 .. v.y, i \in Columns : c = NUM_COLS * j + i /\ (j = v.y => i <= v.x)
    BY <1>4 DEF UpTo, v
  <2>1. PICK j \in 0 .. s.y, i \in Columns : c = NUM_COLS * j + i /\ (j = s.y => i < s.x) BY <1>2
  <2>2. v.y = s.y - 1 /\ v.x = NUM_COLS - 2 BY <1>1, <1>4
  <2>3. j \in 0 .. v.y BY <1>0, <1>4, <2>1, <2>2, Numbers DEF Columns
  <2>4. i <= v.x BY <2>2, Numbers DEF Columns
  <2> QED BY <2>1, <2>3, <2>4
<1>5. CASE g = "bs" /\ s.x < 1 /\ s.runon # 1
  <2>1. v = s BY <1>1, <1>5
  <2> QED BY <1>0, <1>5, <2>1, BehindUpTo DEF v
<1>6. CASE g = "tab"
  <2> SUFFICES ASSUME NEW c \in v.ink
               PROVE  \E j \in 0 .. v.y, i \in Columns : c = NUM_COLS * j + i /\ (j = v.y => i < v.x)
    BY <1>6 DEF Behind, v
  <2>1. PICK j \in 0 .. s.y, i \in Columns : c = NUM_COLS * j + i /\ (j = s.y => i < s.x) BY <1>2
  <2>2. v.y = s.y /\ v.x = s.x + TAB4 BY <1>1, <1>6
  <2>3. j = v.y => i < v.x BY <1>0, <2>1, <2>2, Numbers DEF Columns
  <2> QED BY <2>1, <2>2, <2>3
<1>7. CASE g \notin {"bs", "tab"}
  <2>1. v = s BY <1>1, <1>7
  <2> QED BY <1>7, <2>1 DEF v
<1> QED BY <1>0, <1>3, <1>4, <1>5, <1>6, <1>7

\* The store fills the cursor's cell or blanks it.
LEMMA StoredInk ==
    ASSUME NEW s, NEW g \in Glyphs, OnRows(s), IF g = "bs" THEN UpTo(s) ELSE Behind(s),
           g = "char" => s.x <= NUM_COLS - 2
    PROVE  LET v == Stored(s, g) IN IF g = "char" THEN UpTo(v) ELSE Behind(v)
<1> DEFINE v == Stored(s, g)
<1>0. s.x \in Nat /\ s.y \in Nat BY Numbers DEF OnRows
<1>1. v.x = s.x /\ v.y = s.y /\ v.ink = IF Stores(g) THEN Inked(s.ink, Cell(s), g) ELSE s.ink
  BY StoredOnRows, Zenon
<1> HIDE DEF v
<1>2. CASE g = "char"
  <2>1. v.ink = s.ink \cup {Cell(s)} BY <1>1, <1>2 DEF Stores, Inked
  <2>2. UpTo(s) BY <1>2, BehindUpTo
  <2> SUFFICES ASSUME NEW c \in v.ink
               PROVE  \E j \in 0 .. v.y, i \in Columns : c = NUM_COLS * j + i /\ (j = v.y => i <= v.x)
    BY <1>2 DEF UpTo, v
  <2>3. CASE c \in s.ink BY <1>1, <2>2, <2>3 DEF UpTo
  <2>4. CASE c = Cell(s)
    <3>1. s.y \in 0 .. v.y /\ s.x \in Columns BY <1>0, <1>1, <1>2, Numbers DEF Columns
    <3>2. c = NUM_COLS * s.y + s.x /\ s.x <= v.x BY <1>0, <1>1, <2>4 DEF Cell
    <3> QED BY <3>1, <3>2
  <2> QED BY <2>1, <2>3, <2>4
<1>3. CASE g = "bs"
  <2>1. v.ink = s.ink \ {Cell(s)} /\ UpTo(s) BY <1>1, <1>3 DEF Stores, Inked
  <2> SUFFICES ASSUME NEW c \in v.ink
               PROVE  \E j \in 0 .. v.y, i \in Columns : c = NUM_COLS * j + i /\ (j = v.y => i < v.x)
    BY <1>3 DEF Behind, v
  <2>2. PICK j \in 0 .. s.y, i \in Columns : c = NUM_COLS * j + i /\ (j = s.y => i <= s.x)
    BY <2>1 DEF UpTo
  <2>3. j = s.y => i # s.x BY <2>1, <2>2 DEF Cell
  <2>4. j = v.y => i < v.x BY <1>0, <1>1, <2>2, <2>3, Numbers DEF Columns
  <2> QED BY <1>1, <2>2, <2>4
<1>4. CASE g \notin {"char", "bs"}
  <2>1. v.ink \subseteq s.ink /\ Behind(s) BY <1>1, <1>4 DEF Inked
  <2> QED BY <1>1, <1>4, <2>1 DEF Behind, v
<1> QED BY <1>2, <1>3, <1>4

\* The rows move up, and there is nothing in the last one.
LEMMA ScrolledInk ==
    ASSUME NEW s, OnRows(s),
           \A c \in s.ink : \E j \in 0 .. (NUM_ROWS - 1), i \in Columns : c = NUM_COLS * j + i
    PROVE  Behind(Scrolled(s))
<1> DEFINE v == Scrolled(s)
<1>0. s \in ScreenRecord BY DEF OnRows
<1>1. /\ v.y = NUM_ROWS - 1 /\ v.x = 0
      /\ v.ink = {c \in s.ink : c \notin 0 .. (Size - 1)}
                 \cup {c - NUM_COLS : c \in s.ink \cap (NUM_COLS .. (Size - 1))}
  BY <1>0, ScrolledInside, Zenon
<1>2. \A c \in s.ink : c \in 0 .. (Size - 1)
  <2> SUFFICES ASSUME NEW c \in s.ink PROVE c \in 0 .. (Size - 1) OBVIOUS
  <2>1. PICK j \in 0 .. (NUM_ROWS - 1), i \in Columns : c = NUM_COLS * j + i OBVIOUS
  <2>2. NUM_COLS * j + NUM_COLS <= NUM_COLS * NUM_ROWS /\ NUM_COLS * j \in Nat
    BY Rows, Numbers
  <2>3. NUM_COLS * NUM_ROWS = Size BY Numbers DEF Size
  <2> QED BY <2>1, <2>2, <2>3, Numbers DEF Columns
<1> HIDE DEF v
<1> SUFFICES ASSUME NEW c \in v.ink
             PROVE  \E j \in 0 .. v.y, i \in Columns : c = NUM_COLS * j + i /\ (j = v.y => i < v.x)
  BY DEF Behind, v
<1>3. PICK d \in s.ink : d >= NUM_COLS /\ c = d - NUM_COLS BY <1>1, <1>2
<1>4. PICK j \in 0 .. (NUM_ROWS - 1), i \in Columns : d = NUM_COLS * j + i OBVIOUS
<1>5. j # 0 BY <1>3, <1>4, Numbers DEF Columns
<1>6. j - 1 \in 0 .. v.y /\ j - 1 # v.y BY <1>1, <1>5, Numbers
<1>7. c = NUM_COLS * (j - 1) + i
  <2>1. NUM_COLS * (j - 1) = NUM_COLS * j - NUM_COLS BY Numbers
  <2>2. NUM_COLS * j \in Int BY Numbers
  <2> QED BY <1>3, <1>4, <2>1, <2>2, Numbers DEF Columns
<1> QED BY <1>6, <1>7

\* The text on the rows down to the cursor's is on the screen.
LEMMA InkOnRows ==
    ASSUME NEW s, OnRows(s), UpTo(s)
    PROVE  \A c \in s.ink : \E j \in 0 .. (NUM_ROWS - 1), i \in Columns : c = NUM_COLS * j + i
<1>1. 0 .. s.y \subseteq 0 .. (NUM_ROWS - 1) BY Numbers DEF OnRows
<1> QED BY <1>1 DEF UpTo

\* After the character the cursor stands behind the text again.
LEMMA MovedInk ==
    ASSUME NEW s, NEW g \in Glyphs, OnRows(s),
           IF g = "char" THEN UpTo(s) /\ s.x <= NUM_COLS - 2 ELSE Behind(s)
    PROVE  Behind(Moved(s, g))
<1> DEFINE v == Moved(s, g)
<1>0. s.x \in Nat /\ s.y \in Nat /\ UpTo(s) BY BehindUpTo, Numbers DEF OnRows
<1>1. /\ g \in {"nl", "esc"} => /\ v.x = 0
                                /\ v.y = IF s.y >= NUM_ROWS - 1 THEN NUM_ROWS - 1 ELSE s.y + 1
                                /\ v.ink = IF s.y >= NUM_ROWS - 1 THEN Scrolled(s).ink ELSE s.ink
      /\ g = "char" => v.y = s.y /\ v.ink = s.ink
      /\ g = "char" /\ s.x <= NUM_COLS - 2 => v.x = s.x + 1
      /\ g \notin {"nl", "esc", "char"} => v = s
  BY MovedOnRows, Zenon
<1> HIDE DEF v
<1>2. CASE g \in {"nl", "esc"} /\ s.y >= NUM_ROWS - 1
  <2>1. Behind(Scrolled(s)) BY <1>0, InkOnRows, ScrolledInk
  <2>2. Scrolled(s).x = 0 /\ Scrolled(s).y = NUM_ROWS - 1
    BY ScrolledInside, Zenon DEF OnRows
  <2> QED BY <1>1, <1>2, <2>1, <2>2 DEF Behind, v
<1>3. CASE g \in {"nl", "esc"} /\ ~(s.y >= NUM_ROWS - 1)
  <2>1. v.y = s.y + 1 /\ v.ink = s.ink BY <1>1, <1>3
  <2>2. \A j \in 0 .. s.y : j \in 0 .. v.y /\ j # v.y BY <1>0, <2>1
  <2> QED BY <1>0, <2>1, <2>2 DEF UpTo, Behind, v
<1>4. CASE g = "char"
  <2>1. v.y = s.y /\ v.ink = s.ink /\ v.x = s.x + 1 BY <1>1, <1>4
  <2>2. \A i \in Columns : i <= s.x => i < v.x BY <1>0, <2>1, Numbers DEF Columns
  <2> QED BY <1>0, <2>1, <2>2 DEF UpTo, Behind, v
<1>5. CASE g \notin {"nl", "esc", "char"}
  <2>1. v = s BY <1>1, <1>5
  <2> QED BY <1>5, <2>1 DEF v
<1> QED BY <1>2, <1>3, <1>4, <1>5

\* putc leaves the cursor behind the text.
LEMMA AfterStoreInk ==
    ASSUME NEW s, NEW g \in Glyphs, OnRows(s),
           IF g = "char" THEN UpTo(s) /\ s.x <= NUM_COLS - 2 ELSE Behind(s)
    PROVE  Behind(AfterStore(s, g))
<1> DEFINE m == Moved(s, g)
           w == ScrolledDown(m)
           v == AfterStore(s, g)
<1>1. OnRows(m) BY MovedOnRows, Zenon
<1>2. Behind(m) BY MovedInk
<1>3. OnRows(w) /\ (w.x >= NUM_COLS - 1 => w.y < NUM_ROWS - 1) BY <1>1, ScrolledDownOnRows, Zenon
<1>4. Behind(w)
  <2>1. Behind(Scrolled(m)) BY <1>1, <1>2, BehindUpTo, InkOnRows, ScrolledInk
  <2> QED BY <1>2, <2>1 DEF ScrolledDown
<1>5. v = IF w.x >= NUM_COLS - 1 THEN RunOn(w) ELSE w BY DEF AfterStore
<1> HIDE DEF m, w, v
<1>6. CASE w.x >= NUM_COLS - 1
  <2>1. RunOn(w).y = w.y + 1 /\ RunOn(w).ink = w.ink BY <1>3, <1>6, RunOnInside
  <2>2. w.y \in Nat BY <1>3, Numbers DEF OnRows
  <2>3. \A j \in 0 .. w.y : j \in 0 .. (w.y + 1) /\ j # w.y + 1 BY <2>2
  <2>4. Behind(RunOn(w)) BY <1>4, <2>1, <2>3 DEF Behind
  <2> QED BY <1>5, <1>6, <2>4 DEF v
<1>7. CASE ~(w.x >= NUM_COLS - 1) BY <1>4, <1>5, <1>7 DEF v
<1> QED BY <1>6, <1>7

\* Ctrl-L leaves nothing of a text that is on the screen.
LEMMA ClearedInside ==
    ASSUME NEW s, OnRows(s)
    PROVE  LET v == Cleared(s) IN
           /\ Inside(v) /\ v.x = 0 /\ v.y = 0 /\ (s.ink \subseteq Page => v.ink \subseteq Page)
           /\ UpTo(s) => Behind(v)
<1> DEFINE v == Cleared(s)
           k == s.ink \ (0 .. (Size - 1))
           a == 0
<1>0. s \in ScreenRecord /\ s.ink \in SUBSET Int BY Fields DEF OnRows
<1>1. v = [s EXCEPT !.x = a, !.y = a, !.ink = k] BY DEF Cleared
<1>2. k \in SUBSET Int /\ a \in Int BY <1>0
<1>3. k \subseteq s.ink /\ a = 0 OBVIOUS
<1>4. UpTo(s) => k = {}
  <2> SUFFICES ASSUME UpTo(s), NEW c \in s.ink PROVE c \in 0 .. (Size - 1) OBVIOUS
  <2>1. PICK j \in 0 .. (NUM_ROWS - 1), i \in Columns : c = NUM_COLS * j + i BY InkOnRows
  <2>2. NUM_COLS * j + NUM_COLS <= NUM_COLS * NUM_ROWS /\ NUM_COLS * j \in Nat
    BY Rows, Numbers
  <2>3. NUM_COLS * NUM_ROWS = Size BY Numbers DEF Size
  <2> QED BY <2>1, <2>2, <2>3, Numbers DEF Columns
<1> HIDE DEF k, a
<1>5. v \in ScreenRecord /\ v.x = a /\ v.y = a /\ v.runon = s.runon /\ v.ink = k
  BY <1>0, <1>1, <1>2 DEF ScreenRecord
<1>6. Inside(v) BY <1>3, <1>5, Numbers DEF Inside, OnRows
<1> QED BY <1>3, <1>4, <1>5, <1>6 DEF Behind

-----------------------------------------------------------------------------
(* What the steps do to the screens *)

\* A screen has its four fields, whatever they hold.
Whole(s) == s \in [x : {s.x}, y : {s.y}, runon : {s.runon}, ink : {s.ink}]

\* Changing some of the fields keeps them all.
LEMMA WholeExcept ==
    ASSUME NEW s, Whole(s), NEW a, NEW b, NEW d, NEW k
    PROVE  /\ Whole([s EXCEPT !.x = a]) /\ Whole([s EXCEPT !.x = a, !.y = b])
           /\ Whole([s EXCEPT !.y = b, !.x = a])
           /\ Whole([s EXCEPT !.runon = d]) /\ Whole([s EXCEPT !.ink = k])
           /\ Whole([s EXCEPT !.x = a, !.y = b, !.ink = k])
           /\ Whole([s EXCEPT !.y = b, !.x = a, !.runon = d])
           /\ Whole([s EXCEPT !.runon = d, !.y = b, !.x = a])
<1>1. ASSUME NEW r, r \in [x : {s.x, a}, y : {s.y, b}, runon : {s.runon, d}, ink : {s.ink, k}]
      PROVE  Whole(r)
  BY <1>1 DEF Whole
<1>2. s \in [x : {s.x, a}, y : {s.y, b}, runon : {s.runon, d}, ink : {s.ink, k}] BY DEF Whole
<1>3. ASSUME NEW v, v \in {[s EXCEPT !.x = a], [s EXCEPT !.x = a, !.y = b],
                           [s EXCEPT !.y = b, !.x = a], [s EXCEPT !.runon = d],
                           [s EXCEPT !.ink = k], [s EXCEPT !.x = a, !.y = b, !.ink = k],
                           [s EXCEPT !.y = b, !.x = a, !.runon = d],
                           [s EXCEPT !.runon = d, !.y = b, !.x = a]}
      PROVE  v \in [x : {s.x, a}, y : {s.y, b}, runon : {s.runon, d}, ink : {s.ink, k}]
  BY <1>2, <1>3
<1> QED BY <1>1, <1>3

\* Every drawing function returns a screen.
LEMMA WholeOps ==
    ASSUME NEW s, Whole(s), NEW g
    PROVE  /\ Whole(Aimed(s, g)) /\ Whole(Stored(s, g)) /\ Whole(Cleared(s))
           /\ Whole(AfterStore(s, g)) /\ Whole(AfterEcho(s, g))
<1>1. ASSUME NEW r, Whole(r) PROVE Whole(Scrolled(r)) /\ Whole(RunOn(r))
  BY <1>1, WholeExcept DEF Scrolled, RunOn
<1>2. ASSUME NEW r, Whole(r) PROVE Whole(ScrolledDown(r))
  BY <1>1, <1>2 DEF ScrolledDown
<1>3. Whole(Moved(s, g))
  <2>1. Whole([Scrolled(s) EXCEPT !.runon = 0]) BY <1>1, WholeExcept
  <2>2. Whole([s EXCEPT !.y = s.y + 1, !.x = 0]) /\ Whole([s EXCEPT !.y = s.y + 1, !.x = 0, !.runon = 0])
    BY WholeExcept
  <2>3. Whole([s EXCEPT !.x = (s.x + 1) % NUM_COLS, !.y = IF s.y < 0 THEN s.y ELSE s.y % NUM_ROWS])
    BY WholeExcept
  <2> QED BY <1>1, <2>1, <2>2, <2>3 DEF Moved
<1>4. Whole(AfterStore(s, g)) /\ Whole(AfterEcho(s, g))
  BY <1>1, <1>2, <1>3 DEF AfterStore, AfterEcho
<1>5. Whole(Aimed(s, g)) BY WholeExcept DEF Aimed
<1>6. Whole(Stored(s, g)) /\ Whole(Cleared(s)) BY WholeExcept DEF Stored, Cleared
<1> QED BY <1>4, <1>5, <1>6

\* The terminals' screens.
Scr == [t \in Terms |-> ScreenOf(t)]

Functions ==
    /\ x = [t \in Terms |-> x[t]] /\ y = [t \in Terms |-> y[t]]
    /\ runon = [t \in Terms |-> runon[t]] /\ page = [p \in Pages |-> page[p]]
    /\ pc \in [Terms -> {"idle", "store", "move"}] /\ glyph \in [Terms -> Glyphs]
    /\ address = [t \in Terms |-> address[t]]

\* Each terminal has a page of its own: the displayed one video memory, the
\* others the backing page of that terminal.
Layout == /\ curr_term \in Terms
          /\ video_mem = [t \in Terms |-> IF t = curr_term THEN VIDEO ELSE t + 1]

Base == Functions /\ Layout

\* No two terminals draw on one page.
LEMMA OwnPage ==
    ASSUME Layout
    PROVE  /\ \A t \in Terms : video_mem[t] \in Pages /\ t + 1 \in Pages /\ t + 1 # VIDEO
           /\ VIDEO \in Pages
           /\ \A t, u \in Terms : video_mem[t] = video_mem[u] => t = u
<1>1. MAX_TERM \in Nat \ {0} BY ScreenAssumption
<1> QED BY <1>1 DEF Layout, Terms, Pages, VIDEO

\* Drawing on one terminal's screen leaves the others' alone.
LEMMA ShowEffect ==
    ASSUME Base, NEW t \in Terms, NEW s, Whole(s), Show(t, s), UNCHANGED <<curr_term, video_mem>>
    PROVE  /\ Scr'[t] = s /\ \A u \in Terms \ {t} : Scr'[u] = Scr[u]
           /\ x' = [u \in Terms |-> x'[u]] /\ y' = [u \in Terms |-> y'[u]]
           /\ runon' = [u \in Terms |-> runon'[u]] /\ page' = [p \in Pages |-> page'[p]]
           /\ Layout'
<1>1. /\ x'[t] = s.x /\ y'[t] = s.y /\ runon'[t] = s.runon /\ page'[video_mem[t]] = s.ink
      /\ \A u \in Terms \ {t} : x'[u] = x[u] /\ y'[u] = y[u] /\ runon'[u] = runon[u]
      /\ \A p \in Pages \ {video_mem[t]} : page'[p] = page[p]
  BY OwnPage DEF Base, Functions, Show
<1>2. x' = [u \in Terms |-> x'[u]] /\ y' = [u \in Terms |-> y'[u]]
  BY DEF Base, Functions, Show
<1>3. runon' = [u \in Terms |-> runon'[u]] /\ page' = [p \in Pages |-> page'[p]]
  BY DEF Base, Functions, Show
<1>4. Layout' BY DEF Base, Layout
<1>5. \A u \in Terms \ {t} : page'[video_mem[u]] = page[video_mem[u]]
  BY <1>1, OwnPage DEF Base
<1>6. Scr'[t] = [x |-> x'[t], y |-> y'[t], runon |-> runon'[t], ink |-> page'[video_mem[t]]]
  BY DEF Scr, ScreenOf
<1>7. Scr'[t] = s BY <1>1, <1>6 DEF Whole
<1>8. \A u \in Terms \ {t} : Scr'[u] = Scr[u] BY <1>1, <1>5 DEF Scr, ScreenOf
<1> QED BY <1>2, <1>3, <1>4, <1>7, <1>8

\* A terminal has a whole screen.
LEMMA ScreensWhole == \A t \in Terms : Scr[t] = ScreenOf(t) /\ Whole(Scr[t])
BY DEF Scr, ScreenOf, Whole

\* The first part of putc aims on its own terminal's screen.
LEMMA AimEffect ==
    ASSUME Base, NEW t \in Terms, NEW g \in Prints, PutAim(t, g)
    PROVE  /\ Scr'[t] = Aimed(Scr[t], g) /\ \A u \in Terms \ {t} : Scr'[u] = Scr[u]
           /\ address' = [address EXCEPT ![t] = IF Stores(g)
                 THEN [page |-> video_mem[t], cell |-> Cell(Aimed(Scr[t], g))] ELSE NoAddress]
           /\ Base'
<1>1. Scr[t] = ScreenOf(t) /\ Whole(Scr[t]) BY ScreensWhole
<1>2. Show(t, Aimed(Scr[t], g)) /\ UNCHANGED <<curr_term, video_mem>> BY <1>1 DEF PutAim
<1>3. /\ Scr'[t] = Aimed(Scr[t], g) /\ \A u \in Terms \ {t} : Scr'[u] = Scr[u]
      /\ x' = [u \in Terms |-> x'[u]] /\ y' = [u \in Terms |-> y'[u]]
      /\ runon' = [u \in Terms |-> runon'[u]] /\ page' = [p \in Pages |-> page'[p]]
      /\ Layout'
  BY <1>1, <1>2, WholeOps, ShowEffect
<1>4. address' = [address EXCEPT ![t] = IF Stores(g)
                 THEN [page |-> video_mem[t], cell |-> Cell(Aimed(Scr[t], g))] ELSE NoAddress]
  BY <1>1 DEF PutAim
<1>5. g \in Glyphs BY ScreenAssumption
<1>6. /\ pc' \in [Terms -> {"idle", "store", "move"}] /\ glyph' \in [Terms -> Glyphs]
      /\ address' = [u \in Terms |-> address'[u]]
  BY <1>5 DEF Base, Functions, PutAim
<1> QED BY <1>3, <1>4, <1>6 DEF Base, Functions

\* The last part of putc moves the cursor of its own screen.
LEMMA MoveEffect ==
    ASSUME Base, NEW t \in Terms, PutMove(t)
    PROVE  /\ Scr'[t] = AfterStore(Scr[t], glyph[t]) /\ \A u \in Terms \ {t} : Scr'[u] = Scr[u]
           /\ Base'
<1>1. Scr[t] = ScreenOf(t) /\ Whole(Scr[t]) BY ScreensWhole
<1>2. Show(t, AfterStore(Scr[t], glyph[t])) /\ UNCHANGED <<curr_term, video_mem>> BY <1>1 DEF PutMove
<1>3. /\ Scr'[t] = AfterStore(Scr[t], glyph[t]) /\ \A u \in Terms \ {t} : Scr'[u] = Scr[u]
      /\ x' = [u \in Terms |-> x'[u]] /\ y' = [u \in Terms |-> y'[u]]
      /\ runon' = [u \in Terms |-> runon'[u]] /\ page' = [p \in Pages |-> page'[p]]
      /\ Layout'
  BY <1>1, <1>2, WholeOps, ShowEffect
<1>4. /\ pc' \in [Terms -> {"idle", "store", "move"}] /\ glyph' \in [Terms -> Glyphs]
      /\ address' = [u \in Terms |-> address'[u]]
  BY DEF Base, Functions, PutMove, Glyphs
<1> QED BY <1>3, <1>4 DEF Base, Functions

\* A key echoes on the displayed screen only.
LEMMA EchoEffect ==
    ASSUME Base, NEW g \in Types, KeyEcho(g)
    PROVE  /\ Scr'[curr_term] = Echo(Scr[curr_term], g)
           /\ \A u \in Terms \ {curr_term} : Scr'[u] = Scr[u]
           /\ Base'
<1> DEFINE t == curr_term
           e == Echo(Scr[t], g)
<1>0. t \in Terms BY DEF Base, Layout
<1>1. Scr[t] = ScreenOf(t) /\ Whole(Scr[t]) BY <1>0, ScreensWhole
<1>2. Show(t, e) /\ UNCHANGED <<curr_term, video_mem>> BY <1>1 DEF KeyEcho
<1>3. Whole(e) BY <1>1, WholeOps DEF Echo
<1> HIDE DEF e
<1>4. /\ Scr'[t] = e /\ \A u \in Terms \ {t} : Scr'[u] = Scr[u]
      /\ x' = [u \in Terms |-> x'[u]] /\ y' = [u \in Terms |-> y'[u]]
      /\ runon' = [u \in Terms |-> runon'[u]] /\ page' = [p \in Pages |-> page'[p]]
      /\ Layout'
  BY <1>0, <1>2, <1>3, ShowEffect
<1>5. UNCHANGED putc BY DEF KeyEcho
<1> QED BY <1>4, <1>5 DEF Base, Functions, putc, e

\* Ctrl-L clears one screen.
LEMMA ClearEffect ==
    ASSUME Base, NEW t \in Terms, KeyClear(t)
    PROVE  /\ Scr'[t] = Cleared(Scr[t]) /\ \A u \in Terms \ {t} : Scr'[u] = Scr[u]
           /\ Base'
<1>1. Scr[t] = ScreenOf(t) /\ Whole(Scr[t]) BY ScreensWhole
<1>2. Show(t, Cleared(Scr[t])) /\ UNCHANGED <<curr_term, video_mem>> BY <1>1 DEF KeyClear
<1>3. /\ Scr'[t] = Cleared(Scr[t]) /\ \A u \in Terms \ {t} : Scr'[u] = Scr[u]
      /\ x' = [u \in Terms |-> x'[u]] /\ y' = [u \in Terms |-> y'[u]]
      /\ runon' = [u \in Terms |-> runon'[u]] /\ page' = [p \in Pages |-> page'[p]]
      /\ Layout'
  BY <1>1, <1>2, WholeOps, ShowEffect
<1>4. UNCHANGED putc BY DEF KeyClear
<1> QED BY <1>3, <1>4 DEF Base, Functions, putc

\* term_switch moves the pages and nothing of what the screens show.
LEMMA SwitchEffect ==
    ASSUME Base, NEW t \in Terms, term_switch(t)
    PROVE  Scr' = Scr /\ Base' /\ \A p \in Pages : \E q \in Pages : page'[p] = page[q]
<1> DEFINE c == curr_term
<1>0. c \in Terms /\ t # c /\ VIDEO \in Pages /\ t + 1 \in Pages /\ c + 1 \in Pages
      /\ c + 1 # VIDEO /\ t + 1 # VIDEO /\ t + 1 # c + 1
  BY OwnPage DEF Base, Layout, term_switch, Terms
<1>1. video_mem[c] = VIDEO /\ video_mem[t] = t + 1
      /\ \A u \in Terms \ {t, c} : video_mem[u] = u + 1
  BY <1>0 DEF Base, Layout
<1>2. /\ page'[c + 1] = page[VIDEO] /\ page'[VIDEO] = page[t + 1]
      /\ \A p \in Pages \ {VIDEO, c + 1} : page'[p] = page[p]
      /\ page' = [p \in Pages |-> page'[p]]
  <2> DEFINE f == [page EXCEPT ![c + 1] = page[VIDEO]]
  <2>1. page' = [f EXCEPT ![VIDEO] = page[t + 1]] BY DEF term_switch
  <2>2. f = [p \in Pages |-> f[p]] /\ f[c + 1] = page[VIDEO] /\ \A p \in Pages \ {c + 1} : f[p] = page[p]
    BY <1>0 DEF Base, Functions
  <2> HIDE DEF f
  <2> QED BY <1>0, <2>1, <2>2
<1>3. video_mem' = [u \in Terms |-> IF u = t THEN VIDEO ELSE u + 1]
  <2>1. video_mem' = [[video_mem EXCEPT ![c] = c + 1] EXCEPT ![t] = VIDEO] BY DEF term_switch
  <2> QED BY <1>0, <1>1, <2>1 DEF Base, Layout
<1>4. curr_term' = t /\ UNCHANGED <<dots, putc>> BY DEF term_switch
<1>5. Base' BY <1>2, <1>3, <1>4 DEF Base, Functions, Layout, dots, putc
<1>6. \A u \in Terms : page'[video_mem'[u]] = page[video_mem[u]]
  <2> SUFFICES ASSUME NEW u \in Terms PROVE page'[video_mem'[u]] = page[video_mem[u]] OBVIOUS
  <2>1. CASE u = t BY <1>0, <1>1, <1>2, <1>3, <2>1
  <2>2. CASE u = c BY <1>0, <1>1, <1>2, <1>3, <2>2
  <2>3. CASE u \notin {t, c}
    <3>1. u + 1 \in Pages \ {VIDEO, c + 1} BY <1>0, <2>3, OwnPage DEF Base, Terms
    <3> QED BY <1>0, <1>1, <1>2, <1>3, <2>3, <3>1
  <2> QED BY <2>1, <2>2, <2>3
<1>7. Scr' = Scr BY <1>4, <1>6 DEF Scr, ScreenOf, dots
<1> QED BY <1>0, <1>2, <1>5, <1>7

\* The store of a putc touches one page and no cursor.
LEMMA StoreEffect ==
    ASSUME Base, NEW t \in Terms, PutStore(t)
    PROVE  /\ x' = x /\ y' = y /\ runon' = runon /\ Base'
           /\ \A u \in Terms : page'[video_mem[u]] =
                IF video_mem[u] = address[t].page
                  THEN Inked(page[video_mem[u]], address[t].cell, glyph[t]) ELSE page[video_mem[u]]
           /\ \A p \in Pages : page'[p] =
                IF p = address[t].page THEN Inked(page[p], address[t].cell, glyph[t]) ELSE page[p]
<1>1. /\ page' = [page EXCEPT ![address[t].page] = Inked(@, address[t].cell, glyph[t])]
      /\ pc' = [pc EXCEPT ![t] = "move"]
      /\ UNCHANGED <<curr_term, video_mem, x, y, runon, cursor, glyph, address>>
  BY DEF PutStore, dots
<1>2. page' = [p \in Pages |-> page'[p]] BY <1>1 DEF Base, Functions
<1>3. pc' \in [Terms -> {"idle", "store", "move"}] BY <1>1 DEF Base, Functions
<1>4. Base' BY <1>1, <1>2, <1>3 DEF Base, Functions, Layout
<1>5. \A p \in Pages : page'[p] =
         IF p = address[t].page THEN Inked(page[p], address[t].cell, glyph[t]) ELSE page[p]
  BY <1>1 DEF Base, Functions
<1>6. \A u \in Terms : video_mem[u] \in Pages BY OwnPage DEF Base
<1> QED BY <1>1, <1>4, <1>5, <1>6

\* The boot gives every terminal its page.
LEMMA BaseInit == Init => Base
<1> SUFFICES ASSUME Init PROVE Base OBVIOUS
<1>1. 0 \in Terms BY ScreenAssumption DEF Terms
<1>2. video_mem = [t \in Terms |-> IF t = curr_term THEN VIDEO ELSE t + 1] BY DEF Init
<1> QED BY <1>1, <1>2 DEF Init, Base, Functions, Layout, Glyphs

\* Terminals keep a page each, whatever happens and under no rule.
LEMMA BaseNext == Base /\ [Next]_vars => Base'
<1> SUFFICES ASSUME Base, [Next]_vars PROVE Base' OBVIOUS
<1>1. ASSUME NEW t \in Terms, NEW g \in Prints, PutAim(t, g) PROVE Base' BY <1>1, AimEffect
<1>2. ASSUME NEW t \in Terms, PutStore(t) PROVE Base' BY <1>2, StoreEffect
<1>3. ASSUME NEW t \in Terms, PutMove(t) PROVE Base' BY <1>3, MoveEffect
<1>4. ASSUME NEW t \in Terms, KeyClear(t) PROVE Base' BY <1>4, ClearEffect
<1>5. ASSUME NEW t \in Terms, term_switch(t) PROVE Base' BY <1>5, SwitchEffect
<1>6. ASSUME NEW g \in Types, KeyEcho(g) PROVE Base' BY <1>6, EchoEffect
<1>7. CASE UNCHANGED vars BY <1>7 DEF vars, dots, putc, Base, Functions, Layout
<1> QED BY <1>1, <1>2, <1>3, <1>4, <1>5, <1>6, <1>7 DEF Next

-----------------------------------------------------------------------------
(* The VGA cursor *)

\* What a screen's record says of the cursor's place, before and after a step.
LEMMA Places ==
    ASSUME Base, Base'
    PROVE  /\ \A t \in Terms : Scr[t].x = x[t] /\ Scr[t].y = y[t] /\ Scr[t].runon = runon[t]
           /\ \A t \in Terms : Scr'[t].x = x'[t] /\ Scr'[t].y = y'[t] /\ Scr'[t].runon = runon'[t]
BY DEF Scr, ScreenOf

CursorShownRight == pc[curr_term] = "idle" => cursor = NUM_COLS * y[curr_term] + x[curr_term]

\* Every step that moves the displayed cursor moves the VGA cursor too.
LEMMA CursorShownNext == Base /\ CursorShownRight /\ [Next]_vars => CursorShownRight'
<1> SUFFICES ASSUME Base, CursorShownRight, [Next]_vars PROVE CursorShownRight' OBVIOUS
<1>0. curr_term \in Terms /\ Base' BY BaseNext DEF Base, Layout
<1>1. ASSUME NEW t \in Terms, NEW g \in Prints, PutAim(t, g) PROVE CursorShownRight'
  <2>1. /\ pc' = [pc EXCEPT ![t] = IF Stores(g) THEN "store" ELSE "move"]
        /\ UNCHANGED <<curr_term, cursor>>
    BY <1>1 DEF PutAim
  <2>2. CASE t = curr_term
    <3>1. pc'[curr_term] \in {"store", "move"} BY <1>0, <2>1, <2>2 DEF Base, Functions
    <3> QED BY <2>1, <3>1 DEF CursorShownRight
  <2>3. CASE t # curr_term
    <3>1. pc'[curr_term] = pc[curr_term] BY <1>0, <2>1, <2>3 DEF Base, Functions
    <3>2. x'[curr_term] = x[curr_term] /\ y'[curr_term] = y[curr_term]
      BY <1>0, <1>1, <2>3, AimEffect, Places
    <3> QED BY <2>1, <3>1, <3>2 DEF CursorShownRight
  <2> QED BY <2>2, <2>3
<1>2. ASSUME NEW t \in Terms, PutStore(t) PROVE CursorShownRight'
  <2>1. /\ pc[t] = "store" /\ pc' = [pc EXCEPT ![t] = "move"]
        /\ UNCHANGED <<curr_term, cursor, x, y>>
    BY <1>2 DEF PutStore, dots
  <2>2. pc'[curr_term] = "idle" => pc[curr_term] = "idle"
    BY <1>0, <2>1 DEF Base, Functions
  <2> QED BY <2>1, <2>2 DEF CursorShownRight
<1>3. ASSUME NEW t \in Terms, PutMove(t) PROVE CursorShownRight'
  BY <1>3 DEF PutMove, update_cursor, CursorShownRight
<1>4. ASSUME NEW t \in Terms, KeyClear(t) PROVE CursorShownRight'
  BY <1>4 DEF KeyClear, update_cursor, CursorShownRight
<1>5. ASSUME NEW t \in Terms, term_switch(t) PROVE CursorShownRight'
  BY <1>5 DEF term_switch, update_cursor, CursorShownRight
<1>6. ASSUME NEW g \in Types, KeyEcho(g) PROVE CursorShownRight'
  BY <1>6 DEF KeyEcho, update_cursor, CursorShownRight
<1>7. CASE UNCHANGED vars BY <1>7 DEF vars, dots, putc, CursorShownRight
<1> QED BY <1>1, <1>2, <1>3, <1>4, <1>5, <1>6, <1>7 DEF Next

\* Whoever prints, types or switches, the VGA cursor stands where the next key
\* of the displayed terminal shows; no discipline is needed.
THEOREM CursorIsShown == Spec => []CursorShown
<1>1. Init => Base /\ CursorShownRight
  <2> SUFFICES ASSUME Init PROVE CursorShownRight BY BaseInit
  <2>1. 0 \in Terms /\ NUM_COLS \in Nat BY ScreenAssumption, DrawingAssumption DEF Terms
  <2>2. x[0] = 0 /\ y[0] = 0 /\ cursor = 0 /\ curr_term = 0 BY <2>1 DEF Init
  <2> QED BY <2>1, <2>2 DEF CursorShownRight
<1>2. Base /\ CursorShownRight /\ [Next]_vars => (Base /\ CursorShownRight)'
  BY BaseNext, CursorShownNext
<1>3. Base /\ CursorShownRight => CursorShown
  BY DEF CursorShownRight, CursorShown, Cell, ScreenOf
<1> QED BY <1>1, <1>2, <1>3, PTL DEF Spec

-----------------------------------------------------------------------------
(* The cursor stays on the screen *)

\* Without Tab typed at a shell, or '\b' in the corner of a screen that has
\* wrapped, the cursor cannot leave the screen, whatever the interleaving.
Tame == {"no_tab", "not_top"}

Positions ==
    \A t \in Terms : /\ OnRows(Scr[t]) /\ (pc[t] = "idle" => Inside(Scr[t]))
                     /\ address[t].page \in Pages /\ address[t].cell \in Int

\* A key that echoes leaves the cursor on the rows, and if it was inside, inside.
LEMMA EchoInside ==
    ASSUME NEW s, NEW g \in Glyphs, OnRows(s), ~InCorner(s, g), g # "tab"
    PROVE  LET v == Echo(s, g) IN
           /\ OnRows(v) /\ (Inside(s) => Inside(v))
           /\ s.ink \subseteq Page /\ TAB4 <= NUM_COLS => v.ink \subseteq Page
<1> DEFINE a == Aimed(s, g)
           w == Stored(a, g)
           v == Echo(s, g)
<1>1. /\ OnRows(a) /\ a.ink = s.ink
      /\ (s.x <= NUM_COLS - 2 /\ g # "tab") => a.x <= NUM_COLS - 2
  BY AimedInside, Zenon
<1>2. TAB4 <= NUM_COLS => Cell(a) \in Page
  <2> HIDE DEF a
  <2> QED BY <1>1, CellOnPage, Zenon
<1>3. /\ OnRows(w) /\ w.x = a.x
      /\ (a.ink \subseteq Page /\ (g = "char" => Cell(a) \in Page)) => w.ink \subseteq Page
  <2> HIDE DEF a
  <2> QED BY <1>1, StoredOnRows, Zenon DEF w
<1>4. v = AfterEcho(w, g) BY DEF Echo
<1>5. /\ OnRows(v) /\ (w.x <= NUM_COLS - 2 => Inside(v))
      /\ w.ink \subseteq Page => v.ink \subseteq Page
  <2> HIDE DEF w, v
  <2> QED BY <1>3, <1>4, AfterEchoOnRows, Zenon
<1> HIDE DEF a, w, v
<1>6. Inside(s) => s.x <= NUM_COLS - 2 BY DEF Inside
<1> QED BY <1>1, <1>2, <1>3, <1>5, <1>6 DEF v

\* NotTop is what the drawing functions need.
LEMMA Topless ==
    ASSUME Base, "not_top" \in Discipline, NEW t \in Terms, NEW g, NotTop(t, g)
    PROVE  ~InCorner(Scr[t], g)
BY DEF NotTop, Rule, InCorner, Scr, ScreenOf

\* What is printed and typed are characters.
LEMMA GlyphsAre == Prints \subseteq Glyphs /\ Types \subseteq Glyphs
BY ScreenAssumption

\* Under Tame no step takes a cursor off its screen.
LEMMA PositionsNext ==
    Tame \subseteq Discipline => (Base /\ Positions /\ [Next]_vars => Positions')
<1> SUFFICES ASSUME Tame \subseteq Discipline, Base, Positions, [Next]_vars PROVE Positions'
  OBVIOUS
<1>0. Base' BY BaseNext
<1>a. "no_tab" \in Discipline /\ "not_top" \in Discipline BY DEF Tame
<1>b. pc \in [Terms -> {"idle", "store", "move"}] /\ address = [u \in Terms |-> address[u]]
      /\ glyph \in [Terms -> Glyphs]
  BY DEF Base, Functions
<1>c. NoAddress.page \in Pages /\ NoAddress.cell \in Int BY OwnPage DEF Base, NoAddress
\* One terminal's screen and putc may change, the others' stay.
<1>d. ASSUME NEW t \in Terms, OnRows(Scr'[t]), pc'[t] = "idle" => Inside(Scr'[t]),
             address'[t].page \in Pages, address'[t].cell \in Int,
             \A u \in Terms \ {t} : Scr'[u] = Scr[u] /\ pc'[u] = pc[u] /\ address'[u] = address[u]
      PROVE  Positions'
  BY <1>d DEF Positions
<1>1. ASSUME NEW t \in Terms, NEW g \in Prints, PutAim(t, g) PROVE Positions'
  <2>1. g \in Glyphs /\ OnRows(Scr[t]) /\ Inside(Scr[t]) /\ ~InCorner(Scr[t], g)
    BY <1>1, <1>a, GlyphsAre, Topless DEF PutAim, Positions
  <2>2. Scr[t].x <= NUM_COLS - 2 BY <2>1 DEF Inside
  <2>3. OnRows(Aimed(Scr[t], g)) BY <2>1, <2>2, AimedInside, Zenon
  <2>4. Cell(Aimed(Scr[t], g)) \in Int BY <2>3, CellOnPage
  <2>5. /\ Scr'[t] = Aimed(Scr[t], g) /\ \A u \in Terms \ {t} : Scr'[u] = Scr[u]
        /\ address' = [address EXCEPT ![t] = IF Stores(g)
              THEN [page |-> video_mem[t], cell |-> Cell(Aimed(Scr[t], g))] ELSE NoAddress]
    BY <1>1, AimEffect
  <2>6. pc' = [pc EXCEPT ![t] = IF Stores(g) THEN "store" ELSE "move"] BY <1>1 DEF PutAim
  <2>7. pc'[t] # "idle" /\ \A u \in Terms \ {t} : pc'[u] = pc[u] /\ address'[u] = address[u]
    BY <1>b, <2>5, <2>6
  <2>8. address'[t].page \in Pages /\ address'[t].cell \in Int
    <3>1. video_mem[t] \in Pages BY OwnPage DEF Base
    <3>2. address'[t] = IF Stores(g) THEN [page |-> video_mem[t], cell |-> Cell(Aimed(Scr[t], g))]
                                     ELSE NoAddress
      BY <1>b, <2>5
    <3> QED BY <1>c, <2>4, <3>1, <3>2
  <2>9. OnRows(Scr'[t]) BY <2>3, <2>5
  <2> QED BY <1>d, <2>5, <2>7, <2>8, <2>9
<1>2. ASSUME NEW t \in Terms, PutStore(t) PROVE Positions'
  <2>1. /\ x' = x /\ y' = y /\ runon' = runon /\ address' = address /\ video_mem' = video_mem
        /\ pc' = [pc EXCEPT ![t] = "move"]
    BY <1>2 DEF PutStore, dots
  <2>2. \A u \in Terms : pc'[u] = "idle" => pc[u] = "idle" BY <1>b, <2>1
  <2>3. ASSUME NEW u \in Terms
        PROVE  /\ OnRows(Scr'[u]) /\ (pc'[u] = "idle" => Inside(Scr'[u]))
               /\ address'[u].page \in Pages /\ address'[u].cell \in Int
    <3> DEFINE k == page'[video_mem[u]]
    <3>1. k \in SUBSET Int
      <4>1. Scr[u].ink = page[video_mem[u]] /\ Scr[u] \in ScreenRecord
        BY DEF Scr, ScreenOf, Positions, OnRows
      <4>2. page[video_mem[u]] \in SUBSET Int BY <4>1, Fields
      <4>3. address[t].cell \in Int BY DEF Positions
      <4>4. Inked(page[video_mem[u]], address[t].cell, glyph[t]) \in SUBSET Int
        BY <4>2, <4>3 DEF Inked
      <4> QED BY <1>2, <4>2, <4>4, StoreEffect
    <3>2. Scr'[u] = [x |-> x[u], y |-> y[u], runon |-> runon[u], ink |-> k]
          /\ Scr[u] = [x |-> x[u], y |-> y[u], runon |-> runon[u], ink |-> page[video_mem[u]]]
      BY <2>1 DEF Scr, ScreenOf
    <3>3. OnRows(Scr[u]) /\ (pc[u] = "idle" => Inside(Scr[u])) BY DEF Positions
    <3> HIDE DEF k
    <3>4. Scr'[u] \in ScreenRecord /\ Scr'[u].x = Scr[u].x /\ Scr'[u].y = Scr[u].y
      BY <3>1, <3>2, <3>3 DEF OnRows, ScreenRecord
    <3>5. OnRows(Scr'[u]) BY <3>3, <3>4 DEF OnRows
    <3>6. Inside(Scr[u]) => Inside(Scr'[u]) BY <3>4, <3>5 DEF Inside
    <3> QED BY <2>1, <2>2, <3>3, <3>5, <3>6 DEF Positions
  <2> QED BY <2>3 DEF Positions
<1>3. ASSUME NEW t \in Terms, PutMove(t) PROVE Positions'
  <2>1. OnRows(Scr[t]) /\ glyph[t] \in Glyphs BY <1>b DEF Positions
  <2>2. /\ Scr'[t] = AfterStore(Scr[t], glyph[t]) /\ \A u \in Terms \ {t} : Scr'[u] = Scr[u]
    BY <1>3, MoveEffect
  <2>3. Inside(Scr'[t]) BY <2>1, <2>2, AfterStoreInside, Zenon
  <2>4. pc' = [pc EXCEPT ![t] = "idle"] /\ address' = [address EXCEPT ![t] = NoAddress]
    BY <1>3 DEF PutMove
  <2>5. \A u \in Terms \ {t} : pc'[u] = pc[u] /\ address'[u] = address[u] BY <1>b, <2>4
  <2>6. address'[t] = NoAddress BY <1>b, <2>4
  <2>7. OnRows(Scr'[t]) BY <2>3 DEF Inside
  <2> QED BY <1>c, <1>d, <2>2, <2>3, <2>5, <2>6, <2>7
<1>4. ASSUME NEW t \in Terms, KeyClear(t) PROVE Positions'
  <2>1. OnRows(Scr[t]) BY DEF Positions
  <2>2. Scr'[t] = Cleared(Scr[t]) /\ \A u \in Terms \ {t} : Scr'[u] = Scr[u]
    BY <1>4, ClearEffect
  <2>3. Inside(Scr'[t]) BY <2>1, <2>2, ClearedInside, Zenon
  <2>4. pc' = pc /\ address' = address BY <1>4 DEF KeyClear, putc
  <2>5. OnRows(Scr'[t]) BY <2>3 DEF Inside
  <2>6. address[t].page \in Pages /\ address[t].cell \in Int BY DEF Positions
  <2> QED BY <1>d, <2>2, <2>3, <2>4, <2>5, <2>6
<1>5. ASSUME NEW t \in Terms, term_switch(t) PROVE Positions'
  <2>1. Scr' = Scr /\ pc' = pc /\ address' = address BY <1>5, SwitchEffect DEF term_switch, putc
  <2> QED BY <2>1 DEF Positions
<1>6. ASSUME NEW g \in Types, KeyEcho(g) PROVE Positions'
  <2> DEFINE t == curr_term
  <2>0. t \in Terms BY DEF Base, Layout
  <2>1. OnRows(Scr[t]) /\ (pc[t] = "idle" => Inside(Scr[t])) /\ g \in Glyphs /\ g # "tab"
    BY <1>6, <1>a, <2>0, GlyphsAre DEF Positions, KeyEcho, Rule
  <2>2. ~InCorner(Scr[t], g) BY <1>6, <1>a, <2>0, Topless DEF KeyEcho
  <2>3. /\ Scr'[t] = Echo(Scr[t], g) /\ \A u \in Terms \ {t} : Scr'[u] = Scr[u]
    BY <1>6, EchoEffect
  <2>4. OnRows(Scr'[t]) /\ (Inside(Scr[t]) => Inside(Scr'[t]))
    BY <2>1, <2>2, <2>3, EchoInside, Zenon
  <2>5. pc' = pc /\ address' = address BY <1>6 DEF KeyEcho, putc
  <2>6. address[t].page \in Pages /\ address[t].cell \in Int BY <2>0 DEF Positions
  <2> HIDE DEF t
  <2> QED BY <1>d, <2>0, <2>1, <2>3, <2>4, <2>5, <2>6
<1>7. CASE UNCHANGED vars
  BY <1>7 DEF vars, dots, putc, Positions, Scr, ScreenOf
<1> QED BY <1>1, <1>2, <1>3, <1>4, <1>5, <1>6, <1>7 DEF Next

\* The cursors start in the corner.
LEMMA PositionsInit == Init => Positions
<1> SUFFICES ASSUME Init, NEW t \in Terms
             PROVE  /\ OnRows(Scr[t]) /\ Inside(Scr[t])
                    /\ address[t].page \in Pages /\ address[t].cell \in Int
  BY DEF Positions
<1>1. Base BY BaseInit
<1>2. x[t] = 0 /\ y[t] = 0 /\ runon[t] = 0 /\ page[video_mem[t]] = {} /\ address[t] = NoAddress
  BY <1>1, OwnPage DEF Init, Base
<1>3. Scr[t] = [x |-> 0, y |-> 0, runon |-> 0, ink |-> {}] BY <1>2 DEF Scr, ScreenOf
<1>4. Scr[t] \in ScreenRecord BY <1>3 DEF ScreenRecord
<1>5. OnRows(Scr[t]) /\ Inside(Scr[t]) BY <1>3, <1>4, Numbers DEF OnRows, Inside
<1> QED BY <1>1, <1>2, <1>5, OwnPage DEF Base, NoAddress

\* No text is lost off the edges of a screen or stored outside of it: whatever
\* programs print and users type under Tame, a screen's cursor is on it
\* whenever its program is not inside putc.
THEOREM CursorStaysInside == Tame \subseteq Discipline => (Spec => []CursorInside)
<1> SUFFICES ASSUME Tame \subseteq Discipline PROVE Spec => []CursorInside OBVIOUS
<1>1. Init => Base /\ Positions BY BaseInit, PositionsInit
<1>2. Base /\ Positions /\ [Next]_vars => (Base /\ Positions)' BY BaseNext, PositionsNext
<1>3. Base /\ Positions => CursorInside
  <2> SUFFICES ASSUME Base, Positions, NEW t \in Terms, pc[t] = "idle"
               PROVE  x[t] \in 0 .. (NUM_COLS - 1) /\ y[t] \in 0 .. (NUM_ROWS - 1)
    BY DEF CursorInside
  <2>1. Inside(Scr[t]) /\ Scr[t].x = x[t] /\ Scr[t].y = y[t] BY DEF Positions, Scr, ScreenOf
  <2> QED BY <2>1, Numbers DEF Inside, OnRows
<1> QED BY <1>1, <1>2, <1>3, PTL DEF Spec

-----------------------------------------------------------------------------
(* Nothing is stored outside of a page *)

StoresInside ==
    /\ \A p \in Pages : page[p] \subseteq Page
    /\ \A t \in Terms : pc[t] = "store" => address[t].cell \in Page

\* A terminal's screen is drawn on one page.
LEMMA ShowPages ==
    ASSUME Base, NEW t \in Terms, NEW s, Show(t, s), s.ink \subseteq Page, StoresInside
    PROVE  \A p \in Pages : page'[p] \subseteq Page
<1>1. page' = [page EXCEPT ![video_mem[t]] = s.ink] /\ page = [p \in Pages |-> page[p]]
  BY DEF Show, Base, Functions
<1> QED BY <1>1 DEF StoresInside

\* What is on a terminal's screen is on its page.
LEMMA InkOfScr ==
    ASSUME Base, StoresInside, NEW t \in Terms
    PROVE  Scr[t] = ScreenOf(t) /\ Scr[t].ink \subseteq Page
BY OwnPage DEF Base, StoresInside, Scr, ScreenOf

\* Under Tame no step draws outside of a page.
LEMMA StoresInsideNext ==
    Tame \subseteq Discipline /\ TAB4 <= NUM_COLS =>
      (Base /\ Positions /\ StoresInside /\ [Next]_vars => StoresInside')
<1> SUFFICES ASSUME Tame \subseteq Discipline, TAB4 <= NUM_COLS,
                    Base, Positions, StoresInside, [Next]_vars
             PROVE  StoresInside'
  OBVIOUS
<1>a. "no_tab" \in Discipline /\ "not_top" \in Discipline BY DEF Tame
<1>b. pc \in [Terms -> {"idle", "store", "move"}] /\ address = [u \in Terms |-> address[u]]
      /\ glyph \in [Terms -> Glyphs]
  BY DEF Base, Functions
<1>1. ASSUME NEW t \in Terms, NEW g \in Prints, PutAim(t, g) PROVE StoresInside'
  <2> DEFINE v == Aimed(Scr[t], g)
  <2>1. g \in Glyphs /\ OnRows(Scr[t]) /\ Inside(Scr[t]) /\ ~InCorner(Scr[t], g)
    BY <1>1, <1>a, GlyphsAre, Topless DEF PutAim, Positions
  <2>2. Scr[t].x <= NUM_COLS - 2 BY <2>1 DEF Inside
  <2>3. OnRows(v) /\ v.ink = Scr[t].ink BY <2>1, <2>2, AimedInside, Zenon
  <2> HIDE DEF v
  <2>4. Cell(v) \in Page BY <2>3, CellOnPage
  <2>5. v.ink \subseteq Page BY <2>3, InkOfScr
  <2>6. /\ Show(t, v)
        /\ address' = [address EXCEPT ![t] = IF Stores(g)
              THEN [page |-> video_mem[t], cell |-> Cell(v)] ELSE NoAddress]
        /\ pc' = [pc EXCEPT ![t] = IF Stores(g) THEN "store" ELSE "move"]
    BY <1>1, InkOfScr DEF PutAim, v
  <2>7. \A p \in Pages : page'[p] \subseteq Page BY <2>5, <2>6, ShowPages
  <2>8. pc'[t] = "store" => address'[t].cell = Cell(v)
    <3>1. Stores(g) => address'[t] = [page |-> video_mem[t], cell |-> Cell(v)] BY <1>b, <2>6
    <3>2. pc'[t] = "store" => Stores(g) BY <1>b, <2>6
    <3> QED BY <3>1, <3>2
  <2>9. \A u \in Terms \ {t} : pc'[u] = pc[u] /\ address'[u] = address[u] BY <1>b, <2>6
  <2> QED BY <2>4, <2>7, <2>8, <2>9 DEF StoresInside
<1>2. ASSUME NEW t \in Terms, PutStore(t) PROVE StoresInside'
  <2>1. /\ address' = address /\ pc[t] = "store" /\ pc' = [pc EXCEPT ![t] = "move"]
    BY <1>2 DEF PutStore
  <2>2. \A u \in Terms : pc'[u] = "store" => pc[u] = "store" BY <1>b, <2>1
  <2>3. \A p \in Pages : Inked(page[p], address[t].cell, glyph[t]) \subseteq Page
    BY <2>1 DEF StoresInside, Inked
  <2>4. \A p \in Pages : page'[p] \subseteq Page
    BY <1>2, <2>3, StoreEffect DEF StoresInside
  <2> QED BY <2>1, <2>2, <2>4 DEF StoresInside
<1>3. ASSUME NEW t \in Terms, PutMove(t) PROVE StoresInside'
  <2>1. OnRows(Scr[t]) /\ glyph[t] \in Glyphs BY <1>b DEF Positions
  <2>2. Show(t, AfterStore(Scr[t], glyph[t])) /\ pc' = [pc EXCEPT ![t] = "idle"]
        /\ address' = [address EXCEPT ![t] = NoAddress]
    BY <1>3, InkOfScr DEF PutMove
  <2>3. Scr[t].ink \subseteq Page BY InkOfScr
  <2>4. AfterStore(Scr[t], glyph[t]).ink \subseteq Page BY <2>1, <2>3, AfterStoreInside, Zenon
  <2>5. \A p \in Pages : page'[p] \subseteq Page BY <2>2, <2>4, ShowPages
  <2>6. \A u \in Terms : pc'[u] = "store" => pc[u] = "store" /\ address'[u] = address[u]
    BY <1>b, <2>2
  <2> QED BY <2>5, <2>6 DEF StoresInside
<1>4. ASSUME NEW t \in Terms, KeyClear(t) PROVE StoresInside'
  <2>1. OnRows(Scr[t]) /\ Scr[t].ink \subseteq Page BY InkOfScr DEF Positions
  <2>2. Show(t, Cleared(Scr[t])) /\ pc' = pc /\ address' = address
    BY <1>4, InkOfScr DEF KeyClear, putc
  <2>3. Cleared(Scr[t]).ink \subseteq Page BY <2>1, ClearedInside, Zenon
  <2> QED BY <2>2, <2>3, ShowPages DEF StoresInside
<1>5. ASSUME NEW t \in Terms, term_switch(t) PROVE StoresInside'
  <2>1. pc' = pc /\ address' = address BY <1>5 DEF term_switch, putc
  <2> QED BY <1>5, <2>1, SwitchEffect DEF StoresInside
<1>6. ASSUME NEW g \in Types, KeyEcho(g) PROVE StoresInside'
  <2> DEFINE t == curr_term
  <2>0. t \in Terms BY DEF Base, Layout
  <2>1. OnRows(Scr[t]) /\ g \in Glyphs /\ g # "tab"
    BY <1>6, <1>a, <2>0, GlyphsAre DEF Positions, KeyEcho, Rule
  <2>2. ~InCorner(Scr[t], g) BY <1>6, <1>a, <2>0, Topless DEF KeyEcho
  <2>3. Show(t, Echo(Scr[t], g)) /\ pc' = pc /\ address' = address
    BY <1>6, <2>0, InkOfScr DEF KeyEcho, putc
  <2>4. Scr[t].ink \subseteq Page BY <2>0, InkOfScr
  <2> HIDE DEF t
  <2>5. Echo(Scr[t], g).ink \subseteq Page BY <2>1, <2>2, <2>4, EchoInside, Zenon
  <2> QED BY <2>0, <2>3, <2>5, ShowPages DEF StoresInside
<1>7. CASE UNCHANGED vars BY <1>7 DEF vars, dots, putc, StoresInside
<1> QED BY <1>1, <1>2, <1>3, <1>4, <1>5, <1>6, <1>7 DEF Next

\* The VGA cursor is a number.
LEMMA CursorNext == Base /\ Positions /\ Positions' /\ cursor \in Int /\ [Next]_vars => cursor' \in Int
<1> SUFFICES ASSUME Base, Positions, Positions', cursor \in Int, [Next]_vars PROVE cursor' \in Int
  OBVIOUS
<1>0. Base' BY BaseNext
<1>1. \A t \in Terms : x'[t] \in Int /\ y'[t] \in Int
  BY <1>0, Places, Fields DEF Positions, OnRows
<1>2. curr_term \in Terms /\ NUM_COLS \in Nat BY Numbers DEF Base, Layout
<1>3. ASSUME NEW t \in Terms, update_cursor(t) PROVE cursor' \in Int
  BY <1>1, <1>2, <1>3 DEF update_cursor
<1>4. ASSUME NEW t \in Terms, NEW g \in Prints, PutAim(t, g) PROVE cursor' \in Int BY <1>4 DEF PutAim
<1>5. ASSUME NEW t \in Terms, PutStore(t) PROVE cursor' \in Int BY <1>5 DEF PutStore
<1>6. ASSUME NEW t \in Terms, PutMove(t) PROVE cursor' \in Int BY <1>2, <1>3, <1>6 DEF PutMove
<1>7. ASSUME NEW t \in Terms, KeyClear(t) PROVE cursor' \in Int BY <1>2, <1>3, <1>7 DEF KeyClear
<1>8. ASSUME NEW t \in Terms, term_switch(t) PROVE cursor' \in Int BY <1>3, <1>8 DEF term_switch
<1>9. ASSUME NEW g \in Types, KeyEcho(g) PROVE cursor' \in Int BY <1>2, <1>3, <1>9 DEF KeyEcho
<1> QED BY <1>4, <1>5, <1>6, <1>7, <1>8, <1>9 DEF Next, vars

\* A Tab is no wider than a row (lib.h: 4 of 80 columns), so that no store of a
\* putc or of an echo leaves its page, whatever is printed, typed and switched
\* under Tame.
THEOREM ScreenTypes == Tame \subseteq Discipline /\ TAB4 <= NUM_COLS => (Spec => []TypeOK)
<1> SUFFICES ASSUME Tame \subseteq Discipline, TAB4 <= NUM_COLS PROVE Spec => []TypeOK OBVIOUS
<1> DEFINE I == Base /\ Positions /\ StoresInside /\ cursor \in Int
<1>1. Init => I
  <2> SUFFICES ASSUME Init PROVE I OBVIOUS
  <2>1. StoresInside BY BaseInit DEF Init, StoresInside
  <2> QED BY <2>1, BaseInit, PositionsInit DEF Init
<1>2. I /\ [Next]_vars => I' BY BaseNext, PositionsNext, StoresInsideNext, CursorNext
<1>3. I => TypeOK
  <2> SUFFICES ASSUME I PROVE TypeOK OBVIOUS
  <2>1. \A t \in Terms : x[t] \in Int /\ y[t] \in Int /\ runon[t] \in {0, 1}
    BY Fields DEF Positions, OnRows, Scr, ScreenOf
  <2>2. video_mem \in [Terms -> Pages] BY OwnPage DEF Base, Layout
  <2> QED BY <2>1, <2>2 DEF TypeOK, Base, Functions, Layout, Positions, StoresInside, Page
<1> QED BY <1>1, <1>2, <1>3, PTL DEF Spec

-----------------------------------------------------------------------------
(* What a putc aimed at stands until it stores *)

\* Without echoes and Ctrl-L on a terminal in putc, and without a switch between
\* address and store, the address a putc computed is still that of its cursor.
Undisturbed == {"quiet", "aimed"}

AimStands ==
    \A t \in Terms : pc[t] = "store" =>
        Stores(glyph[t]) /\ address[t].page = video_mem[t] /\ address[t].cell = Cell(Scr[t])

\* So the store is the one the drawing functions describe.
LEMMA StoreLands ==
    ASSUME Base, AimStands, NEW t \in Terms, PutStore(t)
    PROVE  Scr'[t] = Stored(Scr[t], glyph[t]) /\ \A u \in Terms \ {t} : Scr'[u] = Scr[u]
<1>1. Stores(glyph[t]) /\ address[t].page = video_mem[t] /\ address[t].cell = Cell(Scr[t])
  BY DEF PutStore, AimStands
<1> DEFINE k == Inked(page[video_mem[t]], Cell(Scr[t]), glyph[t])
<1>2. /\ page'[video_mem[t]] = k
      /\ \A u \in Terms \ {t} : page'[video_mem[u]] = page[video_mem[u]]
  BY <1>1, StoreEffect, OwnPage DEF Base
<1>3. x' = x /\ y' = y /\ runon' = runon /\ video_mem' = video_mem BY DEF PutStore, dots
<1>4. \A u \in Terms \ {t} : Scr'[u] = Scr[u] BY <1>2, <1>3 DEF Scr, ScreenOf
<1>5. /\ Scr[t] = [x |-> x[t], y |-> y[t], runon |-> runon[t], ink |-> page[video_mem[t]]]
      /\ Scr'[t] = [x |-> x[t], y |-> y[t], runon |-> runon[t], ink |-> k]
  BY <1>2, <1>3 DEF Scr, ScreenOf
<1>6. Scr[t].ink = page[video_mem[t]] BY <1>5
<1>7. Stored(Scr[t], glyph[t]) = [Scr[t] EXCEPT !.ink = k] BY <1>1, <1>6 DEF Stored
<1> HIDE DEF k
<1>8. [Scr[t] EXCEPT !.ink = k] = Scr'[t] BY <1>5
<1> QED BY <1>4, <1>7, <1>8

\* Undisturbed, what a putc aimed at stands until it stores.
LEMMA AimStandsNext ==
    Undisturbed \subseteq Discipline => (Base /\ AimStands /\ [Next]_vars => AimStands')
<1> SUFFICES ASSUME Undisturbed \subseteq Discipline, Base, AimStands, [Next]_vars
             PROVE  AimStands'
  OBVIOUS
<1>a. Rule("quiet") /\ Rule("aimed") BY DEF Undisturbed, Rule
<1>b. /\ pc \in [Terms -> {"idle", "store", "move"}] /\ glyph \in [Terms -> Glyphs]
      /\ address = [u \in Terms |-> address[u]]
      /\ video_mem = [u \in Terms |-> IF u = curr_term THEN VIDEO ELSE u + 1]
      /\ curr_term \in Terms
  BY DEF Base, Functions, Layout
\* Only terminal t changes, and it is not left before a store.
<1>c. ASSUME NEW t \in Terms, pc'[t] # "store", video_mem' = video_mem,
             \A u \in Terms \ {t} : /\ Scr'[u] = Scr[u] /\ pc'[u] = pc[u]
                                    /\ address'[u] = address[u] /\ glyph'[u] = glyph[u]
      PROVE  AimStands'
  BY <1>c DEF AimStands
<1>1. ASSUME NEW t \in Terms, NEW g \in Prints, PutAim(t, g) PROVE AimStands'
  <2> DEFINE v == Aimed(Scr[t], g)
  <2>1. /\ Scr'[t] = v /\ \A u \in Terms \ {t} : Scr'[u] = Scr[u]
        /\ address' = [address EXCEPT ![t] = IF Stores(g)
              THEN [page |-> video_mem[t], cell |-> Cell(v)] ELSE NoAddress]
    BY <1>1, AimEffect
  <2> HIDE DEF v
  <2>2. /\ pc' = [pc EXCEPT ![t] = IF Stores(g) THEN "store" ELSE "move"]
        /\ glyph' = [glyph EXCEPT ![t] = g] /\ video_mem' = video_mem
    BY <1>1 DEF PutAim
  <2>3. \A u \in Terms \ {t} : pc'[u] = pc[u] /\ address'[u] = address[u] /\ glyph'[u] = glyph[u]
    BY <1>b, <2>1, <2>2
  <2>4. CASE Stores(g)
    <3>1. /\ glyph'[t] = g /\ address'[t].page = video_mem'[t]
          /\ address'[t].cell = Cell(Scr'[t])
      BY <1>b, <2>1, <2>2, <2>4
    <3> QED BY <2>1, <2>2, <2>3, <2>4, <3>1 DEF AimStands
  <2>5. CASE ~Stores(g)
    <3>1. pc'[t] = "move" BY <1>b, <2>2, <2>5
    <3> QED BY <1>c, <2>1, <2>2, <2>3, <3>1
  <2> QED BY <2>4, <2>5
<1>2. ASSUME NEW t \in Terms, PutStore(t) PROVE AimStands'
  <2>1. /\ pc' = [pc EXCEPT ![t] = "move"] /\ UNCHANGED <<video_mem, glyph, address>>
    BY <1>2 DEF PutStore
  <2>2. pc'[t] = "move" /\ \A u \in Terms \ {t} : pc'[u] = pc[u] BY <1>b, <2>1
  <2> QED BY <1>2, <1>c, <2>1, <2>2, StoreLands
<1>3. ASSUME NEW t \in Terms, PutMove(t) PROVE AimStands'
  <2>1. /\ pc' = [pc EXCEPT ![t] = "idle"] /\ glyph' = [glyph EXCEPT ![t] = "nl"]
        /\ address' = [address EXCEPT ![t] = NoAddress] /\ video_mem' = video_mem
    BY <1>3 DEF PutMove
  <2>2. pc'[t] = "idle" /\ \A u \in Terms \ {t} : /\ pc'[u] = pc[u]
                                                  /\ address'[u] = address[u] /\ glyph'[u] = glyph[u]
    BY <1>b, <2>1
  <2> QED BY <1>3, <1>c, <2>1, <2>2, MoveEffect
<1>4. ASSUME NEW t \in Terms, KeyClear(t) PROVE AimStands'
  <2>1. pc[t] = "idle" /\ UNCHANGED <<pc, glyph, address, video_mem>>
    BY <1>4, <1>a DEF KeyClear, Quiet, putc
  <2> QED BY <1>4, <1>c, <2>1, ClearEffect
<1>5. ASSUME NEW t \in Terms, term_switch(t) PROVE AimStands'
  <2>1. /\ \A u \in {t, curr_term} : pc[u] # "store"
        /\ video_mem' = [[video_mem EXCEPT ![curr_term] = curr_term + 1] EXCEPT ![t] = VIDEO]
        /\ UNCHANGED <<pc, glyph, address>>
    BY <1>5, <1>a DEF term_switch, putc
  <2>2. \A u \in Terms \ {t, curr_term} : video_mem'[u] = video_mem[u] BY <1>b, <2>1
  <2>3. Scr' = Scr BY <1>5, SwitchEffect
  <2> QED BY <2>1, <2>2, <2>3 DEF AimStands
<1>6. ASSUME NEW g \in Types, KeyEcho(g) PROVE AimStands'
  <2>1. pc[curr_term] = "idle" /\ UNCHANGED <<pc, glyph, address, video_mem>>
    BY <1>6, <1>a DEF KeyEcho, Quiet, putc
  <2> QED BY <1>6, <1>b, <1>c, <2>1, EchoEffect
<1>7. CASE UNCHANGED vars BY <1>7 DEF vars, dots, putc, AimStands, Scr, ScreenOf, Cell
<1> QED BY <1>1, <1>2, <1>3, <1>4, <1>5, <1>6, <1>7 DEF Next

\* Nothing is aimed at to begin with.
LEMMA AimStandsInit == Init => AimStands
BY DEF Init, AimStands

-----------------------------------------------------------------------------
(* Nothing ahead of the cursor *)

\* What is known of the text at each point of putc.
Text ==
    \A t \in Terms :
        /\ pc[t] = "idle" => Behind(Scr[t])
        /\ pc[t] = "store" => /\ IF glyph[t] = "bs" THEN UpTo(Scr[t]) ELSE Behind(Scr[t])
                              /\ glyph[t] = "char" => Scr[t].x <= NUM_COLS - 2
        /\ pc[t] = "move" => IF glyph[t] = "char"
                             THEN UpTo(Scr[t]) /\ Scr[t].x <= NUM_COLS - 2 ELSE Behind(Scr[t])

\* An echo leaves the cursor behind the text.
LEMMA EchoInk ==
    ASSUME NEW s, NEW g \in Glyphs, Inside(s), Behind(s), ~InCorner(s, g), g # "tab", BACK2 = 2
    PROVE  Behind(Echo(s, g))
<1> DEFINE a == Aimed(s, g)
           w == Stored(a, g)
<1>0. OnRows(s) /\ s.x <= NUM_COLS - 2 BY DEF Inside
<1>1. /\ OnRows(a) /\ ((s.x <= NUM_COLS - 2 /\ g # "tab") => a.x <= NUM_COLS - 2)
  BY <1>0, AimedInside, Zenon
<1>2. IF g = "bs" THEN UpTo(a) ELSE Behind(a) BY AimedInk, Zenon
<1>3. a.x <= NUM_COLS - 2 BY <1>0, <1>1, Zenon
<1> HIDE DEF a
<1>4. OnRows(w) /\ w.x = a.x BY <1>1, StoredOnRows, Zenon
<1>5. IF g = "char" THEN UpTo(w) ELSE Behind(w) BY <1>1, <1>2, <1>3, StoredInk, Zenon
<1>6. Echo(s, g) = AfterEcho(w, g) BY DEF Echo, a
<1> HIDE DEF w
<1>7. w.x <= NUM_COLS - 2 => AfterEcho(w, g) = AfterStore(w, g)
  BY <1>4, AfterEchoOnRows, Zenon
<1>8. w.x <= NUM_COLS - 2 BY <1>3, <1>4
<1>9. Behind(AfterStore(w, g)) BY <1>4, <1>5, <1>8, AfterStoreInk, Zenon
<1> QED BY <1>6, <1>7, <1>8, <1>9

\* Under all the rules every step keeps the text behind the cursor.
LEMMA TextNext ==
    Rules \subseteq Discipline /\ BACK2 = 2 =>
      (Base /\ Positions /\ AimStands /\ Text /\ [Next]_vars => Text')
<1> SUFFICES ASSUME Rules \subseteq Discipline, BACK2 = 2,
                    Base, Positions, AimStands, Text, [Next]_vars
             PROVE  Text'
  OBVIOUS
<1>a. Rule("quiet") /\ Rule("no_tab") /\ "not_top" \in Discipline BY DEF Rules, Rule
<1>b. /\ pc \in [Terms -> {"idle", "store", "move"}] /\ glyph \in [Terms -> Glyphs]
      /\ curr_term \in Terms
  BY DEF Base, Functions, Layout
<1>c. \A t \in Terms : OnRows(Scr[t]) /\ (pc[t] = "idle" => Inside(Scr[t])) BY DEF Positions
\* A key or Ctrl-L at a terminal whose program is not in putc.
<1>d. ASSUME NEW t \in Terms, pc[t] = "idle", Behind(Scr'[t]), UNCHANGED <<pc, glyph>>,
             \A u \in Terms \ {t} : Scr'[u] = Scr[u]
      PROVE  Text'
  BY <1>d DEF Text
<1>1. ASSUME NEW t \in Terms, NEW g \in Prints, PutAim(t, g) PROVE Text'
  <2> DEFINE s == Scr[t]
             v == Aimed(s, g)
  <2>1. /\ g \in Glyphs /\ Inside(s) /\ Behind(s) /\ ~InCorner(s, g) /\ OnRows(s)
        /\ s.x <= NUM_COLS - 2
    BY <1>1, <1>a, <1>c, GlyphsAre, Topless DEF PutAim, Text, Inside
  <2>2. Scr'[t] = v /\ \A u \in Terms \ {t} : Scr'[u] = Scr[u] BY <1>1, AimEffect
  <2>3. /\ pc' = [pc EXCEPT ![t] = IF Stores(g) THEN "store" ELSE "move"]
        /\ glyph' = [glyph EXCEPT ![t] = g]
    BY <1>1 DEF PutAim
  <2>4. \A u \in Terms \ {t} : pc'[u] = pc[u] /\ glyph'[u] = glyph[u] BY <1>b, <2>3
  <2>5. /\ glyph'[t] = g /\ pc'[t] = IF Stores(g) THEN "store" ELSE "move" BY <1>b, <2>3
  <2>6. IF g = "bs" THEN UpTo(v) ELSE Behind(v) BY <2>1, AimedInk, Zenon
  <2>7. (s.x <= NUM_COLS - 2 /\ g # "tab") => v.x <= NUM_COLS - 2 BY <2>1, AimedInside, Zenon
  <2> HIDE DEF v, s
  <2>8. Stores(g) \/ g \notin {"char", "bs"} BY DEF Stores
  <2>9. g = "char" => v.x <= NUM_COLS - 2 BY <2>1, <2>7
  <2> QED BY <2>2, <2>4, <2>5, <2>6, <2>8, <2>9 DEF Text
<1>2. ASSUME NEW t \in Terms, PutStore(t) PROVE Text'
  <2>1. /\ pc[t] = "store" /\ pc' = [pc EXCEPT ![t] = "move"] /\ glyph' = glyph
    BY <1>2 DEF PutStore
  <2>2. pc'[t] = "move" /\ \A u \in Terms \ {t} : pc'[u] = pc[u] BY <1>b, <2>1
  <2> DEFINE s == Scr[t]
             g == glyph[t]
             v == Stored(s, g)
  <2>3. Scr'[t] = v /\ \A u \in Terms \ {t} : Scr'[u] = Scr[u] BY <1>2, StoreLands
  <2>4. /\ OnRows(s) /\ g \in Glyphs /\ (IF g = "bs" THEN UpTo(s) ELSE Behind(s))
        /\ g = "char" => s.x <= NUM_COLS - 2
    BY <1>b, <1>c, <2>1 DEF Text
  <2>5. IF g = "char" THEN UpTo(v) ELSE Behind(v) BY <2>4, StoredInk, Zenon
  <2>6. v.x = s.x BY <2>4, StoredOnRows, Zenon
  <2>7. glyph'[t] = g BY <2>1
  <2> HIDE DEF s, g, v
  <2>8. g = "char" => v.x <= NUM_COLS - 2 BY <2>4, <2>6
  <2> QED BY <2>1, <2>2, <2>3, <2>5, <2>7, <2>8 DEF Text
<1>3. ASSUME NEW t \in Terms, PutMove(t) PROVE Text'
  <2>1. /\ pc[t] = "move" /\ pc' = [pc EXCEPT ![t] = "idle"]
        /\ glyph' = [glyph EXCEPT ![t] = "nl"]
    BY <1>3 DEF PutMove
  <2>2. pc'[t] = "idle" /\ \A u \in Terms \ {t} : pc'[u] = pc[u] /\ glyph'[u] = glyph[u]
    BY <1>b, <2>1
  <2>3. Scr'[t] = AfterStore(Scr[t], glyph[t]) /\ \A u \in Terms \ {t} : Scr'[u] = Scr[u]
    BY <1>3, MoveEffect
  <2>4. /\ OnRows(Scr[t]) /\ glyph[t] \in Glyphs
        /\ IF glyph[t] = "char" THEN UpTo(Scr[t]) /\ Scr[t].x <= NUM_COLS - 2 ELSE Behind(Scr[t])
    BY <1>b, <1>c, <2>1 DEF Text
  <2>5. Behind(AfterStore(Scr[t], glyph[t])) BY <2>4, AfterStoreInk, Zenon
  <2>6. Behind(Scr'[t]) BY <2>3, <2>5
  <2> QED BY <2>2, <2>3, <2>6 DEF Text
<1>4. ASSUME NEW t \in Terms, KeyClear(t) PROVE Text'
  <2>1. pc[t] = "idle" /\ UNCHANGED <<pc, glyph>> BY <1>4, <1>a DEF KeyClear, Quiet, putc
  <2>2. OnRows(Scr[t]) /\ UpTo(Scr[t]) BY <1>c, <2>1, BehindUpTo DEF Text
  <2>3. Scr'[t] = Cleared(Scr[t]) /\ \A u \in Terms \ {t} : Scr'[u] = Scr[u]
    BY <1>4, ClearEffect
  <2>4. Behind(Scr'[t]) BY <2>2, <2>3, ClearedInside, Zenon
  <2> QED BY <1>d, <2>1, <2>3, <2>4
<1>5. ASSUME NEW t \in Terms, term_switch(t) PROVE Text'
  <2>1. Scr' = Scr /\ pc' = pc /\ glyph' = glyph BY <1>5, SwitchEffect DEF term_switch, putc
  <2> QED BY <2>1 DEF Text
<1>6. ASSUME NEW g \in Types, KeyEcho(g) PROVE Text'
  <2> DEFINE t == curr_term
  <2>1. pc[t] = "idle" /\ UNCHANGED <<pc, glyph>> /\ g # "tab" /\ g \in Glyphs
    BY <1>6, <1>a, GlyphsAre DEF KeyEcho, Quiet, putc
  <2>2. Inside(Scr[t]) /\ Behind(Scr[t]) /\ ~InCorner(Scr[t], g)
    BY <1>6, <1>a, <1>b, <1>c, <2>1, Topless DEF Text, KeyEcho
  <2>3. Scr'[t] = Echo(Scr[t], g) /\ \A u \in Terms \ {t} : Scr'[u] = Scr[u]
    BY <1>6, EchoEffect
  <2>4. Behind(Scr'[t]) BY <2>1, <2>2, <2>3, EchoInk, Zenon
  <2> HIDE DEF t
  <2>5. t \in Terms BY <1>b DEF t
  <2> QED BY <1>d, <2>1, <2>3, <2>4, <2>5
<1>7. CASE UNCHANGED vars BY <1>7 DEF vars, dots, putc, Text, Scr, ScreenOf
<1> QED BY <1>1, <1>2, <1>3, <1>4, <1>5, <1>6, <1>7 DEF Next

\* The screens start empty.
LEMMA TextInit == Init => Text
<1> SUFFICES ASSUME Init PROVE Text OBVIOUS
<1>1. \A t \in Terms : page[video_mem[t]] = {} /\ pc[t] = "idle"
  BY BaseInit, OwnPage DEF Init, Base
<1>2. \A t \in Terms : Scr[t].ink = {} BY <1>1 DEF Scr, ScreenOf
<1> QED BY <1>1, <1>2 DEF Text, Behind

\* With a Backspace across a line end that goes back to the last cell of the
\* line before (lib.h: BACK2 is 2), and the interleavings that Rules leaves,
\* output and echo never run into text that is already on the screen.
THEOREM NothingIsAhead ==
    Rules \subseteq Discipline /\ BACK2 = 2 => (Spec => []NothingAhead)
<1> SUFFICES ASSUME Rules \subseteq Discipline, BACK2 = 2 PROVE Spec => []NothingAhead OBVIOUS
<1> DEFINE I == Base /\ Positions /\ AimStands /\ Text
<1>0. Tame \subseteq Discipline /\ Undisturbed \subseteq Discipline
  BY DEF Rules, Tame, Undisturbed
<1>1. Init => I BY BaseInit, PositionsInit, AimStandsInit, TextInit
<1>2. I /\ [Next]_vars => I'
  BY <1>0, BaseNext, PositionsNext, AimStandsNext, TextNext
<1>3. I => NothingAhead
  <2> SUFFICES ASSUME I, NEW t \in Terms, pc[t] = "idle", NEW c \in page[video_mem[t]]
               PROVE  c < Cell(ScreenOf(t))
    BY DEF NothingAhead
  <2>1. Scr[t] = ScreenOf(t) /\ c \in Scr[t].ink BY DEF Scr, ScreenOf
  <2>2. OnRows(Scr[t]) /\ Behind(Scr[t]) BY DEF Positions, Text
  <2> QED BY <2>1, <2>2, BehindCell
<1> QED BY <1>1, <1>2, <1>3, PTL DEF Spec

-----------------------------------------------------------------------------
(* Each terminal has a screen of its own *)

\* The abstract screens, as Own takes them from the state.
Mapped ==
    [t \in Terms |->
        LET s == ScreenOf(t) IN
        CASE pc[t] = "idle"  -> s
          [] pc[t] = "store" -> AfterStore([s EXCEPT !.ink = Inked(@, Cell(s), glyph[t])],
                                           glyph[t])
          [] pc[t] = "move"  -> AfterStore(s, glyph[t])]

\* The same in the words of the drawing functions.
Shown ==
    [t \in Terms |-> IF pc[t] = "idle" THEN Scr[t]
                     ELSE IF pc[t] = "store" THEN AfterStore(Stored(Scr[t], glyph[t]), glyph[t])
                     ELSE AfterStore(Scr[t], glyph[t])]

\* Own's screens, in the words of the drawing functions.
LEMMA MappedShown == Base /\ AimStands => Mapped = Shown
<1> SUFFICES ASSUME Base, AimStands PROVE Mapped = Shown OBVIOUS
<1>1. ASSUME NEW t \in Terms PROVE Mapped[t] = Shown[t]
  <2>1. Scr[t] = ScreenOf(t) BY DEF Scr
  <2>2. pc[t] \in {"idle", "store", "move"} BY DEF Base, Functions
  <2>3. CASE pc[t] = "idle" BY <2>1, <2>3 DEF Mapped, Shown
  <2>4. CASE pc[t] = "store"
    <3>1. Stored(Scr[t], glyph[t])
            = [ScreenOf(t) EXCEPT !.ink = Inked(@, Cell(ScreenOf(t)), glyph[t])]
      BY <2>1, <2>4 DEF Stored, AimStands
    <3> QED BY <2>4, <3>1 DEF Mapped, Shown
  <2>5. CASE pc[t] = "move" BY <2>1, <2>5 DEF Mapped, Shown
  <2> QED BY <2>2, <2>3, <2>4, <2>5
<1> QED BY <1>1 DEF Mapped, Shown

\* Screens draws with the same functions.
LEMMA OwnDraws ==
    ASSUME NEW s, NEW g
    PROVE  Own!Put(s, g) = Put(s, g) /\ Own!Echo(s, g) = Echo(s, g) /\ Own!Cleared(s) = Cleared(s)
<1>1. Own!Size = Size BY DEF Own!Size, Size
<1>2. \A r : Own!Cell(r) = Cell(r) BY DEF Own!Cell, Cell
<1>3. \A r : Own!Cleared(r) = Cleared(r) BY <1>1 DEF Own!Cleared, Cleared
<1>4. \A r : Own!Scrolled(r) = Scrolled(r) BY <1>1 DEF Own!Scrolled, Scrolled
<1>5. \A r : Own!RunOn(r) = RunOn(r) BY DEF Own!RunOn, RunOn
<1>6. \A r : Own!ScrolledDown(r) = ScrolledDown(r)
  BY <1>4 DEF Own!ScrolledDown, ScrolledDown
<1>7. \A r : Own!Moved(r, g) = Moved(r, g) BY <1>4 DEF Own!Moved, Moved
<1>8. \A r : Own!Aimed(r, g) = Aimed(r, g) BY DEF Own!Aimed, Aimed
<1>9. \A r : Own!Stored(r, g) = Stored(r, g)
  <2>1. Own!Stores(g) = Stores(g) BY DEF Own!Stores, Stores
  <2>2. \A k, c : Own!Inked(k, c, g) = Inked(k, c, g) BY DEF Own!Inked, Inked
  <2> QED BY <1>2, <2>1, <2>2 DEF Own!Stored, Stored
<1>10. \A r : Own!AfterStore(r, g) = AfterStore(r, g)
  BY <1>5, <1>6, <1>7 DEF Own!AfterStore, AfterStore
<1>11. \A r : Own!AfterEcho(r, g) = AfterEcho(r, g)
  BY <1>5, <1>6, <1>7 DEF Own!AfterEcho, AfterEcho
<1>12. Own!Put(s, g) = Put(s, g) BY <1>8, <1>9, <1>10 DEF Own!Put, Put
<1>13. Own!Echo(s, g) = Echo(s, g) BY <1>8, <1>9, <1>11 DEF Own!Echo, Echo
<1> QED BY <1>3, <1>12, <1>13

\* One character, or a Ctrl-L, on one terminal's screen, or nothing.
Drawn == \/ \E t \in Terms : /\ \A u \in Terms \ {t} : Shown'[u] = Shown[u]
                             /\ \/ \E g \in Glyphs : Shown'[t] = Put(Shown[t], g)
                                \/ \E g \in Glyphs : Shown'[t] = Echo(Shown[t], g)
                                \/ Shown'[t] = Cleared(Shown[t])
         \/ Shown' = Shown

\* Every step draws one character, clears a screen, or shows nothing new.
LEMMA DrawnNext ==
    Undisturbed \subseteq Discipline => (Base /\ AimStands /\ [Next]_vars => Drawn)
<1> SUFFICES ASSUME Undisturbed \subseteq Discipline, Base, AimStands, [Next]_vars PROVE Drawn
  OBVIOUS
<1>a. Rule("quiet") BY DEF Undisturbed, Rule
<1>b. /\ pc \in [Terms -> {"idle", "store", "move"}] /\ glyph \in [Terms -> Glyphs]
      /\ curr_term \in Terms
  BY DEF Base, Functions, Layout
<1>c. /\ Shown' = [u \in Terms |-> Shown'[u]] /\ Shown = [u \in Terms |-> Shown[u]]
  BY DEF Shown
\* A terminal to which nothing happens.
<1>d. ASSUME NEW u \in Terms, Scr'[u] = Scr[u], pc'[u] = pc[u], glyph'[u] = glyph[u]
      PROVE  Shown'[u] = Shown[u]
  BY <1>d DEF Shown
<1>1. ASSUME NEW t \in Terms, NEW g \in Prints, PutAim(t, g) PROVE Drawn
  <2> DEFINE s == Scr[t]
             v == Aimed(s, g)
  <2>1. Scr'[t] = v /\ \A u \in Terms \ {t} : Scr'[u] = Scr[u] BY <1>1, AimEffect
  <2>2. /\ pc' = [pc EXCEPT ![t] = IF Stores(g) THEN "store" ELSE "move"]
        /\ glyph' = [glyph EXCEPT ![t] = g] /\ pc[t] = "idle"
    BY <1>1 DEF PutAim
  <2>3. \A u \in Terms \ {t} : pc'[u] = pc[u] /\ glyph'[u] = glyph[u] BY <1>b, <2>2
  <2>4. glyph'[t] = g /\ pc'[t] = IF Stores(g) THEN "store" ELSE "move" BY <1>b, <2>2
  <2>5. Shown[t] = s BY <2>2 DEF Shown
  <2>6. Put(s, g) = AfterStore(Stored(v, g), g) BY DEF Put
  <2>7. ~Stores(g) => Stored(v, g) = v BY DEF Stored
  <2> HIDE DEF s, v
  <2>8. Shown'[t] = Put(s, g)
    <3>1. CASE Stores(g) BY <2>1, <2>4, <2>6, <3>1 DEF Shown
    <3>2. CASE ~Stores(g) BY <2>1, <2>4, <2>6, <2>7, <3>2 DEF Shown
    <3> QED BY <3>1, <3>2
  <2>9. \A u \in Terms \ {t} : Shown'[u] = Shown[u] BY <1>d, <2>1, <2>3
  <2> QED BY <2>5, <2>8, <2>9, GlyphsAre DEF Drawn
<1>2. ASSUME NEW t \in Terms, PutStore(t) PROVE Drawn
  <2>1. /\ pc[t] = "store" /\ pc' = [pc EXCEPT ![t] = "move"] /\ glyph' = glyph
    BY <1>2 DEF PutStore
  <2>2. pc'[t] = "move" /\ \A u \in Terms \ {t} : pc'[u] = pc[u] BY <1>b, <2>1
  <2>3. /\ Scr'[t] = Stored(Scr[t], glyph[t]) /\ \A u \in Terms \ {t} : Scr'[u] = Scr[u]
    BY <1>2, StoreLands
  <2>4. Shown'[t] = Shown[t] BY <2>1, <2>2, <2>3 DEF Shown
  <2>5. \A u \in Terms \ {t} : Shown'[u] = Shown[u] BY <1>d, <2>1, <2>2, <2>3
  <2> QED BY <1>c, <2>4, <2>5 DEF Drawn
<1>3. ASSUME NEW t \in Terms, PutMove(t) PROVE Drawn
  <2>1. /\ pc[t] = "move" /\ pc' = [pc EXCEPT ![t] = "idle"]
        /\ glyph' = [glyph EXCEPT ![t] = "nl"]
    BY <1>3 DEF PutMove
  <2>2. pc'[t] = "idle" /\ \A u \in Terms \ {t} : pc'[u] = pc[u] /\ glyph'[u] = glyph[u]
    BY <1>b, <2>1
  <2>3. Scr'[t] = AfterStore(Scr[t], glyph[t]) /\ \A u \in Terms \ {t} : Scr'[u] = Scr[u]
    BY <1>3, MoveEffect
  <2>4. Shown'[t] = Shown[t] BY <2>1, <2>2, <2>3 DEF Shown
  <2>5. \A u \in Terms \ {t} : Shown'[u] = Shown[u] BY <1>d, <2>2, <2>3
  <2> QED BY <1>c, <2>4, <2>5 DEF Drawn
<1>4. ASSUME NEW t \in Terms, KeyClear(t) PROVE Drawn
  <2>1. pc[t] = "idle" /\ UNCHANGED <<pc, glyph>> BY <1>4, <1>a DEF KeyClear, Quiet, putc
  <2>2. Scr'[t] = Cleared(Scr[t]) /\ \A u \in Terms \ {t} : Scr'[u] = Scr[u]
    BY <1>4, ClearEffect
  <2>3. Shown[t] = Scr[t] /\ Shown'[t] = Scr'[t] BY <2>1 DEF Shown
  <2>4. \A u \in Terms \ {t} : Shown'[u] = Shown[u] BY <1>d, <2>1, <2>2
  <2> QED BY <2>2, <2>3, <2>4 DEF Drawn
<1>5. ASSUME NEW t \in Terms, term_switch(t) PROVE Drawn
  <2>1. Scr' = Scr /\ pc' = pc /\ glyph' = glyph BY <1>5, SwitchEffect DEF term_switch, putc
  <2> QED BY <2>1 DEF Drawn, Shown
<1>6. ASSUME NEW g \in Types, KeyEcho(g) PROVE Drawn
  <2> DEFINE t == curr_term
  <2>0. t \in Terms BY <1>b
  <2>1. pc[t] = "idle" /\ UNCHANGED <<pc, glyph>> BY <1>6, <1>a DEF KeyEcho, Quiet, putc
  <2>2. Scr'[t] = Echo(Scr[t], g) /\ \A u \in Terms \ {t} : Scr'[u] = Scr[u]
    BY <1>6, EchoEffect
  <2> HIDE DEF t
  <2>3. Shown[t] = Scr[t] /\ Shown'[t] = Scr'[t] BY <2>0, <2>1 DEF Shown
  <2>4. \A u \in Terms \ {t} : Shown'[u] = Shown[u] BY <1>d, <2>1, <2>2
  <2> QED BY <2>0, <2>2, <2>3, <2>4, GlyphsAre DEF Drawn
<1>7. CASE UNCHANGED vars BY <1>7 DEF vars, dots, putc, Drawn, Shown, Scr, ScreenOf
<1> QED BY <1>1, <1>2, <1>3, <1>4, <1>5, <1>6, <1>7 DEF Next

\* Every terminal has a screen of its own, on which its program's output and
\* its keys are drawn a character at a time, whichever terminal is displayed.
THEOREM ScreensAreOwn == Undisturbed \subseteq Discipline => (Spec => ImplementsScreens)
<1> SUFFICES ASSUME Undisturbed \subseteq Discipline PROVE Spec => ImplementsScreens OBVIOUS
<1> DEFINE I == Base /\ AimStands
<1>1. Init => I BY BaseInit, AimStandsInit
<1>2. I /\ [Next]_vars => I' BY BaseNext, AimStandsNext
<1>3. Init => Own!Init
  <2> SUFFICES ASSUME Init PROVE Own!Init OBVIOUS
  <2>1. \A t \in Terms : Scr[t] = Own!Blank /\ pc[t] = "idle"
    BY BaseInit, OwnPage DEF Init, Base, Scr, ScreenOf, Own!Blank
  <2>2. Shown = [t \in Terms |-> Own!Blank] BY <2>1 DEF Shown
  <2>3. Mapped = [t \in Own!Terms |-> Own!Blank] BY <1>1, <2>2, MappedShown DEF Own!Terms, Terms
  <2> QED BY <2>3 DEF Own!Init, Mapped
<1>p. (I => Mapped = Shown)' BY MappedShown, PTL
<1>4. I /\ I' /\ [Next]_vars => [Own!Next]_Mapped
  <2> SUFFICES ASSUME I, I', [Next]_vars PROVE [Own!Next]_Mapped OBVIOUS
  <2>1. Drawn BY DrawnNext
  <2>2. Mapped = Shown /\ Mapped' = Shown' BY <1>p, MappedShown
  <2>3. DOMAIN Mapped' = Terms BY DEF Mapped
  <2>4. ASSUME NEW t \in Terms, \A u \in Terms \ {t} : Mapped'[u] = Mapped[u],
               Mapped'[t] \in Own!After(Mapped[t])
        PROVE  Own!Next
    BY <2>3, <2>4 DEF Own!Next, Own!Terms, Terms, Mapped
  <2> QED BY <2>1, <2>2, <2>4, OwnDraws DEF Drawn, Own!After, Own!Glyphs, Glyphs
<1> QED BY <1>1, <1>2, <1>3, <1>4, PTL DEF Spec, ImplementsScreens, Own!Spec, Mapped
=============================================================================
