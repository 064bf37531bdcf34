------------------------------ MODULE Drawing ------------------------------
(***************************************************************************)
(* What putc and echo (student-distrib/lib.c) do to one terminal's screen, *)
(* as functions of a record: the cursor x, y, the run-on flag, and ink, the*)
(* cells that are not blank.  Cells are numbered along the rows as in      *)
(* video memory; a number off the screen is a store beside it.  Which      *)
(* character a cell shows and its attribute are left out.                  *)
(*                                                                         *)
(* Characters: "char" any that prints, "nl" '\n' or '\r', "bs" '\b',       *)
(* "tab" '\t', "esc" '\e'.                                                 *)
(***************************************************************************)
EXTENDS Integers

CONSTANTS NUM_COLS, NUM_ROWS, TAB4, BACK2

ASSUME DrawingAssumption ==
    /\ NUM_COLS \in Nat /\ NUM_ROWS \in Nat \ {0} /\ TAB4 \in Nat /\ BACK2 \in Nat
    /\ BACK2 >= 2 /\ BACK2 <= NUM_COLS

Glyphs == {"char", "nl", "bs", "tab", "esc"}
Size   == NUM_ROWS * NUM_COLS
Blank  == [x |-> 0, y |-> 0, runon |-> 0, ink |-> {}]

Cell(s) == NUM_COLS * s.y + s.x

\* clear: the run-on flag survives.
Cleared(s) == [s EXCEPT !.x = 0, !.y = 0, !.ink = @ \ (0 .. (Size - 1))]

\* scroll, scroll_echo: the rows move up, the last one is blank.
Scrolled(s) ==
    [s EXCEPT !.x = 0, !.y = NUM_ROWS - 1,
              !.ink = {c \in @ : c \notin 0 .. (Size - 1)}
                      \cup {c - NUM_COLS : c \in @ \cap (NUM_COLS .. (Size - 1))}]

\* [seeded fault] '\b' in column 0 is not looked at.
Aimed_unchecked(s, g) ==
    CASE g = "bs" -> [s EXCEPT !.x = @ - 1]
      [] g = "tab" -> [s EXCEPT !.x = @ + TAB4]
      [] OTHER -> s

\* Where the cursor goes before the store: back, or on by a tab.
Aimed(s, g) ==
    CASE g = "bs" /\ s.x >= 1 -> [s EXCEPT !.x = @ - 1]
      [] g = "bs" /\ s.x < 1 /\ s.runon = 1 -> [s EXCEPT !.x = NUM_COLS - BACK2, !.y = @ - 1]
      [] g = "tab" -> [s EXCEPT !.x = @ + TAB4]
      [] OTHER -> s

Stores(g) == g \in {"char", "bs", "tab"}

Inked(ink, cell, g) == IF g = "char" THEN ink \cup {cell} ELSE ink \ {cell}
Stored(s, g) == IF Stores(g) THEN [s EXCEPT !.ink = Inked(@, Cell(s), g)] ELSE s

\* [seeded fault] the last row does not scroll.
Moved_off_screen(s, g) ==
    CASE g \in {"nl", "esc"} -> IF s.y >= NUM_ROWS THEN Scrolled(s)
                                ELSE [s EXCEPT !.y = @ + 1, !.x = 0]
      [] g = "char" -> [s EXCEPT !.x = (@ + 1) % NUM_COLS, !.y = @ % NUM_ROWS]
      [] OTHER -> s

\* Where it goes after the store.  The row is only reduced modulo NUM_ROWS.
Moved(s, g) ==
    CASE g = "nl" -> IF s.y >= NUM_ROWS - 1 THEN Scrolled(s)
                     ELSE [s EXCEPT !.y = @ + 1, !.x = 0]
      [] g = "esc" -> IF s.y >= NUM_ROWS - 1 THEN [Scrolled(s) EXCEPT !.runon = 0]
                      ELSE [s EXCEPT !.y = @ + 1, !.x = 0, !.runon = 0]
      [] g = "char" -> [s EXCEPT !.x = (@ + 1) % NUM_COLS,
                                 !.y = IF @ < 0 THEN @ ELSE @ % NUM_ROWS]
      [] OTHER -> s

\* Vertical scrolling at the end of the last row.
ScrolledDown(s) == IF s.x >= NUM_COLS - 1 /\ s.y >= NUM_ROWS - 1 THEN Scrolled(s) ELSE s

\* The run-on line: the text goes on in the next row.
RunOn(s) == [s EXCEPT !.runon = 1, !.y = @ + 1, !.x = 0]

\* What follows the store.  putc asks for x >= NUM_COLS - 1, echo for equality.
AfterStore(s, g) ==
    LET v == ScrolledDown(Moved(s, g)) IN IF v.x >= NUM_COLS - 1 THEN RunOn(v) ELSE v
AfterEcho(s, g) ==
    LET v == ScrolledDown(Moved(s, g)) IN IF v.x = NUM_COLS - 1 THEN RunOn(v) ELSE v

Put(s, g)  == AfterStore(Stored(Aimed(s, g), g), g)
Echo(s, g) == AfterEcho(Stored(Aimed(s, g), g), g)
=============================================================================
