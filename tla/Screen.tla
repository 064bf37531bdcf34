------------------------------- MODULE Screen -------------------------------
(***************************************************************************)
(* The screens in memory:                                                  *)
(*   student-distrib/lib.c       putc, echo, clear, scroll, update_cursor  *)
(*   student-distrib/terminal.c  term_switch, term_write                   *)
(*                                                                         *)
(* There is one page of video memory and one backing page per terminal;    *)
(* term_switch copies pages.  Keys are echoed, screens cleared and         *)
(* terminals switched in interrupt handlers, each one step.  putc runs in  *)
(* the program that prints, with interrupts enabled: it computes an        *)
(* address from video_mem, stores there, and moves the cursor, and an      *)
(* interrupt may come in between.                                          *)
(* The buffer behind Backspace is part of LineInput; here it may be        *)
(* pressed at any time.                                                    *)
(***************************************************************************)
EXTENDS Drawing

CONSTANTS
    MAX_TERM,
    Prints, Types,  \* the characters programs print and users type
    Discipline      \* what a run assumes

Rules == { "quiet",    \* no key is echoed to, and no Ctrl-L clears, a terminal
                       \* whose program is in putc
           "aimed",    \* no switch while a program is between address and store
           "no_tab",   \* Tab is not typed
           "not_top" } \* no '\b' in the corner of a screen that has wrapped

ASSUME ScreenAssumption ==
    /\ MAX_TERM \in Nat \ {0}
    /\ Prints \subseteq Glyphs /\ Types \subseteq Glyphs
    /\ Discipline \subseteq Rules

Terms == 0 .. (MAX_TERM - 1)
VIDEO == 0                 \* the displayed page; t+1 is the backing page of t
Pages == 0 .. MAX_TERM
NoAddress == [page |-> VIDEO, cell |-> 0]

VARIABLES
    curr_term, video_mem,
    x, y, runon,          \* termdata_t
    page,                 \* what each page of memory shows
    cursor,               \* the VGA cursor position
    pc, glyph, address    \* putc of each terminal's program

dots == <<x, y, runon>>
putc == <<pc, glyph, address>>
vars == <<curr_term, video_mem, dots, page, cursor, putc>>

TypeOK ==
    /\ curr_term \in Terms
    /\ video_mem \in [Terms -> Pages]
    /\ \A t \in Terms : x[t] \in Int /\ y[t] \in Int /\ runon[t] \in {0, 1}
    \* Nothing is stored outside of a page, 2048 cells: a row below the screen fits.
    /\ \A p \in Pages : page[p] \subseteq 0 .. (Size + NUM_COLS - 1)
    /\ cursor \in Int
    /\ pc \in [Terms -> {"idle", "store", "move"}]
    /\ glyph \in [Terms -> Glyphs]
    /\ \A t \in Terms : address[t].page \in Pages /\ address[t].cell \in Int

Init ==
    /\ curr_term = 0
    /\ video_mem = [t \in Terms |-> IF t = 0 THEN VIDEO ELSE t + 1]
    /\ x = [t \in Terms |-> 0] /\ y = [t \in Terms |-> 0]
    /\ runon = [t \in Terms |-> 0]
    /\ page = [p \in Pages |-> {}]
    /\ cursor = 0
    /\ pc = [t \in Terms |-> "idle"]
    /\ glyph = [t \in Terms |-> "nl"]
    /\ address = [t \in Terms |-> NoAddress]

-----------------------------------------------------------------------------

Rule(r) == r \in Discipline
Quiet(t) == Rule("quiet") => pc[t] = "idle"
NotTop(t, g) == Rule("not_top") => ~(g = "bs" /\ x[t] = 0 /\ y[t] = 0 /\ runon[t] = 1)

\* A terminal's screen, as its program and its user know it.
ScreenOf(t) == [x |-> x[t], y |-> y[t], runon |-> runon[t], ink |-> page[video_mem[t]]]

\* Terminal t's cursor and page become those of s.
Show(t, s) ==
    /\ x' = [x EXCEPT ![t] = s.x]
    /\ y' = [y EXCEPT ![t] = s.y]
    /\ runon' = [runon EXCEPT ![t] = s.runon]
    /\ page' = [page EXCEPT ![video_mem[t]] = s.ink]

\* The cursor shows the position of the displayed terminal t, whoever prints.
update_cursor(t) == cursor' = NUM_COLS * y'[t] + x'[t]

PutAim(t, g) ==
    /\ pc[t] = "idle" /\ NotTop(t, g)
    /\ LET s == Aimed(ScreenOf(t), g)
       IN  /\ Show(t, s)
           /\ address' = [address EXCEPT ![t] = IF Stores(g)
                            THEN [page |-> video_mem[t], cell |-> Cell(s)] ELSE NoAddress]
    /\ glyph' = [glyph EXCEPT ![t] = g]
    /\ pc' = [pc EXCEPT ![t] = IF Stores(g) THEN "store" ELSE "move"]
    /\ UNCHANGED <<curr_term, video_mem, cursor>>

\* [seeded fault] the store goes to the displayed page.
PutStore_displayed(t) ==
    /\ pc[t] = "store"
    /\ page' = [page EXCEPT ![VIDEO] = Inked(@, address[t].cell, glyph[t])]
    /\ pc' = [pc EXCEPT ![t] = "move"]
    /\ UNCHANGED <<curr_term, video_mem, dots, cursor, glyph, address>>

PutStore(t) ==
    /\ pc[t] = "store"
    /\ page' = [page EXCEPT ![address[t].page] = Inked(@, address[t].cell, glyph[t])]
    /\ pc' = [pc EXCEPT ![t] = "move"]
    /\ UNCHANGED <<curr_term, video_mem, dots, cursor, glyph, address>>

\* [seeded fault] the line wraps one column late.
PutMove_late(t) ==
    /\ pc[t] = "move"
    /\ LET v == ScrolledDown(Moved(ScreenOf(t), glyph[t]))
       IN  Show(t, IF v.x > NUM_COLS - 1 THEN RunOn(v) ELSE v)
    /\ update_cursor(curr_term)
    /\ pc' = [pc EXCEPT ![t] = "idle"]
    /\ glyph' = [glyph EXCEPT ![t] = "nl"]
    /\ address' = [address EXCEPT ![t] = NoAddress]
    /\ UNCHANGED <<curr_term, video_mem>>

PutMove(t) ==
    /\ pc[t] = "move"
    /\ Show(t, AfterStore(ScreenOf(t), glyph[t]))
    /\ update_cursor(curr_term)
    /\ pc' = [pc EXCEPT ![t] = "idle"]
    /\ glyph' = [glyph EXCEPT ![t] = "nl"]            \* dead until the next PutAim
    /\ address' = [address EXCEPT ![t] = NoAddress]
    /\ UNCHANGED <<curr_term, video_mem>>

\* A key that echoes, on the displayed terminal.
KeyEcho(g) ==
    /\ Quiet(curr_term) /\ NotTop(curr_term, g) /\ (Rule("no_tab") => g # "tab")
    /\ Show(curr_term, Echo(ScreenOf(curr_term), g))
    /\ update_cursor(curr_term)
    /\ UNCHANGED <<curr_term, video_mem, putc>>

\* Ctrl-L clears the terminal of the running program, t, displayed or not.
KeyClear(t) ==
    /\ Quiet(t)
    /\ Show(t, Cleared(ScreenOf(t)))
    /\ update_cursor(curr_term)
    /\ UNCHANGED <<curr_term, video_mem, putc>>

\* [seeded fault] the cursor is updated before curr_term.
term_switch_early(t) ==
    /\ t # curr_term
    /\ Rule("aimed") => \A u \in {t, curr_term} : pc[u] # "store"
    /\ page' = [page EXCEPT ![curr_term + 1] = page[VIDEO], ![VIDEO] = page[t + 1]]
    /\ video_mem' = [video_mem EXCEPT ![curr_term] = curr_term + 1, ![t] = VIDEO]
    /\ curr_term' = t
    /\ UNCHANGED <<dots, putc>>
    /\ update_cursor(curr_term)

term_switch(t) ==
    /\ t # curr_term
    /\ Rule("aimed") => \A u \in {t, curr_term} : pc[u] # "store"
    /\ page' = [page EXCEPT ![curr_term + 1] = page[VIDEO], ![VIDEO] = page[t + 1]]
    /\ video_mem' = [video_mem EXCEPT ![curr_term] = curr_term + 1, ![t] = VIDEO]
    /\ curr_term' = t
    /\ UNCHANGED <<dots, putc>>
    /\ update_cursor(t)

Next == \/ \E t \in Terms : \/ \E g \in Prints : PutAim(t, g)
                            \/ PutStore(t) \/ PutMove(t)
                            \/ KeyClear(t) \/ term_switch(t)
        \/ \E g \in Types : KeyEcho(g)

Spec == Init /\ [][Next]_vars

-----------------------------------------------------------------------------
(* What must hold *)

\* The cursor stays on the screen: no text is lost off its edges or stored
\* outside of it.
CursorInside == \A t \in Terms : pc[t] = "idle" =>
    x[t] \in 0 .. (NUM_COLS - 1) /\ y[t] \in 0 .. (NUM_ROWS - 1)

\* There is nothing on the screen at or after the cursor, so that output and
\* echo never run into text that is already there.
NothingAhead == \A t \in Terms : pc[t] = "idle" =>
    \A c \in page[video_mem[t]] : c < Cell(ScreenOf(t))

\* The VGA cursor stands where the next key of the displayed terminal shows.
CursorShown == pc[curr_term] = "idle" => cursor = Cell(ScreenOf(curr_term))

\* Each terminal's screen is its own: its program's output and its keys appear
\* on it as if it were always displayed, and nothing else changes it.
Own == INSTANCE Screens WITH screens <-
    [t \in Terms |->
        LET s == ScreenOf(t) IN
        CASE pc[t] = "idle"  -> s
          [] pc[t] = "store" -> AfterStore([s EXCEPT !.ink = Inked(@, Cell(s), glyph[t])],
                                           glyph[t])
          [] pc[t] = "move"  -> AfterStore(s, glyph[t])]
ImplementsScreens == Own!Spec
=============================================================================
