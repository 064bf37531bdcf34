------------------------------- MODULE Frames -------------------------------
(***************************************************************************)
(* fish/fish.c, add_frames: two text files, the picture with the           *)
(* characters lit and the picture with them dark, are read side by side,   *)
(* a character of each at a time, and a blinker is added wherever either   *)
(* has something.  A line that ends before the other's is blank from there *)
(* on, a file that ends before the other too.  ece391_read of one          *)
(* character gives the file's next one, and 0 at its end.                  *)
(***************************************************************************)
EXTENDS Integers, Sequences

CONSTANTS
    Ink, SPACE, NL,      \* what the pictures are drawn with
    WIDTH, OFFSET,       \* of the screen, and the column the picture starts at
    MAX_FILE             \* bound: characters of a file

Zero == 48         \* '0', which c0 and c1 hold before a line is read
Both == {0, 1}

\* Where the character after the first i of a file stands: row and column, from 0.
Places(t) ==
    LET after[i \in 0 .. Len(t)] ==
            IF i = 0 THEN [row |-> 0, col |-> 0]
            ELSE IF t[i] = NL THEN [row |-> after[i - 1].row + 1, col |-> 0]
            ELSE [row |-> after[i - 1].row, col |-> after[i - 1].col + 1]
    IN  after

Fits(t) == \A i \in 1 .. Len(t) : t[i] # NL => Places(t)[i - 1].col < WIDTH - OFFSET
Pictures == {t \in UNION {[1 .. n -> Ink \cup {SPACE, NL}] : n \in 0 .. MAX_FILE} : Fits(t)}

VARIABLES
    file, fpos,       \* the two files, and how far each was read
    c, eof, closed,   \* c0 and c1, eof0 and eof1; files that were closed
    row, col,
    added,            \* the blinkers, in the order of the calls
    at

vars == <<file, fpos, c, eof, closed, row, col, added, at>>

TypeOK ==
    /\ \A f \in Both : fpos[f] \in 0 .. Len(file[f])
    /\ c \in [Both -> Ink \cup {SPACE, NL, Zero}]
    /\ eof \in [Both -> BOOLEAN] /\ closed \in [Both -> BOOLEAN]
    /\ row \in 0 .. (MAX_FILE + 1) /\ col \in 0 .. WIDTH - OFFSET
    /\ at \in {"row", "read0", "read1", "add", "done"}

Init ==
    /\ file \in [Both -> Pictures] /\ fpos = [f \in Both |-> 0]
    /\ c = [f \in Both |-> Zero]
    /\ eof = [f \in Both |-> FALSE] /\ closed = [f \in Both |-> FALSE]
    /\ row = 0 /\ col = 0 /\ added = <<>> /\ at = "row"
-----------------------------------------------------------------------------

\* while (eof0 == 0 || eof1 == 0)
StartRow ==
    /\ at = "row"
    /\ at' = IF eof[0] /\ eof[1] THEN "done" ELSE "read0"
    /\ col' = 0
    /\ UNCHANGED <<file, fpos, c, eof, closed, row, added>>

\* A file that is at the end of its line waits for the other.
Read(f, from, to) ==
    /\ at = from /\ at' = to
    /\ IF c[f] = NL THEN UNCHANGED <<fpos, c, eof>>
       ELSE IF fpos[f] = Len(file[f])
       THEN /\ c' = [c EXCEPT ![f] = NL]
            /\ eof' = [eof EXCEPT ![f] = TRUE]
            /\ UNCHANGED fpos
       ELSE /\ c' = [c EXCEPT ![f] = file[f][fpos[f] + 1]]
            /\ fpos' = [fpos EXCEPT ![f] = @ + 1]
            /\ UNCHANGED eof
    /\ UNCHANGED <<file, closed, row, col, added>>
Read0 == Read(0, "read0", "read1")
Read1 == Read(1, "read1", "add")

Blank(f) == c[f] \in {SPACE, NL}
Char(f) == IF c[f] = NL THEN SPACE ELSE c[f]

Add ==
    /\ at = "add" /\ ~(c[0] = NL /\ c[1] = NL)
    /\ added' = IF Blank(0) /\ Blank(1) THEN added
                ELSE Append(added, [location |-> row * WIDTH + col + OFFSET,
                                    on_char |-> Char(0), off_char |-> Char(1)])
    /\ col' = col + 1
    /\ at' = "read0"
    /\ UNCHANGED <<file, fpos, c, eof, closed, row>>

\* [seeded fault] both files are read on, the one that has ended too.
EndRow_reset ==
    /\ at = "add" /\ c[0] = NL /\ c[1] = NL
    /\ closed' = [f \in Both |-> closed[f] \/ eof[f]]
    /\ c' = [f \in Both |-> Zero]
    /\ row' = row + 1
    /\ at' = "row"
    /\ UNCHANGED <<file, fpos, eof, col, added>>

\* A file that has ended is closed, again after each further row, and stays at
\* its newline.
EndRow ==
    /\ at = "add" /\ c[0] = NL /\ c[1] = NL
    /\ closed' = [f \in Both |-> closed[f] \/ eof[f]]
    /\ c' = [f \in Both |-> IF eof[f] THEN NL ELSE Zero]
    /\ row' = row + 1
    /\ at' = "row"
    /\ UNCHANGED <<file, fpos, eof, col, added>>

Next == StartRow \/ Read0 \/ Read1 \/ Add \/ EndRow
Spec == Init /\ [][Next]_vars
-----------------------------------------------------------------------------
(* What must hold *)

\* What a picture has at a row and column.
At(t, r, k) ==
    LET there == {i \in 1 .. Len(t) : t[i] # NL /\ Places(t)[i - 1] = [row |-> r, col |-> k]}
    IN  IF there = {} THEN SPACE ELSE t[CHOOSE i \in there : TRUE]

Place(r, k) == [location |-> r * WIDTH + k + OFFSET,
                on_char |-> At(file[0], r, k), off_char |-> At(file[1], r, k)]
Inked(r, k) == At(file[0], r, k) # SPACE \/ At(file[1], r, k) # SPACE
Expected == {Place(p[1], p[2]) : p \in {q \in (0 .. MAX_FILE) \X (0 .. (WIDTH - OFFSET) - 1) :
                                           Inked(q[1], q[2])}}

\* Each place that has ink in either picture has one blinker, at that place, with
\* the characters of the two pictures, however their lines and their numbers of
\* lines differ and with or without a newline at their ends; the blinkers are added
\* row by row, from left to right.
BothPictures == at = "done" =>
    /\ {added[i] : i \in DOMAIN added} = Expected
    /\ \A i, j \in DOMAIN added : i < j => added[i].location < added[j].location

\* A file is not read any more once it was closed.
ReadsOpen == \A f \in Both : closed[f] => fpos'[f] = fpos[f] /\ c'[f] = NL

\* Both files were read to the end.
Finished == at = "done" /\ \A f \in Both : fpos[f] = Len(file[f])
=============================================================================
