-------------------------------- MODULE Grep --------------------------------
(***************************************************************************)
(* syscalls/ece391grep.c: do_one_file looks for a string in the lines of a *)
(* file that it reads through a buffer.  A line that the end of the buffer *)
(* cuts is moved to its beginning and read on.  The array is not           *)
(* initialised: it holds what the stack held, or the file searched before. *)
(* ece391_read is taken to give the file piece by piece; what the kernel's *)
(* fread gives instead is module Files' business.                          *)
(***************************************************************************)
EXTENDS Integers, Sequences

CONSTANTS
    BUFSIZE,       \* of the buffer, 1024 in the code
    Letters,       \* characters of text
    NL, NUL,       \* newline, the end of a string
    MAX_FILE,      \* bound: length of the file
    Patterns,      \* what is searched for
    Stale          \* what data[BUFSIZE] may hold before the first read

Chars == Letters \cup {NL, NUL}
Positions == 0 .. BUFSIZE

VARIABLES
    file, s,                      \* the file's text and the string
    fpos,                         \* how far it was read
    data, last, cnt,              \* the buffer, what is in it, the last read
    line_start, line_end,
    printed,                      \* the lines put on the screen
    at

vars == <<file, s, fpos, data, last, cnt, line_start, line_end, printed, at>>

\* Text files: no NUL, and no line fills the buffer.
TextFile(t) == \A i \in 1 .. (Len(t) - BUFSIZE + 1) : \E j \in i .. (i + BUFSIZE - 1) : t[j] = NL
Files == {t \in UNION {[1 .. n -> Letters \cup {NL}] : n \in 0 .. MAX_FILE} : TextFile(t)}

TypeOK ==
    /\ data \in [Positions -> Chars]
    /\ last \in Positions /\ cnt \in Positions
    /\ line_start \in 0 .. (BUFSIZE + 1) /\ line_end \in Positions
    /\ fpos \in 0 .. Len(file)
    /\ at \in {"read", "line", "done"}

Init ==
    /\ file \in Files /\ s \in Patterns
    /\ \E old \in {NL, CHOOSE c \in Letters : TRUE}, end \in Stale :
          data = [i \in Positions |-> IF i = BUFSIZE THEN end ELSE old]
    /\ fpos = 0 /\ last = 0 /\ cnt = 0 /\ line_start = 0 /\ line_end = 0
    /\ printed = <<>> /\ at = "read"

-----------------------------------------------------------------------------

Lesser(m, n) == IF m < n THEN m ELSE n

\* ece391_read(fd, data + last, BUFSIZE - last)
Read ==
    LET n == Lesser(BUFSIZE - last, Len(file) - fpos) IN
    /\ at = "read" /\ at' = "line"
    /\ cnt' = n
    /\ data' = [i \in Positions |-> IF i \in last .. (last + n - 1)
                                    THEN file[fpos + i - last + 1] ELSE data[i]]
    /\ fpos' = fpos + n
    /\ last' = last + n
    /\ line_start' = 0
    /\ UNCHANGED <<file, s, line_end, printed>>

\* while (line_end < last && '\n' != data[line_end]) line_end++
LineEnd == CHOOSE e \in line_start .. last :
              /\ e = last \/ data[e] = NL
              /\ \A i \in line_start .. (e - 1) : data[i] # NL

\* The line is cut by the end of the buffer.  With the buffer read to its end,
\* line_end is last, and data[last] is no byte that was read.
Cut == data[LineEnd] # NL /\ cnt # 0 /\ line_start # 0

\* strcpy(data, data + line_start), up to the NUL just put at line_end.
Moved(d) ==
    LET end == CHOOSE i \in line_start .. BUFSIZE :
                  d[i] = NUL /\ \A j \in line_start .. (i - 1) : d[j] # NUL
    IN  [i \in Positions |-> IF i <= end - line_start THEN d[line_start + i] ELSE d[i]]

\* [seeded fault] last is left as it was.
MoveLine_keeps_last ==
    /\ at = "line" /\ Cut /\ at' = "read"
    /\ line_end' = LineEnd
    /\ data' = Moved([data EXCEPT ![LineEnd] = NUL])
    /\ UNCHANGED <<file, s, fpos, last, cnt, line_start, printed>>

MoveLine ==
    /\ at = "line" /\ Cut /\ at' = "read"
    /\ line_end' = LineEnd
    /\ data' = Moved([data EXCEPT ![LineEnd] = NUL])
    /\ last' = last - line_start
    /\ UNCHANGED <<file, s, fpos, cnt, line_start, printed>>

Text(from, to) == [i \in 1 .. (to - from) |-> data[from + i - 1]]
\* ece391_strncmp at each character of the line, which ends in a NUL.
Matches(from, to) ==
    \E check \in from .. (to - 1) : check + Len(s) <= to /\ Text(check, check + Len(s)) = s

\* The line is searched and printed; the buffer is used up or goes on.
SearchLine ==
    /\ at = "line" /\ ~Cut
    /\ line_end' = LineEnd
    /\ data' = [data EXCEPT ![LineEnd] = NUL]
    /\ printed' = IF Matches(line_start, LineEnd)
                  THEN Append(printed, Text(line_start, LineEnd)) ELSE printed
    /\ line_start' = LineEnd + 1
    /\ IF LineEnd + 1 >= last
       THEN last' = 0 /\ at' = IF cnt = 0 THEN "done" ELSE "read"
       ELSE UNCHANGED <<last, at>>
    /\ UNCHANGED <<file, s, fpos, cnt>>

Next == Read \/ MoveLine \/ SearchLine

Spec == Init /\ [][Next]_vars

-----------------------------------------------------------------------------
(* What must hold *)

Holds(text) == \E i \in 0 .. (Len(text) - Len(s)) : SubSeq(text, i + 1, i + Len(s)) = s

\* What is found in a text that is read character by character: the lines that
\* contain the string, a line being what stands before a newline or the end.
Keep(found, text) == IF Holds(text) THEN Append(found, text) ELSE found
Found(t) ==
    LET upto[k \in 0 .. Len(t)] ==
            IF k = 0 THEN [found |-> <<>>, text |-> <<>>]
            ELSE IF t[k] = NL
                 THEN [found |-> Keep(upto[k - 1].found, upto[k - 1].text), text |-> <<>>]
                 ELSE [found |-> upto[k - 1].found, text |-> Append(upto[k - 1].text, t[k])]
    IN  Keep(upto[Len(t)].found, upto[Len(t)].text)

\* What was printed is the lines of the file that contain the string, whole, in
\* order and each once, wherever the ends of the buffer fall.
LinesFound == at = "done" => printed = Found(file)

\* The bytes that wait in the buffer are the ones of the file before fpos: no
\* line is lost or read twice when it is moved.
BufferIsFile ==
    at = "read" => last <= fpos /\ \A i \in 0 .. (last - 1) :
                       data[i] = file[fpos - last + i + 1]
=============================================================================
