------------------------------ MODULE Programs ------------------------------
(***************************************************************************)
(* The programs of syscalls/ and fish/.  They share no memory, and what    *)
(* they do to each other goes through the kernel, which other modules      *)
(* have: a behaviour of this one is a behaviour of one of them.            *)
(*   "shell"     the shell and what it starts: module Commands             *)
(*   "grep"      Grep                                                      *)
(*   "pictures"  what fish does before it waits for the RTC: Frames        *)
(*   "blinkers"  and from then on: Blink                                   *)
(***************************************************************************)
EXTENDS Commands

CONSTANTS
    BUFSIZE, MAX_TEXT, Patterns, Stale,       \* of Grep
    Ink, WIDTH, OFFSET, MAX_PICTURE,          \* of Frames
    POOL, Locations, SCREEN, Phases, Rules    \* of Blink

ASSUME ProgramsAssumption ==
    /\ BUFSIZE \in Nat /\ BUFSIZE > 1 /\ MAX_TEXT \in Nat
    /\ \A t \in Patterns : t \in Seq(Letters) /\ t # <<>>
    /\ Stale \subseteq Letters \cup {NL, NUL}
    /\ WIDTH \in Nat /\ OFFSET \in Nat /\ OFFSET < WIDTH /\ MAX_PICTURE \in Nat
    /\ Ink \subseteq Nat \ {SPACE, NL} /\ NL # 48
    /\ POOL \in Nat \ {0} /\ SCREEN \in Nat /\ Locations \subseteq Nat
    /\ Phases \subseteq (Nat \ {0}) \X (Nat \ {0})
    /\ Rules \subseteq {"distinct"}

VARIABLES
    program,
    file, s, fpos, data, last, cnt, line_start, line_end, printed, point,
    frame, frame_fpos, c, eof, closed, row, col, added, frame_point,
    blink_array, mp1_list_head, screen, synced, unlit

grepVars == <<file, s, fpos, data, last, cnt, line_start, line_end, printed, point>>
frameVars == <<frame, frame_fpos, c, eof, closed, row, col, added, frame_point>>
blinkVars == <<blink_array, mp1_list_head, screen, synced, unlit>>
allVars == <<program, vars, grepVars, frameVars, blinkVars>>

G == INSTANCE Grep WITH at <- point, MAX_FILE <- MAX_TEXT
F == INSTANCE Frames WITH at <- frame_point, file <- frame, fpos <- frame_fpos,
                          MAX_FILE <- MAX_PICTURE
B == INSTANCE Blink

\* The variables of a program that does not run have one value, whatever it is.
ProgramsInit ==
    /\ program \in {"shell", "grep", "pictures", "blinkers"}
    /\ Init
    /\ IF program = "grep" THEN G!Init
       ELSE /\ file = <<>> /\ s = <<>> /\ fpos = 0 /\ data = <<>> /\ last = 0 /\ cnt = 0
            /\ line_start = 0 /\ line_end = 0 /\ printed = <<>> /\ point = "read"
    /\ IF program = "pictures" THEN F!Init
       ELSE /\ frame = <<>> /\ frame_fpos = <<>> /\ c = <<>> /\ eof = <<>> /\ closed = <<>>
            /\ row = 0 /\ col = 0 /\ added = <<>> /\ frame_point = "row"
    /\ B!Init

Shell    == program = "shell" /\ Next /\ UNCHANGED <<grepVars, frameVars, blinkVars>>
GrepRuns == program = "grep" /\ G!Next /\ UNCHANGED <<vars, frameVars, blinkVars>>
Pictures == program = "pictures" /\ F!Next /\ UNCHANGED <<vars, grepVars, blinkVars>>
Blinkers == program = "blinkers" /\ B!Next /\ UNCHANGED <<vars, grepVars, frameVars>>

ProgramsNext == UNCHANGED program /\ (Shell \/ GrepRuns \/ Pictures \/ Blinkers)

\* A program that waits for nobody goes on: its slices come round (RoundRobin of
\* module Kernel).
ProgramsSpec == /\ ProgramsInit /\ [][ProgramsNext]_allVars
                /\ WF_allVars(UNCHANGED program /\ GrepRuns)
                /\ WF_allVars(UNCHANGED program /\ Pictures)

-----------------------------------------------------------------------------
(* What must hold *)

\* The program that runs is the file the first word of the line names, however
\* many spaces stand before and behind it, and cat is given the one word behind
\* it, with nothing left of a program that had the same PCB before.
ShellRight == program = "shell" => TypeOK /\ RunsNamed /\ OneWordArrives

\* Two programs that read text a piece at a time.  grep prints the lines of the file
\* that contain the string, whole, in order and each once, wherever the ends of the
\* buffer fall: the bytes that wait in the buffer are the ones of the file before
\* fpos, none lost or read twice when a cut line is moved.  fish adds one blinker for
\* each place that has ink in either picture, with the characters of the two,
\* however their lines and their numbers of lines differ.
TextsRight ==
    /\ program = "grep" => G!TypeOK /\ G!LinesFound /\ G!BufferIsFile
    /\ program = "pictures" => F!TypeOK /\ F!BothPictures

\* And both come to an end: grep, since at each turn a line is used up or the file
\* read on; fish has then read both pictures to the end, and has read neither any
\* more once it was closed.
TextsEnd ==
    /\ program = "grep" => <>(point = "done")
    /\ program = "pictures" => <>F!Finished
    /\ [][program = "pictures" => F!ReadsOpen]_allVars

\* The list of blinkers ends and is made of the structures that are taken, each
\* once: none is given to two blinkers and none is lost.  Synced blinkers blink in
\* step for as long as both are there, and the screen shows what the blinkers are,
\* from the first change on after a sync.
BlinkersRight ==
    program = "blinkers" => /\ B!TypeOK /\ B!ListSound
                            /\ B!StayInStep /\ B!ShownUnlessSynced
=============================================================================
