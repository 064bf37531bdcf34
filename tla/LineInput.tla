----------------------------- MODULE LineInput -----------------------------
(***************************************************************************)
(* From a key to a line in a program:                                      *)
(*   student-distrib/keyboard.c  keyboard_handler                          *)
(*   student-distrib/terminal.c  term_read                                 *)
(*                                                                         *)
(* The handler runs behind an interrupt gate and is one step.  It writes   *)
(* to terminals[curr_term].  term_read runs with interrupts enabled in the *)
(* program that reads, one program per terminal; the handler, and the      *)
(* programs of other terminals, may run between any two of its labels.     *)
(*                                                                         *)
(* One letter key (L, for Ctrl-L too) stands for all that print; case is   *)
(* kept, which letter is not.  caps_lock_count only serves its parity,     *)
(* which is caps_lock; e_zero qualifies only scancodes that are accepted   *)
(* without it; capital is set and reset within one interrupt.              *)
(***************************************************************************)
EXTENDS Integers, Sequences

CONSTANTS
    MAX_TERM, KEYBUFSIZE,
    Keys,        \* the keys the user has: a subset of AllKeys
    Sizes,       \* the nbytes of reads
    Discipline   \* what a run assumes of the user and the compiler

FlagKeys == {"LShift", "RShift", "Ctrl", "Alt", "Caps"}
AllKeys  == FlagKeys \cup {"L", "Enter", "Back", "F"}  \* F: F1, F2, F3

Rules == { "pause",      \* no key while a read of the displayed terminal copies
           "fits",       \* nothing is typed into a full buffer
           "no_unenter", \* Enter is not erased again
           "slot" }      \* the stack slot of outchar holds 0

ASSUME LineInputAssumption ==
    /\ MAX_TERM \in Nat \ {0} /\ KEYBUFSIZE \in Nat \ {0}
    /\ Keys \subseteq AllKeys /\ Sizes \subseteq Nat \ {0}
    /\ Discipline \subseteq Rules

Terms == 0 .. (MAX_TERM - 1)
NUL   == "nul"                                   \* a zeroed byte
Chars == {"l", "L", "nl", "esc", "other"}        \* other: left in an uninitialized char
Labels == {"user", "wait", "measure", "shorten", "copy", "answer", "wipe", "empty"}

VARIABLES
    curr_term, held,                         \* displayed terminal; keys held down
    keybuf, buflen, enter_pressed,           \* per terminal: termdata_t
    shift, caps_lock, ctrl, alt,
    pc, nbytes, to_copy, ubuf                \* term_read of each terminal's program

flags  == <<shift, caps_lock, ctrl, alt>>
buffer == <<keybuf, buflen, enter_pressed>>
reader == <<pc, nbytes, to_copy, ubuf>>
vars   == <<curr_term, held, flags, buffer, reader>>

Short == UNION {[1 .. n -> Chars \cup {NUL}] : n \in 0 .. KEYBUFSIZE}

TypeOK ==
    /\ curr_term \in Terms /\ held \subseteq FlagKeys
    /\ keybuf \in [Terms -> [0 .. (KEYBUFSIZE - 1) -> Chars \cup {NUL}]]
    /\ buflen \in [Terms -> 0 .. KEYBUFSIZE]
    /\ enter_pressed \in [Terms -> {0, 1}]     \* 0: it was pressed
    /\ {shift, caps_lock, ctrl, alt} \subseteq [Terms -> BOOLEAN]
    /\ pc \in [Terms -> Labels] /\ nbytes \in [Terms -> Sizes \cup {0}]
    /\ to_copy \in [Terms -> 0 .. KEYBUFSIZE]
    /\ ubuf \in [Terms -> Short]

Init ==
    /\ curr_term = 0 /\ held = {}
    /\ keybuf = [t \in Terms |-> [i \in 0 .. (KEYBUFSIZE - 1) |-> NUL]]
    /\ buflen = [t \in Terms |-> 0]
    /\ enter_pressed = [t \in Terms |-> 1]
    /\ shift = [t \in Terms |-> FALSE] /\ caps_lock = [t \in Terms |-> FALSE]
    /\ ctrl = [t \in Terms |-> FALSE] /\ alt = [t \in Terms |-> FALSE]
    /\ pc = [t \in Terms |-> "user"]
    /\ nbytes = [t \in Terms |-> 0] /\ to_copy = [t \in Terms |-> 0]
    /\ ubuf = [t \in Terms |-> <<>>]

-----------------------------------------------------------------------------
(* keyboard_handler *)

Rule(r) == r \in Discipline
Reading(t) == pc[t] \notin {"user", "wait"}

Key(k) == k \in Keys /\ (Rule("pause") => ~Reading(curr_term))

\* [seeded fault] one more character than keybuf holds.
Stored_one_more(t, c) ==
    /\ buflen[t] <= KEYBUFSIZE
    /\ keybuf' = [keybuf EXCEPT ![t][buflen[t]] = c]
    /\ buflen' = [buflen EXCEPT ![t] = @ + 1]

\* A character goes to the buffer; a full one gets '\e' for its last instead.
Stored(t, c) ==
    IF buflen[t] < KEYBUFSIZE
    THEN /\ keybuf' = [keybuf EXCEPT ![t][buflen[t]] = c]
         /\ buflen' = [buflen EXCEPT ![t] = @ + 1]
    ELSE /\ ~Rule("fits")
         /\ keybuf' = [keybuf EXCEPT ![t][KEYBUFSIZE - 1] = "esc"]
         /\ UNCHANGED buflen

\* The branches that never assign outchar go on with whatever it holds.
Unassigned(t) ==
    \/ UNCHANGED <<keybuf, buflen>>
    \/ ~Rule("slot") /\ Stored(t, "other")

\* The flags a key sets when it goes down and clears when it goes up; caps_lock
\* toggles when its key goes down.
Hold(k, down) ==
    /\ shift' = IF k \in {"LShift", "RShift"} THEN [shift EXCEPT ![curr_term] = down]
                ELSE shift
    /\ ctrl' = IF k = "Ctrl" THEN [ctrl EXCEPT ![curr_term] = down] ELSE ctrl
    /\ alt' = IF k = "Alt" THEN [alt EXCEPT ![curr_term] = down] ELSE alt
    /\ caps_lock' = IF k = "Caps" /\ down THEN [caps_lock EXCEPT ![curr_term] = ~@]
                    ELSE caps_lock

PressFlag(k) ==
    /\ Key(k) /\ k \in FlagKeys \ held
    /\ held' = held \cup {k}
    /\ Hold(k, TRUE)
    /\ UNCHANGED <<curr_term, buffer, reader>>

ReleaseFlag(k) ==
    /\ Key(k) /\ k \in held
    /\ held' = held \ {k}
    /\ Hold(k, FALSE)
    /\ UNCHANGED <<curr_term, buffer, reader>>

Letter(t) == IF shift[t] # caps_lock[t] THEN "L" ELSE "l"

\* Ctrl-L clears the screen, which is no part of this module.
PressLetter ==
    /\ Key("L")
    /\ IF ctrl[curr_term] THEN Unassigned(curr_term)
       ELSE Stored(curr_term, Letter(curr_term))
    /\ UNCHANGED <<curr_term, held, flags, enter_pressed, reader>>

\* [seeded fault] Fn switches without Alt.
PressSwitch_bare(t) ==
    /\ Key("F")
    /\ curr_term' = t
    /\ Unassigned(curr_term)
    /\ UNCHANGED <<held, flags, enter_pressed, reader>>

\* Alt-Fn.  The handler keeps working on the terminal that was displayed.
PressSwitch(t) ==
    /\ Key("F") /\ alt[curr_term]
    /\ curr_term' = t
    /\ Unassigned(curr_term)
    /\ UNCHANGED <<held, flags, enter_pressed, reader>>

\* [seeded fault] Enter reaches the buffer only.
PressEnter_unsignalled ==
    /\ Key("Enter")
    /\ Stored(curr_term, "nl")
    /\ UNCHANGED <<curr_term, held, flags, enter_pressed, reader>>

PressEnter ==
    /\ Key("Enter")
    /\ enter_pressed' = [enter_pressed EXCEPT ![curr_term] = 0]
    /\ Stored(curr_term, "nl")
    /\ UNCHANGED <<curr_term, held, flags, reader>>

PressBack ==
    /\ Key("Back")
    /\ IF buflen[curr_term] >= 1
       THEN /\ Rule("no_unenter") => keybuf[curr_term][buflen[curr_term] - 1] # "nl"
            /\ buflen' = [buflen EXCEPT ![curr_term] = @ - 1]
            /\ UNCHANGED keybuf
       ELSE Unassigned(curr_term)
    /\ UNCHANGED <<curr_term, held, flags, enter_pressed, reader>>

-----------------------------------------------------------------------------
(* term_read *)

Goto(t, from, to) == pc[t] = from /\ pc' = [pc EXCEPT ![t] = to]
Least(m, n) == IF m < n THEN m ELSE n

ReadCall(t) ==
    /\ Goto(t, "user", "wait")
    /\ \E n \in Sizes : nbytes' = [nbytes EXCEPT ![t] = n]
    /\ ubuf' = [ubuf EXCEPT ![t] = <<>>]
    /\ UNCHANGED <<curr_term, held, flags, buffer, to_copy>>

\* while (enter_pressed);
ReadWait(t) ==
    /\ enter_pressed[t] = 0
    /\ Goto(t, "wait", "measure")
    /\ UNCHANGED <<curr_term, held, flags, buffer, nbytes, to_copy, ubuf>>

\* to_copy is at most nbytes; buflen is compared here and read again below.
ReadMeasure(t) ==
    /\ Goto(t, "measure", IF buflen[t] < Least(nbytes[t], KEYBUFSIZE)
                          THEN "shorten" ELSE "copy")
    /\ to_copy' = [to_copy EXCEPT ![t] = Least(nbytes[t], KEYBUFSIZE)]
    /\ UNCHANGED <<curr_term, held, flags, buffer, nbytes, ubuf>>

ReadShorten(t) ==
    /\ Goto(t, "shorten", "copy")
    /\ to_copy' = [to_copy EXCEPT ![t] = buflen[t]]
    /\ UNCHANGED <<curr_term, held, flags, buffer, nbytes, ubuf>>

ReadCopy(t) ==
    /\ IF Len(ubuf[t]) < to_copy[t]
       THEN /\ Goto(t, "copy", "copy")
            /\ ubuf' = [ubuf EXCEPT ![t] = Append(@, keybuf[t][Len(@)])]
       ELSE /\ Goto(t, "copy", "answer")
            /\ UNCHANGED ubuf
    /\ UNCHANGED <<curr_term, held, flags, buffer, nbytes, to_copy>>

ReadAnswer(t) ==
    /\ Goto(t, "answer", "wipe")
    /\ enter_pressed' = [enter_pressed EXCEPT ![t] = 1]
    /\ UNCHANGED <<curr_term, held, flags, keybuf, buflen, nbytes, to_copy, ubuf>>

ReadWipe(t) ==
    /\ Goto(t, "wipe", "empty")
    /\ keybuf' = [keybuf EXCEPT ![t] = [i \in 0 .. (KEYBUFSIZE - 1) |-> NUL]]
    /\ UNCHANGED <<curr_term, held, flags, buflen, enter_pressed, nbytes, to_copy,
                   ubuf>>

\* The locals are gone when term_read returns.
Done(t) ==
    /\ nbytes' = [nbytes EXCEPT ![t] = 0]
    /\ to_copy' = [to_copy EXCEPT ![t] = 0]

\* [seeded fault] only the bytes that were copied are taken out of the count.
ReadEmpty_rest(t) ==
    /\ Goto(t, "empty", "user")
    /\ buflen' = [buflen EXCEPT ![t] = @ - to_copy[t]]
    /\ Done(t)
    /\ UNCHANGED <<curr_term, held, flags, keybuf, enter_pressed, ubuf>>

ReadEmpty(t) ==
    /\ Goto(t, "empty", "user")
    /\ buflen' = [buflen EXCEPT ![t] = 0]
    /\ Done(t)
    /\ UNCHANGED <<curr_term, held, flags, keybuf, enter_pressed, ubuf>>

-----------------------------------------------------------------------------

ReadStep(t) == \/ ReadWait(t) \/ ReadMeasure(t) \/ ReadShorten(t) \/ ReadCopy(t)
               \/ ReadAnswer(t) \/ ReadWipe(t) \/ ReadEmpty(t)

Next == \/ \E k \in FlagKeys : PressFlag(k) \/ ReleaseFlag(k)
        \/ PressLetter \/ PressEnter \/ PressBack
        \/ \E t \in Terms : PressSwitch(t) \/ ReadCall(t) \/ ReadStep(t)

Spec == Init /\ [][Next]_vars

\* Every terminal's program gets its slices (RoundRobin of Kernel).
FairSpec == Spec /\ \A t \in Terms : WF_vars(ReadStep(t))

-----------------------------------------------------------------------------
(* What must hold *)

\* The programs of each terminal read the lines typed on it: nothing lost,
\* doubled, reordered, made up, left over from an earlier line or another terminal.
Typed == INSTANCE Lines WITH
    Chars <- {"l", "L", "nl"}, Enter <- "nl", Capacity <- KEYBUFSIZE,
    typed <- [t \in Terms |-> IF pc[t] = "empty" THEN <<>>
                              ELSE [i \in 1 .. buflen[t] |-> keybuf[t][i - 1]]],
    entered <- {t \in Terms : enter_pressed[t] = 0 \/ pc[t] = "wipe"},
    asked <- [t \in Terms |-> IF pc[t] = "empty" THEN 0 ELSE nbytes[t]],
    got <- [t \in Terms |-> IF pc[t] \in {"empty", "user"} THEN ubuf[t] ELSE <<>>]
ImplementsLines == Typed!Spec

\* A program that waits for a line gets one once Enter is in the buffer.
Entered(t) == \E i \in 0 .. (buflen[t] - 1) : keybuf[t][i] = "nl"
EnterAnswered == \A t \in Terms : (pc[t] = "wait" /\ Entered(t)) ~> pc[t] = "user"

\* The displayed terminal never takes Alt for held when it is not, although
\* each terminal has its own flag and the release goes to the displayed one:
\* the flag left set by Alt-Fn is only met again with Alt held.
AltIsHeld == alt[curr_term] => "Alt" \in held
=============================================================================
