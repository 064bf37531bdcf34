------------------------------- MODULE Syserr -------------------------------
(***************************************************************************)
(* The shipped conformance tests of the system calls, run on the kernel:   *)
(*   syscalls/ece391syserr.c             the eight tests                   *)
(*   syscalls/ece391syscall.S            _start and the stubs              *)
(*   student-distrib/system_execute_linkage.S   the check of the number    *)
(*   student-distrib/system_execute.c    system_vidmap's check             *)
(* over the descriptors of module Files.  The program is started in a PCB  *)
(* that any programs may have used before; FILE_ARRAY_SIZE is 8 in the     *)
(* code, and the tests count up to 7 and 8.                                *)
(***************************************************************************)
EXTENDS Files

VARIABLES
    select,   \* the test that was asked for; 0 for all, -1: another program runs
    at,       \* calls it has made
    fail,     \* the tests that failed
    cnt       \* failed opens, in err_open_lots

testVars == <<select, at, fail, cnt>>
allVars == <<vars, testVars>>

Tests == 1 .. 8

-----------------------------------------------------------------------------
(* What the program calls *)

NEG_FD == -1073741823
BIG_FD == 1073741823
NEG_NUM == NEG_FD
BIG_NUM == BIG_FD

\* File names: what distinguishes them, up to the 32 characters compared.  The
\* other files of the image differ from all that is opened here by a character.
FileNames == <<<<".">>, <<"r", "t", "c">>, <<"s", "h", "e", "l", "l">>,
               <<"h", "e", "l", "l", "o">>>>
filename(n) == IF n < Len(FileNames) THEN FileNames[n + 1] ELSE <<"other">>
FILE_NAME_SIZE == 32
Dot == filename(0)
helloo == <<"h", "e", "l", "l", "o", "o">>
shel == <<"s", "h", "e", "l">>

CallOf(t, call, arg) == [test |-> t, call |-> call, arg |-> arg]

\* For each of the descriptors first .. last, in order, one call.
Over(t, call, first, last) == [i \in 1 .. (last - first + 1) |-> CallOf(t, call, first + i - 1)]

LAST_FD == FILE_ARRAY_SIZE - 1

err_neg_fd == << CallOf(1, "read", NEG_FD), CallOf(1, "write", NEG_FD),
                 CallOf(1, "close", NEG_FD) >>
err_big_fd == << CallOf(2, "read", BIG_FD), CallOf(2, "write", BIG_FD),
                 CallOf(2, "close", BIG_FD) >>
err_open_lots == [i \in 1 .. LAST_FD |-> CallOf(3, "open lots", Dot)]
                 \o Over(3, "close lots", 2, LAST_FD)
                 \o << CallOf(3, "count", 1) >>
err_open == << CallOf(4, "open", helloo), CallOf(4, "open", shel), CallOf(4, "open", <<>>) >>
err_unopened == Over(5, "close", 0, LAST_FD) \o Over(5, "read", 2, LAST_FD)
                \o Over(5, "write", 2, LAST_FD)
err_vidmap == << CallOf(6, "vidmap", 0), CallOf(6, "vidmap", 4194304) >>
err_stdin_out == << CallOf(7, "write", 0), CallOf(7, "read", 1) >>
err_syscall_num == << CallOf(8, "number", BIG_NUM), CallOf(8, "number", NEG_NUM),
                      CallOf(8, "number", 0) >>

Program == << err_neg_fd, err_big_fd, err_open_lots, err_open, err_unopened,
              err_vidmap, err_stdin_out, err_syscall_num >>

\* main: the test selected, or all of them in order; none for another key.
Script(s) ==
    CASE s = 0 -> err_neg_fd \o err_big_fd \o err_open_lots \o err_open \o err_unopened
                  \o err_vidmap \o err_stdin_out \o err_syscall_num
      [] s \in Tests -> Program[s]
      [] OTHER -> <<>>

-----------------------------------------------------------------------------
(* How the kernel answers *)

\* strncmp(s1, s2, FILE_NAME_SIZE) is 0: both end, or the count does, before
\* they differ.
strncmp(s1, s2) ==
    LET CharAt(s, i) == IF i <= Len(s) THEN s[i] ELSE "nul"
    IN  \A i \in 1 .. FILE_NAME_SIZE :
            CharAt(s1, i) = CharAt(s2, i)
            \/ \E j \in 1 .. (i - 1) : CharAt(s1, j) = "nul" /\ CharAt(s2, j) = "nul"

\* read_dentry_by_name: the first entry whose name compares equal, or -1.
Found(fname) == {n \in Names : strncmp(fname, filename(n))}
read_dentry_by_name(fname) ==
    IF Found(fname) = {} THEN -1
    ELSE CHOOSE n \in Found(fname) : \A m \in Found(fname) : n <= m

Open(fname) ==
    IF read_dentry_by_name(fname) = -1 THEN Reject("open", -1, FALSE)
    ELSE system_open(read_dentry_by_name(fname))

Read(fd) == \/ \E n \in Sizes : fread(fd, n)
            \/ dread(fd) \/ DeviceRead(fd)
            \/ Reject("read", fd, ReadPasses(fd))

Write(fd) == \/ DeviceWrite(fd) \/ WriteNothing(fd) \/ \E f \in Freqs : rtc_write(fd, f)
             \/ Reject("write", fd, WritePasses(fd))

Close(fd) == system_close(fd) \/ Reject("close", fd, Passes(fd, 2))

Answer(ret) ==
    /\ Call /\ Return("other", -1, ret)
    /\ UNCHANGED <<length, running, file_array, rtc_scale, listed, crashed>>

USER_PROGRAM_MEM == 134217728
MB_132 == 138412032
\* system_vidmap maps the video page, or refuses a pointer outside the program.
Vidmap(screen_start) ==
    Answer(IF screen_start < USER_PROGRAM_MEM \/ screen_start >= MB_132 THEN -1 ELSE 0)

\* system_handler: a signed comparison on both sides of the table; the tests
\* pass no number inside it.
Number(eax) == (eax > 10 \/ eax <= 0) /\ Answer(-1)

-----------------------------------------------------------------------------
(* The program *)

TestInit == Init /\ select = -1 /\ at = 0 /\ fail = {} /\ cnt = 0

\* Any other program, before and after.
Others == select = -1 /\ Next /\ UNCHANGED testVars

\* Execute with the digit that was typed; 9 stands for any other key.
Start(s) ==
    /\ select = -1 /\ Execute
    /\ select' = s
    /\ UNCHANGED <<at, fail, cnt>>

Current == Script(select)[at + 1]
Expects(call) == call \in {"read", "write", "close", "open", "vidmap", "number"}

Perform(c) ==
    CASE c.call = "read" -> Read(c.arg)
      [] c.call = "write" -> Write(c.arg)
      [] c.call \in {"close", "close lots"} -> Close(c.arg)
      [] c.call \in {"open", "open lots"} -> Open(c.arg)
      [] c.call = "vidmap" -> Vidmap(c.arg)
      [] c.call = "number" -> Number(c.arg)
      [] c.call = "count" -> UNCHANGED vars

TestStep ==
    /\ select >= 0 /\ at < Len(Script(select)) /\ ~crashed
    /\ Perform(Current)
    /\ at' = at + 1
    /\ cnt' = IF Current.call = "open lots" /\ result'.ret = -1 THEN cnt + 1 ELSE cnt
    /\ fail' = IF \/ Expects(Current.call) /\ result'.ret # -1
                  \/ Current.call = "count" /\ cnt # Current.arg
               THEN fail \cup {Current.test} ELSE fail
    /\ UNCHANGED select

\* main returns and _start halts with its value.
Finish ==
    /\ select >= 0 /\ at = Len(Script(select))
    /\ Halt
    /\ select' = -1 /\ at' = 0 /\ fail' = {} /\ cnt' = 0

TestNext == Others \/ TestStep \/ Finish \/ \E s \in 0 .. 9 : Start(s)

TestSpec == TestInit /\ [][TestNext]_allVars

-----------------------------------------------------------------------------
(* What must hold *)

\* A test starts with what the last one, or the program before, opened closed
\* again, and leaves nothing open itself, even at an open that failed half-way.
NothingLeft ==
    (select >= 0 /\ (at = Len(Script(select)) \/ Current.test # 3)) =>
        \A fd \in Fds : file_array[fd].open => fd < 2

\* "Overall Tests: PASS", and each test by itself, whatever ran in this PCB
\* before: every call the tests make is answered as they expect, and they leave
\* no descriptor behind.
TestsPass == fail = {} /\ NothingLeft
=============================================================================
