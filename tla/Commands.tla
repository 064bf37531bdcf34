------------------------------ MODULE Commands ------------------------------
(***************************************************************************)
(* A command line, from the shell to the program and back:                 *)
(*   syscalls/ece391shell.c            the shell                           *)
(*   syscalls/ece391cat.c, ece391ls.c, ece391hello.c, ...  the programs    *)
(*   student-distrib/system_execute.c  the parsing of system_execute,      *)
(*                                     system_getargs, system_halt         *)
(* The processes of one terminal, innermost last; only that one runs.  The *)
(* processes of the other terminals come and go and take process numbers.  *)
(* What the timer does in the middle of these calls is module Kernel's.    *)
(***************************************************************************)
EXTENDS Strings, FiniteSets

CONSTANTS
    SPACE, NL, Letters,   \* the characters that are typed
    MAX_PID, MAX_TERM,    \* processes, and the shells started at boot
    MAX_SHELLS,           \* 5 in the code
    FILE_NAME_SIZE,
    ARG_SIZE,             \* of a command and of its arguments, 128
    Directory,            \* the files: name and content, in order
    SHELL, EXIT,          \* the names that are checked for
    MAX_LINE, MAX_CHAIN   \* bounds: characters of a line, shells in shells

Contents == {"shell", "cat", "other", "text", "empty"}
Programs == {"shell", "cat", "other"}

ASSUME CommandsAssumption ==
    /\ SPACE \in Nat /\ NL \in Nat /\ Letters \subseteq Nat
    /\ NUL \notin Letters /\ SPACE \notin Letters \cup {NL, NUL} /\ NL \notin Letters \cup {NUL}
    /\ MAX_PID \in Nat /\ MAX_TERM \in 1 .. MAX_PID /\ MAX_SHELLS \in Nat
    /\ FILE_NAME_SIZE \in Nat /\ ARG_SIZE \in Nat
    /\ MAX_LINE \in Nat /\ MAX_LINE < ARG_SIZE /\ MAX_CHAIN \in Nat \ {0}
    /\ Directory \in Seq([name : Seq(Letters), content : Contents])
    /\ \A i \in DOMAIN Directory : Len(Directory[i].name) \in 1 .. FILE_NAME_SIZE
    /\ SHELL \in Seq(Letters) /\ EXIT \in Seq(Letters)

Pids == 0 .. (MAX_PID - 1)
Zeros(n) == [i \in 1 .. n |-> NUL]

\* The words of a line.
WordStarts(s) == {i \in DOMAIN s : s[i] # SPACE /\ (i = 1 \/ s[i - 1] = SPACE)}
WordAt(s, i) ==
    LET end == CHOOSE e \in i .. Len(s) : /\ e = Len(s) \/ s[e + 1] = SPACE
                                          /\ \A j \in i .. e : s[j] # SPACE
    IN  SubSeq(s, i, end)
FirstWord(s) == IF WordStarts(s) = {} THEN <<>>
                ELSE WordAt(s, CHOOSE i \in WordStarts(s) : \A j \in WordStarts(s) : i <= j)

\* What can be typed; file_name has FILE_NAME_SIZE characters.
Typed == {s \in UNION {[1 .. n -> Letters \cup {SPACE}] : n \in 0 .. MAX_LINE} :
             Len(FirstWord(s)) <= FILE_NAME_SIZE}

\* ece391_read(0, buf, BUFSIZE - 1), cnt--, buf[cnt] = '\0'
Stripped(s) ==
    LET buf == s \o <<NL, NUL>>
        cnt == Len(s) + 1
    IN  IF cnt > 0 /\ buf[cnt] = NL THEN [buf EXCEPT ![cnt] = NUL] ELSE buf
Exits == {s \in Typed : strcmp(Stripped(s), EXIT \o <<NUL>>) = 0}

VARIABLES
    free_pid,
    chain,      \* the processes of the terminal
    image,      \* of each process number: the program last loaded to its page
    args,       \* of each PCB
    at,         \* where the innermost process is
    line,       \* of each shell: the command it read
    runnable,   \* history: of each shell, whether its command could be run
    header,     \* of each kernel stack: executable[] of a call before held a header
    opened,     \* the name cat opened
    rval,       \* what ece391_execute returned
    said        \* what the shell said of it

vars == <<free_pid, chain, image, args, at, line, runnable, header, opened, rval, said>>

Me == chain[Len(chain)]
Parent == chain[Len(chain) - 1]
Forked == Len(chain) > 1
NoName == <<NUL>>

TypeOK ==
    /\ free_pid \in [Pids -> BOOLEAN]
    /\ chain \in Seq(Pids) /\ Len(chain) \in 1 .. MAX_CHAIN + 1
    /\ image \in [Pids -> Programs \cup {"none"}]
    /\ \A p \in Pids : Len(args[p]) = ARG_SIZE /\ Terminated(args[p])
    /\ at \in {"prompt", "execute", "returned", "start", "open", "stopped"}
    /\ rval \in {-1, 0}
    /\ said \in {"", "no such command", "exception", "abnormally"}

Init ==
    /\ free_pid = [p \in Pids |-> p >= MAX_TERM]
    /\ chain = <<0>>
    /\ image = [p \in Pids |-> IF p < MAX_TERM THEN "shell" ELSE "none"]
    /\ args = [p \in Pids |-> Zeros(ARG_SIZE)]
    /\ line = [p \in Pids |-> <<>>] /\ runnable = [p \in Pids |-> FALSE]
    /\ header = [p \in Pids |-> FALSE]
    /\ at = "prompt" /\ opened = NoName
    /\ rval = 0 /\ said = ""
-----------------------------------------------------------------------------
(* system_execute *)

\* Copying the command into cmd_holder.
cmd_holder == strncpy(Zeros(ARG_SIZE), line[Me] \o Zeros(ARG_SIZE - Len(line[Me])), ARG_SIZE)

\* The loops over cmd_idx: where the leading spaces end, and where the file name
\* does; the name, and what stands behind it.
Split ==
    LET cmd == cmd_holder
        start == CHOOSE i \in 1 .. ARG_SIZE : /\ cmd[i] # SPACE
                                              /\ \A j \in 1 .. (i - 1) : cmd[j] = SPACE
        end == CHOOSE i \in start .. ARG_SIZE :
                  /\ cmd[i] \in {SPACE, NUL}
                  /\ \A j \in start .. (i - 1) : cmd[j] \notin {SPACE, NUL}
    IN  [file_name |-> SubSeq(cmd, start, end - 1), rest |-> SubSeq(cmd, end, strlen(cmd))]
file_name == Split.file_name

\* Every character but the spaces.
Unspaced(s) ==
    LET upto[k \in 0 .. Len(s)] ==
            IF k = 0 THEN <<>>
            ELSE IF s[k] = SPACE THEN upto[k - 1] ELSE Append(upto[k - 1], s[k])
    IN  upto[Len(s)]

\* [seeded fault] the characters go behind those of the PCB's last program.
Arguments_kept(p) ==
    LET taken == Unspaced(Split.rest)
    IN  [i \in 1 .. ARG_SIZE |-> IF i <= Len(taken) THEN taken[i] ELSE args[p][i]]

\* memset, then the characters of the arguments.
Arguments(p) ==
    LET taken == Unspaced(Split.rest)
    IN  taken \o Zeros(ARG_SIZE - Len(taken))

Padded(s) == s \o Zeros(FILE_NAME_SIZE)

\* fopen and system_open: the first entry whose name compares equal.
Entries(name) == {i \in DOMAIN Directory :
                     strncmp(Padded(name), Padded(Directory[i].name), FILE_NAME_SIZE) = 0}
Found(name) == Entries(name) # {}
Content(name) == Directory[CHOOSE i \in Entries(name) : \A j \in Entries(name) : i <= j].content

\* max shells opened: never with the code's MAX_PID of 6.
TooManyShells == Me > MAX_SHELLS
                 /\ strncmp(Padded(file_name) \o Zeros(MAX_SHELLS), Padded(SHELL) \o Zeros(MAX_SHELLS), MAX_SHELLS) = 0

FreePids == {p \in Pids : free_pid[p]}
find_free_process == IF FreePids = {} THEN -1
                     ELSE CHOOSE p \in FreePids : \A q \in FreePids : p <= q

\* executable[] is not initialised: of an empty file what the stack held there
\* is checked, such as the header of the program run before.
MayPass(content) == content \in Programs \/ (content = "empty" /\ header[Me])
MayFail(content) == content \notin Programs

\* History: what could be run, to the letter of the line.
Named(name) == {i \in DOMAIN Directory : Directory[i].name = name}
Runnable(s) == /\ FreePids # {}
               /\ \E i \in Named(FirstWord(s)) : Directory[i].content \in Programs
Note == runnable' = [runnable EXCEPT ![Me] = Runnable(line[Me])]

Refused == LET name == file_name
           IN  \/ find_free_process = -1 \/ TooManyShells
               \/ ~Found(name)
               \/ Found(name) /\ MayFail(Content(name))

Refuse ==
    /\ at = "execute" /\ Refused
    /\ at' = "returned" /\ rval' = -1 /\ Note
    /\ UNCHANGED <<free_pid, chain, image, args, line, header, opened, said>>

\* The file is copied to the child's page: of an empty one, nothing.
Execute ==
    LET child == find_free_process
        name == file_name
    IN
    /\ at = "execute" /\ child # -1 /\ ~TooManyShells
    /\ Found(name) /\ MayPass(Content(name))
    /\ free_pid' = [free_pid EXCEPT ![child] = FALSE]
    /\ chain' = Append(chain, child)
    /\ image' = IF Content(name) = "empty" THEN image
                ELSE [image EXCEPT ![child] = Content(name)]
    /\ args' = [args EXCEPT ![child] = Arguments(child)]
    /\ at' = "start"
    /\ Note /\ header' = [header EXCEPT ![Me] = TRUE]
    /\ line' = [line EXCEPT ![child] = <<>>]
    /\ opened' = NoName
    /\ UNCHANGED <<rval, said>>

\* system_halt: whatever the status, system_execute returns 0 in the parent.
\* A boot shell spins and never returns (module Kernel has what follows).
Halt ==
    /\ free_pid' = [free_pid EXCEPT ![Me] = TRUE]
    /\ IF Me < MAX_TERM
       THEN at' = "stopped" /\ UNCHANGED <<chain, rval>>
       ELSE /\ chain' = SubSeq(chain, 1, Len(chain) - 1)
            /\ at' = "returned" /\ rval' = 0
    /\ line' = [line EXCEPT ![Me] = <<>>]
    /\ runnable' = [runnable EXCEPT ![Me] = FALSE]
    /\ opened' = NoName
    /\ UNCHANGED <<image, args, header, said>>
-----------------------------------------------------------------------------
(* The programs *)

Runs(program) == at = "start" /\ image[Me] = program

\* The shell greets and reads; of the line the newline is taken off.
ShellStarts ==
    /\ Runs("shell") /\ Len(chain) <= MAX_CHAIN
    /\ at' = "prompt"
    /\ UNCHANGED <<free_pid, chain, image, args, line, runnable, header, opened, rval, said>>

ShellReads ==
    /\ at = "prompt"
    /\ \E s \in Typed \ Exits :
          /\ line' = [line EXCEPT ![Me] = String(Stripped(s))]
          /\ at' = IF Stripped(s)[1] = NUL THEN "prompt" ELSE "execute"
    /\ said' = ""
    /\ UNCHANGED <<free_pid, chain, image, args, runnable, header, opened, rval>>

ShellExits == at = "prompt" /\ Exits # {} /\ Halt

\* [seeded fault] a refusal is not told from a program that ended.
ShellAnswers_silent ==
    /\ at = "returned" /\ at' = "prompt"
    /\ line' = [line EXCEPT ![Me] = <<>>]
    /\ said' = CASE rval = 256 -> "exception" [] rval \notin {-1, 0, 256} -> "abnormally"
                 [] OTHER -> ""
    /\ UNCHANGED <<free_pid, chain, image, args, runnable, header, opened, rval>>

\* The line is not used any more.
ShellAnswers ==
    /\ at = "returned" /\ at' = "prompt"
    /\ line' = [line EXCEPT ![Me] = <<>>]
    /\ said' = CASE rval = -1 -> "no such command" [] rval = 256 -> "exception"
                 [] rval \notin {-1, 0, 256} -> "abnormally" [] OTHER -> ""
    /\ UNCHANGED <<free_pid, chain, image, args, runnable, header, opened, rval>>

\* cat: ece391_getargs(buf, 1024) copies ARG_SIZE - 1 characters of the PCB.
system_getargs(p) == String(SubSeq(args[p], 1, ARG_SIZE - 1) \o <<NUL>>)

CatOpens ==
    /\ Runs("cat")
    /\ opened' = system_getargs(Me)
    /\ at' = "open"
    /\ UNCHANGED <<free_pid, chain, image, args, line, runnable, header, rval, said>>

\* It prints the file or says that there is none.
CatEnds == at = "open" /\ Halt

\* ls, hello, grep, ...
OtherEnds == Runs("other") /\ Halt

\* What an exception handler does with a program that faults is print and stop.
Faults ==
    /\ Runs("other") \/ Runs("none")
    /\ at' = "stopped"
    /\ UNCHANGED <<free_pid, chain, image, args, line, runnable, header, opened, rval, said>>

\* Another terminal starts or ends a process.
Elsewhere(p) ==
    /\ p \notin {chain[i] : i \in DOMAIN chain} /\ p >= MAX_TERM
    /\ free_pid[p] => p = find_free_process
    /\ free_pid' = [free_pid EXCEPT ![p] = ~@]
    /\ image' = IF free_pid[p] THEN [image EXCEPT ![p] = "other"] ELSE image
    /\ args' = IF free_pid[p] THEN [args EXCEPT ![p] = Zeros(ARG_SIZE)] ELSE args
    /\ UNCHANGED <<chain, at, line, runnable, header, opened, rval, said>>

Next == \/ ShellReads \/ ShellExits
        \/ ShellStarts \/ ShellAnswers
        \/ Refuse \/ Execute
        \/ CatOpens \/ CatEnds
        \/ OtherEnds
        \/ Faults
        \/ \E p \in Pids : Elsewhere(p)

Spec == Init /\ [][Next]_vars
-----------------------------------------------------------------------------
(* What must hold *)

\* The program that runs is the file the first word of the line names, however
\* many spaces stand before and behind it.
RunsNamed ==
    (at = "start" /\ Forked) =>
        \E i \in Named(FirstWord(line[Parent])) : Directory[i].content = image[Me]

\* cat is given the one word behind the command, whole, with nothing left of the
\* arguments of a program that had the same PCB before.
OneWordArrives ==
    at = "open" =>
        LET typed == line[Parent]
            n == Cardinality(WordStarts(typed))
            second == CHOOSE i \in WordStarts(typed) : \E j \in WordStarts(typed) : j < i
        IN  n <= 2 => opened = IF n = 1 THEN <<>> ELSE WordAt(typed, second)

\* The shell says that there is no such command when its line names no program,
\* or every process was taken, and then only: not after a program has run, what
\* that may have returned, and whatever shells ran in between.
SaysWhenNothingRan ==
    [][at = "returned" /\ at' = "prompt" =>
          (said' = "no such command" <=> ~runnable[Me])]_vars
=============================================================================
