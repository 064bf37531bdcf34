------------------------------- MODULE Files -------------------------------
(***************************************************************************)
(* The files of a program:                                                 *)
(*   student-distrib/filesys.c         read_data, fopen, fread, dread, ... *)
(*   student-distrib/system_execute.c  system_open, _close, _read, _write  *)
(*   student-distrib/rtc.c             rtc_open, rtc_close, rtc_write      *)
(*                                                                         *)
(* One program runs at a time in one PCB; when it halts the next one gets  *)
(* the same PCB.  The file system image is read-only: it is chosen in the  *)
(* initial state.  A byte of the disk is named by the file it belongs to   *)
(* and its position there.                                                 *)
(***************************************************************************)
EXTENDS Integers, Sequences

CONSTANTS
    FILE_ARRAY_SIZE,
    BLOCK,         \* DATA_BLOCK_SIZE * NUM_DATABLOCKS, 4096
    EXEC_SIZE,     \* of an executable, what is read first
    INODES, MAX_LENGTH,  \* regular files of the image and the length of the longest
    Sizes,         \* nbytes of reads
    Freqs          \* what programs write to the RTC

ASSUME FilesAssumption ==
    /\ FILE_ARRAY_SIZE \in Nat /\ FILE_ARRAY_SIZE > 2
    /\ BLOCK \in Nat \ {0} /\ EXEC_SIZE \in Nat /\ EXEC_SIZE < BLOCK
    /\ INODES \in Nat \ {0} /\ MAX_LENGTH \in Nat
    /\ Sizes \subseteq Nat /\ Freqs \subseteq Int

Inodes == 0 .. (INODES - 1)
\* The directory, in order: ".", "rtc" and the regular files.
Names  == 0 .. (INODES + 1)
filetype(n) == CASE n = 0 -> "dir" [] n = 1 -> "rtc" [] OTHER -> "file"
inode_num(n) == IF n < 2 THEN 0 ELSE n - 2
Fds    == 0 .. (FILE_ARRAY_SIZE - 1)
Closed == [op |-> "none", inode |-> 0, fpos |-> 0, open |-> FALSE]


VARIABLES
    length,      \* of each inode; the image
    running,     \* a program runs in this PCB
    file_array,  \* its descriptors
    rtc_scale,   \* rtc_scales[pid]
    result,      \* of its last call: what it read from where
    listed,      \* history: the names each descriptor gave since it was opened
    crashed      \* the kernel took an exception

vars == <<length, running, file_array, rtc_scale, result, listed, crashed>>

NoResult == [call |-> "none", fd |-> -1, from |-> 0, want |-> 0, ret |-> 0, bytes |-> <<>>]

TypeOK ==
    /\ length \in [Inodes -> 0 .. MAX_LENGTH]
    /\ running \in BOOLEAN /\ crashed \in BOOLEAN
    /\ \A fd \in Fds :
          /\ file_array[fd].op \in {"none", "stdin", "stdout", "file", "dir", "rtc"}
          /\ file_array[fd].inode \in Inodes
          /\ file_array[fd].fpos \in Nat
          /\ file_array[fd].open \in BOOLEAN
    /\ rtc_scale \in 1 .. 15
    /\ result.ret \in Int
    /\ listed \in [Fds -> Seq(Names)]

Init ==
    /\ length \in [Inodes -> 0 .. MAX_LENGTH]
    /\ running = FALSE
    /\ file_array = [fd \in Fds |-> Closed]
    /\ rtc_scale = 1
    /\ result = NoResult
    /\ listed = [fd \in Fds |-> <<>>]
    /\ crashed = FALSE

-----------------------------------------------------------------------------
(* read_data *)

\* The image: blocks are dealt to the files in turn, so no file is contiguous;
\* an inode's entries past its last block are 0.
data_block_num(f, k) == IF k * BLOCK < length[f] THEN k * INODES + f ELSE 0

\* What the disk holds at an offset of a data block, which may lie beyond it.
NoByte == <<-1, -1>>
Byte(block, offset) ==
    LET b == block + (offset \div BLOCK)
        f == b % INODES
        i == (b \div INODES) * BLOCK + (offset % BLOCK)
    IN  IF i < length[f] THEN <<f, i>> ELSE NoByte

memcpy(block, offset, n) == [i \in 1 .. n |-> Byte(block, offset + i - 1)]

\* [seeded fault] the index of the block does not advance.
Turn_same_block(f, s) ==
    IF s.left < BLOCK
    THEN [s EXCEPT !.out = @ \o memcpy(data_block_num(f, s.d), s.offset, s.left),
                   !.left = 0]
    ELSE [s EXCEPT !.out = @ \o memcpy(data_block_num(f, s.d), s.offset, BLOCK - s.offset),
                   !.left = @ - (BLOCK - s.offset),
                   !.offset = 0]

\* One turn of the loop: d is the index of the block, left what is still to be
\* read.  With more than a block left and offset beyond it the count wraps.
Turn(f, s) ==
    IF s.left = 0 THEN s
    ELSE IF s.left < BLOCK
    THEN [s EXCEPT !.out = @ \o memcpy(data_block_num(f, s.d), s.offset, s.left),
                   !.left = 0]
    ELSE IF s.offset > BLOCK THEN [s EXCEPT !.left = 0, !.fault = TRUE]
    ELSE [s EXCEPT !.out = @ \o memcpy(data_block_num(f, s.d), s.offset, BLOCK - s.offset),
                   !.d = @ + 1,
                   !.left = @ - (BLOCK - s.offset),
                   !.offset = 0]

Lesser(m, n) == IF m < n THEN m ELSE n

read_data(f, offset, n) ==
    LET start == [d |-> offset \div BLOCK, left |-> Lesser(n, length[f]),
                  offset |-> offset, out |-> <<>>, fault |-> FALSE]
        loop[k \in Nat] == IF k = 0 THEN start ELSE Turn(f, loop[k - 1])
    IN  IF offset >= length[f] THEN [start EXCEPT !.left = 0]
        ELSE loop[start.left \div BLOCK + 3]

-----------------------------------------------------------------------------
(* Programs come and go *)

Return(call, fd, ret) == result' = [NoResult EXCEPT !.call = call, !.fd = fd, !.ret = ret]

\* initialize_stdio; the other descriptors are as the last program left them.
Execute ==
    /\ ~running
    /\ running' = TRUE
    /\ file_array' = [file_array EXCEPT
          ![0] = [op |-> "stdin", inode |-> 0, fpos |-> 0, open |-> TRUE],
          ![1] = [op |-> "stdout", inode |-> 0, fpos |-> 0, open |-> TRUE]]
    /\ result' = NoResult
    /\ UNCHANGED <<length, rtc_scale, listed, crashed>>

\* [seeded fault] the last descriptor is not closed.
Halt_all_but_one ==
    /\ running /\ ~crashed
    /\ running' = FALSE
    /\ file_array' = [fd \in Fds |-> IF fd \in 2 .. (FILE_ARRAY_SIZE - 2)
                                     THEN [file_array[fd] EXCEPT !.open = FALSE]
                                     ELSE file_array[fd]]
    /\ result' = NoResult
    /\ UNCHANGED <<length, rtc_scale, listed, crashed>>

\* fclose on every descriptor, whatever is open there.
Halt ==
    /\ running /\ ~crashed
    /\ running' = FALSE
    /\ file_array' = [fd \in Fds |-> IF fd >= 2 THEN [file_array[fd] EXCEPT !.open = FALSE]
                                     ELSE file_array[fd]]
    /\ result' = NoResult
    /\ UNCHANGED <<length, rtc_scale, listed, crashed>>

-----------------------------------------------------------------------------
(* The system calls *)

Call == running /\ ~crashed
FreeFds == {fd \in Fds : fd >= 2 /\ ~file_array[fd].open}
FirstFree == CHOOSE fd \in FreeFds : \A e \in FreeFds : fd <= e

Opened(fd, n) ==
    [op |-> filetype(n), inode |-> inode_num(n), fpos |-> 0, open |-> TRUE]

\* With no descriptor free fopen and dopen fail; rtc_open returns 0.
system_open(n) ==
    /\ Call
    /\ IF FreeFds = {}
       THEN /\ Return("open", -1, IF filetype(n) = "rtc" THEN 0 ELSE -1)
            /\ UNCHANGED <<file_array, listed>>
       ELSE /\ Return("open", -1, FirstFree)
            /\ file_array' = [file_array EXCEPT ![FirstFree] = Opened(FirstFree, n)]
            /\ listed' = [listed EXCEPT ![FirstFree] = <<>>]
    /\ UNCHANGED <<length, running, rtc_scale, crashed>>

\* The files of system_execute, in the PCB of its caller: a descriptor is opened
\* for the header and closed again, and the image is loaded through what is left
\* in it, if the header is an executable's.  The child has a PCB of its own.
ExecuteFile(n) ==
    LET f == inode_num(n)
        image == read_data(f, 0, length[f])
    IN  /\ Call
        /\ IF FreeFds = {}
           THEN Return("execute", -1, -1) /\ UNCHANGED file_array
           ELSE /\ file_array' = [file_array EXCEPT ![FirstFree] =
                      [op |-> "file", inode |-> f, open |-> FALSE,
                       fpos |-> Len(read_data(f, 0, EXEC_SIZE).out)]]
                /\ \/ Return("execute", -1, -1)
                   \/ result' = [call |-> "execute", fd |-> FirstFree, from |-> 0,
                                 want |-> length[f], ret |-> Len(image.out),
                                 bytes |-> image.out]
        /\ UNCHANGED <<length, running, rtc_scale, listed, crashed>>

\* The descriptors the checks let through: one past the array among them.
Passes(fd, first) == fd >= first /\ (fd = FILE_ARRAY_SIZE \/ (fd \in Fds /\ file_array[fd].open))

Reject(call, fd, allowed) ==
    /\ Call /\ ~allowed
    /\ Return(call, fd, -1)
    /\ UNCHANGED <<length, running, file_array, rtc_scale, listed, crashed>>

\* system_close, system_read and system_write let fd = FILE_ARRAY_SIZE through.
\* file_array[FILE_ARRAY_SIZE] is my_pid, parent_pid, parent_esp and parent_ebp;
\* my_pid is no address of a jump table.
BeyondArray ==
    /\ Call
    /\ crashed' = TRUE
    /\ UNCHANGED <<length, running, file_array, rtc_scale, result, listed>>

system_close(fd) ==
    /\ Call /\ fd \in Fds /\ Passes(fd, 2)
    /\ Return("close", fd, 0)
    /\ file_array' = [file_array EXCEPT ![fd].open = FALSE]
    /\ rtc_scale' = IF file_array[fd].op = "rtc" THEN 1 ELSE rtc_scale
    /\ UNCHANGED <<length, running, listed, crashed>>

ReadPasses(fd) == Passes(fd, 0) /\ fd # 1

fread(fd, n) ==
    LET e == file_array[fd]
        r == read_data(e.inode, e.fpos, n)
    IN  /\ Call /\ fd \in Fds /\ ReadPasses(fd) /\ e.op = "file"
        /\ IF r.fault
           THEN crashed' = TRUE /\ UNCHANGED <<file_array, result>>
           ELSE /\ result' = [call |-> "fread", fd |-> fd, from |-> e.fpos, want |-> n,
                                ret |-> Len(r.out), bytes |-> r.out]
                /\ file_array' = [file_array EXCEPT ![fd].fpos = @ + Len(r.out)]
                /\ UNCHANGED crashed
        /\ UNCHANGED <<length, running, rtc_scale, listed>>

\* [seeded fault] the directory is read from the entry after fpos.
dread_next(fd) ==
    LET next == file_array[fd].fpos + 1 IN
    /\ Call /\ fd \in Fds /\ ReadPasses(fd) /\ file_array[fd].op = "dir"
    /\ IF next \in Names
       THEN /\ Return("dread", fd, 32)
            /\ file_array' = [file_array EXCEPT ![fd].fpos = @ + 1]
            /\ listed' = [listed EXCEPT ![fd] = Append(@, next)]
       ELSE Return("dread", fd, 0) /\ UNCHANGED <<file_array, listed>>
    /\ UNCHANGED <<length, running, rtc_scale, crashed>>

\* One name per read, 32 bytes whatever was asked for; 0 after the last.
dread(fd) ==
    LET next == file_array[fd].fpos IN
    /\ Call /\ fd \in Fds /\ ReadPasses(fd) /\ file_array[fd].op = "dir"
    /\ IF next \in Names
       THEN /\ Return("dread", fd, 32)
            /\ file_array' = [file_array EXCEPT ![fd].fpos = @ + 1]
            /\ listed' = [listed EXCEPT ![fd] = Append(@, next)]
       ELSE Return("dread", fd, 0) /\ UNCHANGED <<file_array, listed>>
    /\ UNCHANGED <<length, running, rtc_scale, crashed>>

WritePasses(fd) == Passes(fd, 1)

\* rtc_read, which waits for the RTC, and term_read (module LineInput).
DeviceRead(fd) ==
    /\ Call /\ fd \in Fds /\ ReadPasses(fd) /\ file_array[fd].op \in {"rtc", "stdin"}
    /\ Return("device", fd, 0)
    /\ UNCHANGED <<length, running, file_array, rtc_scale, listed, crashed>>

\* term_write (module Screen).
DeviceWrite(fd) ==
    /\ Call /\ fd \in Fds /\ WritePasses(fd) /\ file_array[fd].op = "stdout"
    /\ Return("device", fd, 0)
    /\ UNCHANGED <<length, running, file_array, rtc_scale, listed, crashed>>

\* fwrite, dwrite.
WriteNothing(fd) ==
    /\ Call /\ fd \in Fds /\ WritePasses(fd) /\ file_array[fd].op \in {"file", "dir"}
    /\ Return("write", fd, -1)
    /\ UNCHANGED <<length, running, file_array, rtc_scale, listed, crashed>>

ValidFreqs == {2, 4, 8, 16, 32, 64, 128, 256, 512, 1024}
log2[f \in ValidFreqs] == IF f = 2 THEN 1 ELSE 1 + log2[f \div 2]

\* [seeded fault] the rate counts from 10, the logarithm of the highest frequency.
rtc_write_rate10(fd, freq) ==
    /\ Call /\ fd \in Fds /\ WritePasses(fd) /\ file_array[fd].op = "rtc"
    /\ IF freq \in ValidFreqs
       THEN Return("write", fd, 0) /\ rtc_scale' = 10 - log2[freq]
       ELSE Return("write", fd, -1) /\ UNCHANGED rtc_scale
    /\ UNCHANGED <<length, running, file_array, listed, crashed>>

rtc_write(fd, freq) ==
    /\ Call /\ fd \in Fds /\ WritePasses(fd) /\ file_array[fd].op = "rtc"
    /\ IF freq \in ValidFreqs
       THEN Return("write", fd, 0) /\ rtc_scale' = 15 \div (16 - log2[freq])
       ELSE Return("write", fd, -1) /\ UNCHANGED rtc_scale
    /\ UNCHANGED <<length, running, file_array, listed, crashed>>

Next ==
    \/ Execute \/ Halt
    \/ \E n \in Names : system_open(n)
    \/ \E n \in Names : ExecuteFile(n)
    \/ Reject("open", -1, FALSE)   \* no such file
    \/ \E fd \in -1 .. FILE_ARRAY_SIZE :
          \/ system_close(fd)
          \/ \E n \in Sizes : fread(fd, n)
          \/ dread(fd) \/ DeviceRead(fd) \/ DeviceWrite(fd)
          \/ WriteNothing(fd) \/ \E freq \in Freqs : rtc_write(fd, freq)
          \/ Reject("close", fd, Passes(fd, 2)) \/ Reject("read", fd, ReadPasses(fd))
          \/ Reject("write", fd, WritePasses(fd))
    \/ BeyondArray

Spec == Init /\ [][Next]_vars

-----------------------------------------------------------------------------
(* What must hold *)

\* The first bytes of a file, from its first up to as many as fit.
Contents(f, from, n) ==
    [i \in 1 .. Lesser(n, length[f] - from) |-> <<f, from + i - 1>>]

LastFile == file_array[result.fd].inode
LastRead == result.call = "fread" /\ file_array[result.fd].open
AsWanted(from) == result.bytes = Contents(LastFile, from, result.want)

\* What is read from the start of a file is the file, across its blocks and up
\* to its end: system_execute loads every program this way.
ReadsFromStart ==
    /\ (LastRead /\ result.from = 0) => AsWanted(0)
    /\ (result.call = "execute" /\ result.ret >= 0) => AsWanted(0)

\* read_data says it "Reads up to length bytes starting from offset in file":
\* a file read piece by piece is the file.
ReadsFromOffset == (LastRead /\ result.from < length[LastFile]) => AsWanted(result.from)

\* ls: however opens, closes and reads of several descriptors are mixed, a
\* descriptor on the directory lists the names in order, none twice, none
\* missing once a read has returned 0.
DirectoryInOrder ==
    \A fd \in Fds : (file_array[fd].open /\ file_array[fd].op = "dir") =>
        /\ listed[fd] = [i \in 1 .. Len(listed[fd]) |-> i - 1]
        /\ (result.call = "dread" /\ result.fd = fd /\ result.ret = 0)
              => Len(listed[fd]) = INODES + 2
=============================================================================
