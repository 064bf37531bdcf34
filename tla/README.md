# octaveOS in TLA+

A model of the kernel under `student-distrib/` and of the programs under
`syscalls/` and `fish/`: processes, scheduler, terminals, keyboard, screen, files,
interrupts and the real-time clock, the boot, the memory and string routines, the
shell, grep and fish. TLC checks the modules on small instances, TLAPS proves
their safety properties and the three refinements for all values of the constants. `PROJECT.json` lists the
runs, the source lines behind every definition, the hazards and the findings.

## 1. The system

One processor, 32-bit x86. Interrupt handlers run masked, but `rtc_handler`
executes `sti` before its `iret`, and system calls run with interrupts enabled
(vector 0x80 is a trap gate, every other vector an interrupt gate: `idt.c`
`set_idt_desc`). That is where most of the difficulty lies.

| Component | State | Operations | Talks to | What makes it correct |
|---|---|---|---|---|
| processes (`system_execute.c`) | `curr_pid`, `free_pid`, PCBs (parent, two saved contexts, arguments), TSS | `system_execute`, `system_halt`, `system_vidmap`, `system_getargs` | scheduler through `top_pid` and the saved contexts; paging; files | a return never goes through a dead frame; a program runs on its own page and stack; every process is either on top of its terminal or will be returned to; a program gets the words typed behind its name |
| scheduler (`schedule.c`, `pit.c`) | `pit_count`, `shells_done`, `schedule_counter` | the timer interrupt | every kernel stack | each terminal's top process runs again and again |
| terminals (`terminal.c`) | `curr_term`, `terminals[]`, `pid_to_term` | `term_init`, `term_switch`, `term_read`, `term_write` | keyboard and screen share `terminals[]` without a lock | only the displayed terminal owns video memory; the vidmap page follows its program's terminal |
| keyboard (`keyboard.c`) | per terminal: flags, `keybuf`, `buflen`, `enter_pressed` | the interrupt | `term_read` polls `enter_pressed` | the program gets the line that was typed on its terminal |
| screen (`lib.c`) | per terminal: `screen_x`, `screen_y`, `runon`, `video_mem`; the pages | `putc`, `echo`, `clear`, `scroll`, `update_cursor` | keyboard echoes while programs print | a terminal's screen is its own; the cursor stays on the screen |
| strings and memory (`lib.c`, `ece391support.c`) | the registers, the direction flag | `memset`, `memcpy`, `memmove`, `strncmp`, `itoa`, ... | everybody calls them | the bytes asked for, and no other |
| files (`filesys.c`, calls in `system_execute.c`) | `file_array` of each PCB; a read-only image | `open`, `close`, `read`, `write` by type, `read_data` | `system_execute` opens and loads programs through it | what is read is what the file holds; descriptors do not leak from one program to the next |
| RTC (`rtc.c`) | `rtc_scales`, `process_flags`, `rtc_count`; the device's registers A and C behind an index and a data port | interrupt, `rtc_open/read/write/close` | every program that waits; the PIC | a read waits for the next virtual interrupt and returns; the divider is not lost |
| PIC (`i8259.c`) | masks, requests, what is in service | `i8259_init`, `enable_irq`, `send_eoi` | all handlers | no line stays blocked |
| boot (`boot.S`, `kernel.c`, `idt.c`, `paging.c`) | descriptor tables, IDT, masks | `_start`, `entry`, the `init` functions | interrupts arrive on the way | a handler finds what it uses; the first shell is reached |
| user programs (`syscalls/`, `fish/`) | their own memory; fish's list of blinkers | system calls | the kernel | the shell runs what was typed, grep prints the matching lines, fish draws and blinks its two frames |

Hard behaviours: a timer tick between any two statements of `system_execute`
and `system_halt`; Alt-Fn in the same places; a key during `term_read` or
`putc`; an interrupt between an outb of an index and the access of the data behind
it; contexts saved in one place and loaded in another; a terminal that is
not displayed; tables at their limit; offsets at block and buffer boundaries.
Nothing is persisted and there is no network, so there is no crash recovery and no
message loss to model. `PROJECT.json` names each hazard with its line.

## 2. Modules

| Module | Role |
|---|---|
| `Sessions` | abstract: a stack of programs per terminal, a turn that goes round |
| `Kernel` | `system_execute`, `system_halt`, `system_vidmap`, `schedule`, `term_switch`, exceptions |
| `KernelSessions` | refinement mapping from `Kernel` to `Sessions` |
| `KernelProof` | theorems about `Kernel`, and that it implements `Sessions` |
| `Lines` | abstract: what is typed on a terminal is what its program reads |
| `LineInput` | `keyboard_handler` and `term_read` |
| `LineInputProof` | theorems about `LineInput`, and that it implements `Lines` |
| `Drawing` | `putc` and `echo` as functions on one screen |
| `Screens` | abstract: every terminal has a screen of its own |
| `Screen` | `putc` cut by interrupts, `echo`, `clear`, `term_switch`'s pages, the cursor |
| `ScreenProof` | theorems about `Screen` and `Drawing`, and that they implement `Screens` |
| `Files` | the descriptor table, `read_data`, the directory, the checks of the RTC's calls |
| `Syserr` | on top of `Files`: the shipped conformance program `syserr`, `_start`, the call numbers |
| `FilesProof` | theorems about `Files` and `Syserr` |
| `Interrupts` | both 8259s, the RTC's registers, the three handlers, `rtc_read`, `rtc_write`, `rtc_open` |
| `Boot` | `_start` and `entry` up to the first shell, with devices interrupting on the way |
| `Machine` | composes `Boot` and `Interrupts`: they share the interrupt flag and the requests |
| `MachineProof` | theorems about `Machine` |
| `Memory` | `memset`, `memset_word`, `memset_dword`, `memcpy`, `memmove`, a register at a time |
| `Strings` | `strlen`, `strrev`, `itoa`, `strncmp`, `strcpy`, `strncpy` as functions |
| `Text` | those routines and printf's conversions as calls |
| `Library` | composes `Memory` and `Text`: they share the direction flag |
| `LibraryProof` | theorems about `Library` |
| `Induction` | induction and recursion over the naturals, in a form the provers can use |
| `Commands` | the shell, `cat`, the parsing of `system_execute`, `getargs`, the status of `halt` |
| `Grep` | `do_one_file` of grep |
| `Frames` | how fish reads two pictures and adds a blinker per cell |
| `Blink` | fish's list of blinkers and its pool |
| `Programs` | one of `Commands`, `Grep`, `Frames` and `Blink` at a time |
| `ProgramsProof` | theorems about these four |
| `MC*` | instances for TLC |

**Kernel.** A process in the kernel is a sequence of frames on its kernel stack
(`kstk`). The C code saves (ebp, esp) and later loads the pair and returns; the
model's pair is a context: the stack, the number of frames, the function on top.
`Jump` succeeds if that frame still exists and otherwise sets `wild`, which ends
the behaviour: nothing can be said of a processor that has returned through
garbage. The labels of a frame (`find`, `open`, `load`, `enter`, ...) are the
points of `system_execute` and `system_halt` between which a tick makes a
difference; every assignment between two of them is one action. The boot stack
is the stack of pid 0, because both start at the top of the 8 MB kernel page.
`system_vidmap` is two steps, the read of `video_mem` and the store of the entry.
`Init` is `entry()` at its call of `system_execute("shell")`, where `Boot` ends.
The image's text and ELF parsing are abstracted to the choice between a program
that loads, one that is refused, and one whose `read_data` fails.

**LineInput.** The keyboard interrupt is one step, `term_read` is seven, one per
access of the shared `termdata_t`. A letter key stands for all printing keys.

**Drawing, Screen.** A screen is the set of its cells that are not blank and the
cursor. `putc` is three steps: cursor and address, store, and the rest. A cell
number may leave the screen, as the address does in C.

**Files, Syserr.** A byte of the disk is named by its file and position, so that
reading the wrong one shows. The image is any choice of lengths; the blocks of a
file are never contiguous. One PCB is followed through a succession of programs.
Descriptor `FILE_ARRAY_SIZE`, which the calls let through, ends in `crashed`.
`listed` is a history variable. `Syserr` starts the eight tests, one of them or
all, in a PCB that any sequence of programs has used; each of its calls is the
action of `Files` for that call. A name is the characters that tell it from the
others in the first 32.

**Interrupts, Boot, Machine.** The state is the requests and what is in service
at the controllers, the interrupt flag, for each process the handlers its
kernel stack is suspended in, and for each program the point of `rtc_read`
or of the register accesses it is at. A handler is `start` until it has sent its
EOI, then `open` (the RTC's, after `sti`) or `back` (the timer's, switched away
from). Of register A only the divider matters, of register C only whether it was read
since the RTC's last interrupt: the device raises no other before. `rtc_scales`
are the divisors that `rtc_write` computes, and `rtc_count` counts modulo a common
multiple. `due` is a history variable: no `rtc_read` of the process is still
waiting for the first virtual interrupt after its call. `Boot` is one action per
call in `entry`, more where interrupts are enabled within it; its initial
states are every loader and every state of the controllers' masks.

**Memory, Strings, Text, Library.** A byte of memory is named by the address it
came from, or by its place in the value that is set. One step is one turn of
a loop or one repetition of a string instruction, which the direction flag moves
up or down. A buffer is a sequence that may hold a NUL.

**Commands, Grep, Frames, Blink, Programs.** Characters are the few that the code
tells apart: space, newline, NUL, letters. `Commands` follows the
processes of one terminal, which start each other and halt, while those of the
others take and free process numbers; the timer is `Kernel`'s affair. In `Grep`
the buffer is `BUFSIZE + 1` bytes, of which the last is one that nobody wrote. `Frames` ends with the
`add` calls it made, `Blink` takes any sequence of calls. The programs share no
memory, so a behaviour of `Programs` is one of its four parts.

Definitions marked `[seeded fault]` are used by nothing; each replaces the
definition after it to show that the property named in `PROJECT.json` notices.

### Discipline

The code is not safe against everything it allows, and a property that fails
says little about the rest. A module therefore has a CONSTANT (`Discipline`,
`BootDiscipline`, `Rules`) with the assumptions a run makes on timing and use. They guard
the environment (ticks, keys, what users do), never the code's own steps. Dropping
one makes TLC find a violation of the run that assumes it, except where the table says otherwise;
the most telling of these are runs of their own.

| Rule | Meaning | Without it |
|---|---|---|
| `atomic` | no tick inside the windows the commented-out `cli()` would have covered | run `tick_inside` |
| `own_term` | commands start on the displayed terminal, which stays displayed until the child is bound | run `any_terminal` |
| `no_base_exit` | nobody leaves a boot shell | `NeverWild` fails |
| `mapped` | no Alt-Fn between `system_vidmap`'s read of `video_mem` and its store of the entry | `VidmapFollowsTerminal` fails |
| `no_vidmap` | programs do not call `vidmap`; `kernel_live` only | all properties hold, but the run takes four times as long |
| `boot` | no call, key or nested tick before the boot shells are up | `ImplementsSessions` fails |
| `good_shell`, `good_image` | the boot shells load; a file with an ELF header loads | `NeverWild`; `Isolation` fails |
| `no_fault` | no exceptions | the machine stops: deadlock |
| `pause` | no key while the displayed terminal's read copies | `ImplementsLines` fails |
| `fits`, `no_unenter`, `slot` | buffer not overfilled; Enter not erased; the uninitialized `outchar` is 0 | `ImplementsLines` fails |
| `quiet`, `aimed` | no echo inside a `putc` of the same terminal; no switch between its address and its store | `ImplementsScreens`, `NothingAhead` fail |
| `no_tab`, `not_top` | no Tab is typed; no Backspace in the top corner of a wrapped screen | `CursorInside` fails |
| `paced`, `slow_rtc` | timer and keys wait until no interrupt is pending and no handler at work; the RTC until `rtc_handler` is left | `ReadReturns` fails: nothing but interrupts is served |
| `slow_pit` | the first tick comes after the boot | `NoCrash` fails |
| `distinct` | no location is given two blinkers | `BlinkersRight` fails |

Other assumptions are constants or shapes of the input, and stand in the modules'
`ASSUME`s and comments: a first word no longer than `FILE_NAME_SIZE` and a line
shorter than `ARG_SIZE` (what a longer one overwrites is up to the compiler);
in grep, no NUL in a text, a pattern and every line shorter than the buffer, and no newline in the byte
behind it (`Stale`); no blinker at location 0; the loader leaves interrupts
disabled; `memcpy` on buffers that do not overlap, or to lower addresses.

`kernel_anything` runs the kernel with no rule at all.

## 3. Runs

| Run | Instance | Shows |
|---|---|---|
| `kernel` | 5 pids, 3 terminals, all rules but `no_vidmap` | type, `NeverWild`, `Isolation`, `NobodyLost`, `VidmapFollowsTerminal`, refinement of `Sessions` |
| `kernel_live` | 4 pids, 2 terminals, all rules, fair | `RoundRobin`, `CommandStarts`, `ExitReturns`, `MaskedBriefly` |
| `kernel_anything` | 2 pids, 2 terminals, no rule | `OneDisplayed`, `BoundedNesting` |
| `line_input` | 2 terminals, buffer of 2, fair | `AltIsHeld`, `EnterAnswered`, refinement of `Lines` |
| `screen` | 2 terminals, 2 rows of 3 cells | `CursorInside`, `NothingAhead`, `CursorShown`, refinement of `Screens` |
| `files` | 4 descriptors, 2 files up to 2 blocks, then the tests | `ReadsFromStart`, `DirectoryInOrder`, `TestsPass` |
| `machine` | 2 programs, nesting up to 2, fair | `NoCrash`, `GetsToShell`, `NoLineBlocked`, `DividerKept`, `ReadWaits`, `ReadReturns` |
| `library` | 14 bytes, counts up to 9; numbers of 12 bits; strings up to 4 | `MemoryRight`, `NumbersReadBack`, `StringsRight` |
| `programs` | lines up to 4, texts up to 7, pictures up to 4, 3 blinkers | `ShellRight`, `SaysWhenNothingRan`, `TextsRight`, `TextsEnd`, `BlinkersRight` |
| `tick_inside`, `any_terminal` | 4 pids, 3 terminals | a violation each (findings) |
| `sequential_reads` | 4 descriptors, 2 files | a violation (finding) |

What the composed properties stand for: `MachineTypeOK` is both type invariants;
`TestsPass` says that each test passes and leaves no descriptor behind; `StringsRight`
is comparison, copy and reversal; `ShellRight` that the file which the first word names is run and that
one word behind it arrives, with nothing of an earlier program's;
`TextsRight` that grep prints the lines with the pattern, in order, once, and that fish's
blinkers are those of its two pictures; `TextsEnd` that both programs end, and that fish
does not read a file which it has closed; `BlinkersRight` that the list ends and has each taken structure once, that synced
blinkers stay in step and that the screen shows what the blinkers are.

**Bounds.** Five pids on three terminals leave two for commands: nested commands,
commands on two terminals at once, and a full table all occur. With two of each
(`kernel_anything`) the table is full after boot, which every refusal path needs,
and the wild interleavings of boot itself are all there. `pit_count` stops at
`MAX_TERM + 1`: the code only compares it with the numbers up to `MAX_TERM`.
`NestingBound` is 4 for two terminals, the depth of `entry`, its `system_execute`, `schedule` and
the `system_execute` of that one; for three or more it is `MAX_TERM + 1`, since `schedule` is
entered again above itself when a shell that it started over a running program exits
into it, once for each shell it starts. A buffer of two characters is full after a letter and Enter; a read of one is
shorter than a line, a read of two is not. A screen of three columns and two
rows wraps after two characters and scrolls after four; one Tab crosses its edge.
`Prints` in `screen` leaves out `'\n'` and `'\b'`, which keys produce by `echo`,
because all five take minutes; that larger instance passes too. Blocks of two bytes
and files of up to four hold every case of `read_data`: inside a block, to its
end, exactly two blocks, one past. Reads ask for three bytes, `system_execute`
for whole files. Two free descriptors suffice for one to be reused while another is
in use, and for `syserr`'s last test to meet a full table.

Two programs suffice for one to write the registers while the other waits, `MAX_NEST`
of 2 for an interrupt to nest in `rtc_handler` after its `sti`; 1024 Hz is the
frequency with a scale other than 1. Fourteen bytes hold two runs
of nine with every alignment and overlap; nine is bytes to the alignment, a
dword, and bytes left over. Twelve bits are three hexadecimal digits. A buffer of
four characters in grep meets lines that are cut once and twice, and texts of seven
fill it almost twice. Three structures are a head, a middle and a last one.
`MAX_CHAIN` of 2 is a shell in a shell, `MAX_PID` of 4 lets the table be full.

CHECK_DEADLOCK is off where the machine may stop: in `kernel_anything` and the
violation runs, when control is lost or a program faults; in `files`, after a
crash; in `machine`, when the loader is refused; in `programs`, where programs end.

**Fairness.** `kernel_live` assumes SF of `Tick`: the PIC keeps the interrupt
pending, so a tick that can be taken again and again is taken; WF of `schedule`'s
steps, which run masked; and, for each stack, SF of the kernel code on it: a
slice of 27 ms is enough for some progress whenever the processor is back there. Nothing is
assumed of users and programs: they need never call, type or exit.
`line_input` assumes WF of each reader, which is `RoundRobin` of `kernel_live`.
`machine` assumes that the boot's own code goes on (WF), that the
timer and the RTC are periodic devices (SF and WF of their edges), that the
processor accepts an interrupt which it could accept again and again (SF), that
handlers go on (WF), and that a process advances which is given the processor again and
again (SF, `RoundRobin` once more). Keys need not come, programs need not call.
`programs` assumes that the program that runs goes on (WF).

**Findings.** Three disagreements of code and comment have a run: the commented-out
`cli()`; children bound to the displayed instead of the caller's terminal;
`read_data` at an offset. `PROJECT.json` quotes the lines. Others were met on
the way, and are rules or constants of the runs above:

- a boot shell that exits leaves a terminal without a process (`no_base_exit`);
- Shift stays set on a terminal left by Alt-Fn while it was held;
- `runon` is not reset by Enter, so that Backspace at the start of a later line goes up;
- `rtc_open` returns 0 with no descriptor left, and sets the rate only then; with one
  left it does not touch the device;
- `rtc_write` writes `LOWEST_FREQ`, a frequency, where the device expects a rate;
- `fd == FILE_ARRAY_SIZE` passes the checks of `close`, `read` and `write`;
- spaces between two arguments are dropped, and an exit status never reaches `execute`'s caller;
- a file without contents is judged by the header that was read for the last one;
- interrupts are enabled by `init_rtc` and `pit_init`, before the line that says
  "Enable interrupts"; a tick before `init_processes` finds no process (`slow_pit`);
- grep looks at the byte behind a full buffer: if that is a newline, a line is
  printed wrongly (`Stale`);
- a shell started by `schedule` over a running program that exits during the boot returns into that
  `schedule` with interrupts enabled, where the next tick enters it again (`NestingBound`);
- a blinker at location 0 is taken for a free structure by fish's pool, and `sync`
  leaves the follower's `off_char` on the screen.

## 4. Proofs

Eight modules hold the theorems; all but `Induction` are about the module they are named after
(`FilesProof` about `Files` and `Syserr`, `KernelProof` about `Kernel` and `KernelSessions`).
Each theorem holds for every value of the constants that the named assumption of
the module (`KernelAssumption`, `FilesAssumption`, ...) allows, and under the rules of its
`Discipline` that its statement names; where none is named, it needs none.
An invariant's proof is `Init => Inv` and one lemma per action or group of
actions, `Inv /\ [Next]_vars => Inv'`.

**Kernel.** `KernelProof` assumes `MAX_PID >= MAX_TERM >= 2` and no discipline.

- `TypeCorrect`: `TypeOK` is inductive as it stands, because contexts are typed by any
  stack and length: it holds of wild jumps too.
- `DisplayIsExclusive`: `OneDisplayed` needs `TypeOK` for the range of the terminals
  that `term_switch` is given, and that `Displayed` re-establishes it from the
  invariant itself.
- `NestingIsBounded`: `BoundedNesting` needs the shape of every stack (`NestInv`). While
  the kernel boots there is one, of `entry`, with at most a `system_execute` that a tick cuts and a
  `schedule` with its own on it (`BootStacks`). Later a stack is a pile (`Piles`): above its first frame
  stand only frames of `schedule`, each of which has started a shell, and perhaps
  one handler or that shell's `system_execute` on top, during which no tick comes. A
  `schedule` can be cut by such an entry only after it has started a shell, so one at height d
  has `d <= pit_count + 1` and `d <= MAX_TERM`: that bounds the pile. After a
  wild jump the model stops, so the last stacks need only their bound.

The theorems on isolation need `Needed`, the rules that the run `kernel` keeps. What makes
`NeverWild` hard is that a context saved in one place is loaded much later in
another: nothing about the running process says that it is still good. The
invariant `IInv` therefore describes all stacks at once:

- `Shape` lists the stacks that the running process can have, with the interrupt flag;
  `Running_process` and `Mapping` say whose it is and whose page, vidmap entry and
  TSS are in place, inside `system_execute` and `system_halt` as well, where
  these change one after the other (`Coming`, `Going`, `Mapped`);
- `Parked`: a process on top of a terminal that does not run was left by `schedule` or is
  at a place where a tick may cut it, so its saved pair ends in a `schedule` frame
  which is still there;
- `Linked`: every other process waits in `system_execute`, and the pair its child saved
  for it is that frame; `Lineage`: it is nobody else's parent, and who is not on top of a
  terminal has a child, so nobody is forgotten; `Rooted`: the boot shell of a terminal stays;
- `Calls`: a call that a tick may cut still has its pid and terminal when it goes on;
- `Boot`: during the boot `pit_count` says which shells there are and which pids are taken,
  or the first tick that does not spawn would load a context which nobody saved.

From it follow `ContextsAreLive` (`NeverWild`), `ProcessesAreIsolated` (`Isolation`),
`VidmapIsOwn` (`VidmapFollowsTerminal`) and `NobodyIsLost` (`NobodyLost`).
`SessionsAreKept` is the step simulation of `Sessions`: `ExecEnter` is `Launch`, or `Boot`
when a tick or `entry` started it; `HaltFree` is `Exit`; `ScheduleSwitch` is `NextTurn`; all
other steps stutter. It needs one invariant more, `Turns`: that
`schedule_counter` is the terminal of the running process, and that before
`pit_count` reaches `MAX_TERM` it is the number of shells. `ProgramsAreStacked` carries
over to the kernel what `Sessions` itself keeps (`Stacked`, with `Layers` as its inductive
form): tops are different, no two programs return to the same one, parents are alive.

**Machine.** `MachineProof` proves, for every number of processes, set of frequencies, bound on
nesting and timing of the devices (`Discipline` and `BootDiscipline` arbitrary):

- `Invariance`: `NoLineBlocked` alone is not inductive: when a handler
  returns, what matters is whether the one below it still has its EOI ahead.
  `StartsMasked` excludes that: such a handler is the innermost
  of the running process and interrupts are masked, so nothing nests on it and
  nobody is switched to with one. In the same way `SectionMasked` keeps handlers out
  of the section between `cli` and `sti`, so that `SelectedA`, that the index
  port and the copy of register A are what the program left there, survives;
  and `FlagIsDue` ties a set flag to an interrupt after the call. `NotYet` lets the boot,
  which also changes the interrupt flag, keep all of them.
- `LinesAreOpen` (`NoLineBlocked`), `DividerSurvives` (`DividerKept`) and
  `ReadsWait` (`ReadWaits`, an action property) follow. TLC needs the rules
  `paced` and `slow_rtc` for a finite, live instance; these theorems do not.
- `MachineTypes`; and `NothingLeftOut`, the safety half of `GetsToShell`: where the boot ends,
  paging is on, every part is set up and the kernel's copies of the masks are the
  controllers'. Its invariant says for each part from which step on it is there.
- `NothingMissing`: `NoCrash` if `BootDiscipline` is `{"slow_pit"}`, with an
  invariant of its own (`Prepared`): what each later step of the boot can rely on,
  and that interrupts are enabled only from the first of these on.

**Screen.** `ScreenProof` holds for every size of screen, any number of terminals and
pages, and any characters.

- `CursorIsShown` needs no discipline: whatever moves the displayed terminal's cursor, or
  displays another terminal, also tells the VGA, or leaves that to the last step of a `putc`.
- `CursorStaysInside` needs `no_tab` and `not_top`. In the middle of a `putc` the column may
  be off the right edge by a tab, which its last step takes back, whatever echoes
  come in between: `Positions` is that.
- `ScreenTypes` also says that nothing is stored more than one row below the screen,
  if a tab is no wider than a row.
- `ScreensAreOwn`, the refinement of `Screens`, needs `quiet` and `aimed`: under these the
  address that `putc` computed is still that of its cursor when it stores
  (`AimStands`), so a `putc` is done as one from its first step on.
- `NothingIsAhead` needs all rules, and `BACK2` 2 as in `lib.h`: going back across a line
  end must land on the last cell of text, or the next character lands one ahead.
  `Text` says for each point of `putc` whether the cell of the cursor may be used.

**LineInput.** `LineInputProof` holds for every number of terminals, buffer and read size.
`LineTypes` (no key is stored and no byte read outside of the buffer) and `AltIsTrue`
(`AltIsHeld`) need no discipline. `LinesAreRead`, the refinement of `Lines`, needs `Rules`;
its invariant `ReadInv` says for each label of `term_read` how much of the line is copied, and that
`enter_pressed` and `buflen` still mean what they did when the read looked.

**Files and Syserr.** `FilesProof` holds for every image, block size, number of descriptors
and read size, under any programs and the tests. `FilesInv` is the types, `Listing`
(a descriptor on the directory has listed exactly the names before its position)
and `Exhausted` (where `dread` said that there is no other name, there is none), which `DirectoryInOrder`
needs because the answer 0 outlives the position. `FilesAreRead` is about the
loop of `read_data`: after k turns it has copied the first k blocks, or is done.
`TestsAllPass` has a second invariant, `TestInv`: at each call of a script, which
descriptors are open; `err_open_lots` closes them in the order in which it opened them.

**Library.** `LibraryProof` proves `MemoryIsRight` for every size, count, alignment and
overlap and either direction flag: `MemInv` says that the bytes which the
registers have passed are as asked for, all others as before, and that what is
left is what the counts say; the alignment to 4 and the rounding down are where it could be off by one.
`NumbersAreReadBack` follows `itoa` digit by digit and `strrev` swap by swap, for words of any
number of bits, the lowest negative number included. `StringsAreRight` is comparison, copy, reversal.

**Programs.** `ProgramsProof` proves the four programs one by one; none of their variables
is another's, so a step of one leaves the invariants of the others.

- `BlinkersAreRight`: that the list of `blink.S` ends and has the taken structures once each is
  not inductive over `next` fields. `PoolOK` names the list instead: there is a
  sequence of different nodes that begins at the head, follows `next` and is exactly what is taken
  (`ListOf`). `mp1_ioctl_add` puts a node before it, `mp1_ioctl_remove` takes its head, or a node after
  some other, out of it, and both may use that no two taken structures have one location. Assumed is
  `FishDraws`: the rule `distinct`, and no blinker at location 0. fish's locations begin at its offset.
- `ShellRunsNamed` (`ShellRight`): `SplitIs`, `UnspacedIs` and `SameName` say what the loops of
  `system_execute` compute, for every line: the first word, the rest without spaces,
  and that comparing with `strncmp` finds the file of that name. `CommandsInv` carries this
  from the line of a shell through the PCB to the program. Assumed is `FilesHold`, that no file of
  the image is empty: reading an empty one copies nothing, and the header that `executable` still has
  from the program before it decides. None of those in `fsdir` is empty.
- `ShellSaysSo` (`SaysWhenNothingRan`) needs also `NamesDiffer`, that no name is in the directory twice,
  and `ShellsFit`, `MAX_PID <= MAX_SHELLS + 1`; in the code these are 6 and 5. Its invariant `AnswersInv`
  says that every shell which waits for a program had a line that could be run.
- `TextsAreRight` (`TextsRight`), grep: `Found` goes through the file once, character by character, and
  `GrepInv` says that what is printed is what it has found up to where the buffer is
  searched, that a line begins there, and that the buffer from there on is the file up to `fpos`. The
  move of a cut line keeps all three, as `data[LineEnd]` becomes NUL first. Assumed is
  `CleanStack`, that no newline is in the byte behind the buffer; the file has no line that fills it.
- `TextsAreRight`, the pictures: the two files need not agree on rows or on where they end. `FrameInv` says
  for each file whether its next character is still to be read (`Ready`), is in `c`
  (`Got`), or its row is over (`Ended`), in terms of `Places`, the row and column of
  each character; and that the blinkers added are those of the cells before the current one, in the
  order of their locations (`Drawn`). It needs no assumption.
- `ClosedIsNotRead`, the action property in `TextsEnd`: `closed` implies `eof`, and `eof` that `c` stays a newline.
- `TextsRunOut`: each step of grep lowers the pair `ReadsLeft`, `LinesLeft`, each step of fish's reading
  lowers `PicturesLeft`, all natural numbers. A turn of the latter in which one file waits at the end of
  its row must read the other (`Reads`). With the fairness of `ProgramsSpec`, and that some step
  is possible until the end, `TextsEnd` follows; that last conclusion needs ENABLED.

**Induction.** The library's induction theorems take an operator as a parameter, which
the installed provers cannot instantiate. `Induction` states them over a set of
numbers instead, from the well-foundedness of `<` on `Nat`: least elements, induction, induction
from all smaller numbers, and that a function defined by recursion over the
naturals exists and is what its definition says. With it the loops that `Strings`, `Text` and
`Files` write as recursive functions (`LET loop[k \in Nat] == ...`) are proved for all inputs.

**Only model-checked.**

- Liveness, and what rests on fairness or ENABLED: `RoundRobin`, `CommandStarts`,
  `ExitReturns`, `MaskedBriefly`, `EnterAnswered`, `ReadReturns`, `GetsToShell`, and that grep and the
  reading of pictures end (`TextsEnd`). That is out of the prover's reach.
- The three properties that fail, each of which needs only its counterexample.

## 5. Not modelled

- `set_handler` and `sigreturn`, which only return.
- The bits of descriptors, page tables and gates beyond presence and privilege; the TLB.
- printf's scan of its format and `puts`, which are loops over `putc`; `test_interrupts` and
  `disable_irq`, which nothing calls.
- hello, counter, pingpong, sigtest and testprint: straight-line
  calls that other modules have, or signals, which the kernel does not have.
  `ece391emulate.c` is a harness that runs the programs on Linux.
- The kernel's own tests (`tests.c`), whose launch is commented out.
- The makefiles, the tool that builds the image, the contents of its files.
- Character codes, attributes and the scancode tables are abstracted as said above.

## 6. Plan

Done: everything in the table of modules, and the proof of every safety property that a passing run
checks. What is left is `Console`: `LineInput` and `Screen` over one `termdata_t`, so that Backspace is
bounded by the buffer and the prompt cannot be erased except by type-ahead.
