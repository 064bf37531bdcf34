------------------------------- MODULE Kernel -------------------------------
(***************************************************************************)
(* Processes, the round-robin scheduler, the terminals a process belongs   *)
(* to and the page mapping it runs under:                                  *)
(*   student-distrib/system_execute.c  system_execute, system_halt         *)
(*   student-distrib/schedule.c, pit.c the timer tick and schedule()       *)
(*   student-distrib/terminal.c        term_switch                         *)
(*                                                                         *)
(* There is one processor.  A process is either in user mode or somewhere  *)
(* in the kernel; how deep it is in the kernel is its kernel stack, a      *)
(* sequence of frames, innermost last.  The C code saves a pair            *)
(* (ebp, esp) and later loads it back and returns; the pair is modelled by *)
(* a context: which stack, how many frames, and whose frame was on top.    *)
(* System calls run with interrupts enabled (the 0x80 gate is a trap       *)
(* gate), so the timer can cut system_execute and system_halt at every     *)
(* label below; schedule itself runs with interrupts masked.               *)
(*                                                                         *)
(* Definitions marked [seeded fault] are faulty variants of the one that   *)
(* follows; nothing uses them, they show which property notices the fault. *)
(***************************************************************************)
EXTENDS Integers, Sequences, FiniteSets

CONSTANTS
    MAX_PID,      \* processes (6 in rtc.h)
    MAX_TERM,     \* terminals, and shells started at boot (3 in terminal.h)
    Discipline    \* assumptions on timing and use that a run makes

Rules == { "atomic",       \* no tick inside the windows of the commented-out cli()
           "own_term",     \* commands start on the displayed terminal, which
                           \* stays displayed until the child is bound to it
           "mapped",       \* no Alt-Fn while system_vidmap has read video_mem and
                           \* not yet stored the entry
           "no_vidmap",    \* programs do not call vidmap
           "boot",         \* users wait until the boot shells are up
           "no_base_exit", \* nobody leaves a boot shell
           "good_shell",   \* schedule and entry() find and load "shell"
           "good_image",   \* a file that passes the ELF check loads
           "no_fault" }    \* programs raise no exception

ASSUME KernelAssumption ==
    /\ MAX_TERM \in Nat /\ MAX_TERM >= 2
    /\ MAX_PID \in Nat /\ MAX_PID >= MAX_TERM
    /\ Discipline \subseteq Rules

KERNEL == -1                      \* the pid that stands for the kernel itself
VIDEO  == 0                       \* the displayed page; t+1 is the backing page of t
Pids   == 0 .. (MAX_PID - 1)
Terms  == 0 .. (MAX_TERM - 1)
Owners == Pids \cup {KERNEL}
BasePids == 0 .. (MAX_TERM - 1)   \* copy_curr_pid <= 2: pids of the boot shells

Functions == {"entry", "schedule", "system_execute", "system_halt", "system_vidmap",
              "exception"}
Labels == {"tick", "spawned",                               \* schedule
           "find", "open", "load", "enter", "flag", "wait", \* system_execute
           "free", "unmap", "pop", "switch", "jump", "spin",\* system_halt, exception
           "store",                                         \* system_vidmap
           "main"}                                          \* entry
Frame   == {f \in [fn : Functions, at : Labels, pid : Owners] :
              f.fn = "system_vidmap" => f.pid \in Terms \cup {KERNEL}}
Context == [stk : Owners, len : Nat, fn : Functions \cup {"none"}]
NoContext == [stk |-> KERNEL, len |-> 0, fn |-> "none"]  \* a zeroed PCB

VARIABLES
    curr_pid, free_pid, parent_pid, parent_k, my_k,  \* globals and PCBs
    pid_to_term, top_pid, curr_term, video_mem,      \* terminals
    pit_count, shells_done, schedule_counter,        \* pit.c, schedule.c
    user_page, vid_page,                             \* page directory and vidmap entry
    esp0, kstk, cpu, ifl,                            \* TSS, stacks, running stack, IF
    wild                                             \* control is lost, see Jump

procVars  == <<free_pid, parent_pid, parent_k, my_k, pid_to_term, top_pid>>
termVars  == <<curr_term, video_mem>>
clockVars == <<pit_count, shells_done, schedule_counter>>
pageVars  == <<user_page, vid_page>>
cpuVars   == <<kstk, cpu, ifl, wild>>
vars == <<curr_pid, procVars, termVars, clockVars, pageVars, esp0, cpuVars>>

TypeOK ==
    /\ curr_pid \in Owners
    /\ free_pid \in [Pids -> BOOLEAN]
    /\ parent_pid \in [Owners -> Owners]
    /\ parent_k \in [Owners -> Context]
    /\ my_k \in [Owners -> Context]
    /\ pid_to_term \in [Pids -> Terms]
    /\ top_pid \in [Terms -> Owners]
    /\ curr_term \in Terms
    /\ video_mem \in [Terms -> 0 .. MAX_TERM]
    /\ pit_count \in 0 .. (MAX_TERM + 1)
    /\ shells_done \in BOOLEAN
    /\ schedule_counter \in Terms
    /\ user_page \in Owners
    /\ vid_page \in -1 .. MAX_TERM
    /\ esp0 \in [stk : Owners, len : Nat]
    /\ kstk \in [Owners -> Seq(Frame)]
    /\ cpu \in Owners
    /\ ifl \in BOOLEAN
    /\ wild \in BOOLEAN

-----------------------------------------------------------------------------
(* Stacks and contexts *)

Depth  == Len(kstk[cpu])
InUser == ~wild /\ kstk[cpu] = <<>>
Top    == kstk[cpu][Depth]

\* The processor is in kernel function fn at the given label.
At(fn, label) ==
    /\ ~wild /\ kstk[cpu] # <<>>
    /\ Top.fn = fn /\ Top.at = label

\* (ebp, esp) of the running function.
Here == [stk |-> cpu, len |-> Depth, fn |-> Top.fn]

Keep(s, n) == IF Len(s) <= n THEN s ELSE SubSeq(s, 1, n)

\* A trap or interrupt: from user mode the processor starts at tss.esp0, from
\* kernel mode it pushes on the stack it is on.
EnterKernel(frame) ==
    LET stk  == IF InUser THEN esp0.stk ELSE cpu
        keep == IF InUser THEN Keep(kstk[stk], esp0.len) ELSE kstk[stk]
    IN  /\ kstk' = [kstk EXCEPT ![stk] = Append(keep, frame)]
        /\ cpu' = stk

\* The running function moves on to a label, with pid its local process id.
Goto(label, pid) ==
    kstk' = [kstk EXCEPT ![cpu][Depth] = [Top EXCEPT !.at = label, !.pid = pid]]

\* Loads ebp and esp from a context and returns from the function whose frame
\* they point to.  Control is lost if that frame is gone, or if the return ends
\* in a program that is not the one the kernel takes for current.
Live(c, stacks) == c.len \in 1 .. Len(stacks[c.stk]) /\ stacks[c.stk][c.len].fn = c.fn
Current(p) == p = curr_pid' /\ p = esp0'.stk

Jump(c, stacks) ==
    IF Live(c, stacks) /\ (c.len = 1 => Current(c.stk))
    THEN /\ kstk' = [stacks EXCEPT ![c.stk] = SubSeq(@, 1, c.len - 1)]
         /\ cpu' = c.stk
         /\ ifl' = (ifl \/ c.fn = "schedule" \/ c.len = 1)  \* iret reloads eflags
         /\ UNCHANGED wild
    ELSE /\ wild' = TRUE
         /\ UNCHANGED <<kstk, cpu, ifl>>

Resume(c) == Jump(c, kstk)

\* return from the running function.
Return == Resume(Here)

\* pid_to_term is indexed with -1 while the kernel itself is current: any value.
TermsOf(p) == IF p \in Pids THEN {pid_to_term[p]} ELSE Terms

\* [seeded fault] the terminal that leaves the display keeps its video_mem.
Displayed_keeps_old(t) == [video_mem EXCEPT ![t] = VIDEO]

\* terminals[].video_mem after term_switch(t).
Displayed(t) ==
    IF t = curr_term THEN video_mem
    ELSE [video_mem EXCEPT ![curr_term] = curr_term + 1, ![t] = VIDEO]

\* [seeded fault] term_switch forgets the vidmap entry.
term_switch_no_remap(t) ==
    curr_term' = t /\ video_mem' = Displayed(t) /\ vid_page' = vid_page

term_switch(t) ==
    /\ curr_term' = t
    /\ video_mem' = Displayed(t)
    /\ vid_page' \in IF t = curr_term THEN {vid_page}
                     ELSE {Displayed(t)[u] : u \in TermsOf(curr_pid)}

setup_paging(p) ==
    /\ user_page' = p        \* -1: the user page is not present
    /\ vid_page' = IF p = KERNEL THEN vid_page ELSE video_mem[pid_to_term[p]]

pid_to_ksb(p) == [stk |-> p, len |-> 0]

\* [seeded fault] the loop's index is returned when no process is free.
find_free_process_index ==
    IF \E p \in Pids : free_pid[p]
    THEN CHOOSE p \in Pids : free_pid[p] /\ \A q \in Pids : free_pid[q] => p <= q
    ELSE MAX_PID

find_free_process ==
    IF \E p \in Pids : free_pid[p]
    THEN CHOOSE p \in Pids : free_pid[p] /\ \A q \in Pids : free_pid[q] => p <= q
    ELSE KERNEL

-----------------------------------------------------------------------------
(* The state in which the kernel's entry() calls system_execute("shell"):  *)
(* its boot stack is the kernel stack of process 0.                        *)

Init ==
    /\ curr_pid = KERNEL
    /\ free_pid = [p \in Pids |-> TRUE]
    /\ parent_pid = [p \in Owners |-> 0]
    /\ parent_k = [p \in Owners |-> NoContext]
    /\ my_k = [p \in Owners |-> NoContext]
    /\ pid_to_term = [p \in Pids |-> 0]
    /\ top_pid = [t \in Terms |-> 0]
    /\ curr_term = 0
    /\ video_mem = [t \in Terms |-> IF t = 0 THEN VIDEO ELSE t + 1]
    /\ pit_count = 0
    /\ shells_done = FALSE
    /\ schedule_counter = MAX_TERM - 1
    /\ user_page = KERNEL
    /\ vid_page = -1
    /\ esp0 = [stk |-> 0, len |-> 0]
    /\ kstk = [p \in Owners |->
                 IF p # 0 THEN <<>>
                 ELSE << [fn |-> "entry", at |-> "main", pid |-> KERNEL],
                         [fn |-> "system_execute", at |-> "find", pid |-> KERNEL] >>]
    /\ cpu = 0
    /\ ifl = TRUE
    /\ wild = FALSE

-----------------------------------------------------------------------------
(* The assumptions of Discipline.  They are not guards of the code: a run  *)
(* whose Discipline lacks a rule lets the code do without it.              *)

Rule(r) == r \in Discipline
Frames == UNION {{kstk[s][i] : i \in 1 .. Len(kstk[s])} : s \in Owners}

Starting == \E f \in Frames : f.at \in {"find", "open", "load", "enter", "flag"}
Critical == \E f \in Frames : f.at \in {"load", "enter", "flag",
                                        "unmap", "pop", "switch", "jump"}

TickAllowed ==
    /\ Rule("atomic") => ~Critical
    /\ Rule("boot") => (pit_count >= MAX_TERM \/ ~Starting)
ExecuteAllowed ==
    /\ Rule("own_term") => curr_term \in TermsOf(curr_pid)
    /\ Rule("boot") => pit_count >= MAX_TERM
SwitchAllowed ==
    /\ Rule("own_term") => ~\E f \in Frames : f.at \in {"find", "open"}
    /\ Rule("mapped") => ~\E f \in Frames : f.at = "store"
    /\ Rule("boot") => curr_pid # KERNEL
VidmapAllowed ==
    /\ ~Rule("no_vidmap")
    /\ Rule("boot") => pit_count >= MAX_TERM
HaltAllowed ==
    /\ Rule("no_base_exit") => curr_pid \notin BasePids
    /\ Rule("boot") => pit_count >= MAX_TERM
\* Only entry() and schedule call system_execute from deeper down.
LoadMayFail == Rule("good_shell") => Depth = 1

-----------------------------------------------------------------------------
(* The timer *)

\* [seeded fault] vector 0x20 is a trap gate: IF stays set.
Tick_nests ==
    /\ ~wild /\ ifl /\ TickAllowed
    /\ pit_count' = IF pit_count > MAX_TERM THEN pit_count ELSE pit_count + 1
    /\ EnterKernel([fn |-> "schedule", at |-> "tick", pid |-> KERNEL])
    /\ UNCHANGED <<curr_pid, procVars, termVars, shells_done, schedule_counter,
                   pageVars, esp0, ifl, wild>>

\* The interrupt, pit_handler up to its call of schedule.
Tick ==
    /\ ~wild /\ ifl /\ TickAllowed
    /\ pit_count' = IF pit_count > MAX_TERM THEN pit_count ELSE pit_count + 1
    /\ EnterKernel([fn |-> "schedule", at |-> "tick", pid |-> KERNEL])
    /\ ifl' = FALSE
    /\ UNCHANGED <<curr_pid, procVars, termVars, shells_done, schedule_counter,
                   pageVars, esp0, wild>>

MustSpawn == pit_count < MAX_TERM /\ ~shells_done

\* The first ticks start one shell on each further terminal.
ScheduleSpawn ==
    /\ At("schedule", "tick") /\ MustSpawn
    /\ term_switch(pit_count)
    /\ shells_done' = (shells_done \/ pit_count = MAX_TERM - 1)
    /\ kstk' = [kstk EXCEPT ![cpu] = Append([@ EXCEPT ![Depth].at = "spawned"],
                  [fn |-> "system_execute", at |-> "find", pid |-> KERNEL])]
    /\ UNCHANGED <<curr_pid, procVars, pit_count, schedule_counter, user_page,
                   esp0, cpu, ifl, wild>>

\* [seeded fault] the scheduler does not advance; the scheduler skips one.
NextTurn_stuck == schedule_counter
NextTurn_skips == (schedule_counter + 2) % MAX_TERM

NextTurn == (schedule_counter + 1) % MAX_TERM

\* The rest of schedule: on to the top process of the next terminal.
ScheduleSwitch ==
    /\ At("schedule", "spawned") \/ (At("schedule", "tick") /\ ~MustSpawn)
    /\ LET next  == top_pid[NextTurn]
           shown == IF pit_count = MAX_TERM THEN 0 ELSE curr_term
       IN  /\ schedule_counter' = NextTurn
           /\ curr_term' = shown
           /\ video_mem' = Displayed(shown)
           /\ user_page' = next
           /\ IF next = KERNEL
              THEN vid_page' \in IF shown = curr_term THEN {vid_page}
                                 ELSE {Displayed(shown)[u] : u \in TermsOf(curr_pid)}
              ELSE vid_page' = Displayed(shown)[pid_to_term[next]]
           /\ my_k' = [my_k EXCEPT ![curr_pid] = Here]
           /\ esp0' = pid_to_ksb(next)
           /\ curr_pid' = next
           /\ Resume(my_k'[next])
    /\ UNCHANGED <<free_pid, parent_pid, parent_k, pid_to_term, top_pid,
                   pit_count, shells_done>>

-----------------------------------------------------------------------------
(* system_execute *)

SyscallExecute ==
    /\ InUser /\ ExecuteAllowed
    /\ EnterKernel([fn |-> "system_execute", at |-> "find", pid |-> KERNEL])
    /\ UNCHANGED <<curr_pid, procVars, termVars, clockVars, pageVars, esp0, ifl, wild>>

\* A free pid is chosen, not yet taken, and given to the displayed terminal.
ExecPick ==
    /\ At("system_execute", "find")
    /\ find_free_process # KERNEL
    /\ pid_to_term' = [pid_to_term EXCEPT ![find_free_process] = curr_term]
    /\ Goto("open", find_free_process)
    /\ UNCHANGED <<curr_pid, free_pid, parent_pid, parent_k, my_k, top_pid, termVars,
                   clockVars, pageVars, esp0, cpu, ifl, wild>>

\* [seeded fault] a full process table is not reported.
ExecReject_never_full ==
    /\ At("system_execute", "open") /\ LoadMayFail
    /\ UNCHANGED <<curr_pid, procVars, termVars, clockVars, pageVars, esp0>>
    /\ Return

\* No free process, or no such file, or not an ELF file: -1 to the caller.
ExecReject ==
    /\ \/ At("system_execute", "find") /\ find_free_process = KERNEL
       \/ At("system_execute", "open") /\ LoadMayFail
    /\ UNCHANGED <<curr_pid, procVars, termVars, clockVars, pageVars, esp0>>
    /\ Return

\* The child becomes the top of the displayed terminal, its page is mapped.
ExecBind ==
    /\ At("system_execute", "open")
    /\ top_pid' = [top_pid EXCEPT ![curr_term] = Top.pid]
    /\ setup_paging(Top.pid)
    /\ Goto("load", Top.pid)
    /\ UNCHANGED <<curr_pid, free_pid, parent_pid, parent_k, my_k, pid_to_term, termVars,
                   clockVars, esp0, cpu, ifl, wild>>

\* read_data fails: -1 to the caller, the terminal and the page stay the child's.
ExecLoadFail ==
    /\ At("system_execute", "load") /\ ~Rule("good_image") /\ LoadMayFail
    /\ UNCHANGED <<curr_pid, procVars, termVars, clockVars, pageVars, esp0>>
    /\ Return

\* [seeded fault] create_pcb forgets parent_pid.
ExecLink_no_parent ==
    /\ At("system_execute", "load")
    /\ parent_k' = [parent_k EXCEPT ![Top.pid] = Here]
    /\ my_k' = [my_k EXCEPT ![curr_pid] = Here]
    /\ Goto("enter", Top.pid)
    /\ UNCHANGED <<curr_pid, free_pid, parent_pid, pid_to_term, top_pid, termVars,
                   clockVars, pageVars, esp0, cpu, ifl, wild>>

\* create_pcb, and the way back from the child to this frame.
ExecLink ==
    /\ At("system_execute", "load")
    /\ parent_pid' = [parent_pid EXCEPT ![Top.pid] = curr_pid]
    /\ parent_k' = [parent_k EXCEPT ![Top.pid] = Here]
    /\ my_k' = [my_k EXCEPT ![curr_pid] = Here]
    /\ Goto("enter", Top.pid)
    /\ UNCHANGED <<curr_pid, free_pid, pid_to_term, top_pid, termVars, clockVars,
                   pageVars, esp0, cpu, ifl, wild>>

ExecSwitch ==
    /\ At("system_execute", "enter")
    /\ esp0' = pid_to_ksb(Top.pid)
    /\ curr_pid' = Top.pid
    /\ Goto("flag", Top.pid)
    /\ UNCHANGED <<procVars, termVars, clockVars, pageVars, cpu, ifl, wild>>

\* [seeded fault] the program is entered without orl $0x0200 on its flags.
ExecEnter_masked ==
    /\ At("system_execute", "flag")
    /\ free_pid' = [p \in Pids |-> free_pid[p] /\ p # curr_pid]
    /\ kstk' = [kstk EXCEPT ![cpu][Depth].at = "wait", ![Top.pid] = <<>>]
    /\ cpu' = Top.pid
    /\ UNCHANGED <<curr_pid, parent_pid, parent_k, my_k, pid_to_term, top_pid, termVars,
                   clockVars, pageVars, esp0, ifl>>
    /\ wild' = ~Current(Top.pid)

\* The pid is taken and iret enters the program: the frame stays behind,
\* waiting for the child to jump to ret_exec_label.
ExecEnter ==
    /\ At("system_execute", "flag")
    /\ free_pid' = [p \in Pids |-> free_pid[p] /\ p # curr_pid]
    /\ kstk' = [kstk EXCEPT ![cpu][Depth].at = "wait", ![Top.pid] = <<>>]
    /\ cpu' = Top.pid
    /\ ifl' = TRUE
    /\ UNCHANGED <<curr_pid, parent_pid, parent_k, my_k, pid_to_term, top_pid, termVars,
                   clockVars, pageVars, esp0>>
    /\ wild' = ~Current(Top.pid)

-----------------------------------------------------------------------------
(* system_halt.  The frame's pid is the local copy of curr_pid and names the *)
(* PCB that current_pcb points to.                                          *)

SyscallHalt ==
    /\ InUser /\ HaltAllowed
    /\ EnterKernel([fn |-> "system_halt", at |-> "free", pid |-> curr_pid])
    /\ UNCHANGED <<curr_pid, procVars, termVars, clockVars, pageVars, esp0, ifl, wild>>

HaltFree ==
    /\ At("system_halt", "free")
    /\ free_pid' = [p \in Pids |-> free_pid[p] \/ p = curr_pid]
    /\ wild' = (curr_pid = KERNEL)   \* free_pid[-1] is some other variable
    /\ Goto("unmap", Top.pid)
    /\ UNCHANGED <<curr_pid, parent_pid, parent_k, my_k, pid_to_term, top_pid, termVars,
                   clockVars, pageVars, esp0, cpu, ifl>>

\* [seeded fault] the parent's page is not mapped again.
HaltUnmap_keeps_page ==
    /\ At("system_halt", "unmap")
    /\ esp0' = [stk |-> parent_k[curr_pid].stk, len |-> parent_k[curr_pid].len]
    /\ Goto("pop", Top.pid)
    /\ UNCHANGED <<curr_pid, procVars, termVars, clockVars, pageVars, cpu, ifl, wild>>

\* setup_paging(parent) and restore_tss.
HaltUnmap ==
    /\ At("system_halt", "unmap")
    /\ setup_paging(parent_pid[Top.pid])
    /\ esp0' = [stk |-> parent_k[curr_pid].stk, len |-> parent_k[curr_pid].len]
    /\ Goto("pop", Top.pid)
    /\ UNCHANGED <<curr_pid, procVars, termVars, clockVars, cpu, ifl, wild>>

\* [seeded fault] the terminal keeps the dead process as its top.
HaltPop_keeps_top ==
    /\ At("system_halt", "pop")
    /\ Goto("switch", Top.pid)
    /\ UNCHANGED <<curr_pid, procVars, termVars, clockVars, pageVars, esp0, cpu, ifl, wild>>

HaltPop ==
    /\ At("system_halt", "pop")
    /\ \E t \in TermsOf(curr_pid) :
          top_pid' = [top_pid EXCEPT ![t] = parent_pid[Top.pid]]
    /\ Goto("switch", Top.pid)
    /\ UNCHANGED <<curr_pid, free_pid, parent_pid, parent_k, my_k, pid_to_term, termVars,
                   clockVars, pageVars, esp0, cpu, ifl, wild>>

\* [seeded fault] copy_curr_pid <= 3.
HaltSwitch_spins_one_more ==
    /\ At("system_halt", "switch")
    /\ curr_pid' = parent_pid[Top.pid]
    /\ Goto(IF Top.pid <= MAX_TERM THEN "spin" ELSE "jump", Top.pid)
    /\ UNCHANGED <<procVars, termVars, clockVars, pageVars, esp0, cpu, ifl, wild>>

\* A boot shell has nobody to return to and spins, interrupts enabled.
HaltSwitch ==
    /\ At("system_halt", "switch")
    /\ curr_pid' = parent_pid[Top.pid]
    /\ Goto(IF Top.pid \in BasePids THEN "spin" ELSE "jump", Top.pid)
    /\ UNCHANGED <<procVars, termVars, clockVars, pageVars, esp0, cpu, ifl, wild>>

\* jmp ret_exec_label on the parent's frame; the stack left behind is dead.
HaltJump ==
    /\ At("system_halt", "jump")
    /\ UNCHANGED <<curr_pid, procVars, termVars, clockVars, pageVars, esp0>>
    /\ Jump(parent_k[Top.pid], [kstk EXCEPT ![cpu] = SubSeq(@, 1, Depth - 1)])

-----------------------------------------------------------------------------
(* system_vidmap, for a pointer in the user's page.  The frame's pid is the *)
(* local phys_addr: the terminal whose backing page it is, KERNEL for the   *)
(* display.                                                                 *)

SyscallVidmap ==
    /\ InUser /\ VidmapAllowed
    /\ \E t \in TermsOf(curr_pid) :
          EnterKernel([fn |-> "system_vidmap", at |-> "store", pid |-> video_mem[t] - 1])
    /\ UNCHANGED <<curr_pid, procVars, termVars, clockVars, pageVars, esp0, ifl, wild>>

VidmapStore ==
    /\ At("system_vidmap", "store")
    /\ vid_page' = Top.pid + 1
    /\ UNCHANGED <<curr_pid, procVars, termVars, clockVars, user_page, esp0>>
    /\ Return

-----------------------------------------------------------------------------
(* The keyboard's Alt-Fn, and a program's exception: its handler prints the *)
(* exception's name and loops, behind an interrupt gate.                    *)

KeySwitch(t) ==
    /\ ~wild /\ ifl /\ SwitchAllowed
    /\ t # curr_term
    /\ term_switch(t)
    /\ UNCHANGED <<curr_pid, procVars, clockVars, user_page, esp0, cpuVars>>

Fault ==
    /\ InUser /\ ~Rule("no_fault")
    /\ EnterKernel([fn |-> "exception", at |-> "spin", pid |-> curr_pid])
    /\ ifl' = FALSE
    /\ UNCHANGED <<curr_pid, procVars, termVars, clockVars, pageVars, esp0, wild>>

-----------------------------------------------------------------------------

ScheduleStep == ScheduleSpawn \/ ScheduleSwitch
ExecuteStep == ExecPick \/ ExecReject \/ ExecBind \/ ExecLoadFail \/ ExecLink
               \/ ExecSwitch \/ ExecEnter
HaltStep == HaltFree \/ HaltUnmap \/ HaltPop \/ HaltSwitch \/ HaltJump
KernelStep == ScheduleStep \/ ExecuteStep \/ HaltStep \/ VidmapStore

Next == \/ Tick
        \/ KernelStep
        \/ SyscallExecute
        \/ SyscallHalt
        \/ SyscallVidmap
        \/ \E t \in Terms : KeySwitch(t)
        \/ Fault

Spec == Init /\ [][Next]_vars

\* The PIC keeps a timer interrupt pending until it is taken, and a slice of
\* 27 ms is long enough for the code on any one stack to advance each time the
\* processor is back on it.  Programs, keys and faults are never obliged.
Fairness == /\ SF_vars(Tick)
            /\ WF_vars(ScheduleStep)
            /\ \A s \in Owners : SF_vars(cpu = s /\ (ExecuteStep \/ HaltStep \/ VidmapStore))
FairSpec == Spec /\ Fairness

-----------------------------------------------------------------------------
(* What must hold *)

\* Every saved (ebp, esp) the kernel loads still belongs to the process it
\* resumes: schedule, system_execute and system_halt never return through a
\* dead frame or into another process's program.
NeverWild == ~wild

\* A program runs with its own page and its own kernel stack, its pid is taken,
\* and it is the process its terminal (and so the scheduler) knows as the top.
Isolation ==
    InUser => /\ cpu = curr_pid /\ user_page = curr_pid /\ esp0.stk = curr_pid
              /\ ~free_pid[curr_pid]
              /\ top_pid[pid_to_term[curr_pid]] = curr_pid

\* Video memory belongs to the displayed terminal alone (term_switch).
OneDisplayed == \A t \in Terms : video_mem[t] = (IF t = curr_term THEN VIDEO ELSE t + 1)

\* A program that draws through vidmap draws on its own terminal's page, in the
\* foreground and in the background, across switches, slices and exits.
VidmapFollowsTerminal == InUser => vid_page = video_mem[pid_to_term[curr_pid]]

\* The process tree (parent_pid) and the saved contexts agree: a live process is
\* the top of its terminal, or waits in system_execute at the very frame its one
\* live child will return to.  No process is ever lost or owed two returns.
Live_pids == {p \in Pids : ~free_pid[p]}
Children(p) == {q \in Live_pids : parent_pid[q] = p /\ q \notin BasePids}
NobodyLost ==
    InUser => \A p \in Live_pids :
        IF Children(p) = {} THEN top_pid[pid_to_term[p]] = p
        ELSE \E q \in Children(p) :
                /\ Children(p) = {q}
                /\ pid_to_term[q] = pid_to_term[p]
                /\ parent_k[q].stk = p
                /\ Live(parent_k[q], kstk)

\* Interrupts do not nest without end.  schedule is entered again above itself,
\* interrupts enabled, when a shell it started above a running program exits
\* into it; that can happen for each shell it starts, once.
NestingBound == IF MAX_TERM < 3 THEN 4 ELSE MAX_TERM + 1
BoundedNesting == \A s \in Owners : Len(kstk[s]) <= NestingBound

\* After boot every terminal's top process gets to run again and again.
RoundRobin == \A t \in Terms : []<>(InUser /\ top_pid[t] = curr_pid)

\* A command that was typed is started or refused, whatever the other
\* terminals do meanwhile.
CommandStarts == Starting ~> ~Starting

\* A program that exits gives the processor back to the process that started it.
Halting(p) == \E s \in Owners : \E i \in 1 .. Len(kstk[s]) :
                  kstk[s][i].fn = "system_halt" /\ kstk[s][i].pid = p
ExitReturns == \A p, q \in Pids : (Halting(p) /\ parent_pid[p] = q)
                                     ~> (InUser /\ curr_pid = q /\ free_pid[p])

\* Interrupts are masked only while schedule runs, and schedule ends.
MaskedBriefly == ~ifl ~> (ifl \/ wild)

=============================================================================
