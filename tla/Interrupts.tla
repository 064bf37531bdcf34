----------------------------- MODULE Interrupts -----------------------------
(***************************************************************************)
(* Interrupts after boot and the real-time clock:                          *)
(*   student-distrib/i8259.c     the two interrupt controllers, send_eoi   *)
(*   student-distrib/rtc.c       rtc_handler, rtc_open, _close, _read,     *)
(*                               _write and the device behind its ports    *)
(*   student-distrib/pit.c, schedule.c, keyboard.c   what their handlers   *)
(*                               do to the controller and to the processor *)
(*                                                                         *)
(* The processor runs one process; each has a kernel stack of interrupt    *)
(* handlers it is suspended in, innermost last.  An interrupt gate masks   *)
(* interrupts until iret.  rtc_handler unmasks them a little earlier.      *)
(*                                                                         *)
(* Definitions marked [seeded fault] are faulty variants of the one that   *)
(* follows; nothing uses them.                                             *)
(***************************************************************************)
EXTENDS Integers, Sequences

CONSTANTS
    MAX_PID,
    Freqs,        \* frequencies that programs write to the RTC
    MAX_NEST,     \* bound: handlers on one kernel stack
    Discipline    \* assumptions on the devices' timing that a run makes

Rules == { "paced",     \* the timer ticks and keys move while no interrupt is
                        \* pending and no handler at work
           "slow_rtc" } \* rtc_handler is over before the next RTC interrupt

ASSUME InterruptsAssumption ==
    /\ MAX_PID \in Nat \ {0}
    /\ Freqs \subseteq Int
    /\ MAX_NEST \in Nat \ {0}
    /\ Discipline \subseteq Rules

PIT_IRQ == 0
KB_IRQ == 1
SLAVE_IRQ == 2      \* the master's input that the slave is wired to
RTC_IRQ == 8        \* the slave's first input
MAX_PIC == 8
Devices == {PIT_IRQ, KB_IRQ, RTC_IRQ}

Pids == 0 .. (MAX_PID - 1)
Frame == [irq : Devices, at : {"start", "open", "back"}]

\* Points of rtc_read and of the register writes in rtc_write and rtc_open.
Labels == {"user", "clear", "poll", "cli", "select", "input", "again", "output", "sti"}

MAX_RATE == 15              \* HIGHEST_RATE in rtc.h: 2 Hz

VARIABLES
    irr, isr,          \* 8259: requests, and what is in service
    ifl,               \* the processor's interrupt flag
    curr_pid, kstk,    \* who runs, and the handlers on each kernel stack
    port,              \* the RTC register selected last through RTC_PORT
    reg_a,             \* register A: its divider bits are as init_rtc found them
    reg_c,             \* the RTC raised an interrupt and C was not read since
    rtc_count, process_flags, rtc_scales,
    pc, prev_a,        \* each process: where it is, its copy of register A
    due                \* history: no rtc_read of p waits for its first virtual interrupt

picVars  == <<irr, isr>>
rtcVars  == <<port, reg_a, reg_c>>
flagVars == <<rtc_count, process_flags, due>>
vars == <<picVars, ifl, curr_pid, kstk, rtcVars, flagVars, rtc_scales, pc,
          prev_a>>

\* Scales are quotients of HIGHEST_RATE.  COUNT_BOUND is a common multiple of
\* those that rtc_write can compute (1 and 2): rtc_count only serves modulo them.
Scales == {1, 2}
COUNT_BOUND == 2

TypeOK ==
    /\ irr \subseteq Devices
    /\ isr \subseteq Devices \cup {SLAVE_IRQ}
    /\ ifl \in BOOLEAN
    /\ curr_pid \in Pids
    /\ kstk \in [Pids -> Seq(Frame)]
    /\ port \in {"A", "C"}
    /\ reg_a \in BOOLEAN
    /\ reg_c \in BOOLEAN
    /\ rtc_count \in 0 .. (COUNT_BOUND - 1)
    /\ process_flags \in [Pids -> {0, 1}]
    /\ rtc_scales \in [Pids -> Scales]
    /\ pc \in [Pids -> Labels]
    /\ prev_a \in [Pids -> BOOLEAN]
    /\ due \in [Pids -> BOOLEAN]

\* Every process but the first waits in pit_handler for its first slice.
InitPrograms ==
    /\ isr = {}
    /\ curr_pid = 0
    /\ kstk = [p \in Pids |-> IF p = 0 THEN <<>> ELSE <<[irq |-> PIT_IRQ, at |-> "back"]>>]
    /\ port = "A"
    /\ reg_a = TRUE
    /\ reg_c = FALSE
    /\ rtc_count = 0
    /\ process_flags = [p \in Pids |-> 0]
    /\ rtc_scales = [p \in Pids |-> 1]
    /\ pc = [p \in Pids |-> "user"]
    /\ prev_a = [p \in Pids |-> FALSE]
    /\ due = [p \in Pids |-> TRUE]

Init == irr = {} /\ ifl = TRUE /\ InitPrograms

-----------------------------------------------------------------------------
(* The controllers *)

Rule(r) == r \in Discipline

Stack == kstk[curr_pid]
Depth == Len(Stack)
Handling(irq, at) == Depth > 0 /\ Stack[Depth].irq = irq /\ Stack[Depth].at = at
Idle == Depth = 0
Pop(s) == SubSeq(s, 1, Len(s) - 1)

\* The input of the master through which a line reaches the processor.
MasterInput(q) == IF q >= MAX_PIC THEN SLAVE_IRQ ELSE q
InService(q) == {q, MasterInput(q)}

\* A line is held back by what is in service at its own or a higher priority.
Blocked(q) == \/ \E s \in isr : s < MAX_PIC /\ s <= MasterInput(q)
              \/ \E s \in isr : s >= MAX_PIC /\ s <= q
Deliverable == {q \in irr : ~Blocked(q)}
Highest(S) == CHOOSE q \in S : \A r \in S : MasterInput(q) <= MasterInput(r)

\* send_eoi(q): both controllers for a line of the slave.
AfterEoi(q) == isr \ (IF q >= MAX_PIC THEN {q, SLAVE_IRQ} ELSE {q})

-----------------------------------------------------------------------------
(* The devices *)

Quiet == irr = {} /\ (~Idle => Stack[Depth].at = "back")

\* A timer period is over, or a key moves.
Edge(q) ==
    /\ q \in {PIT_IRQ, KB_IRQ}
    /\ Rule("paced") => Quiet
    /\ irr' = irr \cup {q}
    /\ UNCHANGED <<isr, ifl, curr_pid, kstk, rtcVars, flagVars, rtc_scales, pc,
                   prev_a>>

\* The RTC holds its line from one interrupt until register C is read, so the
\* controller sees no further edge before that.
RtcEdge ==
    /\ ~reg_c
    /\ Rule("slow_rtc") => \A i \in 1 .. Depth : Stack[i].irq # RTC_IRQ
    /\ reg_c' = TRUE
    /\ irr' = irr \cup {RTC_IRQ}
    /\ UNCHANGED <<isr, ifl, curr_pid, kstk, port, reg_a, flagVars, rtc_scales, pc,
                   prev_a>>

\* The processor accepts an interrupt through a gate that masks the others.
Deliver(q) ==
    /\ ifl /\ Depth < MAX_NEST
    /\ q \in Deliverable /\ q = Highest(Deliverable)
    /\ irr' = irr \ {q}
    /\ isr' = isr \cup InService(q)
    /\ kstk' = [kstk EXCEPT ![curr_pid] = Append(@, [irq |-> q, at |-> "start"])]
    /\ ifl' = FALSE
    /\ UNCHANGED <<curr_pid, rtcVars, flagVars, rtc_scales, pc, prev_a>>

-----------------------------------------------------------------------------
(* The handlers *)

\* iret
Leave == kstk' = [kstk EXCEPT ![curr_pid] = Pop(@)] /\ ifl' = TRUE

\* The innermost handler comes to another of its points.
Becomes(irq, at) ==
    kstk' = [kstk EXCEPT ![curr_pid] = Append(Pop(@), [irq |-> irq, at |-> at])]

\* The processes whose virtual interrupt the next one of the RTC is.
Ticked == {p \in Pids : (rtc_count + 1) % rtc_scales[p] = 0}

\* [seeded fault] register C is not read.
RtcWork_keeps_C ==
    /\ Handling(RTC_IRQ, "start")
    /\ rtc_count' = (rtc_count + 1) % COUNT_BOUND
    /\ port' = "C" /\ UNCHANGED reg_c
    /\ isr' = AfterEoi(RTC_IRQ)
    /\ process_flags' = [p \in Pids |-> IF p \in Ticked THEN 1 ELSE process_flags[p]]
    /\ due' = [p \in Pids |-> due[p] \/ p \in Ticked]
    /\ ifl' = TRUE
    /\ Becomes(RTC_IRQ, "open")
    /\ UNCHANGED <<irr, curr_pid, reg_a, rtc_scales, pc, prev_a>>

\* rtc_handler, up to and with its sti(): interrupts may arrive until the
\* linkage's popfl restores the masked flags.
RtcWork ==
    /\ Handling(RTC_IRQ, "start")
    /\ rtc_count' = (rtc_count + 1) % COUNT_BOUND
    /\ port' = "C" /\ reg_c' = FALSE
    /\ isr' = AfterEoi(RTC_IRQ)
    /\ process_flags' = [p \in Pids |-> IF p \in Ticked THEN 1 ELSE process_flags[p]]
    /\ due' = [p \in Pids |-> due[p] \/ p \in Ticked]
    /\ ifl' = TRUE
    /\ Becomes(RTC_IRQ, "open")
    /\ UNCHANGED <<irr, curr_pid, reg_a, rtc_scales, pc, prev_a>>

RtcLeave ==
    /\ Handling(RTC_IRQ, "open")
    /\ Leave
    /\ UNCHANGED <<picVars, curr_pid, rtcVars, flagVars, rtc_scales, pc, prev_a>>

KeyboardWork ==
    /\ Handling(KB_IRQ, "start")
    /\ isr' = AfterEoi(KB_IRQ)
    /\ Leave
    /\ UNCHANGED <<irr, curr_pid, rtcVars, flagVars, rtc_scales, pc, prev_a>>

\* [seeded fault] schedule() comes before send_eoi.
PitWork_eoi_last ==
    /\ Handling(PIT_IRQ, "start")
    /\ Becomes(PIT_IRQ, "back")
    /\ curr_pid' = (curr_pid + 1) % MAX_PID
    /\ UNCHANGED <<picVars, ifl, rtcVars, flagVars, rtc_scales, pc, prev_a>>

\* pit_handler and schedule: another process goes on from its own pit_handler.
PitWork ==
    /\ Handling(PIT_IRQ, "start")
    /\ isr' = AfterEoi(PIT_IRQ)
    /\ Becomes(PIT_IRQ, "back")
    /\ curr_pid' = (curr_pid + 1) % MAX_PID
    /\ UNCHANGED <<irr, ifl, rtcVars, flagVars, rtc_scales, pc, prev_a>>

PitLeave ==
    /\ Handling(PIT_IRQ, "back")
    /\ Leave
    /\ UNCHANGED <<picVars, curr_pid, rtcVars, flagVars, rtc_scales, pc, prev_a>>

HandlerStep == RtcWork \/ RtcLeave \/ KeyboardWork \/ PitWork \/ PitLeave

-----------------------------------------------------------------------------
(* Programs.  A step of the running process, when no handler is on its stack *)

me == curr_pid
GoFrom(from, to) == Idle /\ pc[me] = from /\ pc' = [pc EXCEPT ![me] = to]

CallRead ==
    /\ GoFrom("user", "clear")
    /\ due' = [due EXCEPT ![me] = FALSE]
    /\ UNCHANGED <<picVars, ifl, curr_pid, kstk, rtcVars, rtc_count, process_flags,
                   rtc_scales, prev_a>>

\* [seeded fault] the flag of the last interrupt is left standing.
ReadClear_keeps_flag ==
    /\ GoFrom("clear", "poll")
    /\ UNCHANGED <<picVars, ifl, curr_pid, kstk, rtcVars, flagVars, rtc_scales, prev_a>>

\* rtc_read: clear the flag, then wait until rtc_handler sets it.
ReadClear ==
    /\ GoFrom("clear", "poll")
    /\ process_flags' = [process_flags EXCEPT ![me] = 0]
    /\ UNCHANGED <<picVars, ifl, curr_pid, kstk, rtcVars, rtc_count, due, rtc_scales, prev_a>>

ReadReturn ==
    /\ GoFrom("poll", "user")
    /\ process_flags[me] = 1
    /\ due' = [due EXCEPT ![me] = TRUE]
    /\ UNCHANGED <<picVars, ifl, curr_pid, kstk, rtcVars, rtc_count, process_flags,
                   rtc_scales, prev_a>>

ValidFreqs == {2, 4, 8, 16, 32, 64, 128, 256, 512, 1024}
\* How many times it can be divided by 2.
log2(f) == CHOOSE n \in 1 .. 10 : 2^n = f

\* [seeded fault] the rate is one too high.
Scale_rate_off(f) == MAX_RATE \div (MAX_RATE - log2(f))

Scale(f) == MAX_RATE \div (MAX_RATE - log2(f) + 1)

\* rtc_write up to its cli(); a frequency that is not valid changes nothing.
CallWrite(f) ==
    /\ f \in ValidFreqs
    /\ GoFrom("user", "cli")
    /\ rtc_scales' = [rtc_scales EXCEPT ![me] = Scale(f)]
    /\ UNCHANGED <<picVars, ifl, curr_pid, kstk, rtcVars, flagVars, prev_a>>

\* rtc_open with no descriptor left sets the rate, for nobody; with one left it
\* does not touch the device.
CallOpenFull ==
    /\ GoFrom("user", "cli")
    /\ UNCHANGED <<picVars, ifl, curr_pid, kstk, rtcVars, flagVars, rtc_scales, prev_a>>

\* rtc_close.  A program that halts leaves its scale to the next one with the
\* pid: system_halt closes by fclose, which knows nothing of rtc_scales.
rtc_close ==
    /\ Idle /\ pc[me] = "user"
    /\ rtc_scales' = [rtc_scales EXCEPT ![me] = 1]
    /\ UNCHANGED <<picVars, ifl, curr_pid, kstk, rtcVars, flagVars, pc, prev_a>>

\* [seeded fault] register A is written without cli().
Cli_forgotten ==
    /\ GoFrom("cli", "select")
    /\ UNCHANGED <<picVars, ifl, curr_pid, kstk, rtcVars, flagVars, rtc_scales, prev_a>>

Cli ==
    /\ GoFrom("cli", "select")
    /\ ifl' = FALSE
    /\ UNCHANGED <<picVars, curr_pid, kstk, rtcVars, flagVars, rtc_scales, prev_a>>

\* outb(REG_A, RTC_PORT), before the input and again before the output.
Select ==
    /\ GoFrom("select", "input") \/ GoFrom("again", "output")
    /\ port' = "A"
    /\ UNCHANGED <<picVars, ifl, curr_pid, kstk, reg_a, reg_c, flagVars, rtc_scales, prev_a>>

\* prev_a = inb(RTC_DATA); of register C it would be the interrupt flags.
Input ==
    /\ GoFrom("input", "again")
    /\ prev_a' = [prev_a EXCEPT ![me] = (port = "A" /\ reg_a)]
    /\ reg_c' = (reg_c /\ port # "C")
    /\ UNCHANGED <<picVars, ifl, curr_pid, kstk, port, reg_a, flagVars, rtc_scales>>

\* outb((prev_a & LOW4) | rate, RTC_DATA), the divider being in LOW4; register C
\* cannot be written.
Output ==
    /\ GoFrom("output", "sti")
    /\ reg_a' = IF port = "A" THEN prev_a[me] ELSE reg_a
    /\ UNCHANGED <<picVars, ifl, curr_pid, kstk, port, reg_c, flagVars, rtc_scales, prev_a>>

Sti ==
    /\ GoFrom("sti", "user")
    /\ ifl' = TRUE
    /\ prev_a' = [prev_a EXCEPT ![me] = FALSE]     \* the copy is gone
    /\ UNCHANGED <<picVars, curr_pid, kstk, rtcVars, flagVars, rtc_scales>>

ReadStep == ReadClear \/ ReadReturn
DeviceStep == Cli \/ Select \/ Input \/ Output \/ Sti

-----------------------------------------------------------------------------

Next == \/ \E q \in Devices : Edge(q) \/ Deliver(q)
        \/ RtcEdge
        \/ HandlerStep
        \/ CallRead \/ ReadStep
        \/ \E f \in Freqs : CallWrite(f)
        \/ CallOpenFull \/ rtc_close
        \/ DeviceStep

Spec == Init /\ [][Next]_vars

-----------------------------------------------------------------------------
(* What must hold *)

\* No line stays in service behind a handler that was left: while a program
\* runs, and when schedule has gone over to another process, both controllers
\* are ready for every line.  (send_eoi before schedule; both EOIs for line 8.)
NoLineBlocked ==
    isr = IF ~Idle /\ Stack[Depth].at = "start" THEN InService(Stack[Depth].irq) ELSE {}

\* Register A is read and written through two ports with a select between them,
\* by programs of every terminal, while rtc_handler selects register C: the
\* divider bits always survive (cli in rtc_write and rtc_open).
DividerKept == reg_a

\* rtc_read "blocks RTC until OS generates a new interrupt": it never returns
\* on one that came before the call, in this slice or in another.
ReadWaits == [][\A p \in Pids : (pc[p] = "poll" /\ pc'[p] = "user") => due[p]]_vars
=============================================================================
