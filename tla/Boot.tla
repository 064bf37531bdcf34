-------------------------------- MODULE Boot --------------------------------
(***************************************************************************)
(* From the boot loader to the first shell:                                *)
(*   student-distrib/boot.S, x86_desc.S    _start, the descriptor tables   *)
(*   student-distrib/kernel.c              entry                           *)
(*   student-distrib/idt/idt.c             set_idt                         *)
(*   student-distrib/i8259.c, rtc.c, pit.c, keyboard.c, paging.c           *)
(*                                         what sets the devices up        *)
(* The devices interrupt as soon as they are set up, their lines are not   *)
(* masked and the processor lets them.  The module ends where the          *)
(* processes are initialised, which is where modules Kernel and Interrupts *)
(* begin; module Machine puts the latter behind it.                        *)
(***************************************************************************)
EXTENDS Integers

CONSTANTS
    PIT_IRQ, KB_IRQ, SLAVE_IRQ, RTC_IRQ,   \* 0, 1, 2, 8: module Interrupts has them
    MAX_PIC,       \* lines of one controller, 8
    Discipline     \* {"slow_pit"}: the first tick comes after the boot

Devices == {PIT_IRQ, KB_IRQ, RTC_IRQ}
Irqs == 0 .. (2 * MAX_PIC - 1)
Master == 0 .. (MAX_PIC - 1)
Slave == Irqs \ Master

VARIABLES
    at,             \* what runs next
    loader,         \* what the boot loader gives, until it is looked at
    ifl,            \* interrupts are enabled
    gates,          \* vectors of the IDT that are present
    selectors,      \* registers loaded: gdt, idt, ldt, tr
    paging,         \* on
    offset,         \* where the controllers' vectors begin
    master_mask, slave_mask,   \* the masked lines, as the kernel has them
    imr,            \* and as the controllers do
    works,          \* devices that were set up
    pending,        \* lines that wait to be served
    ready,          \* what was initialised: terminals, files, ...
    crashed         \* a handler ran without what it needs

vars == <<at, loader, ifl, gates, selectors, paging, offset, master_mask, slave_mask, imr,
          works, pending, ready, crashed>>

Steps == {"_start", "entry", "tables", "set_idt", "i8259_init", "cascade", "init_keyboard",
          "init_rtc", "rtc_on", "rtc_sti", "pit_init", "pit_on", "pit_sti", "f_init",
          "init_paging", "init_scheduler", "sti", "init_processes", "shell", "halt"}
Parts == {"terminals", "scales", "files", "scheduler", "processes"}

Loaders == [magic : BOOLEAN, flag4 : BOOLEAN, flag5 : BOOLEAN]
NoLoader == [magic |-> FALSE, flag4 |-> FALSE, flag5 |-> FALSE]

TypeOK ==
    /\ at \in Steps /\ loader \in Loaders
    /\ ifl \in BOOLEAN /\ paging \in BOOLEAN /\ crashed \in BOOLEAN
    /\ gates \subseteq 0 .. 255 /\ selectors \subseteq {"gdt", "idt", "ldt", "tr"}
    /\ master_mask \subseteq Master /\ slave_mask \subseteq Slave /\ imr \subseteq Irqs
    /\ works \subseteq Devices /\ pending \subseteq works
    /\ ready \subseteq Parts

Init ==
    /\ at = "_start"
    /\ loader \in Loaders
    /\ ifl = FALSE   \* the loader's contract
    /\ gates = {} /\ selectors = {} /\ paging = FALSE /\ offset = -1
    /\ master_mask = Master /\ slave_mask = Slave /\ imr \in {{}, Irqs}
    /\ works \in {{}, {PIT_IRQ, KB_IRQ}} /\ pending = {}
    /\ ready = {} /\ crashed = FALSE
-----------------------------------------------------------------------------
(* Helpers *)

Goto(from, to) == at = from /\ at' = to /\ ~crashed

cpu == <<ifl, gates, selectors, paging>>
pic == <<offset, master_mask, slave_mask, imr>>
rest == <<works, pending, ready>>
history == <<loader, crashed>>

\* [seeded fault] the mask forgets the lines unmasked before.
enable_irq_only(n) ==
    IF n < MAX_PIC
    THEN /\ master_mask' = Master \ {n}
         /\ imr' = (imr \ Master) \cup master_mask'
         /\ UNCHANGED slave_mask
    ELSE /\ slave_mask' = Slave \ {n}
         /\ imr' = (imr \ Slave) \cup slave_mask'
         /\ UNCHANGED master_mask

enable_irq(n) ==
    IF n < MAX_PIC
    THEN /\ master_mask' = master_mask \ {n}
         /\ imr' = (imr \ Master) \cup master_mask'
         /\ UNCHANGED slave_mask
    ELSE /\ slave_mask' = slave_mask \ {n}
         /\ imr' = (imr \ Slave) \cup slave_mask'
         /\ UNCHANGED master_mask
-----------------------------------------------------------------------------
(* boot.S and the first half of entry *)

\* cli, lgdt, lidt, a stack; then entry(magic, addr).
_start ==
    /\ Goto("_start", "entry")
    /\ ifl' = FALSE
    /\ selectors' = {"gdt", "idt"}
    /\ UNCHANGED <<gates, paging, pic, rest, history>>

\* term_init; the checks of what the loader gives; a return halts the machine.
CheckLoader ==
    /\ Goto("entry", IF loader.magic /\ ~(loader.flag4 /\ loader.flag5) THEN "tables" ELSE "halt")
    /\ ready' = ready \cup {"terminals"}
    /\ UNCHANGED <<cpu, pic, works, pending, history>>

\* lldt, ltr
LoadTables ==
    /\ Goto("tables", "set_idt")
    /\ selectors' = selectors \cup {"ldt", "tr"}
    /\ loader' = NoLoader
    /\ UNCHANGED <<ifl, gates, paging, pic, rest, crashed>>

\* [seeded fault] the keyboard's gate is left as it was, not present.
set_idt_no_keyboard ==
    /\ Goto("set_idt", "i8259_init")
    /\ gates' = (0 .. 19) \cup {32, 40, 128}
    /\ UNCHANGED <<ifl, selectors, paging, pic, rest, history>>

\* The exceptions, the three devices and the system call.
set_idt ==
    /\ Goto("set_idt", "i8259_init")
    /\ gates' = (0 .. 19) \cup {32, 33, 40, 128}
    /\ UNCHANGED <<ifl, selectors, paging, pic, rest, history>>

\* The first command word also clears what the lines had latched.
i8259_init ==
    /\ Goto("i8259_init", "cascade")
    /\ offset' = 32
    /\ imr' = master_mask \cup slave_mask
    /\ pending' = {}
    /\ UNCHANGED <<cpu, master_mask, slave_mask, works, ready, history>>

Cascade ==
    /\ Goto("cascade", "init_keyboard")
    /\ enable_irq(SLAVE_IRQ)
    /\ UNCHANGED <<cpu, offset, rest, history>>
-----------------------------------------------------------------------------
(* The devices *)

\* What enable_irq and sti do within init_rtc and pit_init.
Enable(from, to, irq) ==
    /\ Goto(from, to)
    /\ enable_irq(irq)
    /\ works' = works \cup {irq}
    /\ UNCHANGED <<cpu, offset, pending, ready, history>>

Sti(from, to) ==
    /\ Goto(from, to)
    /\ ifl' = TRUE
    /\ UNCHANGED <<gates, selectors, paging, pic, rest, history>>

init_keyboard == Enable("init_keyboard", "init_rtc", KB_IRQ)

\* cli, the scales; then registers B and A.
init_rtc ==
    /\ Goto("init_rtc", "rtc_on")
    /\ ifl' = FALSE
    /\ ready' = ready \cup {"scales"}
    /\ UNCHANGED <<gates, selectors, paging, pic, works, pending, history>>
RtcOn  == Enable("rtc_on", "rtc_sti", RTC_IRQ)
RtcSti == Sti("rtc_sti", "pit_init")

\* cli, the counters, mode and divider.
pit_init ==
    /\ Goto("pit_init", "pit_on")
    /\ ifl' = FALSE
    /\ UNCHANGED <<gates, selectors, paging, pic, rest, history>>
PitOn  == Enable("pit_on", "pit_sti", PIT_IRQ)
PitSti == Sti("pit_sti", "f_init")

f_init ==
    /\ Goto("f_init", "init_paging")
    /\ ready' = ready \cup {"files"}
    /\ UNCHANGED <<cpu, pic, works, pending, history>>

init_paging ==
    /\ Goto("init_paging", "init_scheduler")
    /\ paging' = TRUE
    /\ UNCHANGED <<ifl, gates, selectors, pic, rest, history>>

init_scheduler ==
    /\ Goto("init_scheduler", "sti")
    /\ ready' = ready \cup {"scheduler"}
    /\ UNCHANGED <<cpu, pic, works, pending, history>>

EnableInterrupts == Sti("sti", "init_processes")

init_processes ==
    /\ Goto("init_processes", "shell")
    /\ ready' = ready \cup {"processes"}
    /\ UNCHANGED <<cpu, pic, works, pending, history>>

Boots == \/ _start \/ CheckLoader \/ LoadTables \/ set_idt \/ i8259_init \/ Cascade
         \/ init_keyboard \/ init_rtc \/ RtcOn \/ RtcSti
         \/ pit_init \/ PitOn \/ PitSti
         \/ f_init \/ init_paging \/ init_scheduler \/ EnableInterrupts \/ init_processes
-----------------------------------------------------------------------------
(* Interrupts *)

Arrives(irq) ==
    /\ irq \in works \ pending /\ at \notin {"shell", "halt"}
    /\ irq = PIT_IRQ => "slow_pit" \notin Discipline
    /\ pending' = pending \cup {irq}
    /\ UNCHANGED <<at, cpu, pic, works, ready, history>>

\* What a handler uses: the keyboard's a terminal, the RTC's the scales, and
\* schedule, which a tick calls, a process to go on with.
Uses(irq) == CASE irq = PIT_IRQ -> {"terminals", "files", "scheduler", "processes"}
               [] irq = KB_IRQ  -> {"terminals"}
               [] OTHER         -> {"scales"}

Open(irq) == irq \notin imr /\ (irq \in Slave => SLAVE_IRQ \notin imr)

Delivered(irq) ==
    /\ ifl /\ irq \in pending /\ Open(irq) /\ ~crashed /\ at # "shell"
    /\ pending' = pending \ {irq}
    /\ crashed' = ~ /\ offset + irq \in gates
                    /\ {"gdt", "idt"} \subseteq selectors
                    /\ Uses(irq) \subseteq ready
    /\ UNCHANGED <<at, loader, cpu, pic, works, ready>>

Next == Boots \/ \E irq \in Devices : Arrives(irq) \/ Delivered(irq)

-----------------------------------------------------------------------------
(* What must hold *)

\* An interrupt that comes anywhere in the boot finds its gate, the controllers'
\* vectors moved out of the exceptions' way, and what its handler uses.
NoCrash == ~crashed

\* The lines that are open are those that have a handler, as the kernel's copies
\* of the masks have it.
MasksAgree == /\ imr = master_mask \cup slave_mask
              /\ Irqs \ imr = Devices \cup {SLAVE_IRQ}

\* A machine that is properly loaded gets to the first shell, with interrupts
\* enabled, the lines of the devices open and everything in place, whatever
\* interrupts on the way.
Complete == /\ at = "shell" /\ ifl /\ paging /\ ready = Parts /\ MasksAgree
            /\ selectors = {"gdt", "idt", "ldt", "tr"}
GetsToShell == (loader.magic /\ ~(loader.flag4 /\ loader.flag5)) => <>Complete
=============================================================================
