------------------------------ MODULE Machine ------------------------------
(***************************************************************************)
(* The machine from reset on: what module Boot sets up is what the         *)
(* programs and handlers of module Interrupts then run on.  The two share  *)
(* the processor's interrupt flag and the requests at the controllers: an  *)
(* interrupt that came during the boot may still wait when it ends.        *)
(***************************************************************************)
EXTENDS Interrupts

CONSTANT BootDiscipline     \* the Discipline of Boot

ASSUME MachineAssumption == BootDiscipline \subseteq {"slow_pit"}

VARIABLES step, loader, gates, selectors, paging, offset,
          master_mask, slave_mask, imr, works, ready, crashed

B == INSTANCE Boot WITH at <- step, pending <- irr, Discipline <- BootDiscipline

bootVars == <<step, loader, gates, selectors, paging, offset, master_mask, slave_mask,
              imr, works, ready, crashed>>
programVars == <<isr, curr_pid, kstk, port, reg_a, flagVars, rtc_scales, pc, prev_a>>
allVars == <<vars, bootVars>>

MachineInit == B!Init /\ InitPrograms

\* The RTC holds its line from a request on until its handler has run.
Boots(A) == A /\ reg_c' = (RTC_IRQ \in irr') /\ UNCHANGED programVars
Runs(A) == step = "shell" /\ A /\ UNCHANGED bootVars

MachineNext == Boots(B!Next) \/ Runs(Next)

\* The boot goes on and what interrupts it ends.  Then the devices run on; the
\* processor takes an interrupt it can take again and again and finishes a
\* handler; a slice is long enough for a process to advance.
MachineFairness ==
    /\ WF_allVars(Boots(B!Boots))
    /\ WF_allVars(Runs(RtcEdge))
    /\ SF_allVars(Runs(Edge(PIT_IRQ)))
    /\ \A q \in Devices : SF_allVars(Runs(Deliver(q)))
    /\ WF_allVars(Runs(HandlerStep))
    /\ \A p \in Pids : SF_allVars(Runs(curr_pid = p /\ (ReadStep \/ DeviceStep)))

MachineSpec == MachineInit /\ [][MachineNext]_allVars /\ MachineFairness

-----------------------------------------------------------------------------
(* What must hold; the modules say why *)

\* The type invariants of the boot and of what follows.
MachineTypeOK == TypeOK /\ B!TypeOK

\* An interrupt that comes anywhere in the boot finds its gate, the controllers'
\* vectors moved out of the exceptions' way, and what its handler uses.
NoCrash == B!NoCrash

\* A machine that is properly loaded gets to the first shell, with interrupts
\* enabled, the lines of the devices open and everything in place, whatever
\* interrupts on the way.
GetsToShell == B!GetsToShell

\* A program that waits for the RTC, the device of the lowest priority, goes on,
\* in the foreground or not, whatever the timer and the keyboard do.
ReadReturns == \A p \in Pids : (pc[p] = "poll") ~> (pc[p] = "user")
=============================================================================
