---------------------------- MODULE MachineProof ----------------------------
(* Proofs about Machine, for every number of processes, whatever frequencies *)
(* they ask for and whatever the timing of timer, keys and RTC.             *)
EXTENDS Machine, TLAPS

-----------------------------------------------------------------------------
(* The inductive invariant *)

\* A handler that has not yet sent its EOI is the innermost one of the process
\* that runs, and interrupts are masked.
StartsMasked ==
    \A p \in Pids : \A i \in 1 .. Len(kstk[p]) :
        kstk[p][i].at = "start" => p = curr_pid /\ i = Len(kstk[p]) /\ ~ifl

\* Between cli() and sti() a process runs, in no handler, with interrupts masked.
Registers == {"select", "input", "again", "output", "sti"}
SectionMasked ==
    \A p \in Pids : pc[p] \in Registers => p = curr_pid /\ Len(kstk[p]) = 0 /\ ~ifl

\* Where the register is read or written, A is selected; what was read of it is
\* what will be written.
SelectedA ==
    \A p \in Pids : /\ pc[p] \in {"input", "output"} => port = "A"
                    /\ pc[p] \in {"again", "output"} => prev_a[p]

\* A flag that is set while a read polls was set after the read cleared it.
FlagIsDue == \A p \in Pids : pc[p] = "poll" /\ process_flags[p] = 1 => due[p]

\* No program runs before the boot is over.
NotYet == step # "shell" =>
    \A p \in Pids : /\ pc[p] = "user"
                    /\ \A i \in 1 .. Len(kstk[p]) : kstk[p][i].at # "start"

IInv == /\ TypeOK /\ NoLineBlocked /\ DividerKept
        /\ StartsMasked /\ SectionMasked /\ SelectedA /\ FlagIsDue /\ NotYet

-----------------------------------------------------------------------------
(* Types *)

\* Every process but the first starts in pit_handler.
LEMMA InitType == MachineInit => TypeOK
<1> SUFFICES ASSUME MachineInit PROVE TypeOK OBVIOUS
<1>1. 0 \in Pids BY InterruptsAssumption DEF Pids
<1>2. <<[irq |-> PIT_IRQ, at |-> "back"]>> \in Seq(Frame) /\ <<>> \in Seq(Frame)
  BY DEF Frame, Devices
<1> QED BY <1>1, <1>2
        DEF MachineInit, InitPrograms, B!Init, TypeOK, Scales, COUNT_BOUND, Labels

\* The boot changes the requests and the interrupt flag.
LEMMA BootType == TypeOK /\ Boots(B!Next) => TypeOK'
<1> SUFFICES ASSUME TypeOK, Boots(B!Next) PROVE TypeOK' OBVIOUS
<1>1. irr' \subseteq Devices /\ ifl' \in BOOLEAN
  <2>1. CASE B!Boots
    BY <2>1 DEF TypeOK, B!Boots, B!_start, B!CheckLoader, B!LoadTables, B!set_idt,
       B!i8259_init, B!Cascade, B!init_keyboard, B!init_rtc, B!RtcOn, B!RtcSti, B!pit_init,
       B!PitOn, B!PitSti, B!f_init, B!init_paging, B!init_scheduler, B!EnableInterrupts,
       B!init_processes, B!Enable, B!Sti, B!cpu, B!rest
  <2>2. ASSUME NEW q \in B!Devices, B!Arrives(q) \/ B!Delivered(q)
        PROVE  irr' \subseteq Devices /\ ifl' \in BOOLEAN
    BY <2>2 DEF TypeOK, B!Devices, Devices, B!Arrives, B!Delivered, B!cpu
  <2> QED BY <2>1, <2>2 DEF Boots, B!Next
<1> QED BY <1>1 DEF Boots, TypeOK, programVars, flagVars

\* What is on the stack of the process that runs, and cutting the innermost off.
LEMMA StackTypes ==
    ASSUME TypeOK
    PROVE  /\ curr_pid \in Pids /\ Stack \in Seq(Frame) /\ Depth \in Nat
           /\ \A f \in Frame : Append(Stack, f) \in Seq(Frame)
BY DEF TypeOK, Stack, Depth

\* What is left of a stack without its top.
LEMMA PopFacts ==
    ASSUME NEW s \in Seq(Frame), Len(s) > 0
    PROVE  /\ Pop(s) \in Seq(Frame) /\ Len(Pop(s)) = Len(s) - 1
           /\ \A i \in 1 .. Len(Pop(s)) : i \in 1 .. Len(s) /\ i # Len(s) /\ Pop(s)[i] = s[i]
BY DEF Pop

\* What a handler does to its process's stack.
LEMMA HandlerStack ==
    ASSUME TypeOK, HandlerStep
    PROVE  \E s \in Seq(Frame) :
             /\ kstk' = [kstk EXCEPT ![curr_pid] = s]
             /\ \A i \in 1 .. Len(s) : s[i].at = "start" =>
                    i \in 1 .. Depth /\ i # Depth /\ s[i] = Stack[i]
<1>0. Depth > 0 BY DEF HandlerStep, RtcWork, RtcLeave, KeyboardWork, PitWork, PitLeave, Handling
<1>1. Stack \in Seq(Frame) /\ Depth = Len(Stack) BY StackTypes DEF Depth
<1>2. /\ Pop(Stack) \in Seq(Frame)
      /\ \A i \in 1 .. Len(Pop(Stack)) : i \in 1 .. Depth /\ i # Depth /\ Pop(Stack)[i] = Stack[i]
  BY <1>0, <1>1, PopFacts
<1>3. CASE Leave
  <2>1. kstk' = [kstk EXCEPT ![curr_pid] = Pop(Stack)] BY <1>3 DEF Leave, Stack
  <2> QED BY <2>1, <1>2
<1>4. ASSUME NEW irq \in Devices, NEW at \in {"open", "back"}, Becomes(irq, at)
      PROVE  \E s \in Seq(Frame) :
             /\ kstk' = [kstk EXCEPT ![curr_pid] = s]
             /\ \A i \in 1 .. Len(s) : s[i].at = "start" =>
                    i \in 1 .. Depth /\ i # Depth /\ s[i] = Stack[i]
  <2> DEFINE f == [irq |-> irq, at |-> at]
             s == Append(Pop(Stack), f)
  <2>1. f \in Frame /\ f.at # "start" BY <1>4 DEF Frame
  <2>2. s \in Seq(Frame) BY <1>2, <2>1
  <2>3. kstk' = [kstk EXCEPT ![curr_pid] = s] BY <1>4 DEF Becomes, Stack
  <2>4. ASSUME NEW i \in 1 .. Len(s), s[i].at = "start"
        PROVE  i \in 1 .. Depth /\ i # Depth /\ s[i] = Stack[i]
    <3> HIDE DEF f
    <3>1. i # Len(Pop(Stack)) + 1 BY <1>2, <2>1, <2>4
    <3>2. i \in 1 .. Len(Pop(Stack)) BY <1>2, <2>1, <3>1
    <3>3. s[i] = Pop(Stack)[i] BY <1>2, <2>1, <3>2
    <3> QED BY <1>2, <3>2, <3>3
  <2> HIDE DEF s
  <2> QED BY <2>2, <2>3, <2>4
<1> QED BY <1>3, <1>4 DEF HandlerStep, RtcWork, RtcLeave, KeyboardWork, PitWork, PitLeave, Devices

\* A handler's step keeps the types.
LEMMA HandlerType == TypeOK /\ HandlerStep => TypeOK'
<1> SUFFICES ASSUME TypeOK, HandlerStep PROVE TypeOK' OBVIOUS
<1>1. kstk' \in [Pids -> Seq(Frame)]
  <2>1. PICK s \in Seq(Frame) : kstk' = [kstk EXCEPT ![curr_pid] = s] BY HandlerStack
  <2> QED BY <2>1 DEF TypeOK
<1>2. UNCHANGED <<irr, reg_a, rtc_scales, pc, prev_a>> /\ isr' \subseteq isr /\ ifl' \in BOOLEAN
  BY DEF HandlerStep, RtcWork, RtcLeave, KeyboardWork, PitWork, PitLeave, picVars, rtcVars,
     AfterEoi, Leave, TypeOK
<1>3. curr_pid' \in Pids
  <2>1. (curr_pid + 1) % MAX_PID \in Pids BY InterruptsAssumption DEF TypeOK, Pids
  <2> QED BY <2>1 DEF HandlerStep, RtcWork, RtcLeave, KeyboardWork, PitWork, PitLeave, TypeOK
<1>4. /\ port' \in {"A", "C"} /\ reg_c' \in BOOLEAN /\ rtc_count' \in 0 .. (COUNT_BOUND - 1)
      /\ process_flags' \in [Pids -> {0, 1}] /\ due' \in [Pids -> BOOLEAN]
  <2>1. CASE RtcWork
    <3>1. \A p \in Pids : (due[p] \/ p \in Ticked) \in BOOLEAN OBVIOUS
    <3>2. due' \in [Pids -> BOOLEAN] BY <2>1, <3>1, Zenon DEF RtcWork
    <3>3. process_flags' \in [Pids -> {0, 1}] BY <2>1 DEF RtcWork, TypeOK
    <3>4. \A n \in 0 .. 1 : (n + 1) % 2 \in 0 .. 1 OBVIOUS
    <3>5. rtc_count' \in 0 .. (COUNT_BOUND - 1) BY <2>1, <3>4 DEF RtcWork, TypeOK, COUNT_BOUND
    <3>6. port' = "C" /\ reg_c' = FALSE BY <2>1 DEF RtcWork
    <3> QED BY <3>2, <3>3, <3>5, <3>6
  <2>2. CASE ~RtcWork
    BY <2>2 DEF HandlerStep, RtcLeave, KeyboardWork, PitWork, PitLeave, rtcVars, flagVars, TypeOK
  <2> QED BY <2>1, <2>2
<1> QED BY <1>1, <1>2, <1>3, <1>4 DEF TypeOK

\* log2 of a valid frequency, and with it the scale.
LEMMA ScaleType == \A f \in ValidFreqs : Scale(f) \in Scales
<1> SUFFICES ASSUME NEW f \in ValidFreqs PROVE Scale(f) \in Scales OBVIOUS
<1>1. 2^1 = 2 /\ 2^2 = 4 /\ 2^3 = 8 /\ 2^4 = 16 /\ 2^5 = 32 /\ 2^6 = 64 /\ 2^7 = 128
      /\ 2^8 = 256 /\ 2^9 = 512 /\ 2^10 = 1024
  OBVIOUS
<1>2. \E n \in 1 .. 10 : 2^n = f BY <1>1 DEF ValidFreqs
<1>3. log2(f) \in 1 .. 10 BY <1>2 DEF log2
<1>4. \A n \in 1 .. 10 : 15 \div (15 - n + 1) \in {1, 2} OBVIOUS
<1> QED BY <1>3, <1>4 DEF Scale, Scales, MAX_RATE

\* What a program does leaves the handlers and the requests alone.
Program == CallRead \/ ReadStep \/ (\E f \in Freqs : CallWrite(f)) \/ CallOpenFull
           \/ rtc_close \/ DeviceStep

\* So does a program's, an open or close of the RTC included.
LEMMA ProgramType == TypeOK /\ Program => TypeOK'
<1> SUFFICES ASSUME TypeOK, Program PROVE TypeOK' OBVIOUS
<1> USE DEF GoFrom, me, TypeOK, Labels, picVars, rtcVars, flagVars
<1>1. CASE CallRead BY <1>1 DEF CallRead
<1>2. CASE ReadClear BY <1>2 DEF ReadClear
<1>3. CASE ReadReturn BY <1>3 DEF ReadReturn
<1>4. ASSUME NEW f \in Freqs, CallWrite(f) PROVE TypeOK'
  BY <1>4, ScaleType DEF CallWrite
<1>5. CASE CallOpenFull BY <1>5 DEF CallOpenFull
<1>6. CASE rtc_close BY <1>6 DEF rtc_close, Scales
<1>7. CASE Cli BY <1>7 DEF Cli
<1>8. CASE Select BY <1>8 DEF Select
<1>9. CASE Input
  <2>1. (port = "A" /\ reg_a) \in BOOLEAN /\ (reg_c /\ port # "C") \in BOOLEAN OBVIOUS
  <2>2. prev_a' \in [Pids -> BOOLEAN] /\ reg_c' \in BOOLEAN BY <1>9, <2>1, Zenon DEF Input
  <2> QED BY <1>9, <2>2 DEF Input
<1>10. CASE Output BY <1>10 DEF Output
<1>11. CASE Sti BY <1>11 DEF Sti
<1> QED BY <1>1, <1>2, <1>3, <1>4, <1>5, <1>6, <1>7, <1>8, <1>9, <1>10, <1>11
        DEF Program, ReadStep, DeviceStep

-----------------------------------------------------------------------------
(* The parts of the invariant *)

\* No handler has its EOI ahead of it.
NoStart == \A p \in Pids : \A i \in 1 .. Len(kstk[p]) : kstk[p][i].at # "start"

\* The handlers that are ahead of their EOI: at most the innermost one of the
\* process that runs, and none while interrupts are enabled.
LEMMA NoStartWhen ==
    ASSUME TypeOK, StartsMasked, ifl \/ Idle \/ Stack[Depth].at # "start"
    PROVE  NoStart
<1> SUFFICES ASSUME NEW p \in Pids, NEW i \in 1 .. Len(kstk[p]), kstk[p][i].at = "start"
             PROVE  FALSE
  BY DEF NoStart
<1>1. p = curr_pid /\ i = Len(kstk[p]) /\ ~ifl BY DEF StartsMasked
<1> QED BY <1>1 DEF Stack, Depth, Idle, TypeOK

\* Unless a handler has just been entered, no line is in service.
LEMMA NothingInService ==
    ASSUME TypeOK, StartsMasked, NoLineBlocked, ifl \/ Idle \/ Stack[Depth].at # "start"
    PROVE  isr = {}
<1>1. NoStart BY NoStartWhen
<1>2. Depth > 0 => Stack[Depth].at # "start" BY <1>1 DEF NoStart, Stack, Depth, TypeOK
<1>3. ~Idle => Depth > 0 BY StackTypes DEF Idle
<1> QED BY <1>2, <1>3 DEF NoLineBlocked

\* Once no EOI is outstanding and the controllers are clear, both parts hold.
LEMMA NoStartSuffices == TypeOK /\ NoStart /\ isr = {} => StartsMasked /\ NoLineBlocked
<1> SUFFICES ASSUME TypeOK, NoStart, isr = {} PROVE StartsMasked /\ NoLineBlocked OBVIOUS
<1>1. StartsMasked BY DEF NoStart, StartsMasked
<1>2. ~Idle => Depth \in 1 .. Len(kstk[curr_pid]) BY StackTypes DEF Idle, Depth, Stack
<1>3. ~Idle => Stack[Depth].at # "start" BY <1>2, StackTypes DEF NoStart, Stack
<1> QED BY <1>1, <1>3 DEF NoLineBlocked

\* No handler runs between cli() and sti().
LEMMA OutsideSection ==
    ASSUME TypeOK, SectionMasked, ifl \/ ~Idle
    PROVE  \A p \in Pids : pc[p] \notin Registers
BY DEF SectionMasked, Idle, Stack, Depth

\* A step of the boot: no program has begun, no handler is in progress.
LEMMA BootStep == IInv /\ Boots(B!Next) => IInv'
<1> SUFFICES ASSUME IInv, Boots(B!Next) PROVE IInv' OBVIOUS
<1>1. TypeOK' BY BootType DEF IInv
<1>2. step # "shell"
  BY DEF Boots, B!Next, B!Boots, B!Goto, B!Arrives, B!Delivered, B!_start, B!CheckLoader,
     B!LoadTables, B!set_idt, B!i8259_init, B!Cascade, B!init_keyboard, B!init_rtc, B!RtcOn,
     B!RtcSti, B!pit_init, B!PitOn, B!PitSti, B!f_init, B!init_paging, B!init_scheduler,
     B!EnableInterrupts, B!init_processes, B!Enable, B!Sti
<1>3. NoStart /\ \A p \in Pids : pc[p] = "user" BY <1>2 DEF IInv, NotYet, NoStart
<1>4. UNCHANGED programVars BY DEF Boots
<1>5. NoStart' /\ \A p \in Pids : pc'[p] = "user" BY <1>3, <1>4 DEF NoStart, programVars
<1>6. NoLineBlocked' BY <1>4 DEF IInv, NoLineBlocked, Idle, Stack, Depth, programVars
<1>7. StartsMasked' BY <1>5 DEF NoStart, StartsMasked
<1>8. SectionMasked' /\ SelectedA' /\ FlagIsDue' /\ NotYet'
  BY <1>5 DEF SectionMasked, SelectedA, FlagIsDue, NotYet, Registers, NoStart
<1>9. DividerKept' BY <1>4 DEF IInv, DividerKept, programVars
<1> QED BY <1>1, <1>6, <1>7, <1>8, <1>9 DEF IInv

\* An interrupt is accepted: its handler is the only one ahead of its EOI.
LEMMA DeliverStep ==
    ASSUME IInv, NEW q \in Devices, Deliver(q), UNCHANGED step, step = "shell"
    PROVE  IInv'
<1> DEFINE f == [irq |-> q, at |-> "start"]
           s == Append(Stack, f)
<1>0. TypeOK BY DEF IInv
<1>1. f \in Frame BY DEF Frame
<1>2. s \in Seq(Frame) /\ Len(s) = Depth + 1 /\ s[Depth + 1] = f
      /\ \A i \in 1 .. Depth : s[i] = Stack[i]
  BY <1>0, <1>1, StackTypes DEF Depth
<1>3. kstk' = [kstk EXCEPT ![curr_pid] = s] BY DEF Deliver, Stack
<1>4. ifl /\ ifl' = FALSE /\ UNCHANGED <<curr_pid, rtcVars, flagVars, rtc_scales, pc, prev_a>>
  BY DEF Deliver
<1>5. NoStart BY <1>0, <1>4, NoStartWhen DEF IInv
<1>6. isr = {} BY <1>0, <1>4, NothingInService DEF IInv
<1>7. isr' = InService(q) BY <1>6 DEF Deliver
<1> HIDE DEF s
<1>8. TypeOK'
  <2>1. irr' \subseteq Devices /\ isr' \subseteq Devices \cup {SLAVE_IRQ}
    BY <1>0, <1>7 DEF Deliver, TypeOK, InService, MasterInput
  <2>2. kstk' \in [Pids -> Seq(Frame)] BY <1>0, <1>2, <1>3 DEF TypeOK
  <2> QED BY <1>0, <1>4, <2>1, <2>2 DEF TypeOK, rtcVars, flagVars
<1>9. kstk'[curr_pid] = s /\ \A p \in Pids : p # curr_pid => kstk'[p] = kstk[p]
  BY <1>0, <1>3 DEF TypeOK
<1>10. Stack' = s /\ Depth' = Depth + 1
  BY <1>2, <1>4, <1>9 DEF Stack, Depth
<1>11. NoLineBlocked'
  <2>1. ~Idle' /\ Stack'[Depth'] = f BY <1>0, <1>2, <1>10, StackTypes DEF Idle
  <2>2. (Stack[Depth])' = f BY <2>1
  <2> QED BY <1>7, <2>1, <2>2 DEF NoLineBlocked, InService, MasterInput
<1>12. StartsMasked'
  <2> SUFFICES ASSUME NEW p \in Pids, NEW i \in 1 .. Len(kstk'[p]), kstk'[p][i].at = "start"
               PROVE  p = curr_pid' /\ i = Len(kstk'[p]) /\ ~ifl'
    BY DEF StartsMasked
  <2>1. p = curr_pid BY <1>5, <1>9 DEF NoStart
  <2>2. i \in 1 .. Depth + 1 BY <1>2, <1>9, <2>1
  <2>3. i \notin 1 .. Depth BY <1>2, <1>5, <1>9, <2>1 DEF NoStart, Stack, Depth
  <2> QED BY <1>0, <1>2, <1>4, <1>9, <2>1, <2>2, <2>3, StackTypes
<1>13. \A p \in Pids : pc'[p] \notin Registers BY <1>0, <1>4, OutsideSection DEF IInv
<1>14. SectionMasked' /\ SelectedA' BY <1>13 DEF SectionMasked, SelectedA, Registers
<1>15. FlagIsDue' /\ NotYet' /\ DividerKept'
  BY <1>4 DEF IInv, FlagIsDue, NotYet, DividerKept, rtcVars, flagVars
<1> QED BY <1>8, <1>11, <1>12, <1>14, <1>15 DEF IInv

\* A step of a handler: its EOI, if it was ahead, is sent to both controllers.
LEMMA HandlerKeeps ==
    ASSUME IInv, HandlerStep, UNCHANGED step, step = "shell"
    PROVE  IInv'
<1>0. TypeOK /\ TypeOK' BY HandlerType DEF IInv
<1>1. Depth > 0 BY DEF HandlerStep, RtcWork, RtcLeave, KeyboardWork, PitWork, PitLeave, Handling
<1>2. ~Idle BY <1>1 DEF Idle
<1>3. NoStart'
  <2>1. PICK s \in Seq(Frame) :
             /\ kstk' = [kstk EXCEPT ![curr_pid] = s]
             /\ \A i \in 1 .. Len(s) : s[i].at = "start" =>
                    i \in 1 .. Depth /\ i # Depth /\ s[i] = Stack[i]
    BY <1>0, HandlerStack
  <2>2. kstk'[curr_pid] = s /\ \A p \in Pids : p # curr_pid => kstk'[p] = kstk[p]
    BY <1>0, <2>1 DEF TypeOK
  <2> SUFFICES ASSUME NEW p \in Pids, NEW i \in 1 .. Len(kstk'[p]), kstk'[p][i].at = "start"
               PROVE  FALSE
    BY DEF NoStart
  <2>3. CASE p = curr_pid
    BY <2>1, <2>2, <2>3 DEF IInv, StartsMasked, Stack, Depth
  <2>4. CASE p # curr_pid
    BY <2>2, <2>4 DEF IInv, StartsMasked
  <2> QED BY <2>3, <2>4
<1>4. isr' = {}
  <2>1. CASE RtcWork \/ KeyboardWork \/ PitWork
    <3>1. PICK q \in Devices : Handling(q, "start") /\ isr' = AfterEoi(q)
      BY <2>1 DEF RtcWork, KeyboardWork, PitWork, Devices
    <3>2. isr = InService(q) BY <1>2, <3>1 DEF IInv, NoLineBlocked, Handling
    <3> QED BY <3>1, <3>2 DEF AfterEoi, InService, MasterInput, Devices, MAX_PIC, SLAVE_IRQ,
            PIT_IRQ, KB_IRQ, RTC_IRQ
  <2>2. CASE RtcLeave \/ PitLeave
    <3>1. Stack[Depth].at # "start" BY <2>2 DEF RtcLeave, PitLeave, Handling
    <3>2. isr = {} BY <1>0, <3>1, NothingInService DEF IInv
    <3> QED BY <2>2, <3>2 DEF RtcLeave, PitLeave, picVars
  <2> QED BY <2>1, <2>2 DEF HandlerStep
<1>5. StartsMasked' /\ NoLineBlocked'
  <2>1. (isr = {})' BY <1>4
  <2> QED BY <1>0, <1>3, <2>1, NoStartSuffices, PTL
<1>6. UNCHANGED <<reg_a, pc, prev_a>>
  BY DEF HandlerStep, RtcWork, RtcLeave, KeyboardWork, PitWork, PitLeave, rtcVars
<1>7. \A p \in Pids : pc'[p] \notin Registers BY <1>0, <1>2, <1>6, OutsideSection DEF IInv
<1>8. SectionMasked' /\ SelectedA' BY <1>7 DEF SectionMasked, SelectedA, Registers
<1>9. FlagIsDue'
  <2>1. CASE RtcWork BY <1>0, <2>1 DEF IInv, FlagIsDue, RtcWork
  <2>2. CASE ~RtcWork
    BY <2>2 DEF IInv, FlagIsDue, HandlerStep, RtcLeave, KeyboardWork, PitWork, PitLeave, flagVars
  <2> QED BY <2>1, <2>2
<1>10. NotYet' /\ DividerKept' BY <1>6 DEF IInv, NotYet, DividerKept
<1> QED BY <1>0, <1>5, <1>8, <1>9, <1>10 DEF IInv

\* A step of a program: it runs in no handler.
LEMMA ProgramKeeps ==
    ASSUME IInv, Program, UNCHANGED step, step = "shell"
    PROVE  IInv'
<1>0. TypeOK /\ TypeOK' BY ProgramType DEF IInv
<1> USE DEF GoFrom, me
<1>1. Idle /\ UNCHANGED <<isr, curr_pid, kstk>>
  BY DEF Program, ReadStep, DeviceStep, CallRead, ReadClear, ReadReturn, CallWrite, CallOpenFull,
     rtc_close, Cli, Select, Input, Output, Sti, picVars
<1>2. NoStart /\ isr = {} BY <1>0, <1>1, NoStartWhen, NothingInService DEF IInv
<1>3. NoStart' /\ isr' = {} BY <1>1, <1>2 DEF NoStart
<1>4. StartsMasked' /\ NoLineBlocked'
  <2>1. (isr = {})' BY <1>3
  <2> QED BY <1>0, <1>3, <2>1, NoStartSuffices, PTL
<1>5. \A p \in Pids : p # curr_pid => pc'[p] = pc[p] /\ pc[p] \notin Registers
  BY <1>0 DEF IInv, SectionMasked, TypeOK, Program, ReadStep, DeviceStep, CallRead, ReadClear,
     ReadReturn, CallWrite, CallOpenFull, rtc_close, Cli, Select, Input, Output, Sti
<1>6. curr_pid \in Pids /\ pc[curr_pid] \in Labels BY <1>0 DEF TypeOK
<1>7. SectionMasked'
  <2>1. pc'[curr_pid] \in Registers => ~ifl'
    BY <1>0, <1>6 DEF IInv, SectionMasked, Registers, TypeOK, Program, ReadStep, DeviceStep,
       CallRead, ReadClear, ReadReturn, CallWrite, CallOpenFull, rtc_close, Cli, Select, Input,
       Output, Sti
  <2> QED BY <1>1, <1>5, <2>1 DEF SectionMasked, Idle, Depth, Stack
<1>8. SelectedA' /\ DividerKept'
  <2>1. /\ pc'[curr_pid] \in {"input", "output"} => port' = "A"
        /\ pc'[curr_pid] \in {"again", "output"} => prev_a'[curr_pid]
        /\ reg_a'
    BY <1>0, <1>6 DEF IInv, SelectedA, DividerKept, TypeOK, Program, ReadStep, DeviceStep,
       CallRead, ReadClear, ReadReturn, CallWrite, CallOpenFull, rtc_close, Cli, Select, Input,
       Output, Sti, rtcVars
  <2> QED BY <1>5, <2>1 DEF SelectedA, DividerKept, Registers
<1>9. FlagIsDue'
  BY <1>0, <1>6 DEF IInv, FlagIsDue, TypeOK, Program, ReadStep, DeviceStep,
     CallRead, ReadClear, ReadReturn, CallWrite, CallOpenFull, rtc_close, Cli, Select, Input,
     Output, Sti, flagVars
<1>10. NotYet' BY DEF NotYet
<1> QED BY <1>0, <1>4, <1>7, <1>8, <1>9, <1>10 DEF IInv

-----------------------------------------------------------------------------
(* The theorems *)

\* A timer period, a key or the RTC asks for an interrupt.
LEMMA DeviceKeeps ==
    ASSUME IInv, RtcEdge \/ (\E q \in Devices : Edge(q)), UNCHANGED step, step = "shell"
    PROVE  IInv'
<1>1. TypeOK'
  BY DEF IInv, TypeOK, RtcEdge, Edge, rtcVars, flagVars, Devices
<1>2. UNCHANGED <<isr, ifl, curr_pid, kstk, port, reg_a, flagVars, rtc_scales, pc, prev_a>>
  BY DEF RtcEdge, Edge, rtcVars
<1> QED BY <1>1, <1>2 DEF IInv, NoLineBlocked, Idle, Stack, Depth, DividerKept, StartsMasked,
        SectionMasked, SelectedA, FlagIsDue, NotYet, flagVars

\* The invariant holds when the machine comes out of reset.
LEMMA InitHolds == MachineInit => IInv
<1> SUFFICES ASSUME MachineInit PROVE IInv OBVIOUS
<1>1. TypeOK BY InitType
<1>2. NoStart
  BY DEF MachineInit, InitPrograms, NoStart
<1>3. StartsMasked /\ NoLineBlocked BY <1>1, <1>2, NoStartSuffices DEF MachineInit, InitPrograms
<1>4. \A p \in Pids : pc[p] = "user" BY DEF MachineInit, InitPrograms
<1>5. DividerKept BY DEF MachineInit, InitPrograms, DividerKept
<1> QED BY <1>1, <1>2, <1>3, <1>4, <1>5
        DEF IInv, NoStart, SectionMasked, SelectedA, FlagIsDue, NotYet, Registers

\* No step of the machine breaks it.
LEMMA StepKeeps == IInv /\ [MachineNext]_allVars => IInv'
<1> SUFFICES ASSUME IInv, [MachineNext]_allVars PROVE IInv' OBVIOUS
<1>1. CASE Boots(B!Next) BY <1>1, BootStep
<1>2. CASE Runs(Next)
  <2>1. Next /\ step = "shell" /\ UNCHANGED step BY <1>2 DEF Runs, bootVars
  <2>2. CASE RtcEdge \/ \E q \in Devices : Edge(q) BY <2>1, <2>2, DeviceKeeps
  <2>3. ASSUME NEW q \in Devices, Deliver(q) PROVE IInv' BY <2>1, <2>3, DeliverStep
  <2>4. CASE HandlerStep BY <2>1, <2>4, HandlerKeeps
  <2>5. CASE Program BY <2>1, <2>5, ProgramKeeps
  <2> QED BY <2>1, <2>2, <2>3, <2>4, <2>5 DEF Next, Program
<1>3. CASE UNCHANGED allVars
  BY <1>3 DEF IInv, TypeOK, NoLineBlocked, Idle, Stack, Depth, DividerKept, StartsMasked,
     SectionMasked, SelectedA, FlagIsDue, NotYet, allVars, vars, bootVars, picVars, rtcVars, flagVars
<1> QED BY <1>1, <1>2, <1>3 DEF MachineNext

\* The inductive invariant holds of the machine as long as it runs.
THEOREM Invariance == MachineSpec => []IInv
<1> QED BY InitHolds, StepKeeps, PTL DEF MachineSpec

\* While a program runs, and when schedule has gone over to another process, both
\* controllers are ready for every line.
THEOREM LinesAreOpen == MachineSpec => []NoLineBlocked
<1>1. IInv => NoLineBlocked BY DEF IInv
<1> QED BY <1>1, Invariance, PTL

\* No rtc_handler between the accesses to register A: its divider survives.
THEOREM DividerSurvives == MachineSpec => []DividerKept
<1>1. IInv => DividerKept BY DEF IInv
<1> QED BY <1>1, Invariance, PTL

\* rtc_read waits for a virtual interrupt that comes after the call.
THEOREM ReadsWait == MachineSpec => ReadWaits
<1>1. IInv /\ [MachineNext]_allVars =>
        [\A p \in Pids : (pc[p] = "poll" /\ pc'[p] = "user") => due[p]]_vars
  <2> SUFFICES ASSUME IInv, [MachineNext]_allVars, NEW p \in Pids, pc[p] = "poll", pc'[p] = "user"
               PROVE  due[p]
    OBVIOUS
  <2>1. Program \/ UNCHANGED pc
    BY DEF MachineNext, Boots, Runs, Next, Program, programVars, allVars, vars, Edge, Deliver, RtcEdge,
       HandlerStep, RtcWork, RtcLeave, KeyboardWork, PitWork, PitLeave
  <2>2. ReadReturn /\ p = curr_pid
    BY <2>1 DEF IInv, TypeOK, Program, ReadStep, DeviceStep, CallRead, ReadClear, ReadReturn,
       CallWrite, CallOpenFull, rtc_close, Cli, Select, Input, Output, Sti, GoFrom, me
  <2> QED BY <2>2 DEF IInv, FlagIsDue, ReadReturn, me
<1> QED BY <1>1, Invariance, PTL DEF MachineSpec, ReadWaits

-----------------------------------------------------------------------------
(* The boot *)

\* The steps after which interrupts were enabled for the first time, and those
\* at which each of the things that a handler needs is in place.
Enabled   == {"pit_init", "pit_on", "pit_sti", "f_init", "init_paging", "init_scheduler",
              "sti", "init_processes"}
HasScales == Enabled \cup {"rtc_on", "rtc_sti"}
HasVectors == HasScales \cup {"cascade", "init_keyboard", "init_rtc"}
HasGates  == HasVectors \cup {"i8259_init"}
HasTerminals == HasGates \cup {"tables", "set_idt"}
HasTables == HasTerminals \cup {"entry"}

\* Interrupts are not enabled before the handlers' needs are met; the timer,
\* whose handler needs the processes, does not tick before the boot is over.
Prepared ==
    /\ ~crashed
    /\ ifl => step \in Enabled \cup {"shell"}
    /\ step # "shell" => PIT_IRQ \notin irr
    /\ step \in HasScales => "scales" \in ready
    /\ step \in HasVectors => offset = 32
    /\ step \in HasGates => {33, 40} \subseteq gates
    /\ step \in HasTerminals => "terminals" \in ready
    /\ step \in HasTables => {"gdt", "idt"} \subseteq selectors

\* Each step of the boot prepares what the later ones need.
LEMMA BootPrepares ==
    ASSUME BootDiscipline = {"slow_pit"}
    PROVE  Prepared /\ [MachineNext]_allVars => Prepared'
<1> SUFFICES ASSUME Prepared, [MachineNext]_allVars PROVE Prepared' OBVIOUS
<1> USE DEF Prepared, Enabled, HasScales, HasVectors, HasGates, HasTerminals, HasTables
<1>1. CASE B!Boots
  <2> USE DEF B!Goto, B!cpu, B!pic, B!rest, B!history
  <2>1. CASE B!_start \/ B!CheckLoader \/ B!LoadTables
    BY <2>1 DEF B!_start, B!CheckLoader, B!LoadTables
  <2>2. CASE B!set_idt BY <2>2 DEF B!set_idt
  <2>3. CASE B!i8259_init \/ B!Cascade BY <2>3 DEF B!i8259_init, B!Cascade
  <2>4. CASE B!init_keyboard \/ B!RtcOn \/ B!PitOn
    BY <2>4 DEF B!init_keyboard, B!RtcOn, B!PitOn, B!Enable
  <2>5. CASE B!init_rtc \/ B!pit_init BY <2>5 DEF B!init_rtc, B!pit_init
  <2>6. CASE B!RtcSti \/ B!PitSti \/ B!EnableInterrupts
    BY <2>6 DEF B!RtcSti, B!PitSti, B!EnableInterrupts, B!Sti
  <2>7. CASE B!f_init \/ B!init_paging \/ B!init_scheduler \/ B!init_processes
    BY <2>7 DEF B!f_init, B!init_paging, B!init_scheduler, B!init_processes
  <2> QED BY <1>1, <2>1, <2>2, <2>3, <2>4, <2>5, <2>6, <2>7 DEF B!Boots
<1>2. ASSUME NEW q \in B!Devices, B!Arrives(q) PROVE Prepared'
  <2>1. q # PIT_IRQ BY <1>2 DEF B!Arrives
  <2> QED BY <1>2, <2>1 DEF B!Arrives, B!cpu, B!pic, B!history
<1>3. ASSUME NEW q \in B!Devices, B!Delivered(q) PROVE Prepared'
  <2>1. /\ step \in Enabled /\ q \in {KB_IRQ, RTC_IRQ}
    BY <1>3 DEF B!Delivered, B!Devices
  <2>2. offset + q \in gates BY <2>1 DEF KB_IRQ, RTC_IRQ
  <2>3. B!Uses(q) \subseteq ready BY <2>1 DEF B!Uses, PIT_IRQ, KB_IRQ, RTC_IRQ
  <2>4. ~crashed' BY <1>3, <2>1, <2>2, <2>3 DEF B!Delivered
  <2> QED BY <1>3, <2>4 DEF B!Delivered, B!cpu, B!pic
<1>4. CASE Runs(Next) BY <1>4 DEF Runs, bootVars
<1>5. CASE UNCHANGED allVars BY <1>5 DEF allVars, vars, bootVars, picVars
<1> QED BY <1>1, <1>2, <1>3, <1>4, <1>5 DEF MachineNext, Boots, B!Next

\* An interrupt that comes anywhere in the boot finds its gate, the controllers'
\* vectors moved, and what its handler uses, if the first tick comes after it.
THEOREM NothingMissing ==
    ASSUME BootDiscipline = {"slow_pit"}
    PROVE  MachineSpec => []NoCrash
<1>1. MachineInit => Prepared
  BY DEF MachineInit, B!Init, Prepared, Enabled, HasScales, HasVectors, HasGates, HasTerminals,
     HasTables
<1>2. Prepared /\ [MachineNext]_allVars => Prepared' BY BootPrepares
<1>3. Prepared => NoCrash BY DEF Prepared, NoCrash, B!NoCrash
<1> QED BY <1>1, <1>2, <1>3, PTL DEF MachineSpec
-----------------------------------------------------------------------------
(* What the boot leaves *)

\* The steps that are still to come when a line has been opened.
BeforePit == {"pit_sti", "f_init", "init_paging", "init_scheduler", "sti", "init_processes", "shell"}
BeforeRtc == BeforePit \cup {"rtc_sti", "pit_init", "pit_on"}
BeforeKb  == BeforeRtc \cup {"init_rtc", "rtc_on"}
BeforeSlave == BeforeKb \cup {"init_keyboard"}
Remapped  == BeforeSlave \cup {"cascade"}

\* The lines that are open, as the step tells.
Opened == (IF step \in BeforeSlave THEN {SLAVE_IRQ} ELSE {})
          \cup (IF step \in BeforeKb THEN {KB_IRQ} ELSE {})
          \cup (IF step \in BeforeRtc THEN {RTC_IRQ} ELSE {})
          \cup (IF step \in BeforePit THEN {PIT_IRQ} ELSE {})

\* What the kernel knows of the masks is what the controllers have, and each
\* part is there from its step on.
Masks ==
    /\ master_mask = B!Master \ Opened /\ slave_mask = B!Slave \ Opened
    /\ step \in Remapped => imr = master_mask \cup slave_mask
    /\ Opened \ {SLAVE_IRQ} \subseteq works
PutInPlace ==
    /\ step \in {"entry", "tables"} => selectors = {"gdt", "idt"}
    /\ step \in Remapped \cup {"set_idt", "i8259_init"} => selectors = {"gdt", "idt", "ldt", "tr"}
    /\ step \in Remapped \cup {"tables", "set_idt", "i8259_init"} => "terminals" \in ready
    /\ step \in BeforePit \cup {"rtc_on", "rtc_sti", "pit_init", "pit_on"} => "scales" \in ready
    /\ step \in {"init_paging", "init_scheduler", "sti", "init_processes", "shell"} => "files" \in ready
    /\ step \in {"init_scheduler", "sti", "init_processes", "shell"} => paging
    /\ step \in {"sti", "init_processes", "shell"} => "scheduler" \in ready
    /\ step = "shell" => "processes" \in ready

BootInv == B!TypeOK /\ Masks /\ PutInPlace

\* What the machine has once it runs programs: the safety half of GetsToShell.
BootComplete == step = "shell" =>
    /\ paging /\ ready = B!Parts /\ B!MasksAgree
    /\ selectors = {"gdt", "idt", "ldt", "tr"}

\* One line more is opened, and its bit is cleared in both copies of the masks.
LEMMA OpensLine ==
    ASSUME NEW q \in {PIT_IRQ, KB_IRQ, SLAVE_IRQ, RTC_IRQ}, B!enable_irq(q),
           master_mask = B!Master \ Opened, slave_mask = B!Slave \ Opened,
           imr = master_mask \cup slave_mask, Opened' = Opened \cup {q}
    PROVE  /\ master_mask' = B!Master \ Opened' /\ slave_mask' = B!Slave \ Opened'
           /\ imr' = master_mask' \cup slave_mask'
<1> USE DEF PIT_IRQ, KB_IRQ, SLAVE_IRQ, RTC_IRQ, MAX_PIC
<1>1. B!Master = 0 .. 7 /\ B!Slave = 8 .. 15
  BY DEF B!Master, B!Slave, B!Irqs
<1>2. CASE q = RTC_IRQ
  <2>1. slave_mask' = slave_mask \ {q} /\ imr' = (imr \ B!Slave) \cup slave_mask'
        /\ master_mask' = master_mask
    BY <1>2 DEF B!enable_irq
  <2> QED BY <1>1, <1>2, <2>1
<1>3. CASE q # RTC_IRQ
  <2>1. master_mask' = master_mask \ {q} /\ imr' = (imr \ B!Master) \cup master_mask'
        /\ slave_mask' = slave_mask
    BY <1>3 DEF B!enable_irq
  <2> QED BY <1>1, <1>3, <2>1
<1> QED BY <1>2, <1>3

\* The steps that open a line.
LEMMA EnableKeeps ==
    ASSUME BootInv,
           NEW from, NEW to, NEW q \in Devices, B!Enable(from, to, q),
           <<from, to, q>> \in {<<"init_keyboard", "init_rtc", KB_IRQ>>, <<"rtc_on", "rtc_sti", RTC_IRQ>>,
                                <<"pit_on", "pit_sti", PIT_IRQ>>}
    PROVE  BootInv'
<1> USE DEF BeforePit, BeforeRtc, BeforeKb, BeforeSlave, Remapped
<1>0. step = from /\ step' = to BY DEF B!Enable, B!Goto
<1>1. step \in Remapped BY <1>0
<1>2. Opened' = Opened \cup {q} BY <1>0 DEF Opened
<1>3. /\ master_mask' = B!Master \ Opened' /\ slave_mask' = B!Slave \ Opened'
      /\ imr' = master_mask' \cup slave_mask'
  BY <1>1, <1>2, OpensLine DEF BootInv, Masks, B!Enable, Devices
<1>4. works' = works \cup {q} /\ UNCHANGED <<B!cpu, offset, irr, ready, loader, crashed>>
  BY DEF B!Enable, B!history
<1>5. Masks' BY <1>2, <1>3, <1>4 DEF BootInv, Masks
<1>6. PutInPlace' BY <1>0, <1>4 DEF BootInv, PutInPlace, B!cpu
<1>7. B!TypeOK'
  <2>1. master_mask' \subseteq B!Master /\ slave_mask' \subseteq B!Slave /\ imr' \subseteq B!Irqs
    BY <1>3 DEF B!Master, B!Slave, B!Irqs, MAX_PIC
  <2>2. works' \subseteq B!Devices /\ irr' \subseteq works'
    BY <1>4 DEF BootInv, B!TypeOK, B!Devices, Devices
  <2>3. step' \in B!Steps BY <1>0 DEF B!Steps
  <2> QED BY <1>4, <2>1, <2>2, <2>3 DEF BootInv, B!TypeOK, B!cpu
<1> QED BY <1>5, <1>6, <1>7 DEF BootInv


\* The steps of the boot.
LEMMA BootKeeps == ASSUME BootInv, B!Boots PROVE BootInv'
<1> USE DEF BeforePit, BeforeRtc, BeforeKb, BeforeSlave, Remapped
<1>1. CASE B!init_keyboard BY <1>1, EnableKeeps DEF B!init_keyboard, Devices
<1>2. CASE B!RtcOn BY <1>2, EnableKeeps DEF B!RtcOn, Devices
<1>3. CASE B!PitOn BY <1>3, EnableKeeps DEF B!PitOn, Devices
<1>4. CASE B!i8259_init
  <2>1. step = "i8259_init" /\ step' = "cascade" BY <1>4 DEF B!i8259_init, B!Goto
  <2>2. Opened = {} /\ Opened' = {} BY <2>1 DEF Opened
  <2>3. master_mask \cup slave_mask \subseteq B!Irqs
    BY <2>2 DEF BootInv, Masks, B!Master, B!Slave, B!Irqs, MAX_PIC
  <2>4. Masks' BY <1>4, <2>1, <2>2 DEF BootInv, Masks, B!i8259_init
  <2>5. PutInPlace' BY <1>4, <2>1 DEF BootInv, PutInPlace, B!i8259_init, B!cpu
  <2>6. B!TypeOK'
    <3>1. offset' = 32 /\ imr' \subseteq B!Irqs /\ irr' = {} /\ step' \in B!Steps
      BY <1>4, <2>1, <2>3 DEF B!i8259_init, B!Steps
    <3>2. UNCHANGED <<ifl, gates, selectors, paging, master_mask, slave_mask, works, ready, loader, crashed>>
      BY <1>4 DEF B!i8259_init, B!cpu, B!history
    <3> QED BY <3>1, <3>2 DEF BootInv, B!TypeOK
  <2> QED BY <2>4, <2>5, <2>6 DEF BootInv
<1>5. CASE B!Cascade
  <2>1. step = "cascade" /\ step' = "init_keyboard" BY <1>5 DEF B!Cascade, B!Goto
  <2>2. Opened = {} /\ Opened' = Opened \cup {SLAVE_IRQ} BY <2>1 DEF Opened
  <2>3. /\ master_mask' = B!Master \ Opened' /\ slave_mask' = B!Slave \ Opened'
        /\ imr' = master_mask' \cup slave_mask'
    BY <1>5, <2>1, <2>2, OpensLine DEF BootInv, Masks, B!Cascade
  <2>4. Masks' BY <2>2, <2>3 DEF Masks
  <2>5. PutInPlace' BY <1>5, <2>1 DEF BootInv, PutInPlace, B!Cascade, B!cpu, B!rest
  <2>6. master_mask' \subseteq B!Master /\ slave_mask' \subseteq B!Slave /\ imr' \subseteq B!Irqs
    BY <2>3 DEF B!Master, B!Slave, B!Irqs, MAX_PIC
  <2>7. B!TypeOK'
    BY <1>5, <2>1, <2>6 DEF BootInv, B!TypeOK, B!Cascade, B!cpu, B!rest, B!history, B!Steps
  <2> QED BY <2>4, <2>5, <2>7 DEF BootInv
<1>6. CASE ~(B!init_keyboard \/ B!RtcOn \/ B!PitOn \/ B!i8259_init \/ B!Cascade)
  <2> USE DEF B!Goto, B!cpu, B!pic, B!rest, B!history
  <2>0. \/ B!_start \/ B!CheckLoader \/ B!LoadTables \/ B!set_idt \/ B!init_rtc \/ B!RtcSti
        \/ B!pit_init \/ B!PitSti \/ B!f_init \/ B!init_paging \/ B!init_scheduler
        \/ B!EnableInterrupts \/ B!init_processes
    BY <1>6 DEF B!Boots
  <2>1. UNCHANGED <<master_mask, slave_mask, imr, works, irr>>
    BY <2>0 DEF B!_start, B!CheckLoader, B!LoadTables, B!set_idt, B!init_rtc, B!RtcSti, B!pit_init,
       B!PitSti, B!f_init, B!init_paging, B!init_scheduler, B!EnableInterrupts, B!init_processes, B!Sti
  <2>2. Opened' = Opened /\ (step' \in Remapped => step \in Remapped)
    BY <2>0 DEF Opened, B!_start, B!CheckLoader, B!LoadTables, B!set_idt, B!init_rtc, B!RtcSti,
       B!pit_init, B!PitSti, B!f_init, B!init_paging, B!init_scheduler, B!EnableInterrupts,
       B!init_processes, B!Sti
  <2>3. Masks' BY <2>1, <2>2 DEF BootInv, Masks
  <2>3a. step' \in B!Steps /\ loader' \in B!Loaders /\ gates' \subseteq 0 .. 255
    <3> USE DEF BootInv, B!TypeOK, B!Steps
    <3>1. CASE B!_start \/ B!CheckLoader \/ B!init_rtc \/ B!RtcSti \/ B!pit_init \/ B!PitSti
      BY <3>1 DEF B!_start, B!CheckLoader, B!init_rtc, B!RtcSti, B!pit_init, B!PitSti, B!Sti
    <3>2. CASE B!LoadTables
      <4>1. B!NoLoader \in B!Loaders BY DEF B!NoLoader, B!Loaders
      <4> QED BY <3>2, <4>1 DEF B!LoadTables
    <3>3. CASE B!set_idt
      <4>1. (0 .. 19) \cup {32, 33, 40, 128} \subseteq 0 .. 255 OBVIOUS
      <4> QED BY <3>3, <4>1 DEF B!set_idt
    <3>4. CASE B!f_init \/ B!init_paging \/ B!init_scheduler \/ B!EnableInterrupts \/ B!init_processes
      BY <3>4 DEF B!f_init, B!init_paging, B!init_scheduler, B!EnableInterrupts, B!init_processes, B!Sti
    <3> QED BY <2>0, <3>1, <3>2, <3>3, <3>4
  <2>3b. ifl' \in BOOLEAN /\ crashed' \in BOOLEAN
    BY <2>0 DEF BootInv, B!TypeOK, B!_start, B!CheckLoader, B!LoadTables, B!set_idt, B!init_rtc,
       B!RtcSti, B!pit_init, B!PitSti, B!f_init, B!init_paging, B!init_scheduler,
       B!EnableInterrupts, B!init_processes, B!Sti
  <2>4. PutInPlace' /\ paging' \in BOOLEAN /\ ready' \subseteq B!Parts
        /\ selectors' \subseteq {"gdt", "idt", "ldt", "tr"}
    <3> USE DEF BootInv, PutInPlace, B!TypeOK, B!Parts
    <3>1. CASE B!_start \/ B!CheckLoader BY <3>1 DEF B!_start, B!CheckLoader
    <3>2. CASE B!LoadTables \/ B!set_idt BY <3>2 DEF B!LoadTables, B!set_idt
    <3>3. CASE B!init_rtc \/ B!RtcSti BY <3>3 DEF B!init_rtc, B!RtcSti, B!Sti
    <3>4. CASE B!pit_init \/ B!PitSti BY <3>4 DEF B!pit_init, B!PitSti, B!Sti
    <3>5. CASE B!f_init \/ B!init_paging BY <3>5 DEF B!f_init, B!init_paging
    <3>6. CASE B!init_scheduler \/ B!EnableInterrupts \/ B!init_processes
      BY <3>6 DEF B!init_scheduler, B!EnableInterrupts, B!init_processes, B!Sti
    <3> QED BY <2>0, <3>1, <3>2, <3>3, <3>4, <3>5, <3>6
  <2>6. B!TypeOK' BY <2>1, <2>3a, <2>3b, <2>4 DEF BootInv, B!TypeOK
  <2> QED BY <2>3, <2>4, <2>6 DEF BootInv
<1> QED BY <1>1, <1>2, <1>3, <1>4, <1>5, <1>6

\* Every step of the machine: an interrupt comes or is served during the boot, or
\* the programs and handlers run, whose requests come from devices that work.
LEMMA BootInvKept == ASSUME TypeOK, TypeOK', BootInv, [MachineNext]_allVars PROVE BootInv'
<1> USE DEF BeforePit, BeforeRtc, BeforeKb, BeforeSlave, Remapped
<1>1. CASE B!Boots BY <1>1, BootKeeps
<1>2. ASSUME UNCHANGED <<step, paging, selectors, gates, loader, works, ready, B!pic>>,
             irr' \subseteq works, ifl' \in BOOLEAN, crashed' \in BOOLEAN
      PROVE  BootInv'
  <2>1. Opened' = Opened BY <1>2 DEF Opened
  <2>2. Masks' BY <1>2, <2>1 DEF BootInv, Masks, B!pic
  <2>3. PutInPlace' BY <1>2 DEF BootInv, PutInPlace
  <2>4. B!TypeOK' BY <1>2 DEF BootInv, B!TypeOK, B!pic
  <2> QED BY <2>2, <2>3, <2>4 DEF BootInv
<1>3. ifl' \in BOOLEAN BY DEF TypeOK
<1>4. ASSUME NEW q \in B!Devices, B!Arrives(q) PROVE BootInv'
  <2>1. irr' \subseteq works BY <1>4 DEF BootInv, B!TypeOK, B!Arrives
  <2> QED BY <1>2, <1>3, <1>4, <2>1 DEF BootInv, B!TypeOK, B!Arrives, B!cpu, B!history
<1>5. ASSUME NEW q \in B!Devices, B!Delivered(q) PROVE BootInv'
  <2>1. irr' \subseteq works BY <1>5 DEF BootInv, B!TypeOK, B!Delivered
  <2>2. crashed' \in BOOLEAN BY <1>5, Zenon DEF B!Delivered
  <2> QED BY <1>2, <1>3, <1>5, <2>1, <2>2 DEF B!Delivered, B!cpu
<1>6. CASE Runs(Next)
  <2>1. step = "shell" BY <1>6 DEF Runs
  <2>2. Opened = Devices \cup {SLAVE_IRQ} BY <2>1 DEF Opened, Devices
  <2>3. SLAVE_IRQ \notin Devices BY DEF Devices, PIT_IRQ, KB_IRQ, RTC_IRQ, SLAVE_IRQ
  <2>4. Devices \subseteq works BY <2>2, <2>3 DEF BootInv, Masks
  <2>5. irr' \subseteq works BY <2>4 DEF TypeOK
  <2> QED BY <1>2, <1>3, <1>6, <2>5 DEF Runs, bootVars, BootInv, B!TypeOK, B!pic
<1>7. CASE UNCHANGED allVars
  BY <1>2, <1>7 DEF allVars, vars, bootVars, picVars, BootInv, B!TypeOK, B!pic
<1> QED BY <1>1, <1>4, <1>5, <1>6, <1>7 DEF MachineNext, Boots, B!Next

\* At reset the boot has done nothing; its lines are masked and nothing is loaded.
LEMMA BootInvInit == MachineInit => BootInv
<1> SUFFICES ASSUME MachineInit PROVE BootInv OBVIOUS
<1> USE DEF MachineInit, B!Init
<1>1. Opened = {}
  BY DEF Opened, BeforePit, BeforeRtc, BeforeKb, BeforeSlave
<1>2. Masks BY <1>1 DEF Masks, Remapped, BeforePit, BeforeRtc, BeforeKb, BeforeSlave
<1>3. PutInPlace BY DEF PutInPlace, Remapped, BeforePit, BeforeRtc, BeforeKb, BeforeSlave
<1>4. B!TypeOK
  BY DEF B!TypeOK, B!Steps, B!Master, B!Slave, B!Irqs, B!Devices, B!Parts, MAX_PIC
<1> QED BY <1>2, <1>3, <1>4 DEF BootInv

\* Boot and programs stay within their types: only devices that were set up raise
\* requests, and the masks have no bit outside their controller's lines.
THEOREM MachineTypes == MachineSpec => []MachineTypeOK
<1>1. MachineInit => BootInv BY BootInvInit
<1>2. TypeOK /\ TypeOK' /\ BootInv /\ [MachineNext]_allVars => BootInv' BY BootInvKept
<1>3. IInv => TypeOK BY DEF IInv
<1>4. TypeOK /\ BootInv => MachineTypeOK BY DEF BootInv, MachineTypeOK
<1> QED BY <1>1, <1>2, <1>3, <1>4, Invariance, PTL DEF MachineSpec

\* A machine that runs programs was set up completely, whatever interrupted the
\* boot: paging is on, every part is initialised, exactly the lines that have a
\* handler are open, and the kernel's copies of the masks are the controllers'.
THEOREM NothingLeftOut == MachineSpec => []BootComplete
<1>1. MachineInit => BootInv BY BootInvInit
<1>2. TypeOK /\ TypeOK' /\ BootInv /\ [MachineNext]_allVars => BootInv' BY BootInvKept
<1>3. IInv => TypeOK BY DEF IInv
<1>4. BootInv => BootComplete
  <2> SUFFICES ASSUME BootInv, step = "shell"
               PROVE  /\ paging /\ ready = B!Parts /\ B!MasksAgree
                      /\ selectors = {"gdt", "idt", "ldt", "tr"}
    BY DEF BootComplete
  <2> USE DEF BeforePit, BeforeRtc, BeforeKb, BeforeSlave, Remapped
  <2>1. Opened = {PIT_IRQ, KB_IRQ, RTC_IRQ, SLAVE_IRQ} BY DEF Opened
  <2>2. B!Irqs = 0 .. 15 /\ B!Master = 0 .. 7 /\ B!Slave = 8 .. 15
    BY DEF B!Irqs, B!Master, B!Slave, MAX_PIC
  <2>3. imr = master_mask \cup slave_mask BY DEF BootInv, Masks
  <2>4. imr = B!Irqs \ {PIT_IRQ, KB_IRQ, RTC_IRQ, SLAVE_IRQ}
    BY <2>1, <2>2, <2>3 DEF BootInv, Masks, PIT_IRQ, KB_IRQ, RTC_IRQ, SLAVE_IRQ
  <2>5. B!MasksAgree
    BY <2>2, <2>3, <2>4 DEF B!MasksAgree, B!Devices, PIT_IRQ, KB_IRQ, RTC_IRQ, SLAVE_IRQ
  <2>6. ready = B!Parts BY DEF BootInv, PutInPlace, B!TypeOK, B!Parts
  <2> QED BY <2>5, <2>6 DEF BootInv, PutInPlace
<1> QED BY <1>1, <1>2, <1>3, <1>4, Invariance, PTL DEF MachineSpec
=============================================================================
