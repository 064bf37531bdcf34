---------------------------- MODULE KernelProof ----------------------------
(***************************************************************************)
(* Proofs about Kernel, for every number of processes and terminals.       *)
(* With no rule at all: type correctness, who has video memory, and how    *)
(* deep the stacks get.  When its users and the timing keep to the rules:  *)
(* every saved context is good when it is loaded, a program runs under its *)
(* own page and kernel stack, the process tree loses nobody, and what      *)
(* users see of it is Sessions.                                            *)
(***************************************************************************)
EXTENDS Kernel, KernelSessions, TLAPS, WellFoundedInduction

\* KERNEL is no process, every terminal's number is the pid of a boot shell.
LEMMA ConstantFacts ==
    /\ KERNEL \notin Pids /\ KERNEL \in Owners
    /\ Pids \subseteq Owners /\ Terms \subseteq Pids /\ 0 \in Terms
    /\ \A t \in Terms : t + 1 \in 0 .. MAX_TERM
BY KernelAssumption DEF KERNEL, Pids, Owners, Terms

\* Cutting a stack of frames leaves a stack of frames.
LEMMA KeepType ==
    ASSUME NEW s \in Seq(Frame), NEW n \in Nat
    PROVE  /\ Keep(s, n) \in Seq(Frame)
           /\ n <= Len(s) => SubSeq(s, 1, n) \in Seq(Frame)
<1>1. ASSUME n <= Len(s) PROVE SubSeq(s, 1, n) \in Seq(Frame)
  BY <1>1
<1> QED BY <1>1 DEF Keep

\* A trap, wherever it comes, leaves well-formed stacks.
LEMMA EnterKernelType ==
    ASSUME TypeOK, NEW f \in Frame, EnterKernel(f)
    PROVE  kstk' \in [Owners -> Seq(Frame)] /\ cpu' \in Owners
<1> DEFINE stk  == IF InUser THEN esp0.stk ELSE cpu
           keep == IF InUser THEN Keep(kstk[stk], esp0.len) ELSE kstk[stk]
<1>1. stk \in Owners BY DEF TypeOK
<1>2. kstk[stk] \in Seq(Frame) BY <1>1 DEF TypeOK
<1>3. esp0.len \in Nat BY DEF TypeOK
<1>4. keep \in Seq(Frame) BY <1>2, <1>3, KeepType
<1>5. Append(keep, f) \in Seq(Frame) BY <1>4
<1>6. kstk' = [kstk EXCEPT ![stk] = Append(keep, f)] /\ cpu' = stk
  BY DEF EnterKernel
<1>7. kstk \in [Owners -> Seq(Frame)] BY DEF TypeOK
<1> HIDE DEF stk, keep
<1> QED BY <1>1, <1>5, <1>6, <1>7

\* The frame of the running function, when there is one.
LEMMA TopType ==
    ASSUME TypeOK, kstk[cpu] # <<>>
    PROVE  /\ Depth \in Nat /\ Depth >= 1
           /\ Top \in Frame /\ Top.pid \in Owners
           /\ Top.fn = "system_vidmap" => Top.pid \in Terms \cup {KERNEL}
           /\ Here \in Context
<1>1. kstk[cpu] \in Seq(Frame) /\ cpu \in Owners BY DEF TypeOK
<1>2. Len(kstk[cpu]) \in Nat /\ Len(kstk[cpu]) >= 1
  BY <1>1
<1>3. kstk[cpu][Len(kstk[cpu])] \in Frame
  BY <1>1, <1>2
<1> QED BY <1>1, <1>2, <1>3 DEF Depth, Top, Here, Frame, Context

\* Moving the running function's label keeps the stacks well formed.
LEMMA GotoType ==
    ASSUME TypeOK, kstk[cpu] # <<>>, Top.fn # "system_vidmap",
           NEW l \in Labels, NEW p \in Owners, Goto(l, p)
    PROVE  kstk' \in [Owners -> Seq(Frame)]
<1> DEFINE fr == [Top EXCEPT !.at = l, !.pid = p]
           st == [kstk[cpu] EXCEPT ![Depth] = fr]
<1>1. kstk[cpu] \in Seq(Frame) /\ cpu \in Owners /\ kstk \in [Owners -> Seq(Frame)]
  BY DEF TypeOK
<1>2. fr \in Frame BY TopType DEF Frame
<1>3. st \in Seq(Frame)
  <2> HIDE DEF fr
  <2> QED BY <1>1, <1>2, TopType DEF Depth
<1>4. kstk' = [kstk EXCEPT ![cpu] = st]
  BY <1>1 DEF Goto
<1> HIDE DEF st
<1> QED BY <1>1, <1>3, <1>4

\* Loading a context keeps the machine's state well formed, even a dead one.
LEMMA JumpType ==
    ASSUME TypeOK, NEW c \in Context, NEW stacks \in [Owners -> Seq(Frame)], Jump(c, stacks)
    PROVE  /\ kstk' \in [Owners -> Seq(Frame)] /\ cpu' \in Owners
           /\ ifl' \in BOOLEAN /\ wild' \in BOOLEAN
<1>1. c.stk \in Owners /\ c.len \in Nat BY DEF Context
<1>2. stacks[c.stk] \in Seq(Frame) BY <1>1
<1>3. CASE Live(c, stacks) /\ (c.len = 1 => Current(c.stk))
  <2>1. c.len \in 1 .. Len(stacks[c.stk]) BY <1>3 DEF Live
  <2>2. c.len - 1 \in Nat /\ c.len - 1 <= Len(stacks[c.stk])
    BY <2>1, <1>2
  <2>3. SubSeq(stacks[c.stk], 1, c.len - 1) \in Seq(Frame) BY <1>2, <2>2, KeepType
  <2>4. kstk' = [stacks EXCEPT ![c.stk] = SubSeq(stacks[c.stk], 1, c.len - 1)]
    BY <1>3, <1>1 DEF Jump
  <2>5. kstk' \in [Owners -> Seq(Frame)] BY <2>3, <2>4, <1>1
  <2>6. cpu' = c.stk /\ ifl' = (ifl \/ c.fn = "schedule" \/ c.len = 1) /\ wild' = wild
    BY <1>3 DEF Jump
  <2> QED BY <2>5, <2>6, <1>1 DEF TypeOK
<1>4. CASE ~(Live(c, stacks) /\ (c.len = 1 => Current(c.stk)))
  BY <1>4 DEF Jump, TypeOK
<1> QED BY <1>3, <1>4

\* The video pages when a terminal comes on display.
LEMMA DisplayedType ==
    ASSUME TypeOK, NEW t \in Terms
    PROVE  Displayed(t) \in [Terms -> 0 .. MAX_TERM]
<1>1. video_mem \in [Terms -> 0 .. MAX_TERM] /\ curr_term \in Terms BY DEF TypeOK
<1>2. curr_term + 1 \in 0 .. MAX_TERM /\ VIDEO \in 0 .. MAX_TERM
  BY <1>1, ConstantFacts, KernelAssumption DEF VIDEO
<1> QED BY <1>1, <1>2 DEF Displayed

\* The display goes over to a terminal, and the video pages with it.
LEMMA TermSwitchType ==
    ASSUME TypeOK, NEW t \in Terms, term_switch(t)
    PROVE  /\ curr_term' \in Terms
           /\ video_mem' \in [Terms -> 0 .. MAX_TERM]
           /\ vid_page' \in -1 .. MAX_TERM
<1>1. TermsOf(curr_pid) \subseteq Terms BY DEF TypeOK, TermsOf
<1>2. {Displayed(t)[u] : u \in TermsOf(curr_pid)} \subseteq 0 .. MAX_TERM
  BY <1>1, DisplayedType
<1>3. vid_page' \in {vid_page} \cup (0 .. MAX_TERM)
  BY <1>2 DEF term_switch
<1>4. 0 .. MAX_TERM \subseteq -1 .. MAX_TERM BY KernelAssumption
<1> QED BY <1>3, <1>4, DisplayedType DEF term_switch, TypeOK

\* The page of a process, or of the kernel, is mapped with its terminal's video page.
LEMMA SetupPagingType ==
    ASSUME TypeOK, NEW p \in Owners, setup_paging(p)
    PROVE  user_page' \in Owners /\ vid_page' \in -1 .. MAX_TERM
<1>1. CASE p = KERNEL BY <1>1 DEF setup_paging, TypeOK
<1>2. CASE p \in Pids
  <2>1. video_mem[pid_to_term[p]] \in 0 .. MAX_TERM BY <1>2 DEF TypeOK
  <2>2. video_mem[pid_to_term[p]] \in -1 .. MAX_TERM BY <2>1, KernelAssumption
  <2> QED BY <2>2 DEF setup_paging, TypeOK
<1> QED BY <1>1, <1>2 DEF Owners

\* The turn goes round the terminals.
LEMMA NextTurnType ==
    ASSUME TypeOK PROVE NextTurn \in Terms
<1>1. schedule_counter + 1 \in Nat BY DEF TypeOK, Terms
<1>2. MAX_TERM \in Nat /\ MAX_TERM > 0 BY KernelAssumption
<1> HIDE DEF NextTurn
<1>3. (schedule_counter + 1) % MAX_TERM \in 0 .. (MAX_TERM - 1) BY <1>1, <1>2
<1> QED BY <1>3 DEF NextTurn, Terms

Less == {ss \in Nat \X Nat : ss[1] < ss[2]}

\* A nonempty set of naturals has a least member.
LEMMA LeastMember ==
    ASSUME NEW F, F \subseteq Nat, F # {}
    PROVE  \E m \in F : \A q \in F : m <= q
<1>1. OpToRel(<, Nat) = Less BY Zenon DEF OpToRel, Less
<1>2. IsWellFoundedOn(Less, Nat) BY <1>1, NatLessThanWellFounded, Zenon
<1>3. PICK x \in F : \A y \in F : ~ (<<y, x>> \in Less) BY <1>2, WFMin
<1>4. ASSUME NEW y \in F PROVE x <= y
  <2>1. x \in Nat /\ y \in Nat OBVIOUS
  <2>2. ~ (y < x)
    <3>1. <<y, x>> \in Nat \X Nat BY <2>1
    <3>2. y < x => <<y, x>> \in Less BY <3>1 DEF Less
    <3> QED BY <3>2, <1>3
  <2> QED BY <2>1, <2>2
<1> QED BY <1>4

\* The process find_free_process returns is free, and no smaller one is.
LEMMA FindFree ==
    ASSUME find_free_process # KERNEL
    PROVE  /\ find_free_process \in Pids
           /\ free_pid[find_free_process]
           /\ \A q \in Pids : free_pid[q] => find_free_process <= q
<1> DEFINE F == {p \in Pids : free_pid[p]}
<1>1. PICK p \in Pids : free_pid[p] BY DEF find_free_process
<1>2. F \subseteq Nat BY KernelAssumption DEF Pids
<1>3. F # {} BY <1>1
<1>4. \E m \in F : \A q \in F : m <= q BY <1>2, <1>3, LeastMember
<1>5. \E m \in Pids : free_pid[m] /\ \A q \in Pids : free_pid[q] => m <= q
  BY <1>4
<1> QED BY <1>1, <1>5 DEF find_free_process

-----------------------------------------------------------------------------
(* Type correctness.  Every action is shown to keep TypeOK on its own; the   *)
(* operator lemmas above carry the stack and page parts.                     *)

\* At the start the variables are of their types.
LEMMA InitType == Init => TypeOK
<1> SUFFICES ASSUME Init PROVE TypeOK OBVIOUS
<1>1. kstk \in [Owners -> Seq(Frame)]
  <2> DEFINE e == [fn |-> "entry", at |-> "main", pid |-> KERNEL]
             x == [fn |-> "system_execute", at |-> "find", pid |-> KERNEL]
  <2>1. e \in Frame /\ x \in Frame BY ConstantFacts DEF Frame, Functions, Labels
  <2> HIDE DEF e, x
  <2>2. <<e, x>> \in Seq(Frame) /\ <<>> \in Seq(Frame) BY <2>1
  <2>3. kstk = [p \in Owners |-> IF p # 0 THEN <<>> ELSE <<e, x>>]
    BY DEF Init, e, x
  <2> QED BY <2>2, <2>3
<1>2. NoContext \in Context BY ConstantFacts DEF NoContext, Context
<1>3. /\ video_mem \in [Terms -> 0 .. MAX_TERM]
      /\ pit_count \in 0 .. (MAX_TERM + 1) /\ vid_page \in -1 .. MAX_TERM
      /\ schedule_counter \in Terms
  BY ConstantFacts, KernelAssumption DEF Init, VIDEO, Terms
<1>4. 0 \in Owners /\ KERNEL \in Owners /\ 0 \in Terms
  BY ConstantFacts
<1> QED BY <1>1, <1>2, <1>3, <1>4 DEF Init, TypeOK

\* A timer interrupt.
LEMMA TickType == ASSUME TypeOK, Tick PROVE TypeOK'
<1>1. [fn |-> "schedule", at |-> "tick", pid |-> KERNEL] \in Frame
  BY ConstantFacts DEF Frame, Functions, Labels
<1>2. kstk' \in [Owners -> Seq(Frame)] /\ cpu' \in Owners
  BY <1>1, EnterKernelType DEF Tick
<1>3. pit_count' \in 0 .. (MAX_TERM + 1)
  BY KernelAssumption DEF Tick, TypeOK
<1> QED BY <1>2, <1>3 DEF Tick, TypeOK, procVars, termVars, pageVars

\* A program's call of execute or halt, or a fault.
LEMMA SyscallType == ASSUME TypeOK, SyscallExecute \/ SyscallHalt \/ Fault PROVE TypeOK'
<1>1. curr_pid \in Owners /\ KERNEL \in Owners BY ConstantFacts DEF TypeOK
<1>2. /\ [fn |-> "system_execute", at |-> "find", pid |-> KERNEL] \in Frame
      /\ [fn |-> "system_halt", at |-> "free", pid |-> curr_pid] \in Frame
      /\ [fn |-> "exception", at |-> "spin", pid |-> curr_pid] \in Frame
  BY <1>1 DEF Frame, Functions, Labels
<1>3. kstk' \in [Owners -> Seq(Frame)] /\ cpu' \in Owners
  BY <1>2, EnterKernelType DEF SyscallExecute, SyscallHalt, Fault
<1> QED BY <1>3 DEF SyscallExecute, SyscallHalt, Fault, TypeOK, procVars, termVars,
                    clockVars, pageVars

\* system_vidmap's local is a page: the display or a terminal's backing page.
LEMMA VidmapType == ASSUME TypeOK, SyscallVidmap \/ VidmapStore PROVE TypeOK'
<1>1. CASE SyscallVidmap
  <2>1. PICK t \in TermsOf(curr_pid) :
          EnterKernel([fn |-> "system_vidmap", at |-> "store", pid |-> video_mem[t] - 1])
    BY <1>1 DEF SyscallVidmap
  <2>2. t \in Terms BY <2>1 DEF TermsOf, TypeOK
  <2>3. video_mem[t] - 1 \in Terms \cup {KERNEL}
    BY <2>2, KernelAssumption DEF TypeOK, Terms, KERNEL
  <2>4. [fn |-> "system_vidmap", at |-> "store", pid |-> video_mem[t] - 1] \in Frame
    BY <2>3, ConstantFacts DEF Frame, Functions, Labels
  <2>5. kstk' \in [Owners -> Seq(Frame)] /\ cpu' \in Owners BY <2>1, <2>4, EnterKernelType
  <2> QED BY <1>1, <2>5 DEF SyscallVidmap, TypeOK, procVars, termVars, clockVars, pageVars
<1>2. CASE VidmapStore
  <2>1. kstk[cpu] # <<>> /\ Top.fn = "system_vidmap" /\ vid_page' = Top.pid + 1
    BY <1>2 DEF VidmapStore, At
  <2>2. vid_page' \in -1 .. MAX_TERM
    BY <2>1, TopType, KernelAssumption DEF Terms, KERNEL
  <2>3. kstk \in [Owners -> Seq(Frame)] BY DEF TypeOK
  <2>4. /\ kstk' \in [Owners -> Seq(Frame)] /\ cpu' \in Owners
        /\ ifl' \in BOOLEAN /\ wild' \in BOOLEAN
    BY <1>2, <2>1, <2>3, TopType, JumpType DEF VidmapStore, Return, Resume
  <2> QED BY <1>2, <2>2, <2>4 DEF VidmapStore, TypeOK, procVars, termVars, clockVars
<1> QED BY <1>1, <1>2

\* Alt and a function key.
LEMMA KeySwitchType == ASSUME TypeOK, NEW t \in Terms, KeySwitch(t) PROVE TypeOK'
BY TermSwitchType DEF KeySwitch, TypeOK, procVars, clockVars, cpuVars

\* schedule starts the shell of a terminal that has none.
LEMMA ScheduleSpawnType == ASSUME TypeOK, ScheduleSpawn PROVE TypeOK'
<1>1. pit_count \in Terms
  BY KernelAssumption DEF ScheduleSpawn, MustSpawn, TypeOK, Terms
<1>2. /\ curr_term' \in Terms /\ video_mem' \in [Terms -> 0 .. MAX_TERM]
      /\ vid_page' \in -1 .. MAX_TERM
  BY <1>1, TermSwitchType DEF ScheduleSpawn
<1>3. kstk' \in [Owners -> Seq(Frame)]
  <2> DEFINE x == [fn |-> "system_execute", at |-> "find", pid |-> KERNEL]
             fr == [Top EXCEPT !.at = "spawned"]
             st == [kstk[cpu] EXCEPT ![Depth] = fr]
  <2>1. kstk[cpu] # <<>> /\ kstk[cpu] \in Seq(Frame) /\ cpu \in Owners
    BY DEF ScheduleSpawn, At, TypeOK
  <2>2. x \in Frame BY ConstantFacts DEF Frame, Functions, Labels
  <2>3. fr \in Frame BY <2>1, TopType DEF Frame, Labels
  <2>4. st \in Seq(Frame)
    <3> HIDE DEF fr
    <3> QED BY <2>1, <2>3, TopType DEF Depth
  <2>5. kstk' = [kstk EXCEPT ![cpu] = Append(st, x)]
    BY DEF ScheduleSpawn, Top
  <2> HIDE DEF st, x
  <2>6. Append(st, x) \in Seq(Frame) BY <2>2, <2>4
  <2> QED BY <2>1, <2>5, <2>6 DEF TypeOK
<1> QED BY <1>2, <1>3 DEF ScheduleSpawn, TypeOK, procVars

\* schedule goes over to the newest process of a terminal.
LEMMA ScheduleSwitchType == ASSUME TypeOK, ScheduleSwitch PROVE TypeOK'
<1> DEFINE next  == top_pid[NextTurn]
           shown == IF pit_count = MAX_TERM THEN 0 ELSE curr_term
<1>1. NextTurn \in Terms BY NextTurnType
<1>2. next \in Owners BY <1>1 DEF TypeOK
<1>3. shown \in Terms BY ConstantFacts DEF TypeOK
<1>4. kstk[cpu] # <<>> BY DEF ScheduleSwitch, At
<1>5. /\ schedule_counter' = NextTurn
      /\ curr_term' = shown
      /\ video_mem' = Displayed(shown)
      /\ user_page' = next
      /\ my_k' = [my_k EXCEPT ![curr_pid] = Here]
      /\ esp0' = pid_to_ksb(next)
      /\ curr_pid' = next
      /\ Resume(my_k'[next])
  BY DEF ScheduleSwitch
<1>6. my_k' \in [Owners -> Context] BY <1>4, <1>5, TopType DEF TypeOK
<1>7. /\ kstk' \in [Owners -> Seq(Frame)] /\ cpu' \in Owners
      /\ ifl' \in BOOLEAN /\ wild' \in BOOLEAN
  <2>1. my_k'[next] \in Context BY <1>2, <1>6
  <2>2. kstk \in [Owners -> Seq(Frame)] BY DEF TypeOK
  <2> QED BY <1>5, <2>1, <2>2, JumpType DEF Resume
<1>8. esp0' \in [stk : Owners, len : Nat] BY <1>2, <1>5 DEF pid_to_ksb
<1>9. vid_page' \in -1 .. MAX_TERM
  <2>1. Displayed(shown) \in [Terms -> 0 .. MAX_TERM] BY <1>3, DisplayedType
  <2>2. TermsOf(curr_pid) \subseteq Terms BY DEF TermsOf, TypeOK
  <2>3. 0 .. MAX_TERM \subseteq -1 .. MAX_TERM BY KernelAssumption
  <2>4. CASE next = KERNEL
    <3>1. vid_page' \in IF shown = curr_term THEN {vid_page}
                        ELSE {Displayed(shown)[u] : u \in TermsOf(curr_pid)}
      BY <2>4 DEF ScheduleSwitch
    <3> HIDE DEF shown
    <3> QED BY <2>1, <2>2, <2>3, <3>1 DEF TypeOK
  <2>5. CASE next # KERNEL
    <3>1. vid_page' = Displayed(shown)[pid_to_term[next]]
      BY <2>5 DEF ScheduleSwitch
    <3>2. pid_to_term[next] \in Terms BY <2>5, <1>2 DEF TypeOK, Owners
    <3> HIDE DEF shown, next
    <3> QED BY <2>1, <2>3, <3>1, <3>2
  <2> QED BY <2>4, <2>5
<1>10. video_mem' \in [Terms -> 0 .. MAX_TERM] BY <1>3, <1>5, DisplayedType
<1>11. UNCHANGED <<free_pid, parent_pid, parent_k, pid_to_term, top_pid,
                   pit_count, shells_done>>
  BY DEF ScheduleSwitch
<1> HIDE DEF next, shown
<1> QED BY <1>1, <1>2, <1>3, <1>5, <1>6, <1>7, <1>8, <1>9, <1>10, <1>11 DEF TypeOK

\* execute picks a free process and opens the file.
LEMMA ExecPickType == ASSUME TypeOK, ExecPick PROVE TypeOK'
<1>1. find_free_process \in Pids /\ find_free_process \in Owners
  BY FindFree, ConstantFacts DEF ExecPick
<1>2. kstk' \in [Owners -> Seq(Frame)]
  BY <1>1, GotoType DEF ExecPick, At, Labels
<1>3. pid_to_term' \in [Pids -> Terms] BY <1>1 DEF ExecPick, TypeOK
<1> QED BY <1>2, <1>3 DEF ExecPick, TypeOK, termVars, clockVars, pageVars

\* execute fails, or halt jumps back to the parent's execute.
LEMMA ReturnType == ASSUME TypeOK, ExecReject \/ ExecLoadFail \/ HaltJump PROVE TypeOK'
<1>1. /\ kstk' \in [Owners -> Seq(Frame)] /\ cpu' \in Owners
      /\ ifl' \in BOOLEAN /\ wild' \in BOOLEAN
  <2>1. kstk[cpu] # <<>> BY DEF ExecReject, ExecLoadFail, HaltJump, At
  <2>2. kstk \in [Owners -> Seq(Frame)] /\ cpu \in Owners BY DEF TypeOK
  <2>3. CASE ExecReject \/ ExecLoadFail
    BY <2>1, <2>2, <2>3, TopType, JumpType DEF ExecReject, ExecLoadFail, Return, Resume
  <2>4. CASE HaltJump
    <3> DEFINE stacks == [kstk EXCEPT ![cpu] = SubSeq(@, 1, Depth - 1)]
    <3>1. kstk[cpu] \in Seq(Frame) BY <2>2
    <3>2. Depth - 1 \in Nat /\ Depth - 1 <= Len(kstk[cpu])
      BY <2>1, TopType DEF Depth
    <3>3. SubSeq(kstk[cpu], 1, Depth - 1) \in Seq(Frame) BY <3>1, <3>2, KeepType
    <3>4. stacks \in [Owners -> Seq(Frame)] BY <2>2, <3>3
    <3>5. parent_k[Top.pid] \in Context BY <2>1, TopType DEF TypeOK
    <3>6. Jump(parent_k[Top.pid], stacks) BY <2>4 DEF HaltJump
    <3> HIDE DEF stacks
    <3> QED BY <3>4, <3>5, <3>6, JumpType
  <2> QED BY <2>3, <2>4
<1> QED BY <1>1 DEF ExecReject, ExecLoadFail, HaltJump, TypeOK, procVars, termVars,
                    clockVars, pageVars

\* execute makes the child its terminal's newest and maps its page.
LEMMA ExecBindType == ASSUME TypeOK, ExecBind PROVE TypeOK'
<1>1. Top.pid \in Owners /\ kstk[cpu] # <<>> BY TopType DEF ExecBind, At
<1>2. kstk' \in [Owners -> Seq(Frame)] BY <1>1, GotoType DEF ExecBind, At, Labels
<1>3. user_page' \in Owners /\ vid_page' \in -1 .. MAX_TERM
  BY <1>1, SetupPagingType DEF ExecBind
<1>4. top_pid' \in [Terms -> Owners] BY <1>1 DEF ExecBind, TypeOK
<1> QED BY <1>2, <1>3, <1>4 DEF ExecBind, TypeOK, termVars, clockVars

\* execute notes the child's parent and where to return to.
LEMMA ExecLinkType == ASSUME TypeOK, ExecLink PROVE TypeOK'
<1>1. Top.pid \in Owners /\ kstk[cpu] # <<>> /\ Here \in Context
  BY TopType DEF ExecLink, At
<1>2. kstk' \in [Owners -> Seq(Frame)] BY <1>1, GotoType DEF ExecLink, At, Labels
<1>3. /\ parent_pid' \in [Owners -> Owners]
      /\ parent_k' \in [Owners -> Context] /\ my_k' \in [Owners -> Context]
  BY <1>1 DEF ExecLink, TypeOK
<1> QED BY <1>2, <1>3 DEF ExecLink, TypeOK, termVars, clockVars, pageVars

\* execute makes the child the current process.
LEMMA ExecSwitchType == ASSUME TypeOK, ExecSwitch PROVE TypeOK'
<1>1. Top.pid \in Owners /\ kstk[cpu] # <<>> BY TopType DEF ExecSwitch, At
<1>2. kstk' \in [Owners -> Seq(Frame)] BY <1>1, GotoType DEF ExecSwitch, At, Labels
<1> QED BY <1>1, <1>2 DEF ExecSwitch, TypeOK, pid_to_ksb, procVars, termVars, clockVars,
                          pageVars

\* execute enters the program.
LEMMA ExecEnterType == ASSUME TypeOK, ExecEnter PROVE TypeOK'
<1>1. /\ Top.pid \in Owners /\ kstk[cpu] # <<>> /\ cpu \in Owners
      /\ kstk \in [Owners -> Seq(Frame)]
  BY TopType DEF ExecEnter, At, TypeOK
<1>2. kstk' \in [Owners -> Seq(Frame)]
  <2> DEFINE fr == [Top EXCEPT !.at = "wait"]
             st == [kstk[cpu] EXCEPT ![Depth] = fr]
  <2>1. fr \in Frame BY <1>1, TopType DEF Frame, Labels
  <2>2. st \in Seq(Frame)
    <3> HIDE DEF fr
    <3> QED BY <1>1, <2>1, TopType DEF Depth
  <2>3. kstk' = [[kstk EXCEPT ![cpu] = st] EXCEPT ![Top.pid] = <<>>]
    BY DEF ExecEnter, Top
  <2>4. <<>> \in Seq(Frame) OBVIOUS
  <2> HIDE DEF st
  <2> QED BY <1>1, <2>2, <2>3, <2>4
<1>3. free_pid' \in [Pids -> BOOLEAN] BY DEF ExecEnter, TypeOK
<1>4. wild' \in BOOLEAN BY DEF ExecEnter, Current
<1> QED BY <1>1, <1>2, <1>3, <1>4 DEF ExecEnter, TypeOK, termVars, clockVars, pageVars

\* halt frees its process, and gives its page, terminal and turn back to the parent.
LEMMA HaltType ==
    ASSUME TypeOK, HaltFree \/ HaltUnmap \/ HaltPop \/ HaltSwitch
    PROVE  TypeOK'
<1>1. kstk[cpu] # <<>> /\ Top.pid \in Owners /\ curr_pid \in Owners
  BY TopType DEF HaltFree, HaltUnmap, HaltPop, HaltSwitch, At, TypeOK
<1>2. kstk' \in [Owners -> Seq(Frame)]
  BY <1>1, GotoType DEF HaltFree, HaltUnmap, HaltPop, HaltSwitch, At, Labels
<1>3. CASE HaltFree
  BY <1>2, <1>3 DEF HaltFree, TypeOK, termVars, clockVars, pageVars
<1>4. CASE HaltUnmap
  <2>1. parent_pid[Top.pid] \in Owners /\ parent_k[curr_pid] \in Context
    BY <1>1 DEF TypeOK
  <2>2. user_page' \in Owners /\ vid_page' \in -1 .. MAX_TERM
    BY <1>4, <2>1, SetupPagingType DEF HaltUnmap
  <2>3. esp0' \in [stk : Owners, len : Nat] BY <1>4, <2>1 DEF HaltUnmap, Context
  <2> QED BY <1>2, <1>4, <2>2, <2>3 DEF HaltUnmap, TypeOK, procVars, termVars, clockVars
<1>5. CASE HaltPop
  <2>1. parent_pid[Top.pid] \in Owners BY <1>1 DEF TypeOK
  <2>2. top_pid' \in [Terms -> Owners] BY <1>5, <2>1 DEF HaltPop, TypeOK
  <2> QED BY <1>2, <1>5, <2>2 DEF HaltPop, TypeOK, termVars, clockVars, pageVars
<1>6. CASE HaltSwitch
  BY <1>1, <1>2, <1>6 DEF HaltSwitch, TypeOK, procVars, termVars, clockVars, pageVars
<1> QED BY <1>3, <1>4, <1>5, <1>6

\* Every step of the kernel, its programs and the keyboard keeps TypeOK.
LEMMA NextType == TypeOK /\ [Next]_vars => TypeOK'
<1> SUFFICES ASSUME TypeOK, [Next]_vars PROVE TypeOK' OBVIOUS
<1>1. CASE Tick BY <1>1, TickType
<1>2. CASE ScheduleStep BY <1>2, ScheduleSpawnType, ScheduleSwitchType DEF ScheduleStep
<1>3. CASE ExecuteStep
  BY <1>3, ExecPickType, ReturnType, ExecBindType, ExecLinkType, ExecSwitchType,
     ExecEnterType DEF ExecuteStep
<1>4. CASE HaltStep BY <1>4, HaltType, ReturnType DEF HaltStep
<1>5. CASE SyscallExecute \/ SyscallHalt \/ Fault BY <1>5, SyscallType
<1>6. CASE (\E t \in Terms : KeySwitch(t)) \/ SyscallVidmap \/ VidmapStore
  BY <1>6, KeySwitchType, VidmapType
<1>7. CASE UNCHANGED vars
  BY <1>7 DEF vars, TypeOK, procVars, termVars, clockVars, pageVars, cpuVars
<1> QED BY <1>1, <1>2, <1>3, <1>4, <1>5, <1>6, <1>7 DEF Next, KernelStep

\* Whatever the timing and whatever the programs do, every variable keeps its
\* type: the stacks stay stacks of frames, every saved context a context, every
\* top_pid a process or the kernel (system_execute.c, schedule.c).
THEOREM TypeCorrect == Spec => []TypeOK
<1> QED BY InitType, NextType, PTL DEF Spec

-----------------------------------------------------------------------------
(* term_switch and the display *)

\* term_switch leaves VIDEO with the terminal it switches to and gives the one
\* it leaves its backing page, so it keeps OneDisplayed.
LEMMA DisplayedKeepsOne ==
    ASSUME TypeOK, OneDisplayed, NEW t \in Terms,
           curr_term' = t, video_mem' = Displayed(t)
    PROVE  OneDisplayed'
<1>1. curr_term \in Terms /\ video_mem \in [Terms -> 0 .. MAX_TERM] BY DEF TypeOK
<1>2. CASE t = curr_term BY <1>2 DEF Displayed, OneDisplayed
<1>3. CASE t # curr_term
  <2>1. video_mem' = [video_mem EXCEPT ![curr_term] = curr_term + 1, ![t] = VIDEO]
    BY <1>3 DEF Displayed
  <2>2. ASSUME NEW u \in Terms
        PROVE  video_mem'[u] = IF u = t THEN VIDEO
                               ELSE IF u = curr_term THEN curr_term + 1 ELSE video_mem[u]
    BY <1>1, <1>3, <2>1
  <2> QED BY <2>2 DEF OneDisplayed
<1> QED BY <1>2, <1>3

\* Whatever ticks, commands and keys do, exactly the displayed terminal owns video
\* memory and every other terminal its own backing page (terminal.c, term_switch).
THEOREM DisplayIsExclusive == Spec => []OneDisplayed
<1>1. Init => OneDisplayed BY DEF Init, OneDisplayed
<1>2. TypeOK /\ OneDisplayed /\ [Next]_vars => OneDisplayed'
  <2> SUFFICES ASSUME TypeOK, OneDisplayed, [Next]_vars PROVE OneDisplayed' OBVIOUS
  <2>1. CASE ScheduleSpawn
    <3>1. pit_count \in Terms
      BY <2>1, KernelAssumption DEF ScheduleSpawn, MustSpawn, TypeOK, Terms
    <3> QED BY <2>1, <3>1, DisplayedKeepsOne DEF ScheduleSpawn, term_switch
  <2>2. CASE ScheduleSwitch
    <3> DEFINE shown == IF pit_count = MAX_TERM THEN 0 ELSE curr_term
    <3>1. shown \in Terms BY ConstantFacts DEF TypeOK
    <3>2. curr_term' = shown /\ video_mem' = Displayed(shown)
      BY <2>2 DEF ScheduleSwitch
    <3> HIDE DEF shown
    <3> QED BY <3>1, <3>2, DisplayedKeepsOne
  <2>3. CASE \E t \in Terms : KeySwitch(t)
    BY <2>3, DisplayedKeepsOne DEF KeySwitch, term_switch
  <2>4. CASE UNCHANGED termVars BY <2>4 DEF termVars, OneDisplayed
  <2>5. CASE UNCHANGED vars BY <2>4, <2>5 DEF vars
  <2>6. CASE Tick \/ SyscallExecute \/ SyscallHalt \/ SyscallVidmap \/ VidmapStore \/ Fault
    BY <2>4, <2>6 DEF Tick, SyscallExecute, SyscallHalt, SyscallVidmap, VidmapStore, Fault
  <2>7. CASE ExecuteStep
    BY <2>4, <2>7 DEF ExecuteStep, ExecPick, ExecReject, ExecBind, ExecLoadFail,
       ExecLink, ExecSwitch, ExecEnter
  <2>8. CASE HaltStep
    BY <2>4, <2>8 DEF HaltStep, HaltFree, HaltUnmap, HaltPop, HaltSwitch, HaltJump
  <2> QED BY <2>1, <2>2, <2>3, <2>5, <2>6, <2>7, <2>8
          DEF Next, KernelStep, ScheduleStep
<1> QED BY <1>1, <1>2, TypeCorrect, PTL DEF Spec

-----------------------------------------------------------------------------
(* How deep the stacks get, with no rule at all *)

FnAt(s, i) == kstk[s][i].fn

\* While the kernel boots there is one stack, of entry(): on it a system_execute that
\* a tick may cut, or a schedule that starts a shell, or the one above the other.
\* Every pid is free, and pid 0 is the one that is picked.
BootFrames ==
    /\ Len(kstk[0]) \in 1 .. 4 /\ FnAt(0, 1) = "entry"
    /\ Len(kstk[0]) >= 2 => FnAt(0, 2) \in {"system_execute", "schedule"}
    /\ Len(kstk[0]) >= 3 => \/ FnAt(0, 2) = "schedule" /\ FnAt(0, 3) = "system_execute"
                            \/ FnAt(0, 2) = "system_execute" /\ FnAt(0, 3) = "schedule"
    /\ Len(kstk[0]) >= 4 => FnAt(0, 2) = "system_execute" /\ FnAt(0, 4) = "system_execute"
    /\ \A i \in 1 .. Len(kstk[0]) :
          /\ FnAt(0, i) = "schedule" => ~ifl
          /\ FnAt(0, i) = "system_execute" /\ kstk[0][i].at # "find" => kstk[0][i].pid = 0
BootStacks ==
    /\ cpu = 0 /\ (\A s \in Owners : s # 0 => kstk[s] = <<>>)
    /\ \A p \in Pids : free_pid[p]
    /\ \A p \in Owners : my_k[p].fn # "entry" /\ (my_k[p].stk = 0 \/ my_k[p].len = 0)
    /\ BootFrames

\* A frame of schedule that has started a shell; one that has not.
Spawner(s, i)   == FnAt(s, i) = "schedule" /\ kstk[s][i].at = "spawned"
Unspawned(s, i) == FnAt(s, i) = "schedule" /\ kstk[s][i].at # "spawned"

\* On a stack the frames above the first are of schedule, each of which has started
\* a shell, and on top of those perhaps a tick or the shell that is started.
PileOK(s) == \A i \in 1 .. Len(kstk[s]) :
    /\ FnAt(s, i) # "entry"
    /\ Spawner(s, i) => i <= pit_count + 1 /\ i <= MAX_TERM
    /\ Unspawned(s, i) => i = Len(kstk[s])
    /\ i > 1 => \/ FnAt(s, i) = "schedule"
                \/ FnAt(s, i) = "system_execute" /\ Spawner(s, i - 1) /\ i = Len(kstk[s])

\* No tick comes while one of the latter runs, and there is a shell left to start
\* for each time that schedule can still be entered above itself.
RunningOK ==
    /\ kstk[cpu] # <<>> =>
          /\ Unspawned(cpu, Depth) => ~ifl /\ (pit_count < MAX_TERM => Depth <= pit_count + 1)
          /\ Depth > 1 /\ Top.fn = "system_execute" => ~ifl
    /\ kstk[cpu] = <<>> => esp0.stk = cpu

Piles == (\A s \in Owners : PileOK(s)) /\ RunningOK

NestInv == BoundedNesting /\ (~wild => BootStacks \/ Piles)

\* A stack's frames are frames.
LEMMA PileType ==
    ASSUME TypeOK
    PROVE  /\ cpu \in Owners /\ Depth = Len(kstk[cpu])
           /\ \A s \in Owners : /\ kstk[s] \in Seq(Frame) /\ Len(kstk[s]) \in Nat
                                /\ (kstk[s] = <<>> <=> Len(kstk[s]) = 0)
                                /\ \A i \in 1 .. Len(kstk[s]) : kstk[s][i] \in Frame
           /\ pit_count \in Nat
<1>1. cpu \in Owners /\ kstk \in [Owners -> Seq(Frame)] /\ pit_count \in Nat
  BY KernelAssumption DEF TypeOK
<1>2. ASSUME NEW s \in Owners
      PROVE /\ kstk[s] \in Seq(Frame) /\ Len(kstk[s]) \in Nat
            /\ (kstk[s] = <<>> <=> Len(kstk[s]) = 0)
            /\ \A i \in 1 .. Len(kstk[s]) : kstk[s][i] \in Frame
  <2>1. kstk[s] \in Seq(Frame) BY <1>1
  <2> QED BY <2>1
<1> QED BY <1>1, <1>2 DEF Depth

\* A trap puts its frame on the stack.
LEMMA TrapPushes ==
    ASSUME TypeOK, ~wild, kstk[cpu] = <<>> => esp0.stk = cpu, NEW f \in Frame, EnterKernel(f)
    PROVE  /\ cpu' = cpu /\ Len(kstk'[cpu]) = Len(kstk[cpu]) + 1
           /\ \A i \in 1 .. Len(kstk[cpu]) : kstk'[cpu][i] = kstk[cpu][i]
           /\ kstk'[cpu][Len(kstk[cpu]) + 1] = f
           /\ \A q \in Owners \ {cpu} : kstk'[q] = kstk[q]
<1>1. cpu \in Owners /\ kstk \in [Owners -> Seq(Frame)] /\ kstk[cpu] \in Seq(Frame)
      /\ esp0.len \in Nat
  BY DEF TypeOK
<1>2. CASE kstk[cpu] = <<>>
  <2>1. Keep(kstk[cpu], esp0.len) = <<>> BY <1>1, <1>2 DEF Keep
  <2>2. cpu' = cpu /\ kstk' = [kstk EXCEPT ![cpu] = Append(kstk[cpu], f)]
    BY <1>2, <2>1 DEF EnterKernel, InUser
  <2> QED BY <1>1, <2>2
<1>3. CASE kstk[cpu] # <<>>
  <2>1. cpu' = cpu /\ kstk' = [kstk EXCEPT ![cpu] = Append(kstk[cpu], f)]
    BY <1>3 DEF EnterKernel, InUser
  <2> QED BY <1>1, <2>1
<1> QED BY <1>2, <1>3

\* The running function moves on: its frame keeps its place.
LEMMA GotoMarks ==
    ASSUME TypeOK, kstk[cpu] # <<>>, NEW l, NEW p, Goto(l, p)
    PROVE  /\ \A q \in Owners : Len(kstk'[q]) = Len(kstk[q])
           /\ \A q \in Owners : \A i \in 1 .. Len(kstk[q]) :
                 (q # cpu \/ i # Depth) => kstk'[q][i] = kstk[q][i]
           /\ kstk'[cpu][Depth].fn = Top.fn /\ kstk'[cpu][Depth].at = l
           /\ kstk'[cpu][Depth].pid = p
<1> DEFINE fr == [Top EXCEPT !.at = l, !.pid = p]
           st == [kstk[cpu] EXCEPT ![Depth] = fr]
<1>1. kstk[cpu] \in Seq(Frame) /\ cpu \in Owners /\ kstk \in [Owners -> Seq(Frame)]
  BY DEF TypeOK
<1>2. kstk' = [kstk EXCEPT ![cpu] = st] BY <1>1 DEF Goto
<1>3. fr.fn = Top.fn /\ fr.at = l /\ fr.pid = p BY <1>1, TopType DEF Frame
<1>4. Depth \in Nat /\ Depth >= 1 /\ Depth = Len(kstk[cpu]) BY TopType DEF Depth
<1> HIDE DEF fr
<1>5. /\ Len(st) = Len(kstk[cpu]) /\ st[Depth] = fr
      /\ \A i \in 1 .. Len(kstk[cpu]) : i # Depth => st[i] = kstk[cpu][i]
  BY <1>1, <1>4
<1> HIDE DEF st
<1>6. kstk'[cpu] = st /\ \A q \in Owners \ {cpu} : kstk'[q] = kstk[q] BY <1>1, <1>2
<1> QED BY <1>3, <1>5, <1>6

\* A context that is live is loaded, or control is lost and the stacks stay.
LEMMA JumpCuts ==
    ASSUME TypeOK, ~wild, NEW c \in Context, NEW stacks \in [Owners -> Seq(Frame)], Jump(c, stacks), ~wild'
    PROVE  /\ cpu' = c.stk /\ c.len \in 1 .. Len(stacks[c.stk]) /\ stacks[c.stk][c.len].fn = c.fn
           /\ ifl' = (ifl \/ c.fn = "schedule" \/ c.len = 1)
           /\ Len(kstk'[cpu']) = c.len - 1
           /\ \A i \in 1 .. (c.len - 1) : kstk'[cpu'][i] = stacks[cpu'][i]
           /\ \A q \in Owners \ {cpu'} : kstk'[q] = stacks[q]
           /\ kstk'[cpu'] = <<>> => esp0'.stk = cpu'
<1>1. c.stk \in Owners /\ c.len \in Nat BY DEF Context
<1>2. Live(c, stacks) /\ (c.len = 1 => Current(c.stk)) BY DEF Jump
<1>3. stacks[c.stk] \in Seq(Frame) /\ c.len \in 1 .. Len(stacks[c.stk])
      /\ stacks[c.stk][c.len].fn = c.fn
  BY <1>1, <1>2 DEF Live
<1> DEFINE st == SubSeq(stacks[c.stk], 1, c.len - 1)
<1>4. kstk' = [stacks EXCEPT ![c.stk] = st] /\ cpu' = c.stk
      /\ ifl' = (ifl \/ c.fn = "schedule" \/ c.len = 1)
  BY <1>1, <1>2 DEF Jump
<1>5. Len(st) = c.len - 1 /\ \A i \in 1 .. (c.len - 1) : st[i] = stacks[c.stk][i] BY <1>3
<1> HIDE DEF st
<1>6. kstk'[c.stk] = st /\ \A q \in Owners \ {c.stk} : kstk'[q] = stacks[q] BY <1>1, <1>4
<1>7. kstk'[cpu'] = <<>> => c.len = 1
  <2>1. Len(<<>>) = 0 OBVIOUS
  <2> QED BY <1>3, <1>4, <1>5, <1>6, <2>1
<1> QED BY <1>2, <1>3, <1>4, <1>5, <1>6, <1>7 DEF Current

\* What a step may do to the stacks that keeps the piles: it leaves out frames at the
\* top and marks others, as long as the stack that goes on is the one that ran, with
\* all its frames, or has lost its top.
Pruned ==
    /\ pit_count' = pit_count
    /\ \A q \in Owners :
          /\ Len(kstk'[q]) <= Len(kstk[q])
          /\ \A i \in 1 .. Len(kstk'[q]) :
                /\ kstk'[q][i].fn = kstk[q][i].fn
                /\ kstk[q][i].fn = "schedule" => kstk'[q][i].at = kstk[q][i].at
    /\ kstk'[cpu'] = <<>> => esp0'.stk = cpu'
    /\ kstk'[cpu'] # <<>> => \/ cpu' = cpu /\ (ifl' <=> ifl) /\ Len(kstk'[cpu]) = Len(kstk[cpu])
                             \/ Len(kstk'[cpu']) < Len(kstk[cpu'])

\* Such a step keeps the piles.
LEMMA PrunedKeeps ==
    ASSUME TypeOK, TypeOK', Piles, Pruned
    PROVE  Piles'
<1>1. /\ \A s \in Owners : Len(kstk[s]) \in Nat /\ Len(kstk'[s]) \in Nat
      /\ \A s \in Owners : kstk'[s] = <<>> <=> Len(kstk'[s]) = 0
      /\ \A s \in Owners : kstk[s] = <<>> <=> Len(kstk[s]) = 0
  <2>1. kstk \in [Owners -> Seq(Frame)] /\ kstk' \in [Owners -> Seq(Frame)] BY DEF TypeOK
  <2>2. ASSUME NEW s \in Owners
        PROVE  /\ Len(kstk[s]) \in Nat /\ Len(kstk'[s]) \in Nat
               /\ (kstk'[s] = <<>> <=> Len(kstk'[s]) = 0) /\ (kstk[s] = <<>> <=> Len(kstk[s]) = 0)
    <3>1. kstk[s] \in Seq(Frame) /\ kstk'[s] \in Seq(Frame) BY <2>1
    <3> QED BY <3>1
  <2> QED BY <2>2
<1>2. cpu \in Owners /\ cpu' \in Owners BY DEF TypeOK
<1>3. ASSUME NEW s \in Owners, NEW i \in 1 .. Len(kstk'[s])
      PROVE  /\ i \in 1 .. Len(kstk[s]) /\ i \in Nat
             /\ (Spawner(s, i)' <=> Spawner(s, i)) /\ (Unspawned(s, i)' <=> Unspawned(s, i))
             /\ FnAt(s, i)' = FnAt(s, i)
  BY <1>1 DEF Pruned, Spawner, Unspawned, FnAt
<1>4. ASSUME NEW s \in Owners PROVE PileOK(s)'
  <2> SUFFICES ASSUME NEW i \in 1 .. Len(kstk'[s])
               PROVE /\ FnAt(s, i)' # "entry"
                     /\ Spawner(s, i)' => i <= pit_count' + 1 /\ i <= MAX_TERM
                     /\ Unspawned(s, i)' => i = Len(kstk'[s])
                     /\ i > 1 => \/ FnAt(s, i)' = "schedule"
                                 \/ FnAt(s, i)' = "system_execute" /\ Spawner(s, i - 1)' /\ i = Len(kstk'[s])
    BY DEF PileOK
  <2>1. PileOK(s) BY DEF Piles
  <2>2. i > 1 => i - 1 \in 1 .. Len(kstk'[s]) BY <1>1
  <2>3. Len(kstk'[s]) <= Len(kstk[s]) /\ pit_count' = pit_count BY DEF Pruned
  <2>4. i = Len(kstk[s]) => i = Len(kstk'[s]) BY <2>3, <1>1
  <2>5. i > 1 => (Spawner(s, i - 1)' <=> Spawner(s, i - 1)) BY <1>3, <2>2
  <2> QED BY <1>3, <2>1, <2>3, <2>4, <2>5 DEF PileOK
<1>5. RunningOK'
  <2>1. kstk'[cpu'] = <<>> => esp0'.stk = cpu' BY DEF Pruned
  <2> SUFFICES ASSUME kstk'[cpu'] # <<>>
               PROVE  /\ Unspawned(cpu, Depth)' => ~ifl' /\ (pit_count' < MAX_TERM => Depth' <= pit_count' + 1)
                      /\ Depth' > 1 /\ Top'.fn = "system_execute" => ~ifl'
    BY <2>1 DEF RunningOK
  <2>2. Depth' \in 1 .. Len(kstk'[cpu']) /\ Depth' = Len(kstk'[cpu']) BY <1>1, <1>2 DEF Depth
  <2>3. /\ Unspawned(cpu, Depth)' <=> Unspawned(cpu', Depth')
        /\ Top'.fn = FnAt(cpu', Depth') /\ Depth' \in 1 .. Len(kstk[cpu'])
    BY <1>2, <1>3, <2>2 DEF Top, FnAt, Unspawned
  <2>4. PileOK(cpu') BY <1>2 DEF Piles
  <2>5. CASE Len(kstk'[cpu']) < Len(kstk[cpu'])
    BY <1>1, <1>2, <2>2, <2>3, <2>4, <2>5 DEF PileOK
  <2>6. CASE cpu' = cpu /\ (ifl' <=> ifl) /\ Len(kstk'[cpu]) = Len(kstk[cpu])
    <3>1. Depth' = Depth /\ kstk[cpu] # <<>> BY <1>1, <1>2, <2>2, <2>6 DEF Depth
    <3>2. Top'.fn = Top.fn BY <2>3, <2>6, <3>1 DEF FnAt, Top
    <3> QED BY <2>3, <2>6, <3>1, <3>2 DEF Piles, RunningOK, Pruned
  <2> QED BY <2>5, <2>6 DEF Pruned
<1> QED BY <1>4, <1>5 DEF Piles
\* A bound that grows by one at most stays a bound.
LEMMA BoundGrows ==
    \A a, b, i \in Nat : (b = a \/ b = a + 1) /\ i <= a + 1 => i <= b + 1
OBVIOUS

\* A trap keeps the piles: a tick comes on top of a frame that is not waiting for
\* one, a program's call and a fault on an empty stack.
LEMMA TrapKeeps ==
    ASSUME TypeOK, TypeOK', ~wild, Piles, NEW f \in Frame, EnterKernel(f), f.fn # "entry",
           \/ /\ kstk[cpu] = <<>> /\ pit_count' = pit_count /\ f.fn # "schedule"
           \/ /\ ifl /\ ~ifl' /\ f.fn = "schedule" /\ f.at = "tick"
              /\ pit_count' \in {pit_count, pit_count + 1}
              /\ pit_count < MAX_TERM => pit_count' = pit_count + 1
    PROVE  Piles'
<1>1. /\ cpu \in Owners /\ Depth = Len(kstk[cpu]) /\ pit_count \in Nat /\ pit_count' \in Nat
      /\ \A s \in Owners : Len(kstk[s]) \in Nat
      /\ kstk[cpu] = <<>> <=> Len(kstk[cpu]) = 0
      /\ MAX_TERM \in Nat
  <2>1. pit_count' \in Nat /\ MAX_TERM \in Nat BY KernelAssumption DEF TypeOK
  <2> QED BY <2>1, PileType
<1>n. PICK n \in Nat : n = Len(kstk[cpu]) + 1 BY <1>1
<1>2. /\ cpu' = cpu /\ Len(kstk'[cpu]) = n
      /\ \A i \in 1 .. Len(kstk[cpu]) : kstk'[cpu][i] = kstk[cpu][i]
      /\ kstk'[cpu][n] = f
      /\ \A q \in Owners \ {cpu} : kstk'[q] = kstk[q]
  BY <1>n, TrapPushes DEF Piles, RunningOK
<1>3. n \in Nat /\ n >= 1 /\ Len(kstk[cpu]) = n - 1 /\ pit_count' >= pit_count BY <1>1, <1>n
<1>4. \* of the frames below, none waits to be the top one
      ASSUME NEW i \in 1 .. (n - 1)
      PROVE  /\ ~Unspawned(cpu, i)
             /\ i > 1 => FnAt(cpu, i) = "schedule"
             /\ FnAt(cpu, i) = "schedule" => i <= pit_count + 1 /\ i <= MAX_TERM
             /\ FnAt(cpu, i) # "entry" /\ i \in Nat /\ n > 1
             /\ FnAt(cpu, i)' = FnAt(cpu, i) /\ (Spawner(cpu, i)' <=> Spawner(cpu, i))
             /\ (Unspawned(cpu, i)' <=> Unspawned(cpu, i))
  <2>1. kstk[cpu] # <<>> /\ n > 1 /\ i \in Nat /\ i \in 1 .. Len(kstk[cpu]) BY <1>1, <1>3
  <2>2. ifl BY <2>1
  <2>3. PileOK(cpu) BY <1>1 DEF Piles
  <2>4. ~Unspawned(cpu, i)
    BY <1>1, <2>1, <2>2, <2>3 DEF Piles, RunningOK, PileOK
  <2>5. i > 1 => FnAt(cpu, i) = "schedule"
    BY <1>1, <2>1, <2>2, <2>3 DEF Piles, RunningOK, PileOK, Top, FnAt
  <2>6. FnAt(cpu, i) = "schedule" => i <= pit_count + 1 /\ i <= MAX_TERM
    BY <2>1, <2>3, <2>4 DEF PileOK, Spawner, Unspawned
  <2>7. FnAt(cpu, i) # "entry" BY <2>1, <2>3 DEF PileOK
  <2>8. kstk'[cpu'][i] = kstk[cpu][i] BY <1>2, <2>1
  <2>9. /\ FnAt(cpu, i)' = FnAt(cpu, i) /\ (Spawner(cpu, i)' <=> Spawner(cpu, i))
        /\ (Unspawned(cpu, i)' <=> Unspawned(cpu, i))
    BY <2>8 DEF FnAt, Spawner, Unspawned
  <2> QED BY <2>1, <2>4, <2>5, <2>6, <2>7, <2>9
<1>5. FnAt(cpu, n)' = f.fn /\ ~Spawner(cpu, n)' /\ (Unspawned(cpu, n)' => f.fn = "schedule")
  BY <1>2 DEF FnAt, Spawner, Unspawned
<1>6. n > 1 => f.fn = "schedule" BY <1>1, <1>3
<1>7. ASSUME NEW i \in 1 .. n
      PROVE /\ FnAt(cpu, i)' # "entry"
            /\ Spawner(cpu, i)' => i <= pit_count' + 1 /\ i <= MAX_TERM
            /\ Unspawned(cpu, i)' => i = n
            /\ i > 1 => FnAt(cpu, i)' = "schedule"
  <2>1. CASE i = n BY <1>5, <1>6, <2>1
  <2>2. CASE i \in 1 .. (n - 1)
    <3>1. Spawner(cpu, i)' => i <= pit_count + 1 /\ i <= MAX_TERM
      BY <1>4, <2>2 DEF Spawner
    <3>2. i \in Nat /\ pit_count + 1 <= pit_count' + 1 BY <1>1, <1>3
    <3>3. ~Unspawned(cpu, i)' /\ FnAt(cpu, i)' # "entry" /\ (i > 1 => FnAt(cpu, i)' = "schedule")
      BY <1>4, <2>2
    <3>4. Spawner(cpu, i)' => i <= pit_count' + 1 BY <1>1, <3>1, <3>2
    <3> QED BY <3>1, <3>3, <3>4
  <2> QED BY <1>3, <2>1, <2>2
<1>8. ASSUME NEW s \in Owners PROVE PileOK(s)'
  <2>1. CASE s = cpu
    <3>1. cpu' = s /\ Len(kstk'[s]) = n BY <1>2, <2>1
    <3>2. ASSUME NEW i \in 1 .. n
          PROVE /\ FnAt(s, i)' # "entry"
                /\ Spawner(s, i)' => i <= pit_count' + 1 /\ i <= MAX_TERM
                /\ Unspawned(s, i)' => i = n
                /\ i > 1 => FnAt(s, i)' = "schedule"
      BY <1>7, <3>1 DEF FnAt, Spawner, Unspawned
    <3> QED BY <3>1, <3>2 DEF PileOK
  <2>2. CASE s # cpu
    <3>1. kstk'[s] = kstk[s] /\ PileOK(s) BY <1>2, <2>2 DEF Piles
    <3>2. ASSUME NEW i \in Nat, i <= pit_count + 1 PROVE i <= pit_count' + 1
      <4>1. pit_count \in Nat /\ pit_count' \in Nat BY <1>1
      <4>2. pit_count' = pit_count \/ pit_count' = pit_count + 1 OBVIOUS
      <4> QED BY <3>2, <4>1, <4>2, BoundGrows
    <3>3. \A i \in 1 .. Len(kstk[s]) : i \in Nat BY <1>1
    <3> QED BY <3>1, <3>2, <3>3 DEF PileOK, FnAt, Spawner, Unspawned
  <2> QED BY <2>1, <2>2
<1>9. RunningOK'
  <2>1. Depth' = n /\ kstk'[cpu'] # <<>>
    <3>1. Len(<<>>) = 0 OBVIOUS
    <3> QED BY <1>2, <1>3, <3>1 DEF Depth
  <2>2. Top' = f BY <1>2, <2>1 DEF Top
  <2>4. n > 1 => f.fn # "system_execute" BY <1>6
  <2>5. Unspawned(cpu, n)' => ~ifl' /\ (pit_count' < MAX_TERM => n <= pit_count' + 1)
    <3> SUFFICES ASSUME f.fn = "schedule", pit_count' < MAX_TERM PROVE n <= pit_count' + 1
      BY <1>5
    <3>1. pit_count' = pit_count + 1 BY <1>1
    <3>2. CASE n = 1 BY <1>1, <3>2
    <3>3. CASE n = 2 BY <1>1, <3>1, <3>3
    <3>4. CASE n > 2
      <4>1. n - 1 \in 1 .. (n - 1) /\ n - 1 > 1 BY <1>3, <3>4
      <4>2. n - 1 <= pit_count + 1 BY <4>1, <1>4
      <4> QED BY <1>1, <1>3, <3>1, <4>2
    <3> QED BY <1>3, <3>2, <3>3, <3>4
  <2>6. Unspawned(cpu, Depth)' <=> Unspawned(cpu, n)' BY <1>2, <2>1 DEF Unspawned, FnAt
  <2> QED BY <2>1, <2>2, <2>4, <2>5, <2>6 DEF RunningOK
<1> QED BY <1>8, <1>9 DEF Piles

\* schedule marks its frame and calls system_execute for the next shell.
LEMMA SpawnPushes ==
    ASSUME TypeOK, ScheduleSpawn
    PROVE  /\ kstk[cpu] # <<>> /\ Len(kstk'[cpu]) = Depth + 1
           /\ \A i \in 1 .. (Depth - 1) : kstk'[cpu][i] = kstk[cpu][i]
           /\ kstk'[cpu][Depth].fn = "schedule" /\ kstk'[cpu][Depth].at = "spawned"
           /\ kstk'[cpu][Depth + 1] = [fn |-> "system_execute", at |-> "find", pid |-> KERNEL]
           /\ \A q \in Owners \ {cpu} : kstk'[q] = kstk[q]
<1> DEFINE x == [fn |-> "system_execute", at |-> "find", pid |-> KERNEL]
           fr == [Top EXCEPT !.at = "spawned"]
           st == [kstk[cpu] EXCEPT ![Depth] = fr]
<1>1. kstk[cpu] # <<>> /\ kstk[cpu] \in Seq(Frame) /\ cpu \in Owners
      /\ kstk \in [Owners -> Seq(Frame)] /\ Top.fn = "schedule"
  BY DEF ScheduleSpawn, At, TypeOK
<1>2. Depth \in Nat /\ Depth >= 1 /\ Depth = Len(kstk[cpu]) BY <1>1, TopType DEF Depth
<1>3. fr.fn = "schedule" /\ fr.at = "spawned" /\ fr \in Frame BY <1>1, TopType DEF Frame, Labels
<1>4. kstk' = [kstk EXCEPT ![cpu] = Append(st, x)] BY DEF ScheduleSpawn, Top
<1>5. x \in Frame BY ConstantFacts DEF Frame, Functions, Labels
<1> HIDE DEF fr, x
<1>6. st \in Seq(Frame) /\ Len(st) = Depth /\ st[Depth] = fr
      /\ \A i \in 1 .. (Depth - 1) : st[i] = kstk[cpu][i]
  BY <1>1, <1>2, <1>3
<1> HIDE DEF st
<1>7. /\ Len(Append(st, x)) = Depth + 1 /\ Append(st, x)[Depth + 1] = x
      /\ Append(st, x)[Depth] = fr
      /\ \A i \in 1 .. (Depth - 1) : Append(st, x)[i] = kstk[cpu][i]
  BY <1>2, <1>5, <1>6
<1>8. kstk'[cpu] = Append(st, x) /\ \A q \in Owners \ {cpu} : kstk'[q] = kstk[q] BY <1>1, <1>4
<1> QED BY <1>1, <1>3, <1>7, <1>8 DEF x

\* That keeps the piles: there was a shell left to start.
LEMMA SpawnKeeps ==
    ASSUME TypeOK, TypeOK', ~wild, Piles, ScheduleSpawn
    PROVE  Piles'
<1>1. /\ cpu \in Owners /\ Depth = Len(kstk[cpu]) /\ pit_count \in Nat
      /\ \A s \in Owners : Len(kstk[s]) \in Nat
      /\ MAX_TERM \in Nat /\ cpu' = cpu /\ pit_count' = pit_count /\ (ifl' <=> ifl)
      /\ Top.fn = "schedule" /\ Top.at = "tick" /\ kstk[cpu] # <<>> /\ pit_count < MAX_TERM
  BY PileType, KernelAssumption DEF ScheduleSpawn, At, MustSpawn
<1>d. PICK d \in Nat : d = Depth BY <1>1
<1>2. d = Depth /\ d >= 1 BY <1>1, <1>d, TopType
<1>3. ~ifl /\ d <= pit_count + 1 BY <1>1, <1>2 DEF Piles, RunningOK, Unspawned, FnAt, Top
<1>4. /\ Len(kstk'[cpu]) = d + 1 /\ Spawner(cpu, d)' /\ FnAt(cpu, d)' = "schedule"
      /\ FnAt(cpu, d + 1)' = "system_execute"
      /\ \A i \in 1 .. (d - 1) : kstk'[cpu'][i] = kstk[cpu][i]
      /\ \A q \in Owners \ {cpu} : kstk'[q] = kstk[q]
  <2>1. /\ Len(kstk'[cpu]) = d + 1
        /\ \A i \in 1 .. (d - 1) : kstk'[cpu][i] = kstk[cpu][i]
        /\ kstk'[cpu][d].fn = "schedule" /\ kstk'[cpu][d].at = "spawned"
        /\ kstk'[cpu][d + 1].fn = "system_execute"
        /\ \A q \in Owners \ {cpu} : kstk'[q] = kstk[q]
    BY <1>2, SpawnPushes
  <2>2. kstk'[cpu'] = kstk'[cpu] BY <1>1
  <2> QED BY <2>1, <2>2 DEF Spawner, FnAt
<1>5. ASSUME NEW i \in 1 .. (d + 1)
      PROVE /\ FnAt(cpu, i)' # "entry"
            /\ Spawner(cpu, i)' => i <= pit_count + 1 /\ i <= MAX_TERM
            /\ Unspawned(cpu, i)' => i = d + 1
            /\ i > 1 => \/ FnAt(cpu, i)' = "schedule"
                        \/ FnAt(cpu, i)' = "system_execute" /\ Spawner(cpu, i - 1)' /\ i = d + 1
  <2>1. CASE i = d + 1
    <3>1. ~Spawner(cpu, i)' /\ ~Unspawned(cpu, i)' /\ FnAt(cpu, i)' = "system_execute" BY <1>4, <2>1 DEF Spawner, Unspawned
    <3>2. i - 1 = d BY <1>2, <2>1
    <3> QED BY <1>4, <2>1, <3>1, <3>2
  <2>2. CASE i = d
    <3>1. ~Unspawned(cpu, i)' BY <1>4, <2>2 DEF Spawner, Unspawned
    <3> QED BY <1>1, <1>2, <1>3, <1>4, <2>2, <3>1
  <2>3. CASE i \in 1 .. (d - 1)
    <3>1. i \in 1 .. Len(kstk[cpu]) /\ i # Len(kstk[cpu]) /\ PileOK(cpu) BY <1>1, <1>2, <2>3 DEF Piles
    <3>2. kstk'[cpu'][i] = kstk[cpu][i] BY <1>4, <2>3
    <3>3. /\ FnAt(cpu, i)' = FnAt(cpu, i) /\ (Spawner(cpu, i)' <=> Spawner(cpu, i))
          /\ (Unspawned(cpu, i)' <=> Unspawned(cpu, i))
      BY <3>2 DEF FnAt, Spawner, Unspawned
    <3> QED BY <3>1, <3>3 DEF PileOK
  <2> QED BY <1>2, <2>1, <2>2, <2>3
<1>6. ASSUME NEW s \in Owners PROVE PileOK(s)'
  <2>1. CASE s = cpu
    <3>1. cpu' = cpu /\ Len(kstk'[s]) = d + 1 BY <1>1, <1>4, <2>1
    <3>2. ASSUME NEW i \in 1 .. (d + 1)
          PROVE /\ FnAt(s, i)' # "entry"
                /\ Spawner(s, i)' => i <= pit_count' + 1 /\ i <= MAX_TERM
                /\ Unspawned(s, i)' => i = d + 1
                /\ i > 1 => \/ FnAt(s, i)' = "schedule"
                            \/ FnAt(s, i)' = "system_execute" /\ Spawner(s, i - 1)' /\ i = d + 1
      BY <1>1, <1>5, <2>1 DEF FnAt, Spawner, Unspawned
    <3> QED BY <3>1, <3>2 DEF PileOK
  <2>2. CASE s # cpu
    <3>1. kstk'[s] = kstk[s] /\ PileOK(s) BY <1>4, <2>2 DEF Piles
    <3> QED BY <1>1, <3>1 DEF PileOK, FnAt, Spawner, Unspawned
  <2> QED BY <2>1, <2>2
<1>7. RunningOK'
  <2>1. Depth' = d + 1 /\ kstk'[cpu'] # <<>>
    <3>1. Len(<<>>) = 0 OBVIOUS
    <3> QED BY <1>1, <1>2, <1>4, <3>1 DEF Depth
  <2>a. d + 1 \in Nat BY <1>2
  <2>2. ~Unspawned(cpu, Depth)' BY <1>1, <1>4, <2>1, <2>a DEF Unspawned, FnAt
  <2> QED BY <1>1, <1>3, <2>1, <2>2 DEF RunningOK
<1> QED BY <1>6, <1>7 DEF Piles
\* A step within one function prunes: it marks the running frame, which is not one
\* of schedule, and leaves the rest.
LEMMA GotoPrunes ==
    ASSUME TypeOK, kstk[cpu] # <<>>, Top.fn # "schedule", NEW l, NEW p, Goto(l, p),
           cpu' = cpu, ifl' <=> ifl, pit_count' = pit_count
    PROVE  Pruned
<1>1. /\ cpu \in Owners /\ Depth = Len(kstk[cpu])
      /\ \A s \in Owners : Len(kstk[s]) \in Nat
      /\ kstk[cpu] = <<>> <=> Len(kstk[cpu]) = 0
  BY PileType
<1>2. /\ \A q \in Owners : Len(kstk'[q]) = Len(kstk[q])
      /\ \A q \in Owners : \A i \in 1 .. Len(kstk[q]) :
            (q # cpu \/ i # Depth) => kstk'[q][i] = kstk[q][i]
      /\ kstk'[cpu][Depth].fn = Top.fn
  BY GotoMarks
<1>3. kstk'[cpu'] # <<>>
  <2>1. Len(<<>>) = 0 OBVIOUS
  <2> QED BY <1>1, <1>2, <2>1
<1>4. ASSUME NEW q \in Owners, NEW i \in 1 .. Len(kstk'[q])
      PROVE  /\ kstk'[q][i].fn = kstk[q][i].fn
             /\ kstk[q][i].fn = "schedule" => kstk'[q][i].at = kstk[q][i].at
  <2>1. CASE q = cpu /\ i = Depth BY <1>2, <2>1 DEF Top
  <2>2. CASE q # cpu \/ i # Depth BY <1>2, <2>2
  <2> QED BY <2>1, <2>2
<1>5. \A q \in Owners : Len(kstk'[q]) <= Len(kstk[q]) BY <1>1, <1>2
<1> QED BY <1>1, <1>2, <1>3, <1>4, <1>5 DEF Pruned

\* So does a step that leaves the stacks alone.
LEMMA StillPrunes ==
    ASSUME TypeOK, UNCHANGED <<kstk, cpu, ifl, esp0, pit_count>>, kstk[cpu] = <<>> => esp0.stk = cpu
    PROVE  Pruned
<1>1. \A s \in Owners : Len(kstk[s]) \in Nat BY PileType
<1>2. \A s \in Owners : Len(kstk[s]) <= Len(kstk[s]) BY <1>1
<1> QED BY <1>2 DEF Pruned

\* So does loading a context from stacks that are the ones there are, or have lost
\* frames at the top.
LEMMA JumpPrunes ==
    ASSUME TypeOK, ~wild, ~wild', NEW c \in Context, NEW stacks \in [Owners -> Seq(Frame)],
           \A q \in Owners : /\ Len(stacks[q]) <= Len(kstk[q])
                             /\ \A i \in 1 .. Len(stacks[q]) : stacks[q][i] = kstk[q][i],
           Jump(c, stacks), pit_count' = pit_count
    PROVE  Pruned
<1>1. /\ cpu' = c.stk /\ c.len \in 1 .. Len(stacks[c.stk])
      /\ Len(kstk'[cpu']) = c.len - 1
      /\ \A i \in 1 .. (c.len - 1) : kstk'[cpu'][i] = stacks[cpu'][i]
      /\ \A q \in Owners \ {cpu'} : kstk'[q] = stacks[q]
      /\ kstk'[cpu'] = <<>> => esp0'.stk = cpu'
  BY JumpCuts
<1>2. /\ cpu' \in Owners /\ c.len \in Nat
      /\ \A q \in Owners : Len(kstk[q]) \in Nat /\ Len(stacks[q]) \in Nat
  <2>1. \A q \in Owners : stacks[q] \in Seq(Frame) OBVIOUS
  <2> QED BY <1>1, <2>1, PileType DEF Context
<1>3. ASSUME NEW q \in Owners
      PROVE  /\ Len(kstk'[q]) <= Len(kstk[q])
             /\ \A i \in 1 .. Len(kstk'[q]) : kstk'[q][i] = kstk[q][i]
  <2>1. CASE q = cpu'
    <3>1. Len(kstk'[q]) <= Len(stacks[q]) /\ Len(stacks[q]) <= Len(kstk[q]) /\ Len(kstk'[q]) = c.len - 1
      BY <1>1, <1>2, <2>1
    <3>2. \A i \in 1 .. (c.len - 1) : i \in 1 .. Len(stacks[q]) BY <1>1, <1>2, <2>1
    <3>3. Len(kstk'[q]) <= Len(kstk[q]) BY <1>2, <3>1
    <3>4. ASSUME NEW i \in 1 .. Len(kstk'[q]) PROVE kstk'[q][i] = kstk[q][i]
      <4>1. i \in 1 .. (c.len - 1) BY <3>1
      <4>2. kstk'[q][i] = stacks[q][i] BY <1>1, <2>1, <4>1
      <4> QED BY <3>2, <4>1, <4>2, BoundGrows
    <3> QED BY <3>3, <3>4
  <2>2. CASE q # cpu' BY <1>1, <2>2
  <2> QED BY <2>1, <2>2
<1>4. Len(kstk'[cpu']) < Len(kstk[cpu'])
  <2>1. c.len <= Len(stacks[cpu']) /\ Len(stacks[cpu']) <= Len(kstk[cpu']) BY <1>1, <1>2
  <2> QED BY <1>1, <1>2, <2>1
<1> QED BY <1>1, <1>3, <1>4 DEF Pruned

\* Entering a program marks the frame that waits for it and empties the program's stack.
LEMMA EnterMarks ==
    ASSUME TypeOK, ExecEnter
    PROVE  /\ kstk'[cpu'] = <<>> /\ cpu' = Top.pid
           /\ \A q \in Owners \ {cpu, cpu'} : kstk'[q] = kstk[q]
           /\ \A q \in Owners :
                 /\ Len(kstk'[q]) <= Len(kstk[q])
                 /\ \A i \in 1 .. Len(kstk'[q]) :
                       /\ kstk'[q][i].fn = kstk[q][i].fn
                       /\ kstk[q][i].fn = "schedule" => kstk'[q][i].at = kstk[q][i].at
<1> DEFINE fr == [Top EXCEPT !.at = "wait"]
           st == [kstk[cpu] EXCEPT ![Depth] = fr]
<1>1. /\ kstk[cpu] # <<>> /\ kstk[cpu] \in Seq(Frame) /\ cpu \in Owners
      /\ kstk \in [Owners -> Seq(Frame)] /\ Top.fn = "system_execute"
  BY DEF ExecEnter, At, TypeOK
<1>2. Depth \in Nat /\ Depth >= 1 /\ Depth = Len(kstk[cpu]) /\ Top.pid \in Owners BY <1>1, TopType DEF Depth
<1>3. fr.fn = Top.fn BY <1>1, TopType DEF Frame
<1>4. kstk' = [[kstk EXCEPT ![cpu] = st] EXCEPT ![Top.pid] = <<>>] BY DEF ExecEnter, Top
<1> HIDE DEF fr
<1>5. Len(st) = Len(kstk[cpu])
      /\ \A i \in 1 .. Len(kstk[cpu]) : st[i] = IF i = Depth THEN fr ELSE kstk[cpu][i]
  BY <1>1, <1>2
<1> HIDE DEF st
<1>6. /\ kstk'[Top.pid] = <<>>
      /\ cpu # Top.pid => kstk'[cpu] = st
      /\ \A q \in Owners \ {cpu, Top.pid} : kstk'[q] = kstk[q]
  BY <1>1, <1>2, <1>4
<1>7. cpu' = Top.pid BY DEF ExecEnter
<1>8. \A q \in Owners : Len(kstk[q]) \in Nat BY PileType
<1>9. ASSUME NEW q \in Owners
      PROVE  /\ Len(kstk'[q]) <= Len(kstk[q])
             /\ \A i \in 1 .. Len(kstk'[q]) :
                   /\ kstk'[q][i].fn = kstk[q][i].fn
                   /\ kstk[q][i].fn = "schedule" => kstk'[q][i].at = kstk[q][i].at
  <2>1. CASE q = Top.pid
    <3>1. Len(<<>>) = 0 OBVIOUS
    <3> QED BY <1>6, <1>8, <2>1, <3>1
  <2>2. CASE q # Top.pid /\ q = cpu
    <3>1. kstk'[q] = st /\ Len(st) = Len(kstk[q]) /\ Len(st) \in Nat BY <1>5, <1>6, <1>8, <2>2
    <3>2. Top.fn = kstk[q][Depth].fn BY <2>2 DEF Top
    <3> QED BY <1>1, <1>3, <1>5, <2>2, <3>1, <3>2
  <2>3. CASE q # Top.pid /\ q # cpu BY <1>6, <1>8, <2>3
  <2> QED BY <2>1, <2>2, <2>3
<1> QED BY <1>6, <1>7, <1>9

\* So it prunes.
LEMMA EnterPrunes ==
    ASSUME TypeOK, ExecEnter, ~wild'
    PROVE  Pruned
<1>1. pit_count' = pit_count /\ esp0'.stk = Top.pid BY DEF ExecEnter, clockVars, Current
<1> QED BY <1>1, EnterMarks DEF Pruned
\* Each kind of step keeps the shape of the boot stack.
LEMMA BootFramesKept ==
    ASSUME TypeOK, TypeOK', BootFrames, Len(kstk'[0]) \in 1 .. Len(kstk[0]),
           \A i \in 1 .. Len(kstk'[0]) :
              /\ kstk'[0][i].fn = kstk[0][i].fn
              /\ kstk'[0][i].fn = "system_execute" /\ kstk'[0][i].at # "find" => kstk'[0][i].pid = 0
              /\ kstk'[0][i].fn = "schedule" => ~ifl'
    PROVE  BootFrames'
<1>1. 0 \in Owners BY ConstantFacts
<1>2. Len(kstk[0]) \in 1 .. 4 BY DEF BootFrames
<1>3. Len(kstk'[0]) \in 1 .. 4
  <2>2. \A a \in 1 .. 4 : \A b \in 1 .. a : b \in 1 .. 4 OBVIOUS
  <2> QED BY <1>2, <2>2
<1> DEFINE n == Len(kstk'[0])
<1>4. n >= 1 => FnAt(0, 1)' = FnAt(0, 1) BY <1>3 DEF FnAt
<1>5. n >= 2 => FnAt(0, 2)' = FnAt(0, 2) /\ Len(kstk[0]) >= 2 BY <1>2, <1>3 DEF FnAt
<1>6. n >= 3 => FnAt(0, 3)' = FnAt(0, 3) /\ Len(kstk[0]) >= 3 /\ n >= 2 BY <1>2, <1>3 DEF FnAt
<1>7. n >= 4 => FnAt(0, 4)' = FnAt(0, 4) /\ Len(kstk[0]) >= 4 /\ n >= 2 BY <1>2, <1>3 DEF FnAt
<1>8. n >= 1 BY <1>3
<1>9. \A i \in 1 .. n : /\ FnAt(0, i)' = "schedule" => ~ifl'
                        /\ FnAt(0, i)' = "system_execute" /\ kstk'[0][i].at # "find" => kstk'[0][i].pid = 0
  BY DEF FnAt
<1> QED BY <1>3, <1>4, <1>5, <1>6, <1>7, <1>8, <1>9 DEF BootFrames

\* What is known of the running function while the kernel boots.
LEMMA BootTop ==
    ASSUME TypeOK, BootStacks
    PROVE  /\ cpu = 0 /\ 0 \in Owners /\ kstk[cpu] # <<>> /\ Depth = Len(kstk[0]) /\ Depth \in 1 .. 4
           /\ Top.fn \in {"entry", "system_execute", "schedule"}
           /\ Top.fn = "entry" => Depth = 1
           /\ Top.fn = "schedule" => ~ifl /\ Depth \in 2 .. 3
           /\ Top.fn = "system_execute" /\ Top.at # "find" => Top.pid = 0
           /\ ifl => Depth = 1 \/ (Depth = 2 /\ Top.fn = "system_execute")
<1>1. 0 \in Owners BY ConstantFacts
<1>2. cpu = 0 /\ BootFrames BY DEF BootStacks
<1>3. Depth = Len(kstk[0]) /\ Top = kstk[0][Depth] /\ Top.fn = FnAt(0, Depth) BY <1>2 DEF Depth, Top, FnAt
<1>4. Depth \in 1 .. 4 BY <1>2, <1>3 DEF BootFrames
<1>5. kstk[cpu] # <<>>
  <2>1. Len(<<>>) = 0 OBVIOUS
  <2> QED BY <1>2, <1>3, <1>4, <2>1
<1>6. CASE Depth = 1 BY <1>1, <1>2, <1>3, <1>4, <1>5, <1>6 DEF BootFrames
<1>7. CASE Depth = 2 BY <1>1, <1>2, <1>3, <1>4, <1>5, <1>7 DEF BootFrames
<1>8. CASE Depth = 3
  <2>1. ~ifl BY <1>2, <1>3, <1>8 DEF BootFrames
  <2> QED BY <1>1, <1>2, <1>3, <1>4, <1>5, <1>8, <2>1 DEF BootFrames
<1>9. CASE Depth = 4
  <2>1. ~ifl BY <1>2, <1>3, <1>9 DEF BootFrames
  <2> QED BY <1>1, <1>2, <1>3, <1>4, <1>5, <1>9, <2>1 DEF BootFrames
<1> QED BY <1>4, <1>6, <1>7, <1>8, <1>9

\* A tick in the boot.
LEMMA BootTick ==
    ASSUME TypeOK, TypeOK', ~wild, BootStacks, Tick
    PROVE  BootStacks'
<1> DEFINE f == [fn |-> "schedule", at |-> "tick", pid |-> KERNEL]
<1>1. f \in Frame BY ConstantFacts DEF Frame, Functions, Labels
<1>2. EnterKernel(f) /\ ifl /\ ~ifl' /\ UNCHANGED <<free_pid, my_k>> BY DEF Tick, procVars
<1>3. kstk[cpu] # <<>> /\ cpu = 0 /\ 0 \in Owners /\ (Len(kstk[0]) = 1 \/ (Len(kstk[0]) = 2 /\ Top.fn = "system_execute"))
      /\ Len(kstk[0]) = Depth
  BY <1>2, BootTop
<1> HIDE DEF f
<1>4. /\ cpu' = 0 /\ Len(kstk'[0]) = Len(kstk[0]) + 1
      /\ \A i \in 1 .. Len(kstk[0]) : kstk'[0][i] = kstk[0][i]
      /\ kstk'[0][Len(kstk[0]) + 1] = f
      /\ \A q \in Owners \ {0} : kstk'[q] = kstk[q]
  BY <1>1, <1>2, <1>3, TrapPushes
<1>5. BootFrames /\ f.fn = "schedule" BY DEF BootStacks, f
<1>6. BootFrames'
  <2>1. CASE Len(kstk[0]) = 1
    <3>1. kstk'[0][1] = kstk[0][1] /\ kstk'[0][2].fn = "schedule" /\ Len(kstk'[0]) = 2
      BY <1>4, <1>5, <2>1
    <3>2. FnAt(0, 1)' = "entry" /\ FnAt(0, 2)' = "schedule" BY <1>5, <3>1 DEF FnAt, BootFrames
    <3>3. \A i \in 1 .. 2 : i = 1 \/ i = 2 OBVIOUS
    <3> QED BY <1>2, <3>1, <3>2, <3>3 DEF BootFrames
  <2>2. CASE Len(kstk[0]) = 2 /\ Top.fn = "system_execute"
    <3>1. kstk'[0][1] = kstk[0][1] /\ kstk'[0][2] = kstk[0][2] /\ kstk'[0][3].fn = "schedule" /\ Len(kstk'[0]) = 3
      BY <1>4, <1>5, <2>2
    <3>2. kstk[0][2].fn = "system_execute" BY <1>3, <2>2 DEF Top
    <3>3. FnAt(0, 1)' = "entry" /\ FnAt(0, 2)' = "system_execute" /\ FnAt(0, 3)' = "schedule"
      BY <1>5, <3>1, <3>2 DEF FnAt, BootFrames
    <3>4. kstk[0][2].at # "find" => kstk[0][2].pid = 0 BY <1>5, <2>2, <3>2 DEF BootFrames, FnAt
    <3>5. \A i \in 1 .. 3 : i = 1 \/ i = 2 \/ i = 3 OBVIOUS
    <3> QED BY <1>2, <3>1, <3>3, <3>4, <3>5 DEF BootFrames
  <2> QED BY <1>3, <2>1, <2>2
<1> QED BY <1>2, <1>4, <1>6 DEF BootStacks

\* schedule starts a shell in the boot.
LEMMA BootSpawn ==
    ASSUME TypeOK, TypeOK', ~wild, BootStacks, ScheduleSpawn
    PROVE  BootStacks'
<1>1. cpu = 0 /\ 0 \in Owners /\ Depth \in 2 .. 3 /\ ~ifl /\ Len(kstk[0]) = Depth /\ Top.fn = "schedule"
  BY BootTop DEF ScheduleSpawn, At
<1>2. cpu' = 0 /\ ~ifl' /\ UNCHANGED <<free_pid, my_k>> BY <1>1 DEF ScheduleSpawn, procVars
<1>3. /\ Len(kstk'[0]) = Depth + 1
      /\ \A i \in 1 .. (Depth - 1) : kstk'[0][i] = kstk[0][i]
      /\ kstk'[0][Depth].fn = "schedule"
      /\ kstk'[0][Depth + 1].fn = "system_execute" /\ kstk'[0][Depth + 1].at = "find"
      /\ \A q \in Owners \ {0} : kstk'[q] = kstk[q]
  BY <1>1, SpawnPushes
<1>4. BootFrames BY DEF BootStacks
<1>5. BootFrames'
  <2>1. CASE Depth = 2
    <3>1. kstk'[0][1] = kstk[0][1] /\ kstk'[0][2].fn = "schedule" /\ Len(kstk'[0]) = 3
          /\ kstk'[0][3].fn = "system_execute" /\ kstk'[0][3].at = "find"
      BY <1>3, <2>1
    <3>2. FnAt(0, 1)' = "entry" /\ FnAt(0, 2)' = "schedule" /\ FnAt(0, 3)' = "system_execute"
      BY <1>4, <3>1 DEF FnAt, BootFrames
    <3>3. \A i \in 1 .. 3 : i = 1 \/ i = 2 \/ i = 3 OBVIOUS
    <3>4. \A i \in 1 .. 3 : FnAt(0, i)' = "system_execute" => i = 3 BY <3>2, <3>3
    <3>5. ASSUME NEW i \in 1 .. 3
          PROVE /\ FnAt(0, i)' = "schedule" => ~ifl'
                /\ FnAt(0, i)' = "system_execute" /\ kstk'[0][i].at # "find" => kstk'[0][i].pid = 0
      BY <1>2, <3>1, <3>4
    <3>6. /\ Len(kstk'[0]) \in 1 .. 4
          /\ Len(kstk'[0]) >= 4 => FnAt(0, 2)' = "system_execute" /\ FnAt(0, 4)' = "system_execute"
      BY <3>1
    <3>7. Len(kstk'[0]) >= 2 => FnAt(0, 2)' \in {"system_execute", "schedule"} BY <3>2
    <3>8. Len(kstk'[0]) >= 3 => FnAt(0, 2)' = "schedule" /\ FnAt(0, 3)' = "system_execute" BY <3>2
    <3>9. \A i \in 1 .. Len(kstk'[0]) :
             /\ FnAt(0, i)' = "schedule" => ~ifl'
             /\ FnAt(0, i)' = "system_execute" /\ kstk'[0][i].at # "find" => kstk'[0][i].pid = 0
      BY <3>1, <3>5
    <3>10. FnAt(0, 1)' = "entry" BY <3>2
    <3> QED BY <3>6, <3>7, <3>8, <3>9, <3>10, Zenon DEF BootFrames
  <2>2. CASE Depth = 3
    <3>1. kstk'[0][1] = kstk[0][1] /\ kstk'[0][2] = kstk[0][2] /\ kstk'[0][3].fn = "schedule"
          /\ Len(kstk'[0]) = 4 /\ kstk'[0][4].fn = "system_execute" /\ kstk'[0][4].at = "find"
      BY <1>3, <2>2
    <3>2. kstk[0][3].fn = "schedule" BY <1>1, <2>2 DEF Top
    <3>3. FnAt(0, 1)' = "entry" /\ FnAt(0, 2)' = "system_execute" /\ FnAt(0, 3)' = "schedule"
          /\ FnAt(0, 4)' = "system_execute"
      BY <1>1, <1>4, <2>2, <3>1, <3>2 DEF FnAt, BootFrames
    <3>4. kstk[0][2].at # "find" => kstk[0][2].pid = 0
      BY <1>1, <1>4, <2>2, <3>1, <3>3 DEF BootFrames, FnAt
    <3>5. \A i \in 1 .. 4 : i = 1 \/ i = 2 \/ i = 3 \/ i = 4 OBVIOUS
    <3> QED BY <1>2, <3>1, <3>3, <3>4, <3>5 DEF BootFrames
  <2> QED BY <1>1, <2>1, <2>2
<1> QED BY <1>2, <1>3, <1>5 DEF BootStacks

\* system_execute moves on in the boot.
LEMMA BootGoto ==
    ASSUME TypeOK, TypeOK', BootStacks, Top.fn = "system_execute", NEW l, Goto(l, 0),
           cpu' = cpu, ifl' <=> ifl, free_pid' = free_pid,
           my_k' = my_k \/ my_k' = [my_k EXCEPT ![curr_pid] = Here]
    PROVE  BootStacks'
<1>1. cpu = 0 /\ 0 \in Owners /\ kstk[cpu] # <<>> /\ Len(kstk[0]) = Depth /\ Depth \in 1 .. 4
  BY BootTop
<1>2. /\ \A q \in Owners : Len(kstk'[q]) = Len(kstk[q])
      /\ \A q \in Owners : \A i \in 1 .. Len(kstk[q]) :
            (q # 0 \/ i # Depth) => kstk'[q][i] = kstk[q][i]
      /\ kstk'[0][Depth].fn = Top.fn /\ kstk'[0][Depth].pid = 0
  BY <1>1, GotoMarks
<1>3. BootFrames BY DEF BootStacks
<1>4. ASSUME NEW i \in 1 .. Len(kstk'[0])
      PROVE /\ kstk'[0][i].fn = kstk[0][i].fn
            /\ kstk'[0][i].fn = "system_execute" /\ kstk'[0][i].at # "find" => kstk'[0][i].pid = 0
            /\ kstk'[0][i].fn = "schedule" => ~ifl'
  <2>1. i \in 1 .. Len(kstk[0]) BY <1>1, <1>2
  <2>2. CASE i = Depth BY <1>1, <1>2, <2>2 DEF Top
  <2>3. CASE i # Depth BY <1>1, <1>2, <1>3, <2>1, <2>3 DEF BootFrames, FnAt
  <2> QED BY <2>2, <2>3
<1>5. BootFrames'
  <2>1. Len(kstk'[0]) \in 1 .. Len(kstk[0]) BY <1>1, <1>2
  <2> QED BY <1>3, <1>4, <2>1, BootFramesKept
<1>6. \A s \in Owners : s # 0 => kstk'[s] = <<>>
  <2> SUFFICES ASSUME NEW s \in Owners, s # 0 PROVE kstk'[s] = <<>> OBVIOUS
  <2>1. kstk[s] = <<>> /\ Len(kstk'[s]) = Len(kstk[s]) BY <1>2 DEF BootStacks
  <2>2. kstk'[s] \in Seq(Frame) BY DEF TypeOK
  <2>3. Len(<<>>) = 0 OBVIOUS
  <2>4. Len(kstk'[s]) = 0 BY <2>1, <2>3
  <2> QED BY <2>2, <2>4
<1>7. \A p \in Owners : my_k'[p].fn # "entry" /\ (my_k'[p].stk = 0 \/ my_k'[p].len = 0)
  <2>1. my_k \in [Owners -> Context] /\ curr_pid \in Owners BY DEF TypeOK
  <2>2. Here.fn # "entry" /\ Here.stk = 0 BY <1>1 DEF Here
  <2> HIDE DEF Here
  <2> QED BY <2>1, <2>2 DEF BootStacks
<1> QED BY <1>1, <1>5, <1>6, <1>7 DEF BootStacks

\* A return, or a switch to a saved context, in the boot.
LEMMA BootJump ==
    ASSUME TypeOK, TypeOK', ~wild, ~wild', BootStacks, NEW c \in Context, Resume(c),
           c.fn # "entry", c.stk = 0 \/ c.len = 0, free_pid' = free_pid,
           my_k' = my_k \/ my_k' = [my_k EXCEPT ![curr_pid] = Here], Top.fn # "entry"
    PROVE  BootStacks'
<1>0. kstk \in [Owners -> Seq(Frame)] /\ cpu = 0 /\ 0 \in Owners /\ kstk[cpu] # <<>>
      /\ Depth = Len(kstk[0]) /\ Depth \in 1 .. 4
  BY BootTop DEF TypeOK
<1>1. /\ cpu' = c.stk /\ c.len \in 1 .. Len(kstk[c.stk]) /\ kstk[c.stk][c.len].fn = c.fn
      /\ ifl' = (ifl \/ c.fn = "schedule" \/ c.len = 1)
      /\ Len(kstk'[cpu']) = c.len - 1
      /\ \A i \in 1 .. (c.len - 1) : kstk'[cpu'][i] = kstk[cpu'][i]
      /\ \A q \in Owners \ {cpu'} : kstk'[q] = kstk[q]
  BY <1>0, JumpCuts DEF Resume
<1>2. c.stk = 0 /\ c.len \in 1 .. Len(kstk[0])
  <2>1. c.stk \in Owners /\ c.len \in Nat BY DEF Context
  <2>2. Len(kstk[c.stk]) \in Nat BY <2>1, PileType
  <2>3. c.len # 0 BY <1>1, <2>1, <2>2
  <2> QED BY <1>1, <2>3
<1>3. BootFrames BY DEF BootStacks
<1>4. c.len # 1 BY <1>1, <1>2, <1>3 DEF BootFrames, FnAt
<1>5. Len(kstk'[0]) \in 1 .. Len(kstk[0]) /\ Len(kstk'[0]) = c.len - 1 /\ c.len \in 2 .. 4
  BY <1>0, <1>1, <1>2, <1>4
<1>6. ASSUME NEW i \in 1 .. (c.len - 1)
      PROVE /\ kstk'[0][i].fn = kstk[0][i].fn
            /\ kstk'[0][i].fn = "system_execute" /\ kstk'[0][i].at # "find" => kstk'[0][i].pid = 0
            /\ kstk'[0][i].fn = "schedule" => ~ifl'
  <2>1. kstk'[0][i] = kstk[0][i] BY <1>1, <1>2
  <2>2. i \in 1 .. Len(kstk[0]) BY <1>0, <1>5
  <2>3. kstk[0][i].fn = "schedule" => c.fn # "schedule"
    \* there is one frame of schedule at most
    <3>1. CASE c.len = 2 BY <1>1, <1>2, <1>3, <3>1 DEF BootFrames, FnAt
    <3>2. CASE c.len = 3
      <4>1. Len(kstk[0]) >= 3 /\ (i = 1 \/ i = 2) BY <1>0, <1>5, <3>2, <1>2
      <4> QED BY <1>0, <1>1, <1>2, <1>3, <3>2, <4>1 DEF BootFrames, FnAt
    <3>3. CASE c.len = 4
      <4>1. Len(kstk[0]) >= 4 BY <1>0, <1>5, <3>3, <1>2
      <4> QED BY <1>0, <1>1, <1>2, <1>3, <3>3, <4>1 DEF BootFrames, FnAt
    <3> QED BY <1>5, <3>1, <3>2, <3>3
  <2>4. kstk[0][i].fn = "schedule" => ~ifl' BY <1>1, <1>3, <1>4, <2>2, <2>3 DEF BootFrames, FnAt
  <2> QED BY <1>3, <2>1, <2>2, <2>4 DEF BootFrames, FnAt
<1>7. BootFrames' BY <1>3, <1>5, <1>6, BootFramesKept
<1>8. \A s \in Owners : s # 0 => kstk'[s] = <<>> BY <1>1, <1>2 DEF BootStacks
<1>9. \A p \in Owners : my_k'[p].fn # "entry" /\ (my_k'[p].stk = 0 \/ my_k'[p].len = 0)
  <2>1. my_k \in [Owners -> Context] /\ curr_pid \in Owners BY DEF TypeOK
  <2>2. Here.fn # "entry" /\ Here.stk = 0 BY <1>0 DEF Here
  <2> HIDE DEF Here
  <2> QED BY <2>1, <2>2 DEF BootStacks
<1> QED BY <1>1, <1>2, <1>7, <1>8, <1>9 DEF BootStacks
\* The program that the boot ends in finds all stacks empty.
LEMMA BootEnter ==
    ASSUME TypeOK, TypeOK', ~wild, ~wild', BootStacks, ExecEnter
    PROVE  Piles'
<1>1. cpu = 0 /\ 0 \in Owners /\ Top.pid = 0 BY BootTop DEF ExecEnter, At
<1>2. kstk'[cpu'] = <<>> /\ cpu' = 0 /\ \A q \in Owners \ {0} : kstk'[q] = kstk[q]
  BY <1>1, EnterMarks
<1>3. \A s \in Owners : kstk'[s] = <<>> BY <1>2 DEF BootStacks
<1>4. esp0'.stk = cpu' BY <1>1, <1>2 DEF ExecEnter, Current
<1>5. ASSUME NEW s \in Owners PROVE PileOK(s)'
  <2>1. Len(<<>>) = 0 OBVIOUS
  <2>2. 1 .. Len(kstk'[s]) = {} BY <1>3, <2>1
  <2> QED BY <2>2 DEF PileOK
<1> QED BY <1>2, <1>4, <1>5 DEF Piles, RunningOK

\* Every step of the boot keeps the boot stack, or ends it.
LEMMA BootStep ==
    ASSUME TypeOK, TypeOK', ~wild, ~wild', BootStacks, Next
    PROVE  BootStacks' \/ Piles'
<1>1. /\ cpu = 0 /\ 0 \in Owners /\ kstk[cpu] # <<>>
      /\ Top.fn \in {"entry", "system_execute", "schedule"}
      /\ Top.fn = "system_execute" /\ Top.at # "find" => Top.pid = 0
      /\ kstk \in [Owners -> Seq(Frame)] /\ Here \in Context
  BY BootTop, TopType DEF TypeOK
<1>2. CASE Tick BY <1>2, BootTick
<1>3. CASE ScheduleSpawn BY <1>3, BootSpawn
<1>4. CASE ScheduleSwitch
  <2> DEFINE c == my_k'[top_pid[NextTurn]]
  <2>1. top_pid[NextTurn] \in Owners /\ curr_pid \in Owners /\ my_k' \in [Owners -> Context]
        /\ my_k \in [Owners -> Context]
    BY NextTurnType DEF TypeOK
  <2>2. c \in Context BY <2>1
  <2>3. /\ my_k' = [my_k EXCEPT ![curr_pid] = Here] /\ free_pid' = free_pid /\ Top.fn = "schedule"
        /\ Resume(c)
    BY <1>4 DEF ScheduleSwitch, At
  <2>4. c.fn # "entry" /\ (c.stk = 0 \/ c.len = 0)
    <3>1. Here.fn # "entry" /\ Here.stk = 0 BY <1>1, <2>3 DEF Here
    <3> HIDE DEF Here
    <3> QED BY <2>1, <2>3, <3>1 DEF BootStacks
  <2> HIDE DEF c
  <2> QED BY <2>2, <2>3, <2>4, BootJump
<1>5. CASE ExecPick
  <2>1. find_free_process = 0
    <3>1. find_free_process \in Pids /\ 0 \in Pids /\ find_free_process <= 0
      BY <1>5, FindFree, ConstantFacts DEF ExecPick, BootStacks
    <3>2. find_free_process \in Nat BY <3>1, KernelAssumption DEF Pids
    <3> QED BY <3>1, <3>2
  <2>2. Goto("open", 0) BY <1>5, <2>1 DEF ExecPick
  <2> QED BY <1>5, <2>2, BootGoto DEF ExecPick, At
<1>6. CASE ExecReject \/ ExecLoadFail
  <2>1. Top.fn = "system_execute" /\ Resume(Here) /\ free_pid' = free_pid /\ my_k' = my_k
    BY <1>6 DEF ExecReject, ExecLoadFail, At, Return, procVars
  <2>2. Here.fn # "entry" /\ Here.stk = 0 BY <1>1, <2>1 DEF Here
  <2> QED BY <1>1, <2>1, <2>2, BootJump
<1>7. CASE ExecBind
  <2>1. Goto("load", 0) /\ Top.fn = "system_execute" BY <1>1, <1>7 DEF ExecBind, At
  <2> QED BY <1>7, <2>1, BootGoto DEF ExecBind
<1>8. CASE ExecLink
  <2>1. Goto("enter", 0) /\ Top.fn = "system_execute" BY <1>1, <1>8 DEF ExecLink, At
  <2> QED BY <1>8, <2>1, BootGoto DEF ExecLink
<1>9. CASE ExecSwitch
  <2>1. Goto("flag", 0) /\ Top.fn = "system_execute" BY <1>1, <1>9 DEF ExecSwitch, At
  <2> QED BY <1>9, <2>1, BootGoto DEF ExecSwitch, procVars
<1>10. CASE ExecEnter BY <1>10, BootEnter
<1>11. CASE HaltStep \/ VidmapStore
  BY <1>1, <1>11 DEF HaltStep, HaltFree, HaltUnmap, HaltPop, HaltSwitch, HaltJump, VidmapStore, At
<1>12. CASE SyscallExecute \/ SyscallHalt \/ SyscallVidmap \/ Fault
  BY <1>1, <1>12 DEF SyscallExecute, SyscallHalt, SyscallVidmap, Fault, InUser
<1>13. CASE \E t \in Terms : KeySwitch(t)
  <2>1. UNCHANGED <<kstk, cpu, ifl, free_pid, my_k>>
    BY <1>13 DEF KeySwitch, procVars, cpuVars
  <2>2. BootFrames' BY <2>1 DEF BootStacks, BootFrames, FnAt
  <2> QED BY <2>1, <2>2 DEF BootStacks
<1> QED BY <1>2, <1>3, <1>4, <1>5, <1>6, <1>7, <1>8, <1>9, <1>10, <1>11, <1>12, <1>13
        DEF Next, KernelStep, ScheduleStep, ExecuteStep

\* Every step that keeps control keeps the piles.
LEMMA PileStep ==
    ASSUME TypeOK, TypeOK', ~wild, ~wild', Piles, Next
    PROVE  Piles'
<1>1. /\ KERNEL \in Owners /\ curr_pid \in Owners /\ kstk \in [Owners -> Seq(Frame)]
      /\ cpu \in Owners /\ pit_count \in Nat /\ MAX_TERM \in Nat /\ pit_count <= MAX_TERM + 1
  BY ConstantFacts, KernelAssumption DEF TypeOK
<1>2. CASE Tick
  <2> DEFINE f == [fn |-> "schedule", at |-> "tick", pid |-> KERNEL]
  <2>1. f \in Frame BY <1>1 DEF Frame, Functions, Labels
  <2>2. f.fn = "schedule" /\ f.at = "tick" OBVIOUS
  <2>3. EnterKernel(f) /\ ifl /\ ~ifl' /\ pit_count' = IF pit_count > MAX_TERM THEN pit_count ELSE pit_count + 1
    BY <1>2 DEF Tick
  <2> HIDE DEF f
  <2>4. pit_count' \in {pit_count, pit_count + 1} /\ (pit_count < MAX_TERM => pit_count' = pit_count + 1)
    BY <1>1, <2>3
  <2> QED BY <2>1, <2>2, <2>3, <2>4, TrapKeeps
<1>3. CASE ScheduleSpawn BY <1>3, SpawnKeeps
<1>4. CASE ScheduleSwitch
  <2> DEFINE c == my_k'[top_pid[NextTurn]]
  <2>1. top_pid[NextTurn] \in Owners /\ my_k' \in [Owners -> Context]
    BY NextTurnType DEF TypeOK
  <2>2. c \in Context BY <2>1
  <2>3. Jump(c, kstk) /\ pit_count' = pit_count BY <1>4 DEF ScheduleSwitch, Resume
  <2> HIDE DEF c
  <2>4. \A q \in Owners : Len(kstk[q]) <= Len(kstk[q])
    <3>1. \A q \in Owners : Len(kstk[q]) \in Nat BY PileType
    <3> QED BY <3>1
  <2>5. Pruned BY <1>1, <2>2, <2>3, <2>4, JumpPrunes
  <2> QED BY <2>5, PrunedKeeps
<1>5. CASE ExecReject \/ ExecLoadFail \/ VidmapStore
  <2>1. Jump(Here, kstk) /\ pit_count' = pit_count /\ kstk[cpu] # <<>>
    BY <1>5 DEF ExecReject, ExecLoadFail, VidmapStore, At, Return, Resume, clockVars
  <2>2. Here \in Context BY <2>1, TopType
  <2>3. \A q \in Owners : Len(kstk[q]) <= Len(kstk[q])
    <3>1. \A q \in Owners : Len(kstk[q]) \in Nat BY PileType
    <3> QED BY <3>1
  <2>4. Pruned BY <1>1, <2>1, <2>2, <2>3, JumpPrunes
  <2> QED BY <2>4, PrunedKeeps
<1>6. CASE HaltJump
  <2> DEFINE st == SubSeq(kstk[cpu], 1, Depth - 1)
             stacks == [kstk EXCEPT ![cpu] = st]
  <2>1. Jump(parent_k[Top.pid], stacks) /\ pit_count' = pit_count /\ kstk[cpu] # <<>>
    BY <1>6 DEF HaltJump, At, clockVars
  <2>2. parent_k[Top.pid] \in Context BY <2>1, TopType DEF TypeOK
  <2>3. kstk[cpu] \in Seq(Frame) /\ Depth \in Nat /\ Depth >= 1 /\ Depth = Len(kstk[cpu])
    BY <1>1, <2>1, TopType DEF Depth
  <2>4. st \in Seq(Frame) /\ Len(st) = Depth - 1 /\ \A i \in 1 .. (Depth - 1) : st[i] = kstk[cpu][i]
    BY <2>3
  <2> HIDE DEF st
  <2>5. stacks \in [Owners -> Seq(Frame)] /\ stacks[cpu] = st /\ \A q \in Owners \ {cpu} : stacks[q] = kstk[q]
    BY <1>1, <2>4
  <2> HIDE DEF stacks
  <2>6. ASSUME NEW q \in Owners
        PROVE /\ Len(stacks[q]) <= Len(kstk[q])
              /\ \A i \in 1 .. Len(stacks[q]) : stacks[q][i] = kstk[q][i]
    <3>1. Len(kstk[q]) \in Nat BY PileType
    <3>2. CASE q = cpu BY <2>3, <2>4, <2>5, <3>2
    <3>3. CASE q # cpu BY <2>5, <3>1, <3>3
    <3> QED BY <3>2, <3>3
  <2>7. Pruned BY <1>1, <2>1, <2>2, <2>5, <2>6, JumpPrunes
  <2> QED BY <2>7, PrunedKeeps
<1>7. CASE ExecPick \/ ExecBind \/ ExecLink \/ ExecSwitch \/ HaltFree \/ HaltUnmap \/ HaltPop \/ HaltSwitch
  <2>1. kstk[cpu] # <<>> /\ Top.fn # "schedule" /\ cpu' = cpu /\ (ifl' <=> ifl) /\ pit_count' = pit_count
    BY <1>7 DEF ExecPick, ExecBind, ExecLink, ExecSwitch, HaltFree, HaltUnmap, HaltPop, HaltSwitch, At,
                clockVars
  <2>2. PICK l, p : Goto(l, p)
    BY <1>7, Zenon DEF ExecPick, ExecBind, ExecLink, ExecSwitch, HaltFree, HaltUnmap, HaltPop, HaltSwitch
  <2>3. Pruned BY <2>1, <2>2, GotoPrunes
  <2> QED BY <2>3, PrunedKeeps
<1>8. CASE ExecEnter BY <1>8, EnterPrunes, PrunedKeeps
<1>9. CASE \E t \in Terms : KeySwitch(t)
  <2>1. UNCHANGED <<kstk, cpu, ifl, esp0, pit_count>> BY <1>9 DEF KeySwitch, cpuVars, clockVars
  <2>2. Pruned BY <2>1, StillPrunes DEF Piles, RunningOK
  <2> QED BY <2>2, PrunedKeeps
<1>10. CASE SyscallExecute \/ SyscallHalt \/ SyscallVidmap \/ Fault
  <2>1. kstk[cpu] = <<>> /\ pit_count' = pit_count
    BY <1>10 DEF SyscallExecute, SyscallHalt, SyscallVidmap, Fault, InUser, clockVars
  <2>2. PICK f \in Frame : EnterKernel(f) /\ f.fn \in {"system_execute", "system_halt", "system_vidmap", "exception"}
    <3>1. CASE SyscallExecute
      <4>1. [fn |-> "system_execute", at |-> "find", pid |-> KERNEL] \in Frame
        BY <1>1 DEF Frame, Functions, Labels
      <4> QED BY <3>1, <4>1 DEF SyscallExecute
    <3>2. CASE SyscallHalt
      <4>1. [fn |-> "system_halt", at |-> "free", pid |-> curr_pid] \in Frame
        BY <1>1 DEF Frame, Functions, Labels
      <4> QED BY <3>2, <4>1 DEF SyscallHalt
    <3>3. CASE Fault
      <4>1. [fn |-> "exception", at |-> "spin", pid |-> curr_pid] \in Frame
        BY <1>1 DEF Frame, Functions, Labels
      <4> QED BY <3>3, <4>1 DEF Fault
    <3>4. CASE SyscallVidmap
      <4>1. PICK t \in TermsOf(curr_pid) :
              EnterKernel([fn |-> "system_vidmap", at |-> "store", pid |-> video_mem[t] - 1])
        BY <3>4 DEF SyscallVidmap
      <4>2. t \in Terms BY <4>1 DEF TermsOf, TypeOK
      <4>a. video_mem[t] \in 0 .. MAX_TERM BY <4>2 DEF TypeOK
      <4>3. video_mem[t] - 1 \in Terms \cup {KERNEL}
        BY <1>1, <4>a DEF Terms, KERNEL
      <4>4. [fn |-> "system_vidmap", at |-> "store", pid |-> video_mem[t] - 1] \in Frame
        BY <4>3, ConstantFacts DEF Frame, Functions, Labels
      <4> QED BY <4>1, <4>4
    <3> QED BY <1>10, <3>1, <3>2, <3>3, <3>4
  <2> QED BY <2>1, <2>2, TrapKeeps
<1> QED BY <1>2, <1>3, <1>4, <1>5, <1>6, <1>7, <1>8, <1>9, <1>10
        DEF Next, KernelStep, ScheduleStep, ExecuteStep, HaltStep

\* The two shapes bound every stack.
LEMMA ShapesBound ==
    ASSUME TypeOK, BootStacks \/ Piles
    PROVE  BoundedNesting
<1> SUFFICES ASSUME NEW s \in Owners PROVE Len(kstk[s]) <= NestingBound BY DEF BoundedNesting
<1>1. Len(kstk[s]) \in Nat /\ MAX_TERM \in Nat /\ MAX_TERM >= 2 BY PileType, KernelAssumption
<1>2. NestingBound \in Nat /\ NestingBound >= 4 /\ NestingBound >= MAX_TERM + 1
  BY <1>1 DEF NestingBound
<1>3. CASE BootStacks
  <2>1. s # 0 => Len(kstk[s]) = 0
    <3>1. Len(<<>>) = 0 OBVIOUS
    <3> QED BY <1>3, <3>1 DEF BootStacks
  <2>2. s = 0 => Len(kstk[s]) \in 1 .. 4 BY <1>3 DEF BootStacks, BootFrames
  <2>3. Len(kstk[s]) <= 4
    <3>1. CASE s = 0
      <4>1. Len(kstk[0]) \in 1 .. 4 BY <1>3 DEF BootStacks, BootFrames
      <4>2. \A x \in 1 .. 4 : x <= 4 OBVIOUS
      <4>3. Len(kstk[0]) <= 4 BY <4>1, <4>2
      <4> QED BY <3>1, <4>3
    <3>2. CASE s # 0 BY <2>1, <3>2
    <3> QED BY <3>1, <3>2
  <2> QED BY <1>1, <1>2, <2>3
<1>4. CASE Piles
  <2> SUFFICES ASSUME Len(kstk[s]) > MAX_TERM + 1 PROVE FALSE BY <1>1, <1>2
  <2> DEFINE i == Len(kstk[s])
  <2>1. i \in 1 .. Len(kstk[s]) /\ i - 1 \in 1 .. Len(kstk[s]) /\ i > 1 /\ i - 1 > 1 BY <1>1
  <2>2. PileOK(s) BY <1>4 DEF Piles
  <2>3. i - 1 # Len(kstk[s]) /\ ~(i - 1 <= MAX_TERM) BY <1>1
  <2> HIDE DEF i
  <2>4. FnAt(s, i - 1) = "schedule" BY <2>1, <2>2, <2>3 DEF PileOK
  <2>5. Spawner(s, i - 1) BY <2>1, <2>2, <2>3, <2>4 DEF PileOK, Spawner, Unspawned
  <2> QED BY <2>1, <2>2, <2>3, <2>5 DEF PileOK
<1> QED BY <1>3, <1>4

\* The same as an implication, which may be primed.
LEMMA BoundOfShapes == TypeOK /\ (BootStacks \/ Piles) => BoundedNesting
BY ShapesBound

\* The invariant holds as the kernel boots.
LEMMA InitNesting == Init => NestInv
<1> SUFFICES ASSUME Init PROVE NestInv OBVIOUS
<1>1. TypeOK BY InitType
<1> DEFINE e == [fn |-> "entry", at |-> "main", pid |-> KERNEL]
           x == [fn |-> "system_execute", at |-> "find", pid |-> KERNEL]
           st == <<e, x>>
<1>2. 0 \in Owners BY ConstantFacts
<1>3. kstk[0] = st /\ \A s \in Owners : s # 0 => kstk[s] = <<>> BY <1>2 DEF Init
<1>4. Len(st) = 2 /\ st[1] = e /\ st[2] = x OBVIOUS
<1>5. FnAt(0, 1) = "entry" /\ FnAt(0, 2) = "system_execute" /\ kstk[0][2].at = "find" /\ Len(kstk[0]) = 2
  BY <1>3, <1>4 DEF FnAt
<1> HIDE DEF st
<1>6. \A i \in 1 .. 2 : i = 1 \/ i = 2 OBVIOUS
<1>7. BootFrames BY <1>5, <1>6 DEF BootFrames
<1>8. BootStacks BY <1>3, <1>7 DEF Init, BootStacks, NoContext
<1> QED BY <1>1, <1>8, ShapesBound DEF NestInv

\* Every step keeps it.
LEMMA NextNesting == TypeOK /\ NestInv /\ [Next]_vars => NestInv'
<1> SUFFICES ASSUME TypeOK, NestInv, [Next]_vars PROVE NestInv' OBVIOUS
<1>1. TypeOK' BY NextType
<1>2. CASE Next /\ ~wild'
  <2>1. ~wild
    BY <1>2 DEF Next, KernelStep, ScheduleStep, ExecuteStep, HaltStep, Tick, ScheduleSpawn, ScheduleSwitch,
                SyscallExecute, ExecPick, ExecReject, ExecBind, ExecLoadFail, ExecLink, ExecSwitch, ExecEnter,
                SyscallHalt, HaltFree, HaltUnmap, HaltPop, HaltSwitch, HaltJump, SyscallVidmap, VidmapStore,
                KeySwitch, Fault, At, InUser
  <2>2. BootStacks' \/ Piles' BY <1>1, <1>2, <2>1, BootStep, PileStep DEF NestInv
  <2>3. (TypeOK /\ (BootStacks \/ Piles) => BoundedNesting)'
    BY BoundOfShapes, PTL
  <2> QED BY <1>1, <2>2, <2>3 DEF NestInv
<1>3. CASE Next /\ wild'
  <2> SUFFICES ASSUME NEW s \in Owners, ~(kstk' = kstk) PROVE Len(kstk'[s]) <= NestingBound
    BY <1>3 DEF NestInv, BoundedNesting
  <2>1. HaltFree \/ ExecEnter
    BY <1>3 DEF Next, KernelStep, ScheduleStep, ExecuteStep, HaltStep, Tick, ScheduleSpawn, ScheduleSwitch,
                SyscallExecute, ExecPick, ExecReject, ExecBind, ExecLoadFail, ExecLink, ExecSwitch,
                SyscallHalt, HaltUnmap, HaltPop, HaltSwitch, HaltJump, SyscallVidmap, VidmapStore,
                KeySwitch, Fault, At, InUser, Jump, Resume, Return, cpuVars
  <2>2. Len(kstk[s]) \in Nat /\ NestingBound \in Nat /\ Len(kstk[s]) <= NestingBound
    BY PileType, KernelAssumption DEF NestInv, BoundedNesting, NestingBound
  <2>3. CASE HaltFree
    <3>1. kstk[cpu] # <<>> /\ Goto("unmap", Top.pid) BY <2>3 DEF HaltFree, At
    <3> QED BY <2>2, <3>1, GotoMarks
  <2>4. CASE ExecEnter
    <3>1. Len(kstk'[s]) <= Len(kstk[s]) BY <2>4, EnterMarks
    <3>2. Len(kstk'[s]) \in Nat
      <4>1. kstk'[s] \in Seq(Frame) BY <1>1 DEF TypeOK
      <4> QED BY <4>1
    <3> QED BY <2>2, <3>1, <3>2
  <2> QED BY <2>1, <2>3, <2>4
<1>4. CASE UNCHANGED vars
  <2>1. UNCHANGED <<kstk, cpu, ifl, esp0, pit_count, free_pid, my_k, wild>>
    BY <1>4 DEF vars, procVars, clockVars, cpuVars
  <2> QED BY <2>1 DEF NestInv, BoundedNesting, BootStacks, BootFrames, FnAt, Piles, PileOK, Spawner, Unspawned,
                      RunningOK, Depth, Top
<1> QED BY <1>2, <1>3, <1>4

\* Interrupts do not nest without end: with no assumption on timing, use or programs no
\* kernel stack gets deeper than the boot's four frames, or one for each shell that
\* schedule starts and one more.
THEOREM NestingIsBounded == Spec => []BoundedNesting
<1>1. Init => TypeOK /\ NestInv BY InitType, InitNesting
<1>2. TypeOK /\ NestInv /\ [Next]_vars => (TypeOK /\ NestInv)' BY NextType, NextNesting
<1>3. NestInv => BoundedNesting BY DEF NestInv
<1> QED BY <1>1, <1>2, <1>3, PTL DEF Spec

-----------------------------------------------------------------------------
(* From here on: the kernel when its users and the timing keep to the rules. *)

\* The rules run kernel keeps to; vidmap may be called.
Needed == Rules \ {"no_vidmap"}

-----------------------------------------------------------------------------
(* The inductive invariant.  Terms of a state: *)

\* The running function is fn, at one of some labels.
Running(fn, labels) == kstk[cpu] # <<>> /\ Top.fn = fn /\ Top.at \in labels

\* A child that is its terminal's top but not yet running; a process that halts
\* and is free but not yet gone.
Coming == Running("system_execute", {"load", "enter", "flag"})
Going  == Running("system_halt", {"unmap", "pop", "switch", "jump"})
Held   == Live_pids \cup (IF Coming \/ Going THEN {Top.pid} ELSE {})
Nested == Held \ BasePids

\* A process's parent, before create_pcb has stored it too.
Parent == [q \in Pids |-> IF Running("system_execute", {"load"}) /\ q = Top.pid THEN curr_pid
                          ELSE parent_pid[q]]

\* The newest process of a terminal, until it is gone.
Front == [t \in Terms |->
            IF Running("system_halt", {"switch", "jump"}) /\ pid_to_term[Top.pid] = t
            THEN Top.pid ELSE top_pid[t]]

\* The process whose page is mapped.
Mapped == IF Running("system_execute", {"load", "enter"}) THEN Top.pid
          ELSE IF Running("system_halt", {"pop", "switch"}) THEN parent_pid[Top.pid]
          ELSE curr_pid

\* What a tick may cut.
Open(f) == \/ f.fn = "system_execute" /\ f.at \in {"find", "open"}
           \/ f.fn = "system_halt" /\ f.at = "free"
           \/ f.fn = "system_vidmap" /\ f.at = "store"

ExecLabels == {"find", "open", "load", "enter", "flag"}

First(p) == kstk[p][1]
Last(p)  == kstk[p][Len(kstk[p])]

\* p waits in system_execute for its child; p was left by schedule.
Waiting == {p \in Pids : /\ Len(kstk[p]) = 1
                         /\ First(p).fn = "system_execute" /\ First(p).at = "wait"}
Suspended(p) ==
    /\ my_k[p].stk = p /\ my_k[p].len = Len(kstk[p]) /\ my_k[p].fn = Last(p).fn
    /\ \/ Len(kstk[p]) = 1 /\ First(p).fn = "schedule"
       \/ Len(kstk[p]) = 2 /\ Open(First(p)) /\ Last(p).fn = "schedule"
       \/ /\ Len(kstk[p]) = 2 /\ First(p).fn = "schedule" /\ First(p).at = "spawned"
          /\ Last(p).fn = "system_execute" /\ Last(p).at = "wait"

(* Its parts: *)

\* What the running stack may hold, and the interrupt flag with it.
Shape ==
    \/ Len(kstk[cpu]) = 0 /\ ifl
    \/ Len(kstk[cpu]) = 1 /\ (Open(Top) \/ Coming \/ Going) /\ ifl
    \/ Len(kstk[cpu]) = 1 /\ Running("schedule", {"tick", "spawned"}) /\ ~ifl
    \/ Len(kstk[cpu]) = 2 /\ Open(First(cpu)) /\ Running("schedule", {"tick"}) /\ ~ifl
    \/ /\ Len(kstk[cpu]) = 2 /\ First(cpu).fn = "schedule" /\ First(cpu).at = "spawned"
       /\ Running("system_execute", ExecLabels) /\ ~ifl
    \/ /\ Len(kstk[cpu]) = 2 /\ First(cpu).fn = "entry"
       /\ Running("system_execute", ExecLabels) /\ ifl

\* Whose stack that is.
Running_process ==
    /\ cpu \in Pids
    /\ IF kstk[cpu] # <<>> /\ First(cpu).fn = "entry"
       THEN cpu = 0 /\ pit_count = 0 /\ free_pid[cpu]
            /\ (curr_pid # KERNEL => Running("system_execute", {"flag"}))
       ELSE free_pid[cpu] <=> Going
    /\ Running("system_execute", {"flag"}) => curr_pid = Top.pid
    /\ Running("system_halt", {"jump"}) => curr_pid = parent_pid[cpu]
    /\ ~Running("system_execute", {"flag"}) /\ ~Running("system_halt", {"jump"})
          /\ ~(kstk[cpu] # <<>> /\ First(cpu).fn = "entry") => curr_pid = cpu
    /\ (~Coming /\ ~(kstk[cpu] # <<>> /\ First(cpu).fn = "entry"))
          => Front[pid_to_term[cpu]] = cpu
    /\ Running("system_halt", {"switch", "jump"})
          => top_pid[pid_to_term[cpu]] = parent_pid[cpu]

\* The TSS and the mapping.
Mapping ==
    /\ curr_pid # KERNEL =>
          esp0.stk = IF Running("system_halt", {"pop", "switch"}) THEN parent_pid[cpu]
                     ELSE curr_pid
    /\ user_page = Mapped
    /\ Mapped # KERNEL => vid_page = video_mem[pid_to_term[Mapped]]

\* The process tree: a terminal's boot shell and its newest process are its own,
Rooted == \A t \in Terms \cap Held :
    pid_to_term[t] = t /\ Front[t] \in Held /\ pid_to_term[Front[t]] = t

\* every other process has a parent there, which waits to be jumped back to,
Linked == \A q \in Nested :
    /\ Parent[q] \in Live_pids
    /\ pid_to_term[Parent[q]] = pid_to_term[q]
    /\ Front[pid_to_term[q]] # Parent[q]
    /\ (Parent[q] # cpu => Parent[q] \in Waiting)
    /\ ~(Running("system_execute", {"load"}) /\ q = Top.pid)
          => parent_k[q] = [stk |-> Parent[q], len |-> 1, fn |-> "system_execute"]

\* of nobody else, and whoever is not the newest has a child.
Lineage ==
    /\ \A q, r \in Nested : Parent[q] = Parent[r] => q = r
    /\ \A p \in Held : Front[pid_to_term[p]] = p \/ \E q \in Nested : Parent[q] = p

\* A terminal's newest process, when it does not run, was left by schedule.
Parked == \A p \in Live_pids \ {cpu} : Front[pid_to_term[p]] = p => Suspended(p)

\* The system calls under way.
Calls ==
    /\ \A p \in Live_pids \cup {cpu} : kstk[p] # <<>> => LET f == First(p) IN
          /\ f.fn = "system_halt" => f.pid = p /\ p \notin BasePids
          /\ f.fn = "system_execute" /\ f.at \in {"find", "open"}
                => pid_to_term[p] = curr_term
          /\ f.fn = "system_execute" /\ f.at = "open"
                => f.pid \in Pids \ (Held \cup BasePids) /\ pid_to_term[f.pid] = curr_term
          /\ f.fn = "system_vidmap" => f.pid + 1 = video_mem[pid_to_term[p]]
    /\ Coming /\ Len(kstk[cpu]) = 1
          => Top.pid \in Pids \ BasePids /\ free_pid[Top.pid] /\ pid_to_term[Top.pid] = pid_to_term[cpu]
             /\ (Running("system_execute", {"enter", "flag"}) => parent_pid[Top.pid] = cpu)

\* The boot.
Early == pit_count < MAX_TERM \/ (pit_count = MAX_TERM /\ Running("schedule", {"tick", "spawned"}))
ShellsStarted ==
    /\ shells_done => pit_count >= MAX_TERM - 1
    /\ shells_done /\ Running("schedule", {"tick"}) => pit_count >= MAX_TERM
NoCalls == Early => \A p \in Live_pids : kstk[p] # <<>> => First(p).fn = "schedule"
PidsTaken ==
    /\ pit_count >= MAX_TERM => \A t \in Terms : ~free_pid[t]
    /\ pit_count < MAX_TERM =>
          \A p \in Pids : ~free_pid[p] <=> p < IF kstk[cpu] = <<>> THEN pit_count + 1
                                               ELSE pit_count
Spawning ==
    /\ Running("schedule", {"spawned"}) => pit_count >= MAX_TERM
    /\ Len(kstk[cpu]) = 2 /\ Running("system_execute", ExecLabels) =>
          /\ pit_count < MAX_TERM
          /\ Top.at \in {"find", "open"} => curr_term = pit_count
          /\ Top.at # "find" => Top.pid = pit_count /\ pid_to_term[pit_count] = pit_count
          /\ Top.at \in {"enter", "flag"} /\ First(cpu).fn = "schedule"
                => my_k[cpu] = [stk |-> cpu, len |-> 2, fn |-> "system_execute"]
Boot == ShellsStarted /\ NoCalls /\ PidsTaken /\ Spawning

IInv == /\ TypeOK /\ ~wild /\ Shape /\ Running_process /\ Mapping /\ Rooted /\ Linked /\ Lineage /\ Parked
        /\ Calls /\ Boot

-----------------------------------------------------------------------------
(* What the operators do to the stacks *)

\* What Append does to a sequence.
LEMMA Pushed ==
    ASSUME NEW S, NEW s \in Seq(S), NEW x \in S
    PROVE  /\ Len(Append(s, x)) = Len(s) + 1 /\ Append(s, x)[Len(s) + 1] = x
           /\ \A i \in 1 .. Len(s) : Append(s, x)[i] = s[i]
OBVIOUS

\* goto: the running function goes on at another label, on the same stack.
LEMMA GotoEffect ==
    ASSUME TypeOK, kstk[cpu] # <<>>, NEW l, NEW p, Goto(l, p), cpu' = cpu
    PROVE  /\ \A q \in Owners : Len(kstk'[q]) = Len(kstk[q]) /\ (q # cpu => kstk'[q] = kstk[q])
           /\ kstk'[cpu] # <<>> /\ Depth' = Depth
           /\ Top'.fn = Top.fn /\ Top'.at = l /\ Top'.pid = p
           /\ First(cpu)' = IF Depth = 1 THEN Top' ELSE First(cpu)
<1> DEFINE fr == [Top EXCEPT !.at = l, !.pid = p]
           st == [kstk[cpu] EXCEPT ![Depth] = fr]
<1>1. kstk[cpu] \in Seq(Frame) /\ cpu \in Owners /\ kstk \in [Owners -> Seq(Frame)]
  BY DEF TypeOK
<1>2. kstk' = [kstk EXCEPT ![cpu] = st] BY <1>1 DEF Goto
<1>3. fr.fn = Top.fn /\ fr.at = l /\ fr.pid = p BY <1>1, TopType DEF Frame
<1>4. Depth \in Nat /\ Depth >= 1 /\ Depth = Len(kstk[cpu]) BY TopType DEF Depth
<1>5. Len(st) = Len(kstk[cpu]) /\ st[Depth] = fr
      /\ st[1] = IF Depth = 1 THEN fr ELSE kstk[cpu][1]
  <2> HIDE DEF fr
  <2> QED BY <1>1, <1>4
<1>6. kstk'[cpu] = st /\ \A q \in Owners : q # cpu => kstk'[q] = kstk[q] BY <1>1, <1>2
<1>7. Depth' = Depth BY <1>5, <1>6 DEF Depth
<1>8. Top' = fr BY <1>5, <1>6, <1>7 DEF Top
<1>9. kstk'[cpu] # <<>> BY <1>4, <1>5, <1>6
<1>10. First(cpu)' = st[1] BY <1>6 DEF First
<1> HIDE DEF fr, st
<1> QED BY <1>1, <1>3, <1>5, <1>6, <1>7, <1>8, <1>9, <1>10 DEF First

\* A trap from user mode.
LEMMA TrapEffect ==
    ASSUME TypeOK, InUser, esp0.stk = cpu, NEW f \in Frame, EnterKernel(f)
    PROVE  /\ cpu' = cpu /\ kstk'[cpu] # <<>> /\ Len(kstk'[cpu]) = 1 /\ Depth' = 1
           /\ Top' = f /\ First(cpu)' = f
           /\ \A q \in Owners : q # cpu => kstk'[q] = kstk[q]
<1>1. kstk[cpu] = <<>> /\ cpu \in Owners /\ kstk \in [Owners -> Seq(Frame)] /\ esp0.len \in Nat
  BY DEF InUser, TypeOK
<1>2. Keep(kstk[cpu], esp0.len) = <<>> BY <1>1 DEF Keep
<1>3. cpu' = cpu /\ kstk' = [kstk EXCEPT ![cpu] = Append(<<>>, f)] BY <1>1, <1>2 DEF EnterKernel
<1>4. kstk'[cpu] = <<f>> /\ \A q \in Owners : q # cpu => kstk'[q] = kstk[q] BY <1>1, <1>3
<1>5. Len(<<f>>) = 1 /\ <<f>>[1] = f /\ <<f>> # <<>> OBVIOUS
<1> QED BY <1>3, <1>4, <1>5 DEF Depth, Top, First

\* An interrupt in the kernel.
LEMMA NestEffect ==
    ASSUME TypeOK, kstk[cpu] # <<>>, NEW f \in Frame, EnterKernel(f)
    PROVE  /\ cpu' = cpu /\ kstk'[cpu] # <<>> /\ Len(kstk'[cpu]) = Depth + 1 /\ Depth' = Depth + 1
           /\ Top' = f /\ First(cpu)' = First(cpu)
           /\ \A q \in Owners : q # cpu => kstk'[q] = kstk[q]
<1>1. cpu \in Owners /\ kstk \in [Owners -> Seq(Frame)] /\ kstk[cpu] \in Seq(Frame)
  BY DEF TypeOK
<1>2. cpu' = cpu /\ kstk' = [kstk EXCEPT ![cpu] = Append(kstk[cpu], f)]
  BY DEF EnterKernel, InUser
<1>3. kstk'[cpu] = Append(kstk[cpu], f) /\ \A q \in Owners : q # cpu => kstk'[q] = kstk[q]
  BY <1>1, <1>2
<1>4. Depth \in Nat /\ Depth >= 1 /\ Depth = Len(kstk[cpu]) BY TopType DEF Depth
<1>5. /\ Len(Append(kstk[cpu], f)) = Depth + 1 /\ Append(kstk[cpu], f)[Depth + 1] = f
      /\ Append(kstk[cpu], f)[1] = kstk[cpu][1] /\ Append(kstk[cpu], f) # <<>>
  BY <1>1, <1>4
<1> QED BY <1>2, <1>3, <1>5 DEF Depth, Top, First

\* Loading a good context.
LEMMA JumpEffect ==
    ASSUME NEW c \in Context, NEW stacks \in [Owners -> Seq(Frame)], Jump(c, stacks),
           Live(c, stacks), c.len = 1 => Current(c.stk)
    PROVE  /\ cpu' = c.stk /\ cpu' \in Owners /\ wild' = wild
           /\ ifl' = (ifl \/ c.fn = "schedule" \/ c.len = 1)
           /\ \A q \in Owners : q # c.stk => kstk'[q] = stacks[q]
           /\ Depth' = c.len - 1 /\ Len(kstk'[c.stk]) = c.len - 1
           /\ \A i \in 1 .. (c.len - 1) : kstk'[c.stk][i] = stacks[c.stk][i]
<1>1. c.stk \in Owners /\ c.len \in Nat BY DEF Context
<1>2. stacks[c.stk] \in Seq(Frame) /\ c.len \in 1 .. Len(stacks[c.stk]) BY <1>1 DEF Live
<1> DEFINE st == SubSeq(stacks[c.stk], 1, c.len - 1)
<1>3. kstk' = [stacks EXCEPT ![c.stk] = st] /\ cpu' = c.stk /\ wild' = wild
      /\ ifl' = (ifl \/ c.fn = "schedule" \/ c.len = 1)
  BY <1>1 DEF Jump
<1>4. Len(st) = c.len - 1 /\ \A i \in 1 .. (c.len - 1) : st[i] = stacks[c.stk][i]
  BY <1>1, <1>2
<1>5. kstk'[c.stk] = st /\ \A q \in Owners : q # c.stk => kstk'[q] = stacks[q]
  BY <1>1, <1>3
<1> HIDE DEF st
<1> QED BY <1>1, <1>3, <1>4, <1>5 DEF Depth

-----------------------------------------------------------------------------
(* What the invariant says at once *)

\* The running stack's frames; whom the system calls that change Held are about.
LEMMA Basics ==
    ASSUME IInv
    PROVE  /\ cpu \in Pids /\ cpu \in Owners /\ Len(kstk[cpu]) \in Nat /\ Depth = Len(kstk[cpu])
           /\ kstk[cpu] = <<>> <=> Depth = 0
           /\ Depth = 1 => Top = First(cpu)
           /\ Going => Depth = 1 /\ Top.pid = cpu /\ cpu \notin BasePids /\ free_pid[cpu]
           /\ Coming => Top.pid \in Pids /\ free_pid[Top.pid]
           /\ Held \subseteq Pids /\ Live_pids \subseteq Held
<1>1. /\ cpu \in Pids /\ cpu \in Owners /\ Len(kstk[cpu]) \in Nat /\ Depth = Len(kstk[cpu])
      /\ kstk[cpu] \in Seq(Frame)
  BY DEF IInv, TypeOK, Running_process, Owners, Depth
<1>2. kstk[cpu] = <<>> <=> Depth = 0 BY <1>1
<1>3. Depth = 1 => Top = First(cpu) BY <1>1 DEF Top, First
<1>4. ASSUME Going PROVE Depth = 1 /\ Top.pid = cpu /\ cpu \notin BasePids /\ free_pid[cpu]
  <2>1. Depth = 1 BY <1>1, <1>4 DEF IInv, Shape, Going, Running
  <2>2. First(cpu) = Top /\ Top.fn = "system_halt" BY <1>3, <1>4, <2>1 DEF Going, Running
  <2>3. Top.pid = cpu /\ cpu \notin BasePids BY <1>2, <2>1, <2>2 DEF IInv, Calls
  <2>4. free_pid[cpu]
    BY <1>4, <2>2, <2>3 DEF IInv, Running_process, Going, Running
  <2> QED BY <2>1, <2>3, <2>4
<1>5. ASSUME Coming PROVE Top.pid \in Pids /\ free_pid[Top.pid]
  <2>1. CASE Depth = 1 BY <1>1, <1>5, <2>1 DEF IInv, Calls
  <2>2. CASE Depth = 2
    <3>1. Running("system_execute", ExecLabels) /\ Top.at # "find"
      BY <1>5 DEF Coming, Running, ExecLabels
    <3>2. pit_count < MAX_TERM /\ Top.pid = pit_count
      BY <1>1, <2>2, <3>1 DEF IInv, Boot, Spawning
    <3>3. pit_count \in Pids BY <3>2, KernelAssumption DEF IInv, TypeOK, Pids
    <3>4. kstk[cpu] # <<>> BY <1>5 DEF Coming, Running
    <3>5. ~free_pid[pit_count] <=> pit_count < pit_count BY <3>2, <3>3, <3>4 DEF IInv, Boot, PidsTaken
    <3>6. ~ (pit_count < pit_count) BY <3>3 DEF Pids
    <3> QED BY <3>2, <3>3, <3>5, <3>6
  <2> QED BY <1>1, <1>5, <2>1, <2>2 DEF IInv, Shape, Coming, Running
<1>6. Held \subseteq Pids /\ Live_pids \subseteq Held
  BY <1>1, <1>4, <1>5 DEF Held, Live_pids
<1> QED BY <1>1, <1>2, <1>3, <1>4, <1>5, <1>6

\* A step that leaves the tree as it is.
LEMMA SameTree ==
    ASSUME Rooted, Linked, Lineage, Held \subseteq Pids, Live_pids \subseteq Held,
           pid_to_term \in [Pids -> Terms],
           Held' = Held, Front' = Front,
           \A p \in Held : pid_to_term'[p] = pid_to_term[p],
           \A q \in Nested :
               /\ Parent'[q] = Parent[q] /\ Parent[q] \in Live_pids'
               /\ (Parent[q] # cpu' => Parent[q] \in Waiting')
               /\ ~(Running("system_execute", {"load"}) /\ q = Top.pid)'
                      => parent_k'[q] = [stk |-> Parent[q], len |-> 1, fn |-> "system_execute"]
    PROVE  Rooted' /\ Linked' /\ Lineage'
<1>1. Nested' = Nested BY DEF Nested
<1>2. Rooted' BY DEF Rooted
<1>3. Linked'
  <2> SUFFICES ASSUME NEW q \in Nested
      PROVE (/\ Parent[q] \in Live_pids
             /\ pid_to_term[Parent[q]] = pid_to_term[q]
             /\ Front[pid_to_term[q]] # Parent[q]
             /\ (Parent[q] # cpu => Parent[q] \in Waiting)
             /\ ~(Running("system_execute", {"load"}) /\ q = Top.pid)
                   => parent_k[q] = [stk |-> Parent[q], len |-> 1, fn |-> "system_execute"])'
    BY <1>1 DEF Linked
  <2>1. q \in Held BY DEF Nested
  <2>2. Parent'[q] = Parent[q] /\ Parent[q] \in Live_pids' OBVIOUS
  <2>3. /\ Parent[q] \in Held /\ pid_to_term[Parent[q]] = pid_to_term[q]
        /\ Front[pid_to_term[q]] # Parent[q]
    BY DEF Linked
  <2>4. pid_to_term'[q] = pid_to_term[q] /\ pid_to_term'[Parent[q]] = pid_to_term[Parent[q]]
    BY <2>1, <2>3
  <2> QED BY <2>2, <2>3, <2>4
<1>4. Lineage'
  <2>1. ASSUME NEW q \in Nested, NEW r \in Nested, Parent'[q] = Parent'[r] PROVE q = r
    BY <2>1 DEF Lineage
  <2>2. ASSUME NEW p \in Held PROVE Front'[pid_to_term'[p]] = p \/ \E q \in Nested : Parent'[q] = p
    BY <2>2 DEF Lineage
  <2> QED BY <1>1, <2>1, <2>2 DEF Lineage
<1> QED BY <1>2, <1>3, <1>4

\* While nobody comes or goes the tree is as the PCBs and terminals have it.
LEMMA Calm ==
    ~Coming /\ ~Going =>
        /\ Held = Live_pids /\ Parent = [q \in Pids |-> parent_pid[q]]
        /\ Front = [t \in Terms |-> top_pid[t]] /\ Mapped = curr_pid
BY DEF Coming, Going, Held, Parent, Front, Mapped, Running

\* In user mode the process that runs is its terminal's newest.
LEMMA UserFacts ==
    ASSUME IInv, InUser
    PROVE  /\ kstk[cpu] = <<>> /\ Depth = 0 /\ ifl /\ ~Coming /\ ~Going
           /\ curr_pid = cpu /\ cpu \in Pids /\ cpu \in Live_pids /\ esp0.stk = cpu
           /\ top_pid[pid_to_term[cpu]] = cpu
<1>1. kstk[cpu] = <<>> /\ Depth = 0 /\ ~Coming /\ ~Going
  BY Basics DEF InUser, Coming, Going, Running
<1>2. /\ cpu \in Pids /\ ~free_pid[cpu] /\ curr_pid = cpu /\ Front[pid_to_term[cpu]] = cpu
  BY <1>1 DEF IInv, Running_process, Running
<1>3. cpu # KERNEL BY <1>2, ConstantFacts
<1>4. esp0.stk = cpu BY <1>1, <1>2, <1>3 DEF IInv, Mapping, Running
<1>5. pid_to_term[cpu] \in Terms BY <1>2 DEF IInv, TypeOK
<1>6. ifl BY <1>1, Basics DEF IInv, Shape
<1> QED BY <1>1, <1>2, <1>4, <1>5, <1>6, Calm DEF Live_pids

\* A step while nobody comes or goes that touches no waiting parent's stack.
LEMMA CalmTree ==
    ASSUME IInv, ~Coming, ~Going, ~Coming', ~Going',
           UNCHANGED <<free_pid, parent_pid, parent_k, top_pid>>,
           \A q \in Live_pids : pid_to_term'[q] = pid_to_term[q],
           \A q \in Live_pids : Front[pid_to_term[q]] # q => kstk'[q] = kstk[q]
    PROVE  /\ Live_pids' = Live_pids /\ Held' = Held /\ Parent' = Parent /\ Front' = Front
           /\ Mapped = curr_pid /\ Mapped' = curr_pid'
           /\ Rooted' /\ Linked' /\ Lineage'
<1>1. Live_pids' = Live_pids BY DEF Live_pids
<1>2. Held' = Held /\ Parent' = Parent /\ Front' = Front /\ Mapped = curr_pid /\ Mapped' = curr_pid'
  <2>1. (~Coming /\ ~Going =>
        /\ Held = Live_pids /\ Parent = [q \in Pids |-> parent_pid[q]]
        /\ Front = [t \in Terms |-> top_pid[t]] /\ Mapped = curr_pid)'
    BY Calm, PTL
  <2> QED BY <1>1, <2>1, Calm
<1>3. \A q \in Nested :
        /\ Parent'[q] = Parent[q] /\ Parent[q] \in Live_pids'
        /\ (Parent[q] # cpu' => Parent[q] \in Waiting')
        /\ ~(Running("system_execute", {"load"}) /\ q = Top.pid)'
              => parent_k'[q] = [stk |-> Parent[q], len |-> 1, fn |-> "system_execute"]
  <2> SUFFICES ASSUME NEW q \in Nested
      PROVE  /\ Parent'[q] = Parent[q] /\ Parent[q] \in Live_pids'
             /\ Parent[q] \in Waiting'
             /\ parent_k'[q] = [stk |-> Parent[q], len |-> 1, fn |-> "system_execute"]
    OBVIOUS
  <2>1. /\ Parent[q] \in Live_pids /\ (Parent[q] # cpu => Parent[q] \in Waiting)
        /\ parent_k[q] = [stk |-> Parent[q], len |-> 1, fn |-> "system_execute"]
        /\ Front[pid_to_term[Parent[q]]] # Parent[q]
    BY DEF IInv, Linked, Coming, Running
  <2>2. Parent[q] # cpu
    <3>1. cpu \in Live_pids => Front[pid_to_term[cpu]] = cpu
      BY DEF IInv, Running_process, Live_pids
    <3> QED BY <2>1, <3>1
  <2>3. Parent[q] \in Waiting' BY <2>1, <2>2 DEF Waiting, First
  <2> QED BY <2>1, <2>3, <1>1, <1>2
<1>4. Rooted' /\ Linked' /\ Lineage'
  <2>1. \A p \in Held : pid_to_term'[p] = pid_to_term[p] BY Calm
  <2> QED BY <1>2, <1>3, <2>1, SameTree, Basics DEF IInv, TypeOK
<1> QED BY <1>1, <1>2, <1>4

\* A system call starts.
LEMMA TrapInv ==
    ASSUME IInv, InUser, NEW f \in Frame, EnterKernel(f), Open(f), pit_count >= MAX_TERM,
           UNCHANGED <<curr_pid, procVars, termVars, clockVars, pageVars, esp0, ifl, wild>>,
           TypeOK',
           f.fn = "system_halt" => f.pid = cpu /\ cpu \notin BasePids,
           f.fn = "system_execute" => f.at = "find" /\ pid_to_term[cpu] = curr_term,
           f.fn = "system_vidmap" => f.pid + 1 = video_mem[pid_to_term[cpu]]
    PROVE  IInv'
<1> USE UserFacts, Basics
<1>1. /\ cpu' = cpu /\ kstk'[cpu] # <<>> /\ Len(kstk'[cpu]) = 1 /\ Depth' = 1
      /\ Top' = f /\ First(cpu)' = f
      /\ \A q \in Owners : q # cpu => kstk'[q] = kstk[q]
  BY TrapEffect DEF IInv
<1>2. /\ f.fn \in {"system_halt", "system_execute", "system_vidmap"}
      /\ f.fn # "schedule" /\ f.fn # "entry"
      /\ f.at \notin {"load", "enter", "flag", "unmap", "pop", "switch", "jump"}
  BY DEF Open
<1>3. ~Coming' /\ ~Going' BY <1>1, <1>2 DEF Coming, Going, Running
<1>4. /\ Live_pids' = Live_pids /\ Held' = Held /\ Parent' = Parent /\ Front' = Front
      /\ Mapped = curr_pid /\ Mapped' = curr_pid' /\ Rooted' /\ Linked' /\ Lineage'
  <2>1. \A q \in Live_pids : Front[pid_to_term[q]] # q => kstk'[q] = kstk[q]
    BY <1>1, Calm, ConstantFacts DEF Live_pids, IInv, TypeOK
  <2> QED BY <1>3, <2>1, CalmTree DEF procVars
<1>5. Mapped' = Mapped BY <1>4
<1>6. Shape' BY <1>1 DEF Shape
<1>7. Running_process' BY <1>1, <1>2, <1>3, <1>4 DEF IInv, Running_process, Running, procVars
<1>8. Mapping' BY <1>1, <1>2, <1>4 DEF IInv, Mapping, Running, termVars, pageVars, procVars
<1>9. Rooted' /\ Linked' /\ Lineage' BY <1>4
<1>10. Parked' BY <1>1, <1>4, ConstantFacts DEF IInv, Parked, Suspended, First, Last, procVars, Live_pids
<1>11. Calls' BY <1>1, <1>2, <1>3, <1>4, <1>5, ConstantFacts
              DEF IInv, Calls, First, procVars, termVars, Live_pids
<1>12. Boot'
  <2>1. pit_count' = pit_count /\ shells_done' = shells_done /\ free_pid' = free_pid
        /\ pit_count \in Nat /\ MAX_TERM \in Nat
    BY KernelAssumption DEF procVars, clockVars, IInv, TypeOK
  <2>2. ~(pit_count < MAX_TERM) /\ pit_count >= MAX_TERM - 1 BY <2>1
  <2>3. \A labels : ~Running("schedule", labels)' BY <1>1, <1>2 DEF Running
  <2>4. ~Early' BY <2>1, <2>2, <1>1, <1>2 DEF Early, Running
  <2>5. \A t \in Terms : ~free_pid[t] BY DEF IInv, Boot, PidsTaken
  <2>6. ~(Len(kstk[cpu]) = 2)' BY <1>1
  <2>7. PidsTaken' BY <2>1, <2>2, <2>5, Zenon DEF PidsTaken
  <2> QED BY <2>1, <2>2, <2>3, <2>4, <2>6, <2>7 DEF Boot, ShellsStarted, NoCalls, Spawning
<1> QED BY <1>6, <1>7, <1>8, <1>9, <1>10, <1>11, <1>12 DEF IInv

\* Every system call of a program starts where its frame may be cut.
LEMMA SyscallInv ==
    ASSUME IInv, Needed \subseteq Discipline, SyscallExecute \/ SyscallHalt \/ SyscallVidmap
    PROVE  IInv'
<1> USE DEF Rule
<1>1. TypeOK' BY SyscallType, VidmapType DEF IInv
<1>2. /\ InUser /\ curr_pid = cpu /\ cpu \in Pids /\ cpu \in Owners
      /\ KERNEL \in Owners /\ {"own_term", "boot", "no_base_exit"} \subseteq Discipline
      /\ TermsOf(curr_pid) = {pid_to_term[cpu]}
  BY UserFacts, Basics, ConstantFacts DEF SyscallExecute, SyscallHalt, SyscallVidmap, Needed, Rules, TermsOf
<1>3. CASE SyscallExecute
  <2> DEFINE f == [fn |-> "system_execute", at |-> "find", pid |-> KERNEL]
  <2>1. f \in Frame BY <1>2 DEF Frame, Functions, Labels
  <2>2. Open(f) /\ f.fn = "system_execute" /\ f.at = "find" BY DEF Open
  <2>3. EnterKernel(f) /\ pit_count >= MAX_TERM /\ pid_to_term[cpu] = curr_term
        /\ UNCHANGED <<curr_pid, procVars, termVars, clockVars, pageVars, esp0, ifl, wild>>
    BY <1>2, <1>3 DEF SyscallExecute, ExecuteAllowed
  <2> HIDE DEF f
  <2> QED BY <1>1, <1>2, <2>1, <2>2, <2>3, TrapInv
<1>4. CASE SyscallHalt
  <2> DEFINE f == [fn |-> "system_halt", at |-> "free", pid |-> cpu]
  <2>1. f \in Frame BY <1>2 DEF Frame, Functions, Labels
  <2>2. Open(f) /\ f.fn = "system_halt" /\ f.pid = cpu BY DEF Open
  <2>3. EnterKernel(f) /\ pit_count >= MAX_TERM /\ cpu \notin BasePids
        /\ UNCHANGED <<curr_pid, procVars, termVars, clockVars, pageVars, esp0, ifl, wild>>
    BY <1>2, <1>4 DEF SyscallHalt, HaltAllowed
  <2> HIDE DEF f
  <2> QED BY <1>1, <1>2, <2>1, <2>2, <2>3, TrapInv
<1>5. CASE SyscallVidmap
  <2> DEFINE v == video_mem[pid_to_term[cpu]] - 1
             f == [fn |-> "system_vidmap", at |-> "store", pid |-> v]
  <2>1. video_mem[pid_to_term[cpu]] \in 0 .. MAX_TERM BY <1>2 DEF IInv, TypeOK
  <2>2. v \in Terms \cup {KERNEL} /\ v + 1 = video_mem[pid_to_term[cpu]]
    BY <2>1, KernelAssumption DEF Terms, KERNEL
  <2>3. f \in Frame
    <3> HIDE DEF v
    <3> QED BY <2>2, ConstantFacts DEF Frame, Functions, Labels
  <2>4. Open(f) /\ f.fn = "system_vidmap" /\ f.pid = v BY DEF Open
  <2>5. EnterKernel(f) /\ pit_count >= MAX_TERM
        /\ UNCHANGED <<curr_pid, procVars, termVars, clockVars, pageVars, esp0, ifl, wild>>
    BY <1>2, <1>5 DEF SyscallVidmap, VidmapAllowed
  <2> HIDE DEF f, v
  <2> QED BY <1>1, <1>2, <2>2, <2>3, <2>4, <2>5, TrapInv
<1> QED BY <1>3, <1>4, <1>5

-----------------------------------------------------------------------------
(* The timer *)

\* The stack a tick may cut, and what it leaves.
LEMMA TickEffect ==
    ASSUME IInv, Needed \subseteq Discipline, Tick
    PROVE  LET f == [fn |-> "schedule", at |-> "tick", pid |-> KERNEL] IN
           /\ ifl' = FALSE /\ ~wild /\ ~Coming /\ ~Going
           /\ UNCHANGED <<curr_pid, procVars, termVars, shells_done, schedule_counter,
                          pageVars, esp0, wild>>
           /\ pit_count' = IF pit_count > MAX_TERM THEN pit_count ELSE pit_count + 1
           /\ Len(kstk[cpu]) = 0 \/ (Len(kstk[cpu]) = 1 /\ Open(First(cpu)))
           /\ cpu' = cpu /\ kstk'[cpu] # <<>> /\ Len(kstk'[cpu]) = Depth + 1 /\ Depth' = Depth + 1
           /\ Top' = f /\ First(cpu)' = IF Depth = 0 THEN f ELSE First(cpu)
           /\ \A q \in Owners : q # cpu => kstk'[q] = kstk[q]
           /\ cpu \in Live_pids /\ curr_pid = cpu /\ Front[pid_to_term[cpu]] = cpu /\ cpu \in Pids
<1> DEFINE f == [fn |-> "schedule", at |-> "tick", pid |-> KERNEL]
<1>0. {"boot", "atomic"} \subseteq Discipline BY DEF Needed, Rules
<1>1. f \in Frame BY ConstantFacts DEF Frame, Functions, Labels
<1>3. /\ ifl /\ ifl' = FALSE /\ EnterKernel(f) /\ ~wild
      /\ UNCHANGED <<curr_pid, procVars, termVars, shells_done, schedule_counter,
                     pageVars, esp0, wild>>
      /\ pit_count' = IF pit_count > MAX_TERM THEN pit_count ELSE pit_count + 1
      /\ ~Critical /\ (pit_count >= MAX_TERM \/ ~Starting)
  BY <1>0 DEF Tick, TickAllowed, Rule
<1>4. kstk[cpu] # <<>> => Top \in Frames
  <2> SUFFICES ASSUME kstk[cpu] # <<>> PROVE Top \in Frames OBVIOUS
  <2>1. Depth \in 1 .. Len(kstk[cpu]) /\ cpu \in Owners BY Basics, TopType DEF IInv
  <2> QED BY <2>1 DEF Frames, Top
<1>5. ~Coming /\ ~Going BY <1>3, <1>4 DEF Critical, Coming, Going, Running
<1>6. ~Running("system_execute", {"load", "enter", "flag"}) BY <1>5 DEF Coming
<1>7. pit_count < MAX_TERM => ~Running("system_execute", ExecLabels)
  BY <1>3, <1>4, KernelAssumption DEF Starting, Running, ExecLabels, IInv, TypeOK
<1>8. Len(kstk[cpu]) = 0 \/ (Len(kstk[cpu]) = 1 /\ Open(First(cpu)))
  <2>1. Len(kstk[cpu]) = 2 => ~Running("system_execute", ExecLabels)
    BY <1>7 DEF IInv, Boot, Spawning
  <2> QED BY <1>3, <1>5, <2>1, Basics DEF IInv, Shape
<1>9. /\ cpu' = cpu /\ kstk'[cpu] # <<>> /\ Len(kstk'[cpu]) = Depth + 1 /\ Depth' = Depth + 1
      /\ Top' = f /\ First(cpu)' = IF Depth = 0 THEN f ELSE First(cpu)
      /\ \A q \in Owners : q # cpu => kstk'[q] = kstk[q]
  <2>1. CASE Len(kstk[cpu]) = 0
    <3>1. InUser BY <2>1, <1>3, Basics DEF InUser
    <3> HIDE DEF f
    <3> QED BY <2>1, <3>1, <1>1, <1>3, Basics, TrapEffect, UserFacts DEF IInv
  <2>2. CASE Len(kstk[cpu]) = 1
    <3> HIDE DEF f
    <3> QED BY <2>2, <1>1, <1>3, Basics, NestEffect DEF IInv
  <2> QED BY <1>8, <2>1, <2>2
<1>10. cpu \in Live_pids /\ curr_pid = cpu /\ Front[pid_to_term[cpu]] = cpu /\ cpu \in Pids
  <2>1. ~(kstk[cpu] # <<>> /\ First(cpu).fn = "entry") BY <1>8, Basics DEF Open
  <2>2. ~Running("system_execute", {"flag"}) /\ ~Running("system_halt", {"jump"})
    BY <1>5 DEF Coming, Going, Running
  <2> QED BY <1>5, <2>1, <2>2 DEF IInv, Running_process, Live_pids
<1> QED BY <1>3, <1>5, <1>8, <1>9, <1>10

\* A tick leaves a frame of schedule that can be cut nowhere else.
LEMMA TickInv == ASSUME IInv, Needed \subseteq Discipline, Tick PROVE IInv'
<1> DEFINE f == [fn |-> "schedule", at |-> "tick", pid |-> KERNEL]
<1>2. TypeOK' BY TickType DEF IInv
<1>3. /\ ifl' = FALSE /\ ~wild
      /\ UNCHANGED <<curr_pid, procVars, termVars, shells_done, schedule_counter,
                     pageVars, esp0, wild>>
      /\ pit_count' = IF pit_count > MAX_TERM THEN pit_count ELSE pit_count + 1
  BY TickEffect
<1>5. ~Coming /\ ~Going BY TickEffect
<1>8. Len(kstk[cpu]) = 0 \/ (Len(kstk[cpu]) = 1 /\ Open(First(cpu))) BY TickEffect
<1>9. /\ cpu' = cpu /\ kstk'[cpu] # <<>> /\ Len(kstk'[cpu]) = Depth + 1 /\ Depth' = Depth + 1
      /\ Top' = f /\ First(cpu)' = IF Depth = 0 THEN f ELSE First(cpu)
      /\ \A q \in Owners : q # cpu => kstk'[q] = kstk[q]
  BY TickEffect
<1>10. cpu \in Live_pids /\ curr_pid = cpu /\ Front[pid_to_term[cpu]] = cpu /\ cpu \in Pids
  BY TickEffect
<1>11. ~Coming' /\ ~Going' BY <1>9 DEF Coming, Going, Running
<1>12. /\ Live_pids' = Live_pids /\ Held' = Held /\ Parent' = Parent /\ Front' = Front
       /\ Mapped = curr_pid /\ Mapped' = curr_pid' /\ Rooted' /\ Linked' /\ Lineage'
  <2>1. \A q \in Live_pids : Front[pid_to_term[q]] # q => kstk'[q] = kstk[q]
    BY <1>9, <1>10, ConstantFacts DEF Live_pids
  <2> QED BY <1>3, <1>5, <1>11, <2>1, CalmTree DEF procVars
<1>13. Shape'
  <2>1. Running("schedule", {"tick"})' /\ Running("schedule", {"tick", "spawned"})' /\ ~ifl'
    BY <1>3, <1>9 DEF Running
  <2>2. CASE Len(kstk[cpu]) = 0 
    <3>1. Len(kstk[cpu])' = 1 BY <2>2, <1>9, Basics
    <3> QED BY <3>1, <2>1 DEF Shape
  <2>3. CASE Len(kstk[cpu]) = 1 /\ Open(First(cpu))
    <3>1. Len(kstk[cpu])' = 2 BY <2>3, <1>9, Basics
    <3>2. Open(First(cpu)') BY <2>3, <1>9, Basics
    <3> QED BY <3>1, <3>2, <2>1 DEF Shape, Open
  <2> QED BY <1>8, <2>2, <2>3
<1>14. Running_process'
  BY <1>9, <1>10, <1>11, <1>12, <1>3, <1>8, Basics DEF Running_process, Running, procVars, Live_pids, Open
<1>15. Mapping'
  BY <1>3, <1>5, <1>9, <1>12 DEF IInv, Mapping, Running, termVars, pageVars, procVars, Going
<1>16. Parked'
  BY <1>3, <1>9, <1>12, ConstantFacts DEF IInv, Parked, Suspended, First, Last, procVars, Live_pids
<1>17. Calls'
  BY <1>3, <1>8, <1>9, <1>11, <1>12, ConstantFacts, Basics
  DEF IInv, Calls, First, procVars, termVars, Live_pids
<1>18. Boot'
  <2>1. /\ shells_done' = shells_done /\ free_pid' = free_pid /\ pit_count \in Nat /\ MAX_TERM \in Nat
        /\ pit_count \in 0 .. (MAX_TERM + 1)
    BY <1>3, KernelAssumption DEF procVars, IInv, TypeOK
  <2>2. /\ Running("schedule", {"tick"})' /\ ~Running("schedule", {"spawned"})'
        /\ ~Running("system_execute", ExecLabels)' /\ Running("schedule", {"tick", "spawned"})'
    BY <1>9 DEF Running
  <2>3. shells_done => pit_count' >= MAX_TERM
    BY <1>3, <2>1 DEF IInv, Boot, ShellsStarted
  <2>4. Early' => \A p \in Live_pids : kstk'[p] # <<>> => kstk'[p][1].fn = "schedule"
    <3> SUFFICES ASSUME Early', NEW p \in Live_pids, kstk'[p] # <<>>
                 PROVE  kstk'[p][1].fn = "schedule"
      OBVIOUS
    <3>1. pit_count < MAX_TERM BY <1>3, <2>1 DEF Early
    <3>2. kstk[p] # <<>> => First(p).fn = "schedule" BY <3>1 DEF IInv, Boot, NoCalls, Early
    <3>3. CASE p # cpu BY <3>2, <3>3, <1>9, ConstantFacts DEF First, Live_pids
    <3>4. CASE p = cpu
      <4>1. kstk'[cpu][1] = First(cpu)' BY <1>9 DEF First
      <4>2. Depth = 0 \/ First(cpu).fn = "schedule" BY <3>2, <3>4, Basics
      <4> QED BY <4>1, <4>2, <1>9, <3>4
    <3> QED BY <3>3, <3>4
  <2>5. pit_count' >= MAX_TERM => \A t \in Terms : ~free_pid[t]
    <3>1. CASE pit_count >= MAX_TERM BY <3>1 DEF IInv, Boot, PidsTaken
    <3>2. CASE pit_count < MAX_TERM
      <4> SUFFICES ASSUME pit_count' >= MAX_TERM, NEW t \in Terms PROVE ~free_pid[t] OBVIOUS
      <4>1. pit_count + 1 = MAX_TERM BY <3>2, <1>3, <2>1
      <4>2. Len(kstk[cpu]) = 0
        <5>1. First(cpu).fn # "schedule" \/ Len(kstk[cpu]) = 0 BY <1>8 DEF Open
        <5> QED BY <5>1, <1>10, <3>2, Basics DEF IInv, Boot, NoCalls, Early
      <4>3. t \in Pids /\ t < pit_count + 1 BY <4>1, KernelAssumption, ConstantFacts DEF Terms
      <4>4. ~free_pid[t] <=> t < pit_count + 1 BY <3>2, <4>2, <4>3, Basics DEF IInv, Boot, PidsTaken
      <4> QED BY <4>3, <4>4
    <3> QED BY <3>1, <3>2, <2>1
  <2>6. pit_count' < MAX_TERM => \A p \in Pids : ~free_pid[p] <=> p < pit_count'
    <3> SUFFICES ASSUME pit_count' < MAX_TERM, NEW p \in Pids PROVE ~free_pid[p] <=> p < pit_count'
      OBVIOUS
    <3>1. pit_count' = pit_count + 1 /\ pit_count < MAX_TERM BY <1>3, <2>1
    <3>2. Len(kstk[cpu]) = 0
      <4>1. First(cpu).fn # "schedule" \/ Len(kstk[cpu]) = 0 BY <1>8 DEF Open
      <4> QED BY <4>1, <1>10, <3>1, Basics DEF IInv, Boot, NoCalls, Early
    <3>3. ~free_pid[p] <=> p < pit_count + 1 BY <3>1, <3>2, Basics DEF IInv, Boot, PidsTaken
    <3> QED BY <3>1, <3>3
  <2>7. NoCalls' BY <2>4, <1>12 DEF NoCalls, First
  <2>8. PidsTaken'
    <3>1. kstk'[cpu'] # <<>> BY <1>9
    <3> QED BY <2>1, <2>5, <2>6, <3>1, Zenon DEF PidsTaken
  <2>9. ShellsStarted' BY <1>3, <2>1, <2>3 DEF ShellsStarted
  <2>10. Spawning' BY <2>2 DEF Spawning
  <2> QED BY <2>7, <2>8, <2>9, <2>10 DEF Boot
<1> QED BY <1>2, <1>3, <1>12, <1>13, <1>14, <1>15, <1>16, <1>17, <1>18 DEF IInv

-----------------------------------------------------------------------------
(* schedule *)

\* While the shells start, only schedule cuts a process that is in the kernel.
LEMMA AtSchedule ==
    ASSUME IInv, Running("schedule", {"tick", "spawned"})
    PROVE  /\ ~Coming /\ ~Going /\ ~ifl /\ Depth \in {1, 2}
           /\ First(cpu).fn # "entry" /\ (Depth = 2 => Open(First(cpu)))
           /\ cpu \in Live_pids /\ curr_pid = cpu /\ Front[pid_to_term[cpu]] = cpu
           /\ pit_count < MAX_TERM => Depth = 1
<1>1. Top.fn = "schedule" /\ kstk[cpu] # <<>> /\ Depth = Len(kstk[cpu]) /\ Depth \in Nat
  BY Basics DEF Running
<1>2. ~Coming /\ ~Going BY <1>1 DEF Coming, Going, Running
<1>3. Depth = 1 \/ (Depth = 2 /\ Open(First(cpu)))
  BY <1>1, <1>2, Basics DEF IInv, Shape, Running, Open
<1>4. ~ifl BY <1>1, <1>2, <1>3, Basics DEF IInv, Shape, Running, Open
<1>5. First(cpu).fn # "entry" BY <1>1, <1>3, Basics DEF Open
<1>6. ~Running("system_execute", {"flag"}) /\ ~Running("system_halt", {"jump"})
  BY <1>1 DEF Running
<1>7. cpu \in Live_pids /\ curr_pid = cpu /\ Front[pid_to_term[cpu]] = cpu
  BY <1>2, <1>5, <1>6, Basics DEF IInv, Running_process, Live_pids
<1>8. ASSUME pit_count < MAX_TERM PROVE Depth = 1
  <2>1. First(cpu).fn = "schedule" BY <1>1, <1>7, <1>8 DEF IInv, Boot, NoCalls, Early
  <2> QED BY <1>3, <2>1 DEF Open
<1>9. Depth \in {1, 2} /\ (Depth = 2 => Open(First(cpu))) BY <1>3
<1> QED BY <1>2, <1>4, <1>5, <1>7, <1>8, <1>9

\* The stack on which schedule calls system_execute.
LEMMA SpawnEffect ==
    ASSUME TypeOK, ScheduleSpawn, Depth = 1
    PROVE  /\ cpu' = cpu /\ Len(kstk'[cpu]) = 2 /\ Depth' = 2 /\ kstk'[cpu] # <<>>
           /\ First(cpu)'.fn = "schedule" /\ First(cpu)'.at = "spawned"
           /\ Top'.fn = "system_execute" /\ Top'.at = "find"
           /\ \A q \in Owners : q # cpu => kstk'[q] = kstk[q]
<1> DEFINE x == [fn |-> "system_execute", at |-> "find", pid |-> KERNEL]
           fr == [Top EXCEPT !.at = "spawned"]
           st == [kstk[cpu] EXCEPT ![Depth] = fr]
<1>1. kstk[cpu] # <<>> /\ kstk[cpu] \in Seq(Frame) /\ cpu \in Owners
      /\ kstk \in [Owners -> Seq(Frame)] /\ Top.fn = "schedule"
  BY DEF ScheduleSpawn, At, TypeOK
<1>2. fr.fn = "schedule" /\ fr.at = "spawned" /\ fr \in Frame
  BY <1>1, TopType DEF Frame, Labels
<1>3. x.fn = "system_execute" /\ x.at = "find" /\ x \in Frame
  BY ConstantFacts DEF Frame, Functions, Labels
<1>4. Len(st) = 1 /\ st[1] = fr /\ st \in Seq(Frame)
  <2> HIDE DEF fr
  <2> QED BY <1>1, <1>2, TopType DEF Depth
<1>5. kstk' = [kstk EXCEPT ![cpu] = Append(st, x)] /\ cpu' = cpu
  BY DEF ScheduleSpawn, Top
<1> HIDE DEF st, x, fr
<1>6. Len(Append(st, x)) = 2 /\ Append(st, x)[1] = fr /\ Append(st, x)[2] = x
      /\ Append(st, x) # <<>>
  <2>1. st \in Seq(Frame) /\ x \in Frame /\ Len(st) = 1 /\ st[1] = fr BY <1>3, <1>4
  <2>2. /\ Len(Append(st, x)) = Len(st) + 1 /\ Append(st, x)[Len(st) + 1] = x
        /\ \A i \in 1 .. Len(st) : Append(st, x)[i] = st[i]
    BY <2>1, Pushed, Zenon
  <2>3. 1 \in 1 .. Len(st) /\ Len(st) + 1 = 2 BY <2>1
  <2>4. Len(Append(st, x)) = 2 /\ Append(st, x)[1] = fr /\ Append(st, x)[2] = x
    BY <2>1, <2>2, <2>3, Zenon
  <2>5. Append(st, x) # <<>> BY <2>4
  <2> QED BY <2>4, <2>5
<1>7. kstk'[cpu] = Append(st, x) /\ \A q \in Owners : q # cpu => kstk'[q] = kstk[q]
  BY <1>1, <1>5
<1> QED BY <1>2, <1>3, <1>5, <1>6, <1>7 DEF Depth, Top, First

\* schedule at the boot: it saves its context and calls system_execute for the next shell.
LEMMA ScheduleSpawnInv == ASSUME IInv, ScheduleSpawn PROVE IInv'
<1>1. TypeOK' BY ScheduleSpawnType DEF IInv
<1>2. /\ Running("schedule", {"tick", "spawned"}) /\ pit_count < MAX_TERM /\ ~shells_done
      /\ term_switch(pit_count) /\ shells_done' = (shells_done \/ pit_count = MAX_TERM - 1)
      /\ UNCHANGED <<curr_pid, procVars, pit_count, schedule_counter, user_page,
                     esp0, cpu, ifl, wild>>
      /\ Top.fn = "schedule"
  BY DEF ScheduleSpawn, At, MustSpawn, Running
<1>3. /\ ~Coming /\ ~Going /\ ~ifl /\ Depth = 1 /\ Len(kstk[cpu]) = 1 /\ cpu \in Live_pids
      /\ curr_pid = cpu /\ Front[pid_to_term[cpu]] = cpu /\ cpu \in Pids
  BY <1>2, AtSchedule, Basics
<1>4. /\ cpu' = cpu /\ Len(kstk'[cpu]) = 2 /\ Depth' = 2 /\ kstk'[cpu] # <<>>
      /\ First(cpu)'.fn = "schedule" /\ First(cpu)'.at = "spawned"
      /\ Top'.fn = "system_execute" /\ Top'.at = "find"
      /\ \A q \in Owners : q # cpu => kstk'[q] = kstk[q]
  BY <1>3, SpawnEffect DEF IInv
<1>5. ~Coming' /\ ~Going' BY <1>4 DEF Coming, Going, Running
<1>6. /\ Live_pids' = Live_pids /\ Held' = Held /\ Parent' = Parent /\ Front' = Front
      /\ Mapped = curr_pid /\ Mapped' = curr_pid' /\ Rooted' /\ Linked' /\ Lineage'
  <2>1. \A q \in Live_pids : Front[pid_to_term[q]] # q => kstk'[q] = kstk[q]
    BY <1>3, <1>4, ConstantFacts DEF Live_pids
  <2> QED BY <1>2, <1>3, <1>5, <2>1, CalmTree DEF procVars
<1>7. Shape' BY <1>2, <1>3, <1>4 DEF Shape, Running, ExecLabels
<1>8. Running_process'
  BY <1>2, <1>3, <1>4, <1>5, <1>6 DEF Running_process, Running, procVars, Live_pids
<1>9. Mapping'
  <2>1. vid_page = video_mem[pid_to_term[cpu]] /\ user_page = cpu /\ esp0.stk = cpu
    BY <1>3, <1>6, ConstantFacts DEF IInv, Mapping, Going, Running
  <2>2. TermsOf(curr_pid) = {pid_to_term[cpu]} BY <1>3 DEF TermsOf
  <2>3. vid_page' = video_mem'[pid_to_term[cpu]]
    BY <1>2, <2>1, <2>2 DEF term_switch, Displayed
  <2> QED BY <1>2, <1>3, <1>4, <1>6, <2>1, <2>3 DEF Mapping, Running, procVars
<1>10. Parked'
  BY <1>2, <1>4, <1>6, ConstantFacts DEF IInv, Parked, Suspended, First, Last, procVars, Live_pids
<1>11. Calls'
  <2>1. \A p \in Live_pids : kstk'[p] # <<>> => kstk'[p][1].fn = "schedule"
    BY <1>2, <1>4, ConstantFacts DEF IInv, Boot, NoCalls, Early, First, Live_pids
  <2>2. (Live_pids \cup {cpu})' = Live_pids BY <1>3, <1>4, <1>6
  <2> QED BY <1>4, <1>5, <2>1, <2>2 DEF Calls, First
<1>12. Boot'
  <2>1. /\ pit_count' = pit_count /\ free_pid' = free_pid /\ pit_count \in Nat /\ MAX_TERM \in Nat
    BY <1>2, KernelAssumption DEF procVars, IInv, TypeOK
  <2>2. ~Running("schedule", {"tick"})' /\ ~Running("schedule", {"spawned"})'
    BY <1>4 DEF Running
  <2>3. ShellsStarted'
    <3>1. shells_done' => pit_count = MAX_TERM - 1 BY <1>2, Zenon
    <3> QED BY <2>1, <2>2, <3>1 DEF ShellsStarted
  <2>4. NoCalls'
    <3>1. \A p \in Live_pids : kstk'[p] # <<>> => kstk'[p][1].fn = "schedule"
      BY <1>2, <1>4, ConstantFacts DEF IInv, Boot, NoCalls, Early, First, Live_pids
    <3> QED BY <3>1, <1>6 DEF NoCalls, First
  <2>5. PidsTaken'
    <3>1. kstk'[cpu'] # <<>> /\ kstk[cpu] # <<>> BY <1>2, <1>4 DEF Running
    <3>2. pit_count < MAX_TERM => \A p \in Pids : ~free_pid[p] <=> p < pit_count
      BY <3>1, Zenon DEF IInv, Boot, PidsTaken
    <3>3. pit_count >= MAX_TERM => \A t \in Terms : ~free_pid[t]
      BY Zenon DEF IInv, Boot, PidsTaken
    <3> QED BY <2>1, <3>1, <3>2, <3>3, Zenon DEF PidsTaken
  <2>6. Spawning' BY <1>2, <1>4, <2>1, <2>2 DEF Spawning, term_switch
  <2> QED BY <2>3, <2>4, <2>5, <2>6 DEF Boot
<1> QED BY <1>1, <1>2, <1>7, <1>8, <1>6, <1>9, <1>10, <1>11, <1>12 DEF IInv

\* Once the shells run, schedule always finds the next process where it left it.
LEMMA SwitchEffect ==
    ASSUME IInv, ScheduleSwitch
    PROVE  /\ Running("schedule", {"tick", "spawned"}) /\ pit_count >= MAX_TERM /\ Top.fn = "schedule"
           /\ curr_pid' = cpu' /\ user_page' = cpu' /\ esp0'.stk = cpu' /\ wild' = wild
           /\ cpu' \in Live_pids /\ Front[pid_to_term[cpu']] = cpu' /\ pid_to_term[cpu'] = NextTurn
           /\ vid_page' = video_mem'[pid_to_term[cpu']]
           /\ my_k' = [my_k EXCEPT ![cpu] = Here]
           /\ \A q \in Owners : q # cpu' => kstk'[q] = kstk[q]
           /\ Depth' \in {0, 1} /\ (Depth' = 1 => Top' = First(cpu)' /\ First(cpu)' = First(cpu'))
           /\ \/ Depth' = 0 /\ ifl'
              \/ Depth' = 1 /\ ifl' /\ Open(First(cpu)')
              \/ Depth' = 1 /\ ~ifl' /\ First(cpu)'.fn = "schedule" /\ First(cpu)'.at = "spawned"
<1>1. /\ Running("schedule", {"tick", "spawned"}) /\ Top.fn = "schedule"
      /\ Running("schedule", {"spawned"}) \/ (Running("schedule", {"tick"}) /\ ~MustSpawn)
  BY DEF ScheduleSwitch, At, Running
<1>2. /\ ~Coming /\ ~Going /\ ~ifl /\ Depth \in {1, 2}
      /\ First(cpu).fn # "entry" /\ (Depth = 2 => Open(First(cpu)))
      /\ cpu \in Live_pids /\ curr_pid = cpu /\ cpu \in Pids /\ cpu \in Owners
      /\ Front[pid_to_term[cpu]] = cpu
      /\ Depth = Len(kstk[cpu]) /\ (Depth = 1 => Top = First(cpu))
  BY <1>1, AtSchedule, Basics
<1>3. pit_count >= MAX_TERM
  <2>1. pit_count \in Nat /\ MAX_TERM \in Nat BY KernelAssumption DEF IInv, TypeOK
  <2>2. CASE Running("schedule", {"spawned"}) BY <2>2 DEF IInv, Boot, Spawning
  <2>3. CASE Running("schedule", {"tick"}) /\ ~MustSpawn
    <3>1. shells_done => pit_count >= MAX_TERM BY <2>3 DEF IInv, Boot, ShellsStarted
    <3> QED BY <2>1, <2>3, <3>1 DEF MustSpawn
  <2> QED BY <1>1, <2>2, <2>3
<1> DEFINE next == top_pid[NextTurn]
           shown == IF pit_count = MAX_TERM THEN 0 ELSE curr_term
<1>4. NextTurn \in Terms /\ NextTurn \in Pids BY NextTurnType, ConstantFacts DEF IInv
<1>5. Held = Live_pids /\ Front = [t \in Terms |-> top_pid[t]] BY <1>2, Calm
<1>6. next \in Live_pids /\ pid_to_term[next] = NextTurn /\ Front[pid_to_term[next]] = next
  <2>1. ~free_pid[NextTurn] BY <1>3, <1>4 DEF IInv, Boot, PidsTaken
  <2>2. NextTurn \in Terms \cap Held BY <1>4, <1>5, <2>1 DEF Live_pids
  <2>3. Front[NextTurn] \in Held /\ pid_to_term[Front[NextTurn]] = NextTurn
    BY <2>2 DEF IInv, Rooted
  <2> QED BY <1>4, <1>5, <2>3
<1>7. next \in Pids /\ next \in Owners /\ next # KERNEL BY <1>6, ConstantFacts DEF Live_pids
<1>8. /\ video_mem' = Displayed(shown) /\ user_page' = next
      /\ vid_page' = Displayed(shown)[pid_to_term[next]]
      /\ my_k' = [my_k EXCEPT ![cpu] = Here]
      /\ esp0' = pid_to_ksb(next) /\ curr_pid' = next /\ Resume(my_k'[next])
  BY <1>2, <1>7 DEF ScheduleSwitch
<1>9. esp0'.stk = next BY <1>8 DEF pid_to_ksb
<1> DEFINE c == my_k'[next]
<1> HIDE DEF next, shown, c
<1>10. my_k \in [Owners -> Context] /\ Here \in Context /\ kstk \in [Owners -> Seq(Frame)]
  BY <1>1, TopType DEF IInv, TypeOK, Running
<1>11. c \in Context /\ c.stk = next /\ c.len = Len(kstk[next]) /\ c.fn = Last(next).fn
      /\ \/ c.len = 1 /\ c.fn = "schedule"
         \/ c.len = 2 /\ c.fn = "schedule" /\ Open(First(next))
         \/ c.len = 2 /\ c.fn = "system_execute" /\ First(next).fn = "schedule"
            /\ First(next).at = "spawned"
  <2>1. CASE next = cpu
    <3>1. c = Here BY <2>1, <1>2, <1>8, <1>10 DEF c
    <3>2. c.stk = cpu /\ c.len = Depth /\ c.fn = "schedule" BY <3>1, <1>1 DEF Here
    <3>3. Last(cpu) = Top BY <1>2 DEF Last, Top
    <3> QED BY <2>1, <3>1, <3>2, <3>3, <1>1, <1>2, <1>10
  <2>2. CASE next # cpu
    <3>1. c = my_k[next] BY <2>2, <1>2, <1>7, <1>8, <1>10 DEF c
    <3>2. Suspended(next) BY <2>2, <1>6 DEF IInv, Parked
    <3>3. c \in Context BY <3>1, <1>7, <1>10
    <3>4. c.stk = next /\ c.len = Len(kstk[next]) /\ c.fn = Last(next).fn
      BY <3>1, <3>2 DEF Suspended
    <3>5. \/ Len(kstk[next]) = 1 /\ First(next).fn = "schedule"
          \/ Len(kstk[next]) = 2 /\ Open(First(next)) /\ Last(next).fn = "schedule"
          \/ /\ Len(kstk[next]) = 2 /\ First(next).fn = "schedule"
             /\ First(next).at = "spawned" /\ Last(next).fn = "system_execute"
      BY <3>2 DEF Suspended
    <3>6. Len(kstk[next]) = 1 => First(next) = Last(next) BY DEF First, Last
    <3> QED BY <3>3, <3>4, <3>5, <3>6
  <2> QED BY <2>1, <2>2
<1>12. kstk[next] \in Seq(Frame) /\ c.len \in 1 .. Len(kstk[next])
  <2>1. kstk[next] \in Seq(Frame) BY <1>7, <1>10
  <2>2. c.len = Len(kstk[next]) /\ (c.len = 1 \/ c.len = 2) BY <1>11
  <2>3. c.len \in 1 .. c.len BY <2>2
  <2> QED BY <2>1, <2>2, <2>3
<1>13. Live(c, kstk) /\ (c.len = 1 => Current(c.stk))
  BY <1>8, <1>9, <1>11, <1>12 DEF Live, Current, Last
<1>14. Jump(c, kstk) BY <1>8 DEF c, Resume
<1>15. /\ cpu' = next /\ wild' = wild
       /\ ifl' = (ifl \/ c.fn = "schedule" \/ c.len = 1)
       /\ \A q \in Owners : q # next => kstk'[q] = kstk[q]
       /\ Depth' = c.len - 1 /\ Len(kstk'[next]) = c.len - 1
       /\ \A i \in 1 .. (c.len - 1) : kstk'[next][i] = kstk[next][i]
  BY <1>10, <1>11, <1>13, <1>14, JumpEffect
<1>16. Depth' \in {0, 1} BY <1>11, <1>15
<1>17. ASSUME Depth' = 1 PROVE Top' = First(cpu)' /\ First(cpu)' = First(next)
  <2>1. 1 \in 1 .. (c.len - 1) BY <1>15, <1>17
  <2> QED BY <2>1, <1>15, <1>17 DEF Top, First
<1>18. \/ Depth' = 0 /\ ifl'
       \/ Depth' = 1 /\ ifl' /\ Open(First(next))
       \/ Depth' = 1 /\ ~ifl' /\ First(next).fn = "schedule" /\ First(next).at = "spawned"
  <2>1. c.fn = "schedule" => ifl' BY <1>15, Zenon
  <2>2. c.fn = "system_execute" /\ c.len = 2 => ~ifl'
    <3>1. c.fn = "system_execute" /\ c.len = 2 => c.fn # "schedule" /\ c.len # 1 OBVIOUS
    <3> QED BY <3>1, <1>2, <1>15, Zenon
  <2>3. c.len = 1 => Depth' = 0 BY <1>15
  <2>4. c.len = 2 => Depth' = 1 BY <1>15
  <2> QED BY <1>11, <2>1, <2>2, <2>3, <2>4, Zenon
<1>19. vid_page' = video_mem'[pid_to_term[next]] BY <1>8
<1>20. Depth' = 1 => (Open(First(next)) => Open(First(cpu)')) BY <1>17 DEF Open
<1> QED BY <1>1, <1>3, <1>6, <1>8, <1>9, <1>15, <1>16, <1>17, <1>18, <1>19, <1>20

\* schedule once the shells run: the switch to the next terminal's newest process.
LEMMA ScheduleSwitchInv == ASSUME IInv, ScheduleSwitch PROVE IInv'
<1>1. TypeOK' BY ScheduleSwitchType DEF IInv
<1>2. /\ Running("schedule", {"tick", "spawned"}) /\ pit_count >= MAX_TERM /\ Top.fn = "schedule"
      /\ curr_pid' = cpu' /\ user_page' = cpu' /\ esp0'.stk = cpu' /\ wild' = wild
      /\ cpu' \in Live_pids /\ Front[pid_to_term[cpu']] = cpu'
      /\ vid_page' = video_mem'[pid_to_term[cpu']]
      /\ my_k' = [my_k EXCEPT ![cpu] = Here]
      /\ \A q \in Owners : q # cpu' => kstk'[q] = kstk[q]
      /\ Depth' \in {0, 1} /\ (Depth' = 1 => Top' = First(cpu)' /\ First(cpu)' = First(cpu'))
      /\ \/ Depth' = 0 /\ ifl'
         \/ Depth' = 1 /\ ifl' /\ Open(First(cpu)')
         \/ Depth' = 1 /\ ~ifl' /\ First(cpu)'.fn = "schedule" /\ First(cpu)'.at = "spawned"
  BY SwitchEffect
<1>3. /\ ~Coming /\ ~Going /\ Depth \in {1, 2} /\ (Depth = 2 => Open(First(cpu)))
      /\ cpu \in Live_pids /\ curr_pid = cpu /\ cpu \in Pids /\ cpu \in Owners
      /\ Depth = Len(kstk[cpu]) /\ (Depth = 1 => Top = First(cpu))
  BY <1>2, AtSchedule, Basics
<1>4. UNCHANGED <<free_pid, parent_pid, parent_k, pid_to_term, top_pid, pit_count, shells_done>>
  BY DEF ScheduleSwitch
<1>5. /\ cpu' \in Pids /\ cpu' \in Owners /\ Depth' = Len(kstk'[cpu'])
      /\ (kstk'[cpu'] = <<>> <=> Depth' = 0)
  <2>1. cpu' \in Pids /\ cpu' \in Owners BY <1>2, ConstantFacts DEF Live_pids
  <2>2. kstk'[cpu'] \in Seq(Frame) BY <1>1, <2>1 DEF TypeOK
  <2>3. Depth' = Len(kstk'[cpu']) BY DEF Depth
  <2> QED BY <2>1, <2>2, <2>3
<1>6. \/ ~Coming' /\ ~Going' /\ ~Running("schedule", {"tick"})' /\ First(cpu)'.fn # "entry"
      \/ Depth' = 0
  BY <1>2, <1>5 DEF Coming, Going, Running, Open
<1>7. Depth' = 0 => ~Coming' /\ ~Going' /\ ~Running("schedule", {"tick"})'
  BY <1>5 DEF Coming, Going, Running
<1>8. ~Coming' /\ ~Going' /\ ~Running("schedule", {"tick"})' BY <1>6, <1>7
<1>9. /\ Live_pids' = Live_pids /\ Held' = Held /\ Parent' = Parent /\ Front' = Front
      /\ Mapped = curr_pid /\ Mapped' = curr_pid' /\ Rooted' /\ Linked' /\ Lineage'
  <2>1. \A q \in Live_pids : Front[pid_to_term[q]] # q => kstk'[q] = kstk[q]
    BY <1>2, ConstantFacts DEF Live_pids
  <2> QED BY <1>3, <1>4, <1>8, <2>1, CalmTree
<1>10. Shape' BY <1>2, <1>5 DEF Shape, Running
<1>11. Running_process'
  <2>1. ~(kstk[cpu] # <<>> /\ First(cpu).fn = "entry")' BY <1>5, <1>6
  <2>2. ~free_pid'[cpu'] BY <1>2, <1>4 DEF Live_pids
  <2>3. Front'[pid_to_term'[cpu']] = cpu' BY <1>2, <1>4, <1>9
  <2>4. ~Running("system_execute", {"flag"})' /\ ~Running("system_halt", {"jump"})'
        /\ ~Running("system_halt", {"switch", "jump"})'
    BY <1>8 DEF Coming, Going, Running
  <2> QED BY <1>2, <1>5, <1>8, <2>1, <2>2, <2>3, <2>4 DEF Running_process
<1>12. Mapping'
  <2>1. ~Running("system_halt", {"pop", "switch"})' BY <1>8 DEF Going, Running
  <2> QED BY <1>2, <1>4, <1>9, <2>1 DEF Mapping
<1>13. Parked'
  <2> SUFFICES ASSUME NEW p \in Live_pids, p # cpu', Front[pid_to_term[p]] = p
               PROVE  Suspended(p)'
    BY <1>4, <1>9 DEF Parked
  <2>1. p \in Owners /\ kstk'[p] = kstk[p] BY <1>2, ConstantFacts DEF Live_pids
  <2>2. CASE p = cpu
    <3>1. my_k'[p] = Here BY <1>2, <1>3, <2>1, <2>2 DEF IInv, TypeOK
    <3>2. Here.stk = cpu /\ Here.len = Depth /\ Here.fn = "schedule" /\ Last(cpu) = Top
      BY <1>2, <1>3 DEF Here, Last, Top
    <3>3. my_k'[p].stk = p /\ my_k'[p].len = Len(kstk'[p]) /\ my_k'[p].fn = "schedule"
          /\ kstk'[p][Len(kstk'[p])].fn = "schedule"
      BY <1>2, <1>3, <2>1, <2>2, <3>1, <3>2 DEF Last
    <3>4. \/ Len(kstk'[p]) = 1 /\ kstk'[p][1].fn = "schedule"
          \/ Len(kstk'[p]) = 2 /\ Open(kstk'[p][1])
      BY <1>2, <1>3, <2>1, <2>2 DEF First
    <3> QED BY <3>3, <3>4 DEF Suspended, First, Last, Open
  <2>3. CASE p # cpu
    <3>1. my_k'[p] = my_k[p] BY <1>2, <2>3, <2>1 DEF IInv, TypeOK
    <3>2. Suspended(p) BY <2>3 DEF IInv, Parked
    <3> QED BY <2>1, <3>1, <3>2 DEF Suspended, First, Last
  <2> QED BY <2>2, <2>3
<1>14. Early' => \A p \in Live_pids : kstk[p] # <<>> => First(p).fn = "schedule"
  BY <1>2, <1>4 DEF IInv, Boot, NoCalls, Early
<1>15. \A p \in Live_pids : kstk'[p] # <<>> => kstk[p] # <<>> /\ First(p)' = First(p)
  <2> SUFFICES ASSUME NEW p \in Live_pids, kstk'[p] # <<>>
               PROVE  kstk[p] # <<>> /\ kstk'[p][1] = kstk[p][1]
    BY DEF First
  <2>1. CASE p # cpu' BY <1>2, <2>1, ConstantFacts DEF Live_pids
  <2>2. CASE p = cpu'
    <3>1. First(cpu)' = First(cpu') BY <1>2, <1>5, <2>2
    <3>2. kstk[p] # <<>>
      <4>1. p = cpu => kstk[p] # <<>> BY <1>2 DEF Running
      <4>2. ASSUME p # cpu PROVE kstk[p] # <<>>
        <5>1. Suspended(p) BY <1>2, <2>2, <4>2 DEF IInv, Parked
        <5>2. Len(kstk[p]) \in {1, 2} BY <5>1 DEF Suspended
        <5>3. Len(<<>>) = 0 OBVIOUS
        <5> QED BY <5>2, <5>3
      <4> QED BY <4>1, <4>2
    <3> QED BY <2>2, <3>1, <3>2 DEF First
  <2> QED BY <2>1, <2>2
<1>16. Calls'
  <2> SUFFICES ASSUME NEW p \in Live_pids, kstk'[p] # <<>>
      PROVE (LET f == First(p) IN
                /\ f.fn = "system_halt" => f.pid = p /\ p \notin BasePids
                /\ f.fn = "system_execute" /\ f.at \in {"find", "open"}
                      => pid_to_term[p] = curr_term
                /\ f.fn = "system_execute" /\ f.at = "open"
                      => f.pid \in Pids \ (Held \cup BasePids) /\ pid_to_term[f.pid] = curr_term
                /\ f.fn = "system_vidmap" => f.pid + 1 = video_mem[pid_to_term[p]])'
    BY <1>2, <1>8, <1>9 DEF Calls
  <2>1. kstk[p] # <<>> /\ First(p)' = First(p) BY <1>15
  <2>2. CASE pit_count = MAX_TERM
    <3>1. First(p).fn = "schedule" BY <1>2, <2>1, <2>2 DEF IInv, Boot, NoCalls, Early
    <3> QED BY <2>1, <3>1
  <2>3. CASE pit_count # MAX_TERM
    <3>1. curr_term' = curr_term /\ video_mem' = video_mem
      BY <2>3 DEF ScheduleSwitch, Displayed
    <3> QED BY <1>4, <1>9, <2>1, <3>1 DEF IInv, Calls
  <2> QED BY <2>2, <2>3
<1>17. Boot'
  <2>1. pit_count' >= MAX_TERM /\ pit_count \in Nat /\ MAX_TERM \in Nat /\ pit_count' = pit_count
    BY <1>2, <1>4, KernelAssumption DEF IInv, TypeOK
  <2>2. ShellsStarted' BY <2>1 DEF ShellsStarted
  <2>3. NoCalls' BY <1>9, <1>14, <1>15 DEF NoCalls
  <2>4. PidsTaken'
    <3>1. \A t \in Terms : ~free_pid[t] BY <1>2, Zenon DEF IInv, Boot, PidsTaken
    <3>2. ~(pit_count' < MAX_TERM) BY <2>1
    <3> QED BY <1>4, <3>1, <3>2, Zenon DEF PidsTaken
  <2>5. Spawning'
    <3>1. Depth' = 0 \/ Depth' = 1 BY <1>2, Zenon
    <3>2. Depth' # 2 BY <3>1
    <3>3. Len(kstk'[cpu']) # 2 BY <3>2, <1>5, Zenon
    <3> QED BY <2>1, <3>3 DEF Spawning
  <2> QED BY <2>2, <2>3, <2>4, <2>5 DEF Boot
<1> QED BY <1>1, <1>2, <1>9, <1>10, <1>11, <1>12, <1>13, <1>16, <1>17 DEF IInv

-----------------------------------------------------------------------------
(* system_execute *)

\* A command runs on a process of a started terminal, a boot shell is started
\* by schedule or by entry.
LEMMA ExecWhere ==
    ASSUME IInv, Running("system_execute", ExecLabels)
    PROVE  /\ Top.fn = "system_execute" /\ kstk[cpu] # <<>> /\ Depth = Len(kstk[cpu]) /\ ~Going
           /\ \/ /\ Depth = 1 /\ First(cpu) = Top /\ ifl /\ cpu \in Live_pids
                 /\ pit_count >= MAX_TERM /\ ~Early
                 /\ (\A t \in Terms : ~free_pid[t])
              \/ /\ Depth = 2 /\ pit_count < MAX_TERM /\ Early
                 /\ (\A p \in Pids : ~free_pid[p] <=> p < pit_count)
                 /\ \/ /\ First(cpu).fn = "schedule" /\ First(cpu).at = "spawned"
                       /\ ~ifl /\ cpu \in Live_pids
                    \/ First(cpu).fn = "entry" /\ ifl /\ cpu = 0 /\ pit_count = 0 /\ free_pid[cpu]
           /\ ~Running("system_execute", {"flag"}) => curr_pid = IF First(cpu).fn = "entry" THEN KERNEL ELSE cpu
           /\ ~Coming /\ cpu \in Live_pids => Front[pid_to_term[cpu]] = cpu
<1>1. /\ Top.fn = "system_execute" /\ kstk[cpu] # <<>> /\ Depth = Len(kstk[cpu]) /\ Depth \in Nat
      /\ cpu \in Pids
  BY Basics DEF Running
<1>2. ~Going BY <1>1 DEF Going, Running
<1>3. \/ Depth = 1 /\ First(cpu) = Top /\ ifl
      \/ /\ Depth = 2
         /\ \/ First(cpu).fn = "schedule" /\ First(cpu).at = "spawned" /\ ~ifl
            \/ First(cpu).fn = "entry" /\ ifl
  BY <1>1, Basics DEF IInv, Shape, Running
<1>4. First(cpu).fn # "entry" => cpu \in Live_pids
  BY <1>1, <1>2 DEF IInv, Running_process, Live_pids
<1>5. First(cpu).fn = "entry" => cpu = 0 /\ pit_count = 0 /\ free_pid[cpu]
      /\ (~Running("system_execute", {"flag"}) => curr_pid = KERNEL)
  BY <1>1 DEF IInv, Running_process
<1>6. ~Running("system_execute", {"flag"}) /\ First(cpu).fn # "entry" => curr_pid = cpu
  BY <1>1, <1>2 DEF IInv, Running_process, Going, Running
<1>7. ~Coming /\ cpu \in Live_pids => Front[pid_to_term[cpu]] = cpu
  BY <1>1, <1>5 DEF IInv, Running_process, Live_pids
<1>8. pit_count \in Nat /\ MAX_TERM \in Nat BY KernelAssumption DEF IInv, TypeOK
<1>9. CASE Depth = 1
  <2>1. First(cpu) = Top /\ ifl /\ cpu \in Live_pids BY <1>1, <1>3, <1>4, <1>9
  <2>2. ~Early BY <1>1, <2>1 DEF IInv, Boot, NoCalls
  <2>3. pit_count >= MAX_TERM BY <2>2, <1>8 DEF Early
  <2>4. \A t \in Terms : ~free_pid[t] BY <2>3, Zenon DEF IInv, Boot, PidsTaken
  <2> QED BY <1>1, <1>2, <1>5, <1>6, <1>7, <1>9, <2>1, <2>2, <2>3, <2>4
<1>10. CASE Depth = 2
  <2>1. pit_count < MAX_TERM BY <1>1, <1>10 DEF IInv, Boot, Spawning
  <2>2. Early BY <2>1 DEF Early
  <2>3. \A p \in Pids : ~free_pid[p] <=> p < pit_count
    BY <1>1, <2>1, Zenon DEF IInv, Boot, PidsTaken
  <2>4. \/ First(cpu).fn = "schedule" /\ First(cpu).at = "spawned" /\ ~ifl /\ cpu \in Live_pids
        \/ First(cpu).fn = "entry" /\ ifl /\ cpu = 0 /\ pit_count = 0 /\ free_pid[cpu]
    BY <1>3, <1>4, <1>5, <1>10
  <2> QED BY <1>1, <1>2, <1>5, <1>6, <1>7, <1>10, <2>1, <2>2, <2>3, <2>4
<1> QED BY <1>3, <1>9, <1>10

\* The parts of the invariant that a step of system_execute to its next label
\* leaves alone.
LEMMA ExecGoto ==
    ASSUME IInv, Running("system_execute", ExecLabels), NEW l \in ExecLabels, NEW p \in Owners,
           Goto(l, p), UNCHANGED <<cpu, ifl, free_pid, pit_count, shells_done>>,
           \A q \in Live_pids \ {cpu} :
               /\ Front'[pid_to_term'[q]] = q => Front[pid_to_term[q]] = q
               /\ my_k'[q] = my_k[q]
    PROVE  /\ Shape' /\ Parked' /\ ShellsStarted' /\ NoCalls' /\ PidsTaken' /\ ~Going'
           /\ Live_pids' = Live_pids
           /\ \A q \in Owners : Len(kstk'[q]) = Len(kstk[q]) /\ (q # cpu => kstk'[q] = kstk[q])
           /\ kstk'[cpu] # <<>> /\ Depth' = Depth
           /\ Top'.fn = "system_execute" /\ Top'.at = l /\ Top'.pid = p
           /\ First(cpu)' = IF Depth = 1 THEN Top' ELSE First(cpu)
           /\ Coming' <=> l \in {"load", "enter", "flag"}
<1>1. /\ \A q \in Owners : Len(kstk'[q]) = Len(kstk[q]) /\ (q # cpu => kstk'[q] = kstk[q])
      /\ kstk'[cpu] # <<>> /\ Depth' = Depth
      /\ Top'.fn = "system_execute" /\ Top'.at = l /\ Top'.pid = p
      /\ First(cpu)' = IF Depth = 1 THEN Top' ELSE First(cpu)
  BY GotoEffect, ExecWhere DEF IInv
<1>2. Live_pids' = Live_pids BY DEF Live_pids
<1>3. Coming' <=> l \in {"load", "enter", "flag"} BY <1>1 DEF Coming, Running
<1>4. ~Going' BY <1>1 DEF Going, Running
<1>5. Shape'
  <2>1. Running("system_execute", ExecLabels)' BY <1>1 DEF Running
  <2>2. (Open(Top) \/ Coming)' BY <1>1, <1>3 DEF Open, ExecLabels
  <2>3. Len(kstk[cpu])' = Depth BY <1>1 DEF Depth
  <2> QED BY <1>1, <2>1, <2>2, <2>3, ExecWhere DEF Shape
<1>6. Parked'
  <2> SUFFICES ASSUME NEW q \in Live_pids \ {cpu}, Front'[pid_to_term'[q]] = q PROVE Suspended(q)'
    BY <1>2 DEF Parked
  <2>1. Suspended(q) BY DEF IInv, Parked
  <2>2. q \in Owners /\ kstk'[q] = kstk[q] BY <1>1, ConstantFacts DEF Live_pids
  <2> QED BY <2>1, <2>2 DEF Suspended, First, Last
<1>7. ~Running("schedule", {"tick"})' /\ ~Running("schedule", {"tick", "spawned"})'
      /\ ~Running("schedule", {"tick", "spawned"})
  BY <1>1, ExecWhere DEF Running
<1>8. ShellsStarted' BY <1>7 DEF IInv, Boot, ShellsStarted
<1>9. NoCalls'
  <2>1. Early' => Early BY <1>7 DEF Early
  <2> SUFFICES ASSUME Early, NEW q \in Live_pids, kstk'[q] # <<>> PROVE kstk'[q][1].fn = "schedule"
    BY <1>2, <2>1 DEF NoCalls, First
  <2>2. CASE q # cpu
    BY <1>1, <2>2, ConstantFacts DEF IInv, Boot, NoCalls, First, Live_pids
  <2>3. CASE q = cpu
    <3>1. First(cpu).fn = "schedule" BY <2>3, ExecWhere DEF IInv, Boot, NoCalls
    <3>2. Depth # 1 BY ExecWhere
    <3> QED BY <1>1, <2>3, <3>1, <3>2 DEF First
  <2> QED BY <2>2, <2>3
<1>10. PidsTaken'
  <2>1. kstk'[cpu'] # <<>> /\ kstk[cpu] # <<>> BY <1>1, ExecWhere
  <2>2. pit_count < MAX_TERM => \A q \in Pids : ~free_pid[q] <=> q < pit_count
    BY <2>1, Zenon DEF IInv, Boot, PidsTaken
  <2>3. pit_count >= MAX_TERM => \A t \in Terms : ~free_pid[t]
    BY Zenon DEF IInv, Boot, PidsTaken
  <2> QED BY <2>1, <2>2, <2>3, Zenon DEF PidsTaken
<1> QED BY <1>1, <1>2, <1>3, <1>4, <1>5, <1>6, <1>8, <1>9, <1>10

\* Which process a command or a boot shell gets.
LEMMA Picked ==
    ASSUME IInv, ExecPick
    PROVE  /\ Running("system_execute", {"find"}) /\ Running("system_execute", ExecLabels)
           /\ find_free_process \in Pids /\ find_free_process \notin Live_pids
           /\ Depth = 1 => find_free_process \notin BasePids
           /\ Depth = 2 => find_free_process = pit_count /\ curr_term = pit_count
<1>1. Running("system_execute", {"find"}) /\ Running("system_execute", ExecLabels) /\ Top.at = "find"
  BY DEF ExecPick, At, Running, ExecLabels
<1>2. /\ find_free_process \in Pids /\ find_free_process \notin Live_pids
      /\ free_pid[find_free_process]
      /\ \A q \in Pids : free_pid[q] => find_free_process <= q
  BY FindFree DEF ExecPick, Live_pids
<1> DEFINE f == find_free_process
<1>3. Depth = 1 => f \notin BasePids BY <1>1, <1>2, ExecWhere DEF BasePids, Terms
<1>4. ASSUME Depth = 2 PROVE f = pit_count /\ curr_term = pit_count
  <2> HIDE DEF f
  <2>1. /\ pit_count < MAX_TERM /\ Depth = Len(kstk[cpu])
        /\ \A p \in Pids : ~free_pid[p] <=> p < pit_count
    BY <1>1, <1>4, ExecWhere
  <2>2. curr_term = pit_count BY <1>1, <1>4, <2>1 DEF IInv, Boot, Spawning
  <2>3. pit_count \in Pids /\ pit_count \in Nat
    BY <2>1, KernelAssumption DEF IInv, TypeOK, Pids
  <2>4. ~ (pit_count < pit_count) BY <2>3
  <2>5. free_pid[pit_count] BY <2>1, <2>3, <2>4
  <2>6. f <= pit_count /\ f \in Nat BY <1>2, <2>3, <2>5 DEF f, Pids
  <2>7. ~ (f < pit_count) BY <1>2, <2>1 DEF f
  <2> QED BY <2>2, <2>3, <2>6, <2>7
<1> QED BY <1>1, <1>2, <1>3, <1>4

\* system_execute has found a free process.
LEMMA ExecPickInv == ASSUME IInv, ExecPick PROVE IInv'
<1> DEFINE f == find_free_process
<1>1. TypeOK' BY ExecPickType DEF IInv
<1>2. /\ Running("system_execute", {"find"}) /\ Running("system_execute", ExecLabels)
      /\ f \in Pids /\ f \in Owners /\ f \notin Live_pids
      /\ Depth = 1 => f \notin BasePids
      /\ Depth = 2 => f = pit_count /\ curr_term = pit_count
      /\ Top.at = "find" /\ curr_term \in Terms
  BY Picked, ConstantFacts DEF Running, IInv, TypeOK
<1>3. /\ pid_to_term' = [pid_to_term EXCEPT ![f] = curr_term] /\ Goto("open", f)
      /\ UNCHANGED <<curr_pid, free_pid, parent_pid, parent_k, my_k, top_pid, termVars,
                     clockVars, pageVars, esp0, cpu, ifl, wild>>
  BY DEF ExecPick
<1> HIDE DEF f
<1>4. ~Coming /\ ~Going
  BY <1>2, ExecWhere DEF Coming, Running
<1>5. /\ pid_to_term'[f] = curr_term
      /\ \A q \in Pids : q # f => pid_to_term'[q] = pid_to_term[q]
  BY <1>2, <1>3 DEF IInv, TypeOK
<1>6. \A q \in Live_pids : q \in Pids /\ pid_to_term'[q] = pid_to_term[q]
  BY <1>2, <1>5 DEF Live_pids
<1>7. /\ \A q \in Owners : q # cpu => kstk'[q] = kstk[q]
      /\ Top'.fn = "system_execute" /\ Top'.at = "open"
  BY <1>2, <1>3, GotoEffect, ExecWhere DEF IInv
<1>8. ~Coming' /\ ~Going' BY <1>7 DEF Coming, Going, Running
<1>9. /\ Live_pids' = Live_pids /\ Held' = Held /\ Parent' = Parent /\ Front' = Front
      /\ Mapped = curr_pid /\ Mapped' = curr_pid' /\ Rooted' /\ Linked' /\ Lineage'
  <2>1. \A q \in Live_pids : Front[pid_to_term[q]] # q => kstk'[q] = kstk[q]
    BY <1>2, <1>4, <1>7, ExecWhere, ConstantFacts DEF Live_pids
  <2> QED BY <1>3, <1>4, <1>6, <1>8, <2>1, CalmTree
<1>10. "open" \in ExecLabels BY DEF ExecLabels
<1>11. /\ Shape' /\ Parked' /\ ShellsStarted' /\ NoCalls' /\ PidsTaken'
       /\ \A q \in Owners : Len(kstk'[q]) = Len(kstk[q]) /\ (q # cpu => kstk'[q] = kstk[q])
       /\ kstk'[cpu] # <<>> /\ Depth' = Depth
       /\ Top'.fn = "system_execute" /\ Top'.at = "open" /\ Top'.pid = f
       /\ First(cpu)' = IF Depth = 1 THEN Top' ELSE First(cpu)
  BY <1>2, <1>3, <1>6, <1>9, <1>10, ExecGoto DEF clockVars
<1>12. cpu \in Pids /\ cpu \in Owners /\ cpu' = cpu BY <1>3, Basics
<1>13. First(cpu).fn # "entry" => cpu \in Live_pids /\ curr_pid = cpu
       /\ Front[pid_to_term[cpu]] = cpu
  BY <1>2, <1>4, ExecWhere DEF Running
<1>14. First(cpu).fn = "entry" => cpu = 0 /\ pit_count = 0 /\ free_pid[cpu] /\ curr_pid = KERNEL
       /\ Depth = 2
  BY <1>2, <1>4, ExecWhere DEF Running
<1>15. First(cpu)'.fn = "entry" <=> First(cpu).fn = "entry" BY <1>2, <1>11, ExecWhere
<1>16. Running_process'
  <2>1. ~Running("system_execute", {"flag"})' /\ ~Running("system_halt", {"jump"})'
        /\ ~Running("system_halt", {"switch", "jump"})'
    BY <1>7 DEF Running
  <2>2. CASE First(cpu).fn = "entry"
    BY <1>3, <1>8, <1>11, <1>12, <1>14, <1>15, <2>1, <2>2 DEF Running_process, clockVars
  <2>3. CASE First(cpu).fn # "entry"
    <3>1. Front'[pid_to_term'[cpu]] = cpu /\ ~free_pid[cpu] /\ curr_pid = cpu
      BY <1>6, <1>9, <1>13, <2>3 DEF Live_pids
    <3> QED BY <1>3, <1>8, <1>11, <1>12, <1>15, <2>1, <2>3, <3>1 DEF Running_process
  <2> QED BY <2>2, <2>3
<1>17. Mapping'
  <2>1. ~Running("system_halt", {"pop", "switch"}) /\ ~Running("system_halt", {"pop", "switch"})'
    BY <1>4, <1>8 DEF Going, Running
  <2>2. curr_pid # KERNEL => pid_to_term'[curr_pid] = pid_to_term[curr_pid]
    BY <1>6, <1>13, <1>14
  <2> QED BY <1>3, <1>9, <2>1, <2>2 DEF IInv, Mapping, termVars, pageVars
<1>18. Calls'
  <2>1. ~(Coming' /\ Len(kstk[cpu])' = 1) BY <1>8
  <2> SUFFICES ASSUME NEW p \in Live_pids \cup {cpu}, kstk'[p] # <<>>
      PROVE (LET g == First(p) IN
                /\ g.fn = "system_halt" => g.pid = p /\ p \notin BasePids
                /\ g.fn = "system_execute" /\ g.at \in {"find", "open"}
                      => pid_to_term[p] = curr_term
                /\ g.fn = "system_execute" /\ g.at = "open"
                      => g.pid \in Pids \ (Held \cup BasePids) /\ pid_to_term[g.pid] = curr_term
                /\ g.fn = "system_vidmap" => g.pid + 1 = video_mem[pid_to_term[p]])'
    BY <1>9, <1>12, <2>1 DEF Calls
  <2>2. CASE p # cpu
    <3>1. p \in Live_pids /\ p \in Owners /\ kstk'[p] = kstk[p]
      BY <1>11, <2>2, ConstantFacts DEF Live_pids
    <3>2. First(p)' = First(p) /\ kstk[p] # <<>> BY <3>1 DEF First
    <3> QED BY <1>3, <1>5, <1>6, <1>9, <3>1, <3>2 DEF IInv, Calls, termVars
  <2>3. CASE p = cpu /\ Depth = 1
    <3>1. First(cpu) = Top /\ cpu \in Live_pids /\ First(cpu)' = Top'
      BY <1>2, <1>11, <2>3, ExecWhere
    <3>2. pid_to_term[cpu] = curr_term
      BY <1>2, <3>1 DEF IInv, Calls, Running
    <3>3. f \notin Held' BY <1>2, <1>4, <1>9, Calm
    <3> QED BY <1>2, <1>3, <1>5, <1>6, <1>9, <1>11, <1>12, <2>3, <3>1, <3>2, <3>3 DEF termVars
  <2>4. CASE p = cpu /\ Depth # 1
    <3>1. First(cpu)'.fn = "schedule" \/ First(cpu)'.fn = "entry"
      BY <1>2, <1>11, <2>4, ExecWhere
    <3> QED BY <1>12, <2>4, <3>1
  <2> QED BY <2>2, <2>3, <2>4
<1>19. Spawning'
  <2>1. ~Running("schedule", {"spawned"})' BY <1>7 DEF Running
  <2>2. ASSUME Len(kstk[cpu])' = 2
        PROVE  pit_count < MAX_TERM /\ curr_term = pit_count /\ f = pit_count
               /\ pid_to_term'[pit_count] = pit_count
    <3>1. Depth = 2 BY <1>11, <2>2 DEF Depth
    <3> QED BY <1>2, <1>5, <3>1, ExecWhere
  <2> QED BY <1>3, <1>11, <2>1, <2>2 DEF Spawning, termVars, clockVars
<1> QED BY <1>1, <1>3, <1>9, <1>11, <1>16, <1>17, <1>18, <1>19 DEF IInv, Boot

\* A system call that ends leaves its process in its program.
LEMMA ReturnEffect ==
    ASSUME IInv, TypeOK', kstk[cpu] # <<>>, Depth = 1, Open(Top), Return,
           UNCHANGED <<curr_pid, procVars, clockVars, esp0>>
    PROVE  /\ ~Coming /\ ~Going /\ ~Early
           /\ cpu \in Live_pids /\ curr_pid = cpu /\ Front[pid_to_term[cpu]] = cpu
           /\ vid_page = video_mem[pid_to_term[cpu]] /\ user_page = cpu /\ esp0.stk = cpu
           /\ cpu' = cpu /\ wild' = wild /\ ifl' /\ kstk'[cpu] = <<>>
           /\ \A q \in Owners : q # cpu => kstk'[q] = kstk[q]
<1>1. /\ First(cpu) = Top /\ cpu \in Pids /\ cpu \in Owners /\ Len(kstk[cpu]) = 1
      /\ Top.fn # "schedule" /\ Top.fn # "entry"
  BY Basics DEF Open
<1>2. ~Coming /\ ~Going BY DEF Coming, Going, Running, Open
<1>3. cpu \in Live_pids /\ curr_pid = cpu /\ Front[pid_to_term[cpu]] = cpu
  <2>1. ~Running("system_execute", {"flag"}) /\ ~Running("system_halt", {"jump"})
    BY <1>2 DEF Coming, Going, Running
  <2> QED BY <1>1, <1>2, <2>1 DEF IInv, Running_process, Live_pids
<1>4. vid_page = video_mem[pid_to_term[cpu]] /\ user_page = cpu /\ esp0.stk = cpu
  <2>1. ~Running("system_halt", {"pop", "switch"}) BY <1>2 DEF Going, Running
  <2> QED BY <1>2, <1>3, <2>1, Calm, ConstantFacts DEF IInv, Mapping, Live_pids
<1>5. /\ cpu' = cpu /\ wild' = wild /\ ifl' /\ kstk'[cpu] = <<>>
      /\ \A q \in Owners : q # cpu => kstk'[q] = kstk[q]
  <2> DEFINE c == Here
  <2>1. c \in Context /\ kstk \in [Owners -> Seq(Frame)] BY TopType DEF IInv, TypeOK
  <2>2. c.stk = cpu /\ c.len = 1 /\ c.fn = Top.fn BY DEF Here
  <2>3. Jump(c, kstk) BY DEF Return, Resume
  <2> HIDE DEF c
  <2>4. Live(c, kstk) /\ Current(c.stk)
    BY <1>1, <1>3, <1>4, <2>2 DEF Live, Current, First
  <2>5. /\ cpu' = c.stk /\ wild' = wild
        /\ ifl' = (ifl \/ c.fn = "schedule" \/ c.len = 1)
        /\ \A q \in Owners : q # c.stk => kstk'[q] = kstk[q]
        /\ Len(kstk'[c.stk]) = c.len - 1
    BY <2>1, <2>3, <2>4, JumpEffect
  <2>6. kstk'[cpu] \in Seq(Frame) /\ Len(kstk'[cpu]) = 0 BY <1>1, <2>2, <2>5 DEF TypeOK
  <2>7. kstk'[cpu] = <<>> BY <2>6
  <2> QED BY <2>2, <2>5, <2>7
<1>6. ~Early BY <1>1, <1>3 DEF IInv, Boot, NoCalls
<1> QED BY <1>2, <1>3, <1>4, <1>5, <1>6

\* So nothing of the call is left.
LEMMA ReturnInv ==
    ASSUME IInv, TypeOK', kstk[cpu] # <<>>, Depth = 1, Open(Top), Return,
           UNCHANGED <<curr_pid, procVars, termVars, clockVars, user_page, esp0>>,
           vid_page' \in {vid_page, video_mem[pid_to_term[cpu]]}
    PROVE  IInv'
<1>1. cpu \in Pids /\ First(cpu) = Top BY Basics
<1>2. ~Coming /\ ~Going /\ ~Early BY ReturnEffect
<1>3. cpu \in Live_pids /\ curr_pid = cpu /\ Front[pid_to_term[cpu]] = cpu BY ReturnEffect
<1>4. vid_page = video_mem[pid_to_term[cpu]] /\ user_page = cpu /\ esp0.stk = cpu BY ReturnEffect
<1>5. /\ cpu' = cpu /\ wild' = wild /\ ifl' /\ kstk'[cpu] = <<>>
      /\ \A q \in Owners : q # cpu => kstk'[q] = kstk[q]
  BY ReturnEffect
<1>6. /\ ~Coming' /\ ~Going' /\ \A fn, labels : ~Running(fn, labels)'
  BY <1>5 DEF Coming, Going, Running
<1>7. /\ Live_pids' = Live_pids /\ Held' = Held /\ Parent' = Parent /\ Front' = Front
      /\ Mapped = curr_pid /\ Mapped' = curr_pid' /\ Rooted' /\ Linked' /\ Lineage'
  <2>1. \A q \in Live_pids : Front[pid_to_term[q]] # q => kstk'[q] = kstk[q]
    BY <1>3, <1>5, ConstantFacts DEF Live_pids
  <2> QED BY <1>2, <1>6, <2>1, CalmTree DEF procVars
<1>8. Shape'
  <2>1. Len(<<>>) = 0 OBVIOUS
  <2> QED BY <1>5, <2>1 DEF Shape
<1>9. Running_process'
  BY <1>1, <1>3, <1>5, <1>6, <1>7 DEF Running_process, procVars, Live_pids
<1>10. Mapping' BY <1>3, <1>4, <1>6, <1>7 DEF Mapping, termVars, procVars
<1>11. Parked'
  BY <1>5, <1>7, ConstantFacts DEF IInv, Parked, Suspended, First, Last, procVars, Live_pids
<1>12. Calls'
  <2>1. \A p \in Live_pids \cup {cpu} : kstk'[p] # <<>> => p \in Live_pids /\ kstk'[p] = kstk[p]
    BY <1>3, <1>5, ConstantFacts DEF Live_pids
  <2> QED BY <1>5, <1>6, <1>7, <2>1 DEF IInv, Calls, First, procVars, termVars
<1>13. Boot'
  <2>2. pit_count \in Nat /\ MAX_TERM \in Nat /\ pit_count' = pit_count
        /\ shells_done' = shells_done /\ free_pid' = free_pid
    BY KernelAssumption DEF IInv, TypeOK, clockVars, procVars
  <2>3. pit_count >= MAX_TERM /\ ~(pit_count < MAX_TERM) BY <1>2, <2>2 DEF Early
  <2>4. ShellsStarted' BY <2>2, <2>3 DEF ShellsStarted
  <2>5. NoCalls' BY <1>6, <2>2, <2>3 DEF NoCalls, Early
  <2>6. PidsTaken' BY <2>2, <2>3, Zenon DEF IInv, Boot, PidsTaken
  <2>7. Spawning' BY <1>6 DEF Spawning
  <2> QED BY <2>4, <2>5, <2>6, <2>7 DEF Boot
<1> QED BY <1>5, <1>7, <1>8, <1>9, <1>10, <1>11, <1>12, <1>13 DEF IInv

\* find_free_process finds a free process when there is one.
LEMMA NoneFree ==
    ASSUME NEW p \in Pids, free_pid[p] PROVE find_free_process \in Pids
<1> DEFINE F == {q \in Pids : free_pid[q]}
<1>1. F \subseteq Nat /\ F # {} BY DEF Pids
<1>2. PICK m \in F : \A q \in F : m <= q
  <2> HIDE DEF F
  <2> QED BY <1>1, LeastMember
<1>3. m \in Pids /\ free_pid[m] /\ \A q \in Pids : free_pid[q] => m <= q BY <1>2
<1> QED BY <1>3 DEF find_free_process

\* Only a command on a process of its own is refused, so that its caller's
\* program goes on.
LEMMA RejectWhere ==
    ASSUME IInv, Needed \subseteq Discipline, ExecReject
    PROVE  Depth = 1 /\ kstk[cpu] # <<>> /\ Open(Top) /\ Return
           /\ UNCHANGED <<curr_pid, procVars, termVars, clockVars, pageVars, esp0>>
<1> USE DEF Rule
<1>2. /\ Running("system_execute", {"find", "open"}) /\ Running("system_execute", ExecLabels)
      /\ UNCHANGED <<curr_pid, procVars, termVars, clockVars, pageVars, esp0>> /\ Return
  BY DEF ExecReject, At, Running, ExecLabels
<1>3. Depth = 1
  <2>1. CASE find_free_process = KERNEL
    <3> SUFFICES ASSUME Depth # 1 PROVE FALSE OBVIOUS
    <3>1. /\ pit_count < MAX_TERM /\ \A p \in Pids : ~free_pid[p] <=> p < pit_count
      BY <1>2, ExecWhere
    <3>2. pit_count \in Pids /\ ~(pit_count < pit_count)
      BY <3>1, KernelAssumption DEF IInv, TypeOK, Pids
    <3>3. free_pid[pit_count] BY <3>1, <3>2
    <3> QED BY <2>1, <3>2, <3>3, NoneFree, ConstantFacts
  <2>2. CASE LoadMayFail BY <2>2 DEF LoadMayFail, Needed, Rules
  <2> QED BY <2>1, <2>2 DEF ExecReject
<1>4. kstk[cpu] # <<>> /\ Open(Top) BY <1>2 DEF Running, Open
<1> QED BY <1>2, <1>3, <1>4

\* system_execute returns without one, or because the command is no program.
LEMMA ExecRejectInv ==
    ASSUME IInv, Needed \subseteq Discipline, ExecReject PROVE IInv'
<1>1. TypeOK' BY ReturnType DEF IInv
<1> QED BY <1>1, RejectWhere, ReturnInv DEF pageVars

\* So does vidmap's.
LEMMA StoreWhere ==
    ASSUME IInv, VidmapStore
    PROVE  /\ Depth = 1 /\ kstk[cpu] # <<>> /\ Open(Top) /\ Return
           /\ vid_page' = video_mem[pid_to_term[cpu]]
           /\ UNCHANGED <<curr_pid, procVars, termVars, clockVars, user_page, esp0>>
<1>2. /\ kstk[cpu] # <<>> /\ Top.fn = "system_vidmap" /\ Top.at = "store" /\ Open(Top)
      /\ vid_page' = Top.pid + 1 /\ Return
      /\ UNCHANGED <<curr_pid, procVars, termVars, clockVars, user_page, esp0>>
  BY DEF VidmapStore, At, Open
<1>3. ~Coming /\ ~Going BY <1>2 DEF Coming, Going, Running
<1>4. Depth = 1 /\ First(cpu) = Top BY <1>2, <1>3, Basics DEF IInv, Shape, Running
<1>5. Top.pid + 1 = video_mem[pid_to_term[cpu]] BY <1>2, <1>4 DEF IInv, Calls
<1> QED BY <1>2, <1>4, <1>5

\* system_vidmap stores the entry of its own terminal.
LEMMA VidmapStoreInv == ASSUME IInv, VidmapStore PROVE IInv'
<1>1. TypeOK' BY VidmapType DEF IInv
<1> QED BY <1>1, StoreWhere, ReturnInv

\* Only one process of the displayed terminal is looking for a program to start,
\* and only on that terminal.
LEMMA Opening ==
    ASSUME IInv, Running("system_execute", {"open"})
    PROVE  /\ ~Coming /\ ~Going /\ Running("system_execute", ExecLabels)
           /\ Top.pid \in Pids \ Live_pids /\ free_pid[Top.pid] /\ pid_to_term[Top.pid] = curr_term
           /\ \A p \in Live_pids \ {cpu} :
                 kstk[p] # <<>> => ~(First(p).fn = "system_execute" /\ First(p).at = "open")
           /\ Depth = 1 => /\ Top.pid \notin BasePids /\ cpu \in Live_pids
                           /\ pid_to_term[cpu] = curr_term /\ Front[curr_term] = cpu
           /\ Depth = 2 => /\ Top.pid = pit_count /\ curr_term = pit_count
                           /\ Live_pids \subseteq Terms /\ Nested = {}
<1>1. Running("system_execute", ExecLabels) /\ Top.at = "open" BY DEF Running, ExecLabels
<1>2. ~Coming /\ ~Going BY <1>1, ExecWhere DEF Coming, Running
<1>3. Held = Live_pids BY <1>2, Calm
<1>4. CASE Depth = 1
  <2>1. First(cpu) = Top /\ cpu \in Live_pids /\ Top.fn = "system_execute" /\ kstk[cpu] # <<>>
    BY <1>1, <1>4, ExecWhere
  <2>2. /\ Top.pid \in Pids \ (Held \cup BasePids) /\ pid_to_term[Top.pid] = curr_term
        /\ pid_to_term[cpu] = curr_term
    BY <1>1, <2>1 DEF IInv, Calls
  <2>3. Front[curr_term] = cpu BY <1>1, <1>2, <2>1, <2>2, ExecWhere
  <2>4. ASSUME NEW p \in Live_pids \ {cpu}, kstk[p] # <<>>,
               First(p).fn = "system_execute", First(p).at = "open"
        PROVE  FALSE
    <3>1. pid_to_term[p] = curr_term BY <2>4 DEF IInv, Calls
    <3>2. PICK q \in Nested : Parent[q] = p BY <1>3, <2>3, <2>4, <3>1 DEF IInv, Lineage
    <3>3. p \in Waiting BY <2>4, <3>2 DEF IInv, Linked
    <3> QED BY <2>4, <3>3 DEF Waiting
  <2>5. free_pid[Top.pid] BY <1>3, <2>2 DEF Live_pids
  <2> QED BY <1>1, <1>2, <1>3, <1>4, <2>1, <2>2, <2>3, <2>4, <2>5
<1>5. CASE Depth = 2
  <2>1. /\ pit_count < MAX_TERM /\ Early /\ Depth = Len(kstk[cpu])
        /\ \A p \in Pids : ~free_pid[p] <=> p < pit_count
    BY <1>1, <1>5, ExecWhere
  <2>2. Top.pid = pit_count /\ curr_term = pit_count /\ pid_to_term[pit_count] = pit_count
    BY <1>1, <1>5, <2>1 DEF IInv, Boot, Spawning
  <2>3. pit_count \in Pids /\ ~(pit_count < pit_count) /\ pit_count \in Nat /\ MAX_TERM \in Nat
    BY <2>1, KernelAssumption DEF IInv, TypeOK, Pids
  <2>4. free_pid[pit_count] BY <2>1, <2>3
  <2>5. Live_pids \subseteq Terms
    <3> SUFFICES ASSUME NEW p \in Live_pids PROVE p \in Terms OBVIOUS
    <3>1. p \in Pids /\ p < pit_count BY <2>1 DEF Live_pids
    <3> QED BY <2>1, <2>3, <3>1 DEF Pids, Terms
  <2>6. Nested = {} BY <1>3, <2>5 DEF Nested, BasePids, Terms
  <2>7. \A p \in Live_pids \ {cpu} : kstk[p] # <<>> => First(p).fn = "schedule"
    BY <2>1 DEF IInv, Boot, NoCalls
  <2> QED BY <1>1, <1>2, <1>5, <2>2, <2>3, <2>4, <2>5, <2>6, <2>7 DEF Live_pids
<1> QED BY <1>1, <1>4, <1>5, ExecWhere

\* system_execute makes the child its terminal's newest process and maps its page.
LEMMA ExecBindInv == ASSUME IInv, ExecBind PROVE IInv'
<1> DEFINE c == Top.pid
<1>1. TypeOK' BY ExecBindType DEF IInv
<1>2. /\ Running("system_execute", {"open"}) /\ Running("system_execute", ExecLabels)
      /\ ~Coming /\ ~Going /\ c \in Pids \ Live_pids /\ free_pid[c] /\ pid_to_term[c] = curr_term
      /\ c \in Owners /\ c # KERNEL /\ curr_term \in Terms
      /\ cpu \in Pids /\ cpu \in Owners /\ kstk[cpu] # <<>> /\ Depth = Len(kstk[cpu])
  <2>1. Running("system_execute", {"open"}) BY DEF ExecBind, At, Running
  <2> QED BY <2>1, Opening, Basics, ConstantFacts DEF Running, IInv, TypeOK
<1>3. /\ top_pid' = [top_pid EXCEPT ![curr_term] = c] /\ setup_paging(c) /\ Goto("load", c)
      /\ UNCHANGED <<curr_pid, free_pid, parent_pid, parent_k, my_k, pid_to_term, termVars,
                     clockVars, esp0, cpu, ifl, wild>>
  BY DEF ExecBind
<1>4. \A p \in Live_pids \ {cpu} :
         kstk[p] # <<>> => ~(First(p).fn = "system_execute" /\ First(p).at = "open")
  BY <1>2, Opening
<1>5. Depth = 1 => /\ c \notin BasePids /\ cpu \in Live_pids
                   /\ pid_to_term[cpu] = curr_term /\ Front[curr_term] = cpu
  BY <1>2, Opening
<1>6. Depth = 2 => /\ c = pit_count /\ curr_term = pit_count
                   /\ Live_pids \subseteq Terms /\ Nested = {}
  BY <1>2, Opening
<1>7. Depth = 1 \/ Depth = 2 BY <1>2, ExecWhere
<1> HIDE DEF c
<1>8. "load" \in ExecLabels BY DEF ExecLabels
<1>9. /\ Held = Live_pids /\ Parent = [q \in Pids |-> parent_pid[q]]
      /\ Front = [t \in Terms |-> top_pid[t]]
  BY <1>2, Calm
<1>10. /\ Top'.fn = "system_execute" /\ Top'.at = "load" /\ Top'.pid = c /\ kstk'[cpu] # <<>>
  BY <1>2, <1>3, GotoEffect, ExecWhere DEF IInv
<1>11. /\ Running("system_execute", {"load"})' /\ Running("system_execute", {"load", "enter"})'
       /\ Coming' /\ ~Going' /\ ~Running("system_halt", {"switch", "jump"})'
       /\ ~Running("system_execute", {"flag"})' /\ ~Running("system_halt", {"jump"})'
       /\ ~Running("system_halt", {"pop", "switch"})' /\ ~Running("schedule", {"spawned"})'
  BY <1>3, <1>10 DEF Running, Coming, Going
<1>12. /\ Live_pids' = Live_pids /\ Held' = Held \cup {c} /\ Mapped' = c
       /\ Parent' = [Parent EXCEPT ![c] = curr_pid]
       /\ Front' = [Front EXCEPT ![curr_term] = c]
  <2>1. Live_pids' = Live_pids BY <1>3 DEF Live_pids
  <2>2. Held' = Held \cup {c} /\ Mapped' = c BY <1>9, <1>10, <1>11, <2>1 DEF Held, Mapped
  <2>3. Parent' = [q \in Pids |-> IF q = c THEN curr_pid ELSE parent_pid[q]]
    BY <1>3, <1>10, <1>11 DEF Parent
  <2>4. Front' = [t \in Terms |-> top_pid'[t]] BY <1>11 DEF Front
  <2>5. Front' = [Front EXCEPT ![curr_term] = c] BY <1>2, <1>3, <1>9, <2>4 DEF IInv, TypeOK
  <2> QED BY <1>2, <1>9, <2>1, <2>2, <2>3, <2>5
<1>13. /\ Front'[curr_term] = c
       /\ \A t \in Terms : t # curr_term => Front'[t] = Front[t]
       /\ Parent'[c] = curr_pid
       /\ \A q \in Live_pids : Parent'[q] = Parent[q]
  BY <1>2, <1>9, <1>12 DEF Live_pids
<1>14. \A q \in Live_pids : q \in Pids /\ pid_to_term[q] \in Terms /\ q # c /\ q \in Owners
  BY <1>2, ConstantFacts DEF Live_pids, IInv, TypeOK
<1>15. /\ Shape' /\ Parked' /\ ShellsStarted' /\ NoCalls' /\ PidsTaken'
       /\ \A q \in Owners : Len(kstk'[q]) = Len(kstk[q]) /\ (q # cpu => kstk'[q] = kstk[q])
       /\ Depth' = Depth
       /\ First(cpu)' = IF Depth = 1 THEN Top' ELSE First(cpu)
  <2>1. \A q \in Live_pids \ {cpu} :
               /\ Front'[pid_to_term'[q]] = q => Front[pid_to_term[q]] = q
               /\ my_k'[q] = my_k[q]
    BY <1>3, <1>13, <1>14
  <2> QED BY <1>2, <1>3, <1>8, <2>1, ExecGoto DEF clockVars
<1>16. Depth = 2 => c \in Terms /\ c \in BasePids BY <1>2, <1>6 DEF BasePids, Terms
<1>17. Rooted'
  <2> SUFFICES ASSUME NEW t \in Terms \cap (Held \cup {c})
      PROVE  /\ pid_to_term[t] = t
             /\ Front'[t] \in Held \cup {c} /\ pid_to_term[Front'[t]] = t
    BY <1>3, <1>12 DEF Rooted
  <2>1. t \in Held => pid_to_term[t] = t /\ Front[t] \in Held /\ pid_to_term[Front[t]] = t
    BY DEF IInv, Rooted
  <2>2. t = c => pid_to_term[t] = t /\ curr_term = t
    BY <1>2, <1>5, <1>6, <1>7 DEF BasePids, Terms
  <2>3. t = curr_term => Front'[t] = c BY <1>13
  <2>4. t # curr_term => t \in Held /\ Front'[t] = Front[t] BY <1>13, <2>2
  <2> QED BY <1>2, <2>1, <2>2, <2>3, <2>4
<1>18. Nested' = IF Depth = 1 THEN Nested \cup {c} ELSE {}
  BY <1>5, <1>6, <1>7, <1>12, <1>16 DEF Nested
<1>19. \A q \in Nested :
          /\ q \in Live_pids /\ Parent'[q] = Parent[q] /\ Parent[q] \in Live_pids
          /\ pid_to_term[Parent[q]] = pid_to_term[q]
          /\ Front[pid_to_term[q]] # Parent[q]
          /\ (Parent[q] # cpu => Parent[q] \in Waiting)
          /\ parent_k[q] = [stk |-> Parent[q], len |-> 1, fn |-> "system_execute"]
  BY <1>2, <1>9, <1>13 DEF IInv, Linked, Nested, Coming, Running
<1>20. Depth = 1 => curr_pid = cpu
  BY <1>2, ExecWhere DEF Running
<1>21. Linked'
  <2> SUFFICES ASSUME NEW q \in Nested'
      PROVE (/\ Parent[q] \in Live_pids
             /\ pid_to_term[Parent[q]] = pid_to_term[q]
             /\ Front[pid_to_term[q]] # Parent[q]
             /\ (Parent[q] # cpu => Parent[q] \in Waiting)
             /\ ~(Running("system_execute", {"load"}) /\ q = Top.pid)
                   => parent_k[q] = [stk |-> Parent[q], len |-> 1, fn |-> "system_execute"])'
    BY DEF Linked
  <2>1. Depth = 1 BY <1>18
  <2>2. CASE q = c
    <3>1. Parent'[q] = cpu /\ cpu' = cpu BY <1>3, <1>13, <1>20, <2>1, <2>2
    <3>2. cpu \in Live_pids /\ pid_to_term[cpu] = curr_term /\ Front'[curr_term] # cpu
      BY <1>5, <1>13, <1>14, <2>1
    <3> QED BY <1>2, <1>3, <1>10, <1>11, <1>12, <2>2, <3>1, <3>2
  <2>3. CASE q # c
    <3>1. q \in Nested BY <1>18, <2>1, <2>3
    <3>2. /\ q \in Live_pids /\ Parent'[q] = Parent[q] /\ Parent[q] \in Live_pids
          /\ pid_to_term[Parent[q]] = pid_to_term[q]
          /\ Front[pid_to_term[q]] # Parent[q]
          /\ (Parent[q] # cpu => Parent[q] \in Waiting)
          /\ parent_k[q] = [stk |-> Parent[q], len |-> 1, fn |-> "system_execute"]
      BY <1>19, <3>1
    <3>3. Front'[pid_to_term[q]] # Parent[q] BY <1>13, <1>14, <3>2
    <3>4. Parent[q] # cpu => Parent[q] \in Waiting'
      BY <1>14, <1>15, <3>2 DEF Waiting, First
    <3> QED BY <1>3, <1>12, <3>2, <3>3, <3>4
  <2> QED BY <2>2, <2>3
<1>22. Lineage'
  <2>1. CASE Depth = 1
    <3>1. /\ Nested' = Nested \cup {c} /\ Parent'[c] = cpu /\ cpu \in Live_pids
          /\ pid_to_term[cpu] = curr_term /\ Front[curr_term] = cpu
      BY <1>5, <1>13, <1>18, <1>20, <2>1
    <3>2. ASSUME NEW q \in Nested PROVE Parent'[q] # cpu
      <4>1. Parent'[q] = Parent[q] /\ pid_to_term[Parent[q]] = pid_to_term[q]
            /\ Front[pid_to_term[q]] # Parent[q]
        BY <1>19
      <4>2. Parent[q] = cpu => FALSE BY <3>1, <4>1, Zenon
      <4> QED BY <4>1, <4>2
    <3>3. ASSUME NEW q \in Nested, NEW r \in Nested, Parent'[q] = Parent'[r] PROVE q = r
      <4>1. Parent'[q] = Parent[q] /\ Parent'[r] = Parent[r] BY <1>19
      <4> QED BY <3>3, <4>1 DEF IInv, Lineage
    <3>4. \A q, r \in Nested' : Parent'[q] = Parent'[r] => q = r
      BY <3>1, <3>2, <3>3
    <3>5. ASSUME NEW p \in Held \cup {c}
          PROVE  Front'[pid_to_term[p]] = p \/ \E q \in Nested' : Parent'[q] = p
      <4>1. CASE p = c BY <1>2, <1>13, <4>1
      <4>2. CASE p = cpu BY <3>1, <4>2
      <4>3. CASE p # c /\ p # cpu
        <5>1. p \in Held /\ p \in Live_pids BY <1>9, <4>3
        <5>2. Front[pid_to_term[p]] = p \/ \E q \in Nested : Parent[q] = p
          BY <5>1 DEF IInv, Lineage
        <5>3. Front[pid_to_term[p]] = p => Front'[pid_to_term[p]] = p
          BY <1>13, <1>14, <3>1, <4>3, <5>1
        <5>4. \A q \in Nested : Parent[q] = p => q \in Nested' /\ Parent'[q] = p
          BY <1>19, <3>1
        <5> QED BY <5>2, <5>3, <5>4
      <4> QED BY <4>1, <4>2, <4>3
    <3> QED BY <1>3, <1>12, <3>4, <3>5 DEF Lineage
  <2>2. CASE Depth = 2
    <3>1. Nested' = {} /\ Nested = {} /\ Live_pids \subseteq Terms BY <1>6, <1>18, <2>2
    <3>2. ASSUME NEW p \in Held \cup {c} PROVE Front'[pid_to_term[p]] = p
      <4>1. CASE p = c BY <1>2, <1>13, <4>1
      <4>2. CASE p # c
        <5>1. p \in Live_pids /\ p \in Terms \cap Held BY <1>9, <3>1, <4>2
        <5>2. Front[pid_to_term[p]] = p BY <1>9, <3>1, <5>1 DEF IInv, Lineage
        <5>3. pid_to_term[p] = p BY <5>1 DEF IInv, Rooted
        <5>4. p # curr_term BY <1>2, <1>6, <2>2, <4>2
        <5> QED BY <1>13, <5>1, <5>2, <5>3, <5>4
      <4> QED BY <4>1, <4>2
    <3> QED BY <1>3, <1>12, <3>1, <3>2 DEF Lineage
  <2> QED BY <1>7, <2>1, <2>2
<1>23. Running_process'
  BY <1>2, <1>3, <1>10, <1>11, <1>15, ExecWhere
  DEF Running_process, Live_pids, Running, clockVars
<1>24. Mapping'
  <2>1. ~Running("system_halt", {"pop", "switch"}) BY <1>2 DEF Going, Running
  <2>2. curr_pid # KERNEL => esp0.stk = curr_pid BY <2>1 DEF IInv, Mapping
  <2>3. user_page' = c /\ vid_page' = video_mem[pid_to_term[c]]
    BY <1>2, <1>3 DEF setup_paging
  <2> QED BY <1>3, <1>11, <1>12, <2>2, <2>3 DEF Mapping, termVars
<1>25. Calls'
  <2>1. (Coming /\ Len(kstk[cpu]) = 1)'
          => (Top.pid \in Pids \ BasePids /\ free_pid[Top.pid]
              /\ pid_to_term[Top.pid] = pid_to_term[cpu])'
    <3>1. Len(kstk[cpu])' = Depth BY <1>2, <1>3, <1>15
    <3> QED BY <1>2, <1>3, <1>5, <1>10, <3>1
  <2>2. ~Running("system_execute", {"enter", "flag"})' BY <1>10 DEF Running
  <2> SUFFICES ASSUME NEW p \in Live_pids \cup {cpu}, kstk'[p] # <<>>
      PROVE (LET g == First(p) IN
                /\ g.fn = "system_halt" => g.pid = p /\ p \notin BasePids
                /\ g.fn = "system_execute" /\ g.at \in {"find", "open"}
                      => pid_to_term[p] = curr_term
                /\ g.fn = "system_execute" /\ g.at = "open"
                      => g.pid \in Pids \ (Held \cup BasePids) /\ pid_to_term[g.pid] = curr_term
                /\ g.fn = "system_vidmap" => g.pid + 1 = video_mem[pid_to_term[p]])'
    BY <1>3, <1>12, <2>1, <2>2 DEF Calls
  <2>3. CASE p # cpu
    <3>1. p \in Live_pids \ {cpu} /\ p \in Owners /\ kstk'[p] = kstk[p]
      BY <1>14, <1>15, <2>3
    <3>2. First(p)' = First(p) /\ kstk[p] # <<>> BY <3>1 DEF First
    <3>3. ~(First(p).fn = "system_execute" /\ First(p).at = "open") BY <1>4, <3>1, <3>2
    <3> QED BY <1>3, <3>1, <3>2, <3>3 DEF IInv, Calls, termVars
  <2>4. CASE p = cpu
    <3>1. \/ First(cpu)'.fn = "system_execute" /\ First(cpu)'.at = "load"
          \/ First(cpu)'.fn = "schedule" \/ First(cpu)'.fn = "entry"
      BY <1>2, <1>10, <1>15, ExecWhere
    <3> QED BY <1>3, <2>4, <3>1
  <2> QED BY <2>3, <2>4
<1>26. Spawning'
  <2>1. ASSUME Len(kstk[cpu])' = 2
        PROVE  pit_count < MAX_TERM /\ c = pit_count /\ pid_to_term[pit_count] = pit_count
    <3>1. Depth = 2 BY <1>15, <2>1 DEF Depth
    <3>2. pit_count < MAX_TERM BY <1>2, <3>1, ExecWhere
    <3> QED BY <1>2, <1>6, <3>1, <3>2
  <2>2. Top'.at \notin {"find", "open", "enter", "flag"} BY <1>10
  <2>3. pit_count' = pit_count /\ pid_to_term' = pid_to_term BY <1>3 DEF clockVars
  <2> QED BY <1>10, <1>11, <2>1, <2>2, <2>3 DEF Spawning
<1> QED BY <1>1, <1>3, <1>15, <1>17, <1>21, <1>22, <1>23, <1>24, <1>25, <1>26 DEF IInv, Boot

\* The child that is being started.
LEMMA ChildFacts ==
    ASSUME IInv, Coming
    PROVE  /\ Running("system_execute", ExecLabels) /\ ~Going
           /\ Top.pid \in Pids \ Live_pids /\ free_pid[Top.pid] /\ Top.pid \in Owners /\ Top.pid # KERNEL
           /\ Held = Live_pids \cup {Top.pid} /\ Front = [t \in Terms |-> top_pid[t]]
           /\ cpu \in Pids /\ cpu \in Owners /\ kstk[cpu] # <<>> /\ Depth = Len(kstk[cpu])
           /\ Depth = 1 \/ Depth = 2
           /\ Depth = 1 => /\ Top.pid \in Nested /\ Top.pid \notin BasePids
                           /\ cpu \in Live_pids /\ pid_to_term[Top.pid] = pid_to_term[cpu]
           /\ Depth = 2 => /\ Top.pid = pit_count /\ pit_count < MAX_TERM /\ Top.pid \in BasePids
                           /\ pid_to_term[pit_count] = pit_count /\ Top.pid \notin Nested
<1>1. Running("system_execute", ExecLabels) /\ Top.at \in {"load", "enter", "flag"}
  BY DEF Coming, Running, ExecLabels
<1>2. /\ ~Going /\ kstk[cpu] # <<>> /\ Depth = Len(kstk[cpu])
      /\ cpu \in Pids /\ cpu \in Owners
  BY <1>1, ExecWhere, Basics
<1>3. Top.pid \in Pids /\ free_pid[Top.pid] BY Basics
<1>4. Top.pid \notin Live_pids /\ Top.pid \in Owners /\ Top.pid # KERNEL
  BY <1>3, ConstantFacts DEF Live_pids
<1>5. Held = Live_pids \cup {Top.pid} BY DEF Held
<1>6. Front = [t \in Terms |-> top_pid[t]] BY <1>2 DEF Front, Going, Running
<1>7. Depth = 1 \/ Depth = 2 BY <1>1, ExecWhere
<1>8. ASSUME Depth = 1
      PROVE  Top.pid \notin BasePids /\ cpu \in Live_pids /\ pid_to_term[Top.pid] = pid_to_term[cpu]
  BY <1>1, <1>2, <1>8, ExecWhere DEF IInv, Calls
<1>9. ASSUME Depth = 2
      PROVE  Top.pid = pit_count /\ pit_count < MAX_TERM /\ Top.pid \in BasePids
             /\ pid_to_term[pit_count] = pit_count
  <2>1. Top.pid = pit_count /\ pit_count < MAX_TERM /\ pid_to_term[pit_count] = pit_count
    BY <1>1, <1>2, <1>9, Basics DEF IInv, Boot, Spawning
  <2>2. Top.pid \in BasePids BY <1>3, <2>1, KernelAssumption DEF BasePids, Pids
  <2> QED BY <2>1, <2>2
<1> QED BY <1>1, <1>2, <1>3, <1>4, <1>5, <1>6, <1>7, <1>8, <1>9 DEF Nested

\* Between its binding and its start nothing of the tree moves.
LEMMA ChildSteps ==
    ASSUME IInv, Coming, NEW l \in {"enter", "flag"}, Goto(l, Top.pid),
           UNCHANGED <<free_pid, pid_to_term, top_pid, curr_term, video_mem, pit_count,
                       shells_done, user_page, vid_page, cpu, ifl, wild>>,
           \A q \in Live_pids \ {cpu} : my_k'[q] = my_k[q],
           \A q \in Pids : parent_pid'[q] = Parent[q],
           \A q \in Pids \ {Top.pid} : parent_k'[q] = parent_k[q],
           Depth = 1 => parent_k'[Top.pid] = [stk |-> Parent[Top.pid], len |-> 1,
                                              fn |-> "system_execute"],
           Depth = 1 => Parent[Top.pid] = cpu,
           TypeOK',
           l = "enter" => curr_pid' = curr_pid /\ esp0' = esp0
                          /\ Running("system_execute", {"load"}),
           l = "flag" => curr_pid' = Top.pid /\ esp0'.stk = Top.pid,
           Depth = 2 /\ First(cpu).fn = "schedule"
               => my_k'[cpu] = [stk |-> cpu, len |-> 2, fn |-> "system_execute"]
    PROVE  IInv'
<1> DEFINE c == Top.pid
<1>1. /\ Running("system_execute", ExecLabels) /\ ~Going
      /\ c \in Pids \ Live_pids /\ free_pid[c] /\ c \in Owners /\ c # KERNEL
      /\ Held = Live_pids \cup {c} /\ Front = [t \in Terms |-> top_pid[t]]
      /\ cpu \in Pids /\ cpu \in Owners /\ kstk[cpu] # <<>> /\ Depth = Len(kstk[cpu])
      /\ Depth = 1 \/ Depth = 2
      /\ Depth = 1 => /\ c \in Nested /\ c \notin BasePids
                      /\ cpu \in Live_pids /\ pid_to_term[c] = pid_to_term[cpu]
      /\ Depth = 2 => /\ c = pit_count /\ pit_count < MAX_TERM /\ c \in BasePids
                      /\ pid_to_term[pit_count] = pit_count /\ c \notin Nested
  BY ChildFacts
<1>2. Goto(l, c) /\ l \in ExecLabels BY DEF ExecLabels
<1> HIDE DEF c
<1>3. /\ Top'.fn = "system_execute" /\ Top'.at = l /\ Top'.pid = c /\ kstk'[cpu] # <<>>
  BY <1>1, <1>2, GotoEffect, ExecWhere DEF IInv
<1>4. /\ Coming' /\ ~Going' /\ ~Running("system_halt", {"switch", "jump"})'
      /\ ~Running("system_halt", {"jump"})' /\ ~Running("system_execute", {"load"})'
      /\ ~Running("system_halt", {"pop", "switch"})' /\ ~Running("schedule", {"spawned"})'
      /\ (Running("system_execute", {"flag"})' <=> l = "flag")
      /\ (Running("system_execute", {"load", "enter"})' <=> l = "enter")
  BY <1>3 DEF Running, Coming, Going
<1>5. /\ Live_pids' = Live_pids /\ Held' = Held /\ Front' = Front /\ Mapped' = c
      /\ \A q \in Pids : Parent'[q] = Parent[q]
  <2>1. Live_pids' = Live_pids BY DEF Live_pids
  <2>2. Held' = Held BY <1>1, <1>3, <1>4, <2>1 DEF Held
  <2>3. Front' = Front BY <1>1, <1>4 DEF Front
  <2>4. Parent' = [q \in Pids |-> parent_pid'[q]] BY <1>4 DEF Parent
  <2>5. Mapped' = c BY <1>3, <1>4 DEF Mapped, c
  <2> QED BY <2>1, <2>2, <2>3, <2>4, <2>5
<1>6. /\ Shape' /\ Parked' /\ ShellsStarted' /\ NoCalls' /\ PidsTaken'
      /\ \A q \in Owners : Len(kstk'[q]) = Len(kstk[q]) /\ (q # cpu => kstk'[q] = kstk[q])
      /\ Depth' = Depth
      /\ First(cpu)' = IF Depth = 1 THEN Top' ELSE First(cpu)
  BY <1>1, <1>2, <1>5, ExecGoto
<1>7. Rooted' /\ Linked' /\ Lineage'
  <2> SUFFICES ASSUME NEW q \in Nested
      PROVE  /\ Parent'[q] = Parent[q] /\ Parent[q] \in Live_pids'
             /\ (Parent[q] # cpu' => Parent[q] \in Waiting')
             /\ parent_k'[q] = [stk |-> Parent[q], len |-> 1, fn |-> "system_execute"]
    BY <1>4, <1>5, SameTree, Basics DEF IInv, TypeOK
  <2>1. q \in Pids BY Basics DEF Nested
  <2>2. /\ Parent[q] \in Live_pids /\ (Parent[q] # cpu => Parent[q] \in Waiting)
        /\ (q # c => parent_k[q] = [stk |-> Parent[q], len |-> 1, fn |-> "system_execute"])
    BY DEF IInv, Linked, c
  <2>3. Parent[q] # cpu => Parent[q] \in Waiting'
    BY <1>6, <2>2, ConstantFacts DEF Waiting, First
  <2>4. q = c => Depth = 1 BY <1>1
  <2> QED BY <1>5, <2>1, <2>2, <2>3, <2>4 DEF c
<1>8. Running_process'
  <2>1. l = "enter" => ~Running("system_execute", {"flag"})
    BY DEF Running
  <2> QED BY <1>1, <1>3, <1>4, <1>6, <2>1, ExecWhere DEF Running_process, Live_pids, c
<1>9. Mapping'
  <2>1. ~Running("system_halt", {"pop", "switch"}) BY <1>1 DEF Going, Running
  <2>2. curr_pid' # KERNEL => esp0'.stk = curr_pid' BY <2>1 DEF IInv, Mapping, c
  <2>3. Mapped = c
    <3>1. CASE Running("system_execute", {"flag"})
      BY <3>1 DEF IInv, Running_process, Mapped, Running, c
    <3>2. CASE Running("system_execute", {"load", "enter"}) BY <3>2 DEF Mapped, c
    <3> QED BY <3>1, <3>2 DEF Coming, Running
  <2>4. user_page = c /\ vid_page = video_mem[pid_to_term[c]] BY <1>1, <2>3 DEF IInv, Mapping
  <2> QED BY <1>4, <1>5, <2>2, <2>4 DEF Mapping
<1>10. Calls'
  <2>1. (Coming /\ Len(kstk[cpu]) = 1)'
          => (Top.pid \in Pids \ BasePids /\ free_pid[Top.pid]
              /\ pid_to_term[Top.pid] = pid_to_term[cpu] /\ parent_pid[Top.pid] = cpu)'
    <3>1. Len(kstk[cpu])' = Depth BY <1>1, <1>6
    <3> QED BY <1>1, <1>3, <3>1 DEF c
  <2> SUFFICES ASSUME NEW p \in Live_pids \cup {cpu}, kstk'[p] # <<>>
      PROVE (LET g == First(p) IN
                /\ g.fn = "system_halt" => g.pid = p /\ p \notin BasePids
                /\ g.fn = "system_execute" /\ g.at \in {"find", "open"}
                      => pid_to_term[p] = curr_term
                /\ g.fn = "system_execute" /\ g.at = "open"
                      => g.pid \in Pids \ (Held \cup BasePids) /\ pid_to_term[g.pid] = curr_term
                /\ g.fn = "system_vidmap" => g.pid + 1 = video_mem[pid_to_term[p]])'
    BY <1>5, <2>1 DEF Calls
  <2>3. CASE p # cpu
    <3>1. p \in Live_pids /\ p \in Owners /\ kstk'[p] = kstk[p]
      BY <1>6, <2>3, ConstantFacts DEF Live_pids
    <3>2. First(p)' = First(p) /\ kstk[p] # <<>> BY <3>1 DEF First
    <3> QED BY <1>5, <3>1, <3>2 DEF IInv, Calls
  <2>4. CASE p = cpu
    <3>1. \/ First(cpu)'.fn = "system_execute" /\ First(cpu)'.at \in {"enter", "flag"}
          \/ First(cpu)'.fn = "schedule" \/ First(cpu)'.fn = "entry"
      BY <1>1, <1>3, <1>6, ExecWhere
    <3> QED BY <2>4, <3>1
  <2> QED BY <2>3, <2>4
<1>11. Spawning'
  <2>1. ASSUME Len(kstk[cpu])' = 2
        PROVE  pit_count < MAX_TERM /\ c = pit_count /\ pid_to_term[pit_count] = pit_count
               /\ (First(cpu)'.fn = "schedule"
                     => my_k'[cpu] = [stk |-> cpu, len |-> 2, fn |-> "system_execute"])
    <3>1. Depth = 2 BY <1>6, <2>1 DEF Depth
    <3> QED BY <1>1, <1>6, <3>1
  <2>2. Top'.at \notin {"find", "open"} BY <1>3
  <2> QED BY <1>3, <1>4, <2>1, <2>2 DEF Spawning
<1> QED BY <1>6, <1>7, <1>8, <1>9, <1>10, <1>11 DEF IInv, Boot

\* create_pcb and the loading of the program: the child knows its parent.
LEMMA ExecLinkInv == ASSUME IInv, ExecLink PROVE IInv'
<1>1. TypeOK' BY ExecLinkType DEF IInv
<1>2. Running("system_execute", {"load"}) /\ Coming /\ Top.fn = "system_execute"
      /\ ~Running("system_execute", {"flag"})
  BY DEF ExecLink, At, Running, Coming
<1>3. /\ Running("system_execute", ExecLabels) /\ Top.pid \in Pids \ Live_pids /\ Top.pid \in Owners
      /\ Depth = 1 \/ Depth = 2
      /\ Depth = 1 => cpu \in Live_pids
      /\ cpu \in Owners
  BY <1>2, ChildFacts
<1>4. /\ parent_pid' = [parent_pid EXCEPT ![Top.pid] = curr_pid]
      /\ parent_k' = [parent_k EXCEPT ![Top.pid] = Here]
      /\ my_k' = [my_k EXCEPT ![curr_pid] = Here]
      /\ Goto("enter", Top.pid)
      /\ UNCHANGED <<curr_pid, free_pid, pid_to_term, top_pid, termVars, clockVars,
                     pageVars, esp0, cpu, ifl, wild>>
  BY DEF ExecLink
<1>5. /\ Parent = [q \in Pids |-> IF q = Top.pid THEN curr_pid ELSE parent_pid[q]]
      /\ Here = [stk |-> cpu, len |-> Depth, fn |-> "system_execute"]
  BY <1>2 DEF Parent, Here
<1>6. curr_pid = IF First(cpu).fn = "entry" THEN KERNEL ELSE cpu
  BY <1>2, <1>3, ExecWhere
<1>7. Depth = 1 => curr_pid = cpu
  BY <1>2, <1>3, <1>6, ExecWhere
<1>8. \A q \in Live_pids \ {cpu} : my_k'[q] = my_k[q]
  BY <1>4, <1>6, ConstantFacts DEF IInv, TypeOK, Live_pids
<1>9. \A q \in Pids : parent_pid'[q] = Parent[q]
  BY <1>4, <1>5, ConstantFacts DEF IInv, TypeOK
<1>10. /\ \A q \in Pids \ {Top.pid} : parent_k'[q] = parent_k[q]
       /\ parent_k'[Top.pid] = Here
  BY <1>3, <1>4, ConstantFacts DEF IInv, TypeOK
<1>11. Depth = 1 => Parent[Top.pid] = cpu /\ parent_k'[Top.pid] =
         [stk |-> Parent[Top.pid], len |-> 1, fn |-> "system_execute"]
  BY <1>3, <1>5, <1>7, <1>10
<1>12. Depth = 2 /\ First(cpu).fn = "schedule"
         => my_k'[cpu] = [stk |-> cpu, len |-> 2, fn |-> "system_execute"]
  BY <1>3, <1>4, <1>5, <1>6 DEF IInv, TypeOK
<1> QED BY <1>1, <1>2, <1>4, <1>8, <1>9, <1>10, <1>11, <1>12, ChildSteps
        DEF termVars, clockVars, pageVars

\* The TSS gets the child's stack and curr_pid its pid.
LEMMA ExecSwitchInv == ASSUME IInv, ExecSwitch PROVE IInv'
<1>1. TypeOK' BY ExecSwitchType DEF IInv
<1>2. Running("system_execute", {"enter"}) /\ Coming /\ Running("system_execute", {"enter", "flag"})
      /\ ~Running("system_execute", {"load"}) /\ Top.at = "enter"
  BY DEF ExecSwitch, At, Running, Coming
<1>3. /\ esp0'.stk = Top.pid /\ curr_pid' = Top.pid /\ Goto("flag", Top.pid)
      /\ UNCHANGED <<procVars, termVars, clockVars, pageVars, cpu, ifl, wild>>
  BY DEF ExecSwitch, pid_to_ksb
<1>4. /\ Running("system_execute", ExecLabels) /\ Top.pid \in Pids \ Live_pids
      /\ Depth = Len(kstk[cpu])
      /\ Depth = 1 => Top.pid \in Nested
  BY <1>2, ChildFacts
<1>5. Parent = [q \in Pids |-> parent_pid[q]] BY <1>2 DEF Parent
<1>6. ASSUME Depth = 1
      PROVE  Parent[Top.pid] = cpu /\ parent_k[Top.pid] =
             [stk |-> Parent[Top.pid], len |-> 1, fn |-> "system_execute"]
  <2>1. parent_pid[Top.pid] = cpu BY <1>2, <1>4, <1>6, ChildFacts DEF IInv, Calls
  <2>2. parent_k[Top.pid] = [stk |-> Parent[Top.pid], len |-> 1, fn |-> "system_execute"]
    BY <1>2, <1>6, ChildFacts DEF IInv, Linked
  <2> QED BY <1>4, <1>5, <2>1, <2>2
<1>7. Depth = 2 /\ First(cpu).fn = "schedule"
         => my_k[cpu] = [stk |-> cpu, len |-> 2, fn |-> "system_execute"]
  BY <1>2, <1>4, ChildFacts DEF IInv, Boot, Spawning
<1> QED BY <1>1, <1>2, <1>3, <1>5, <1>6, <1>7, ChildSteps
        DEF procVars, termVars, clockVars, pageVars

\* What entering the child does to the stacks.
LEMMA EnterEffect ==
    ASSUME TypeOK, ExecEnter, kstk[cpu] # <<>>, Top.pid \in Owners
    PROVE  /\ cpu' = Top.pid /\ kstk'[Top.pid] = <<>>
           /\ \A q \in Owners : q # cpu /\ q # Top.pid => kstk'[q] = kstk[q]
           /\ cpu # Top.pid =>
                 /\ Len(kstk'[cpu]) = Depth
                 /\ kstk'[cpu][Depth].fn = Top.fn /\ kstk'[cpu][Depth].at = "wait"
                 /\ (Depth > 1 => kstk'[cpu][1] = kstk[cpu][1])
<1> DEFINE fr == [Top EXCEPT !.at = "wait"]
           st == [kstk[cpu] EXCEPT ![Depth] = fr]
           c == Top.pid
<1>1. /\ kstk[cpu] \in Seq(Frame) /\ cpu \in Owners /\ kstk \in [Owners -> Seq(Frame)]
      /\ Top \in Frame /\ Depth \in Nat /\ Depth >= 1
  BY TopType DEF TypeOK
<1>2. fr.fn = Top.fn /\ fr.at = "wait" /\ fr \in Frame BY <1>1 DEF Frame, Labels
<1>3. kstk' = [[kstk EXCEPT ![cpu] = st] EXCEPT ![c] = <<>>] /\ cpu' = c
  BY DEF ExecEnter, Top
<1>4. Len(st) = Depth /\ st[Depth] = fr /\ (Depth > 1 => st[1] = kstk[cpu][1])
  <2> HIDE DEF fr
  <2> QED BY <1>1, <1>2 DEF Depth
<1>5. c \in Owners OBVIOUS
<1> HIDE DEF st, c, fr
<1>6. kstk'[c] = <<>> BY <1>1, <1>3, <1>5
<1>7. \A q \in Owners : q # cpu /\ q # c => kstk'[q] = kstk[q] BY <1>1, <1>3, <1>5
<1>8. cpu # c => kstk'[cpu] = st BY <1>1, <1>3, <1>5
<1>9. cpu # c =>
         /\ Len(kstk'[cpu]) = Depth
         /\ kstk'[cpu][Depth].fn = Top.fn /\ kstk'[cpu][Depth].at = "wait"
         /\ (Depth > 1 => kstk'[cpu][1] = kstk[cpu][1])
  BY <1>2, <1>4, <1>8
<1> QED BY <1>3, <1>6, <1>7, <1>9 DEF c

\* The child enters its program; its parent waits in system_execute.
LEMMA ExecEnterInv == ASSUME IInv, ExecEnter PROVE IInv'
<1> DEFINE c == Top.pid
<1>1. TypeOK' BY ExecEnterType DEF IInv
<1>2. /\ Running("system_execute", {"flag"}) /\ Coming /\ Top.fn = "system_execute"
      /\ ~Running("system_execute", {"load"}) /\ ~Running("system_execute", {"load", "enter"})
  BY DEF ExecEnter, At, Running, Coming
<1>3. /\ Running("system_execute", ExecLabels) /\ ~Going
      /\ c \in Pids \ Live_pids /\ free_pid[c] /\ c \in Owners /\ c # KERNEL
      /\ Held = Live_pids \cup {c} /\ Front = [t \in Terms |-> top_pid[t]]
      /\ cpu \in Pids /\ cpu \in Owners /\ kstk[cpu] # <<>> /\ Depth = Len(kstk[cpu])
      /\ Depth = 1 \/ Depth = 2
      /\ Depth = 1 => /\ c \in Nested /\ c \notin BasePids
                      /\ cpu \in Live_pids /\ pid_to_term[c] = pid_to_term[cpu]
      /\ Depth = 2 => /\ c = pit_count /\ pit_count < MAX_TERM /\ c \in BasePids
                      /\ pid_to_term[pit_count] = pit_count /\ c \notin Nested
  BY <1>2, ChildFacts
<1>4. curr_pid = c BY <1>2 DEF IInv, Running_process
<1>5. esp0.stk = c /\ user_page = c /\ vid_page = video_mem[pid_to_term[c]] /\ Mapped = c
  <2>1. ~Running("system_halt", {"pop", "switch"}) BY <1>3 DEF Going, Running
  <2>2. Mapped = c BY <1>2, <1>4, <2>1 DEF Mapped
  <2> QED BY <1>3, <1>4, <2>1, <2>2 DEF IInv, Mapping
<1>6. /\ free_pid' = [p \in Pids |-> free_pid[p] /\ p # c] /\ ifl' = TRUE
      /\ wild' = ~Current(c)
      /\ UNCHANGED <<curr_pid, parent_pid, parent_k, my_k, pid_to_term, top_pid, termVars,
                     clockVars, pageVars, esp0>>
  BY <1>4 DEF ExecEnter
<1>7. /\ cpu' = c /\ kstk'[c] = <<>>
      /\ \A q \in Owners : q # cpu /\ q # c => kstk'[q] = kstk[q]
      /\ cpu # c =>
            /\ Len(kstk'[cpu]) = Depth
            /\ kstk'[cpu][Depth].fn = "system_execute" /\ kstk'[cpu][Depth].at = "wait"
            /\ (Depth > 1 => kstk'[cpu][1] = kstk[cpu][1])
  BY <1>2, <1>3, EnterEffect DEF IInv
<1> HIDE DEF c
<1>8. wild' = FALSE BY <1>4, <1>5, <1>6 DEF Current
<1>9. Live_pids' = Live_pids \cup {c}
  <2>1. \A p \in Pids : free_pid'[p] <=> (free_pid[p] /\ p # c) BY <1>6, Zenon
  <2> QED BY <1>3, <2>1, Zenon DEF Live_pids
<1>10. /\ ~Coming' /\ ~Going' /\ \A fn, labels : ~Running(fn, labels)'
  BY <1>7 DEF Coming, Going, Running
<1>11. /\ Held' = Held /\ Front' = Front /\ Parent' = Parent /\ Mapped' = c
  <2>1. (~Coming /\ ~Going =>
        /\ Held = Live_pids /\ Parent = [q \in Pids |-> parent_pid[q]]
        /\ Front = [t \in Terms |-> top_pid[t]] /\ Mapped = curr_pid)'
    BY Calm, PTL
  <2>2. Parent = [q \in Pids |-> parent_pid[q]] BY <1>2 DEF Parent
  <2> QED BY <1>3, <1>4, <1>6, <1>9, <1>10, <2>1, <2>2
<1>12. \A q \in Nested : q # c \/ Depth = 1
  BY <1>3
<1>13. Depth = 2 => Nested = {}
  <2> SUFFICES ASSUME Depth = 2, NEW q \in Nested PROVE FALSE OBVIOUS
  <2>1. q \in Live_pids /\ q \notin BasePids /\ q \in Pids
    BY <1>3, Basics DEF Nested
  <2>2. q < pit_count /\ pit_count < MAX_TERM
    BY <1>3, <2>1, ExecWhere DEF Live_pids
  <2> QED BY <2>1, <2>2, KernelAssumption DEF IInv, TypeOK, BasePids, Pids
<1>14. cpu = c => Depth = 2 /\ First(cpu).fn = "entry" BY <1>3, ExecWhere
<1>15. Rooted' /\ Linked' /\ Lineage'
  <2> SUFFICES ASSUME NEW q \in Nested
      PROVE  /\ Parent[q] \in Live_pids' /\ Parent[q] \in Waiting'
             /\ parent_k[q] = [stk |-> Parent[q], len |-> 1, fn |-> "system_execute"]
    BY <1>6, <1>10, <1>11, SameTree, Basics DEF IInv, TypeOK
  <2>1. /\ Parent[q] \in Live_pids /\ (Parent[q] # cpu => Parent[q] \in Waiting)
        /\ parent_k[q] = [stk |-> Parent[q], len |-> 1, fn |-> "system_execute"]
    BY <1>2 DEF IInv, Linked
  <2>2. Depth = 1 BY <1>3, <1>13
  <2>3. CASE Parent[q] = cpu
    <3>1. Len(kstk'[cpu]) = 1 /\ kstk'[cpu][1].fn = "system_execute" /\ kstk'[cpu][1].at = "wait"
      BY <1>3, <1>7, <1>14, <2>2
    <3> QED BY <1>3, <1>9, <2>1, <2>3, <3>1 DEF Waiting, First
  <2>4. CASE Parent[q] # cpu
    <3>1. kstk'[Parent[q]] = kstk[Parent[q]]
      BY <1>3, <1>7, <2>1, <2>4, ConstantFacts DEF Live_pids
    <3> QED BY <1>9, <2>1, <2>4, <3>1 DEF Waiting, First
  <2> QED BY <2>3, <2>4
<1>16. Front[pid_to_term[c]] = c
  <2>1. c \in Held BY <1>3
  <2>2. \A q \in Nested : Parent[q] \in Live_pids BY DEF IInv, Linked
  <2>3. \A q \in Nested : Parent[q] # c BY <1>3, <2>2
  <2> QED BY <2>1, <2>3 DEF IInv, Lineage
<1>17. Shape'
  <2>1. Len(<<>>) = 0 OBVIOUS
  <2> QED BY <1>6, <1>7, <2>1 DEF Shape
<1>18. Running_process'
  <2>1. ~free_pid'[c] BY <1>3, <1>6
  <2> QED BY <1>3, <1>4, <1>6, <1>7, <1>10, <1>11, <1>16, <2>1 DEF Running_process
<1>19. Mapping'
  BY <1>4, <1>5, <1>6, <1>10, <1>11 DEF Mapping, termVars, pageVars
<1>20. Parked'
  <2> SUFFICES ASSUME NEW p \in Live_pids, p # c, Front[pid_to_term[p]] = p
               PROVE  Suspended(p)'
    BY <1>6, <1>7, <1>9, <1>11 DEF Parked
  <2>1. CASE p # cpu
    <3>1. Suspended(p) BY <2>1 DEF IInv, Parked
    <3>2. kstk'[p] = kstk[p] BY <1>7, <2>1, ConstantFacts DEF Live_pids
    <3> QED BY <1>6, <3>1, <3>2 DEF Suspended, First, Last
  <2>2. CASE p = cpu
    <3>1. Depth = 2 BY <1>3, <1>16, <2>2
    <3>2. First(cpu).fn = "schedule" /\ First(cpu).at = "spawned"
      BY <1>3, <2>2, <3>1, ExecWhere DEF Live_pids
    <3>3. my_k[cpu] = [stk |-> cpu, len |-> 2, fn |-> "system_execute"]
      BY <1>2, <1>3, <3>1, <3>2 DEF IInv, Boot, Spawning, Running
    <3>4. /\ Len(kstk'[cpu]) = 2 /\ kstk'[cpu][2].fn = "system_execute" /\ kstk'[cpu][2].at = "wait"
          /\ kstk'[cpu][1].fn = "schedule" /\ kstk'[cpu][1].at = "spawned"
      BY <1>7, <2>2, <3>1, <3>2 DEF First
    <3> QED BY <1>6, <2>2, <3>3, <3>4 DEF Suspended, First, Last
  <2> QED BY <2>1, <2>2
<1>21. Calls'
  <2> SUFFICES ASSUME NEW p \in Live_pids, p # c, kstk'[p] # <<>>
      PROVE (LET g == First(p) IN
                /\ g.fn = "system_halt" => g.pid = p /\ p \notin BasePids
                /\ g.fn = "system_execute" /\ g.at \in {"find", "open"}
                      => pid_to_term[p] = curr_term
                /\ g.fn = "system_execute" /\ g.at = "open"
                      => g.pid \in Pids \ (Held \cup BasePids) /\ pid_to_term[g.pid] = curr_term
                /\ g.fn = "system_vidmap" => g.pid + 1 = video_mem[pid_to_term[p]])'
    BY <1>7, <1>9, <1>10 DEF Calls
  <2>1. CASE p # cpu
    <3>1. kstk'[p] = kstk[p] BY <1>7, <2>1, ConstantFacts DEF Live_pids
    <3>2. First(p)' = First(p) /\ kstk[p] # <<>> BY <3>1 DEF First
    <3> QED BY <1>6, <1>11, <3>2 DEF IInv, Calls, termVars
  <2>2. CASE p = cpu
    <3>1. \/ kstk'[cpu][1].fn = "system_execute" /\ kstk'[cpu][1].at = "wait"
          \/ kstk'[cpu][1].fn = "schedule" \/ kstk'[cpu][1].fn = "entry"
      BY <1>3, <1>7, <2>2, ExecWhere DEF First
    <3> QED BY <2>2, <3>1 DEF First
  <2> QED BY <2>1, <2>2
<1>22. Boot'
  <2>1. /\ pit_count' = pit_count /\ shells_done' = shells_done
        /\ pit_count \in Nat /\ MAX_TERM \in Nat
    BY <1>6, KernelAssumption DEF clockVars, IInv, TypeOK
  <2>2. ShellsStarted'
    <3>1. shells_done => pit_count >= MAX_TERM - 1 BY DEF IInv, Boot, ShellsStarted
    <3>2. shells_done' => pit_count' >= MAX_TERM - 1 BY <2>1, <3>1, Zenon
    <3> QED BY <1>10, <3>2 DEF ShellsStarted
  <2>3. NoCalls'
    <3> SUFFICES ASSUME Early', NEW p \in Live_pids, p # c, kstk'[p] # <<>>
                 PROVE  kstk'[p][1].fn = "schedule"
      BY <1>7, <1>9 DEF NoCalls, First
    <3>1. Early BY <1>10, <2>1 DEF Early
    <3>2. CASE p # cpu
      <4>1. kstk'[p] = kstk[p] BY <1>7, <3>2, ConstantFacts DEF Live_pids
      <4> QED BY <3>1, <4>1 DEF IInv, Boot, NoCalls, First
    <3>3. CASE p = cpu
      <4>1. First(cpu).fn = "schedule" BY <1>3, <3>1, <3>3 DEF IInv, Boot, NoCalls
      <4>2. Depth = 2 BY <1>3, <3>1, ExecWhere
      <4> QED BY <1>7, <3>3, <4>1, <4>2 DEF First
    <3> QED BY <3>2, <3>3
  <2>4. PidsTaken'
    <3>1. \A p \in Pids : ~free_pid'[p] <=> (~free_pid[p] \/ p = c) BY <1>6, Zenon
    <3>2. CASE Depth = 1
      <4>1. (\A t \in Terms : ~free_pid[t]) /\ ~(pit_count < MAX_TERM)
        BY <1>3, <2>1, <3>2, ExecWhere
      <4>2. \A t \in Terms : ~free_pid'[t] BY <3>1, <4>1, ConstantFacts, Zenon
      <4> QED BY <2>1, <4>1, <4>2, Zenon DEF PidsTaken
    <3>3. CASE Depth = 2
      <4>1. c = pit_count /\ pit_count < MAX_TERM BY <1>3, <3>3
      <4>2. ~(pit_count >= MAX_TERM) BY <2>1, <4>1
      <4>3. \A p \in Pids : ~free_pid[p] <=> p < pit_count BY <1>3, <3>3, ExecWhere
      <4>4. \A p \in Pids : p < pit_count + 1 <=> (p < pit_count \/ p = pit_count)
        BY <2>1 DEF Pids
      <4>5. \A p \in Pids : ~free_pid'[p] <=> p < pit_count + 1
        BY <3>1, <4>1, <4>3, <4>4, Zenon
      <4> QED BY <1>7, <2>1, <4>2, <4>5, Zenon DEF PidsTaken
    <3> QED BY <1>3, <3>2, <3>3
  <2>5. Spawning' BY <1>10 DEF Spawning
  <2> QED BY <2>2, <2>3, <2>4, <2>5 DEF Boot
<1> QED BY <1>1, <1>8, <1>15, <1>17, <1>18, <1>19, <1>20, <1>21, <1>22 DEF IInv

-----------------------------------------------------------------------------
(* system_halt *)

\* A process that halts, and the parent it goes back to.
LEMMA GoingFacts ==
    ASSUME IInv, Going
    PROVE  /\ Depth = 1 /\ First(cpu) = Top /\ Top.fn = "system_halt" /\ Top.pid = cpu /\ ifl
           /\ cpu \in Pids /\ cpu \in Owners /\ cpu \notin BasePids /\ cpu \notin Live_pids
           /\ cpu # KERNEL /\ kstk[cpu] # <<>> /\ Len(kstk[cpu]) = 1
           /\ ~Coming /\ Held = Live_pids \cup {cpu} /\ Parent = [q \in Pids |-> parent_pid[q]]
           /\ Front[pid_to_term[cpu]] = cpu /\ cpu \in Nested
           /\ parent_pid[cpu] \in Live_pids /\ parent_pid[cpu] # cpu
           /\ pid_to_term[parent_pid[cpu]] = pid_to_term[cpu]
           /\ parent_pid[cpu] \in Waiting
           /\ parent_k[cpu] = [stk |-> parent_pid[cpu], len |-> 1, fn |-> "system_execute"]
           /\ pit_count >= MAX_TERM /\ ~Early /\ ~(pit_count < MAX_TERM)
           /\ ~Running("system_halt", {"jump"}) => curr_pid = cpu
           /\ Running("system_halt", {"jump"}) => curr_pid = parent_pid[cpu]
<1>1. /\ Depth = 1 /\ First(cpu) = Top /\ Top.fn = "system_halt" /\ Top.pid = cpu
      /\ cpu \in Pids /\ cpu \in Owners /\ cpu \notin BasePids /\ free_pid[cpu]
      /\ kstk[cpu] # <<>> /\ Len(kstk[cpu]) = 1
  BY Basics DEF Going, Running
<1>2. cpu \notin Live_pids /\ cpu # KERNEL BY <1>1, ConstantFacts DEF Live_pids
<1>3. ~Coming /\ ~Running("system_execute", {"load"}) BY <1>1 DEF Coming, Running
<1>4. Held = Live_pids \cup {cpu} /\ Parent = [q \in Pids |-> parent_pid[q]]
  BY <1>1, <1>3 DEF Held, Parent
<1>5. Front[pid_to_term[cpu]] = cpu BY <1>1, <1>3 DEF IInv, Running_process
<1>6. cpu \in Nested /\ Parent[cpu] = parent_pid[cpu] BY <1>1, <1>4 DEF Nested
<1>7. /\ parent_pid[cpu] \in Live_pids /\ parent_pid[cpu] # cpu
      /\ pid_to_term[parent_pid[cpu]] = pid_to_term[cpu]
      /\ parent_pid[cpu] \in Waiting
      /\ parent_k[cpu] = [stk |-> parent_pid[cpu], len |-> 1, fn |-> "system_execute"]
  BY <1>2, <1>3, <1>6 DEF IInv, Linked
<1>8. ~Early
  <2>1. First(parent_pid[cpu]).fn = "system_execute" /\ Len(kstk[parent_pid[cpu]]) = 1
    BY <1>7 DEF Waiting
  <2>2. kstk[parent_pid[cpu]] # <<>>
    <3>1. Len(<<>>) = 0 OBVIOUS
    <3> QED BY <2>1, <3>1
  <2> QED BY <1>7, <2>1, <2>2 DEF IInv, Boot, NoCalls
<1>9. pit_count >= MAX_TERM /\ ~(pit_count < MAX_TERM)
  BY <1>8, KernelAssumption DEF Early, IInv, TypeOK
<1>10. ifl BY <1>1 DEF IInv, Shape, Running
<1>11. ~Running("system_halt", {"jump"}) => curr_pid = cpu
  BY <1>1, <1>3 DEF IInv, Running_process, Running
<1>12. Running("system_halt", {"jump"}) => curr_pid = parent_pid[cpu]
  BY DEF IInv, Running_process
<1> QED BY <1>1, <1>2, <1>3, <1>4, <1>5, <1>6, <1>7, <1>8, <1>9, <1>10, <1>11, <1>12

\* The steps of system_halt that are left once the process is free.
LEMMA GoingSteps ==
    ASSUME IInv, Going, NEW l \in {"pop", "switch", "jump"}, Goto(l, Top.pid),
           UNCHANGED <<free_pid, parent_pid, parent_k, my_k, pid_to_term, curr_term, video_mem,
                       pit_count, shells_done, cpu, ifl, wild>>,
           TypeOK', Front' = Front, Mapping',
           curr_pid' = IF l = "jump" THEN parent_pid[cpu] ELSE cpu,
           l # "pop" => top_pid'[pid_to_term[cpu]] = parent_pid[cpu]
    PROVE  IInv'
<1>1. /\ Depth = 1 /\ First(cpu) = Top /\ Top.fn = "system_halt" /\ Top.pid = cpu /\ ifl
      /\ cpu \in Pids /\ cpu \in Owners /\ cpu \notin BasePids /\ cpu \notin Live_pids
      /\ cpu # KERNEL /\ kstk[cpu] # <<>> /\ Len(kstk[cpu]) = 1
      /\ Held = Live_pids \cup {cpu} /\ Parent = [q \in Pids |-> parent_pid[q]]
      /\ Front[pid_to_term[cpu]] = cpu
      /\ ~Early /\ pit_count >= MAX_TERM /\ ~(pit_count < MAX_TERM)
  BY GoingFacts
<1>2. /\ \A q \in Owners : Len(kstk'[q]) = Len(kstk[q]) /\ (q # cpu => kstk'[q] = kstk[q])
      /\ kstk'[cpu] # <<>> /\ Depth' = 1
      /\ Top'.fn = "system_halt" /\ Top'.at = l /\ Top'.pid = cpu
      /\ First(cpu)' = Top'
  BY <1>1, GotoEffect DEF IInv
<1>3. /\ Going' /\ ~Coming' /\ ~Running("system_execute", {"load"})'
      /\ ~Running("system_execute", {"flag"})'
      /\ (Running("system_halt", {"jump"})' <=> l = "jump")
      /\ (Running("system_halt", {"switch", "jump"})' <=> l # "pop")
      /\ ~Running("schedule", {"spawned"})' /\ ~Running("schedule", {"tick"})'
      /\ ~Running("schedule", {"tick", "spawned"})'
  BY <1>2 DEF Running, Coming, Going
<1>4. /\ Live_pids' = Live_pids /\ Held' = Held /\ Parent' = Parent
  <2>1. Live_pids' = Live_pids BY DEF Live_pids
  <2> QED BY <1>1, <1>2, <1>3, <2>1 DEF Held, Parent
<1>5. Rooted' /\ Linked' /\ Lineage'
  <2> SUFFICES ASSUME NEW q \in Nested
      PROVE  /\ Parent'[q] = Parent[q] /\ Parent[q] \in Live_pids' /\ Parent[q] \in Waiting'
             /\ parent_k[q] = [stk |-> Parent[q], len |-> 1, fn |-> "system_execute"]
    BY <1>4, SameTree, Basics DEF IInv, TypeOK
  <2>1. /\ Parent[q] \in Live_pids /\ (Parent[q] # cpu => Parent[q] \in Waiting)
        /\ parent_k[q] = [stk |-> Parent[q], len |-> 1, fn |-> "system_execute"]
    BY <1>1 DEF IInv, Linked, Running
  <2>2. Parent[q] \in Waiting'
    BY <1>1, <1>2, <2>1, ConstantFacts DEF Waiting, First, Live_pids
  <2> QED BY <1>4, <2>1, <2>2
<1>6. Shape' BY <1>1, <1>2, <1>3 DEF Shape
<1>7. Running_process'
  <2>1. free_pid[cpu] BY <1>1 DEF Live_pids
  <2> QED BY <1>1, <1>2, <1>3, <2>1 DEF Running_process
<1>8. Parked' BY <1>2, <1>4, ConstantFacts DEF IInv, Parked, Suspended, First, Last, Live_pids
<1>9. Calls'
  <2> SUFFICES ASSUME NEW p \in Live_pids \cup {cpu}, kstk'[p] # <<>>
      PROVE (LET g == First(p) IN
                /\ g.fn = "system_halt" => g.pid = p /\ p \notin BasePids
                /\ g.fn = "system_execute" /\ g.at \in {"find", "open"}
                      => pid_to_term[p] = curr_term
                /\ g.fn = "system_execute" /\ g.at = "open"
                      => g.pid \in Pids \ (Held \cup BasePids) /\ pid_to_term[g.pid] = curr_term
                /\ g.fn = "system_vidmap" => g.pid + 1 = video_mem[pid_to_term[p]])'
    BY <1>3, <1>4 DEF Calls
  <2>1. CASE p # cpu
    <3>1. p \in Owners /\ kstk'[p] = kstk[p]
      BY <1>2, <2>1, ConstantFacts DEF Live_pids
    <3>2. First(p)' = First(p) /\ kstk[p] # <<>> BY <3>1 DEF First
    <3> QED BY <1>4, <3>1, <3>2 DEF IInv, Calls
  <2>2. CASE p = cpu BY <1>1, <1>2, <2>2
  <2> QED BY <2>1, <2>2
<1>10. Boot'
  <2>1. ShellsStarted'
    <3>1. shells_done => pit_count >= MAX_TERM - 1 BY DEF IInv, Boot, ShellsStarted
    <3> QED BY <1>3, <3>1 DEF ShellsStarted
  <2>2. NoCalls' BY <1>1, <1>3 DEF NoCalls, Early
  <2>3. PidsTaken' BY <1>1, Zenon DEF IInv, Boot, PidsTaken
  <2>4. Spawning'
    <3>1. ~Running("system_execute", ExecLabels)' BY <1>2 DEF Running
    <3> QED BY <1>3, <3>1 DEF Spawning
  <2> QED BY <2>1, <2>2, <2>3, <2>4 DEF Boot
<1> QED BY <1>5, <1>6, <1>7, <1>8, <1>9, <1>10 DEF IInv

\* system_halt maps the parent's page again.
LEMMA HaltUnmapInv == ASSUME IInv, HaltUnmap PROVE IInv'
<1>1. TypeOK' BY HaltType DEF IInv
<1>2. Running("system_halt", {"unmap"}) /\ Going /\ Top.at = "unmap"
  BY DEF HaltUnmap, At, Running, Going
<1>3. /\ Top.pid = cpu /\ parent_pid[cpu] \in Live_pids /\ curr_pid = cpu
      /\ parent_k[cpu] = [stk |-> parent_pid[cpu], len |-> 1, fn |-> "system_execute"]
      /\ cpu \in Owners /\ kstk[cpu] # <<>> /\ Top.fn = "system_halt"
      /\ parent_pid[cpu] \in Pids /\ parent_pid[cpu] # KERNEL
  BY <1>2, GoingFacts, ConstantFacts DEF Running, Live_pids
<1>4. /\ setup_paging(parent_pid[cpu]) /\ esp0'.stk = parent_pid[cpu]
      /\ Goto("pop", Top.pid)
      /\ UNCHANGED <<curr_pid, procVars, termVars, clockVars, cpu, ifl, wild>>
  BY <1>3 DEF HaltUnmap
<1>5. Running("system_halt", {"pop", "switch"})' /\ ~Running("system_execute", {"load", "enter"})'
      /\ ~Running("system_halt", {"switch", "jump"})' /\ Top'.pid = cpu
  BY <1>3, <1>4, GotoEffect DEF IInv, Running
<1>6. Front' = Front
  <2>1. ~Running("system_halt", {"switch", "jump"}) BY <1>2 DEF Running
  <2> QED BY <1>4, <1>5, <2>1 DEF Front, procVars
<1>7. Mapping'
  <2>1. Mapped' = parent_pid[cpu] BY <1>4, <1>5 DEF Mapped, procVars
  <2>2. user_page' = parent_pid[cpu] /\ vid_page' = video_mem[pid_to_term[parent_pid[cpu]]]
    BY <1>3, <1>4 DEF setup_paging
  <2> QED BY <1>4, <1>5, <2>1, <2>2 DEF Mapping, procVars, termVars
<1> QED BY <1>1, <1>2, <1>3, <1>4, <1>6, <1>7, GoingSteps DEF procVars, termVars, clockVars

\* system_halt makes the parent its terminal's newest process.
LEMMA HaltPopInv == ASSUME IInv, HaltPop PROVE IInv'
<1>1. TypeOK' BY HaltType DEF IInv
<1>2. Running("system_halt", {"pop"}) /\ Running("system_halt", {"pop", "switch"}) /\ Going
      /\ Top.at = "pop" /\ ~Running("system_halt", {"switch", "jump"})
  BY DEF HaltPop, At, Running, Going
<1>3. /\ Top.pid = cpu /\ curr_pid = cpu /\ Front[pid_to_term[cpu]] = cpu
      /\ cpu \in Pids /\ cpu \in Owners /\ kstk[cpu] # <<>> /\ Top.fn = "system_halt"
      /\ pid_to_term[cpu] \in Terms
  BY <1>2, GoingFacts DEF Running, IInv, TypeOK
<1>4. /\ top_pid' = [top_pid EXCEPT ![pid_to_term[cpu]] = parent_pid[cpu]]
      /\ Goto("switch", Top.pid)
      /\ UNCHANGED <<curr_pid, free_pid, parent_pid, parent_k, my_k, pid_to_term, termVars,
                     clockVars, pageVars, esp0, cpu, ifl, wild>>
  BY <1>3 DEF HaltPop, TermsOf
<1>5. Running("system_halt", {"pop", "switch"})' /\ ~Running("system_execute", {"load", "enter"})'
      /\ Running("system_halt", {"switch", "jump"})' /\ Top'.pid = cpu
  BY <1>3, <1>4, GotoEffect DEF IInv, Running
<1>6. Front' = Front
  <2>1. Front = [t \in Terms |-> top_pid[t]] BY <1>2 DEF Front
  <2>2. Front' = [t \in Terms |-> IF pid_to_term[cpu] = t THEN cpu ELSE top_pid'[t]]
    BY <1>4, <1>5 DEF Front
  <2>3. \A t \in Terms : pid_to_term[cpu] # t => top_pid'[t] = top_pid[t]
    BY <1>4 DEF IInv, TypeOK
  <2> QED BY <1>3, <2>1, <2>2, <2>3
<1>7. top_pid'[pid_to_term[cpu]] = parent_pid[cpu] BY <1>3, <1>4 DEF IInv, TypeOK
<1>8. Mapping'
  <2>1. Mapped' = parent_pid[cpu] /\ Mapped = parent_pid[cpu]
    BY <1>2, <1>3, <1>4, <1>5 DEF Mapped, Running
  <2> QED BY <1>2, <1>4, <1>5, <2>1 DEF IInv, Mapping, termVars, pageVars
<1> QED BY <1>1, <1>2, <1>3, <1>4, <1>6, <1>7, <1>8, GoingSteps DEF termVars, clockVars

\* system_halt makes the parent the current process.
LEMMA HaltSwitchInv == ASSUME IInv, HaltSwitch PROVE IInv'
<1>1. TypeOK' BY HaltType DEF IInv
<1>2. Running("system_halt", {"pop", "switch"}) /\ Running("system_halt", {"switch", "jump"}) /\ Going
      /\ Top.at = "switch"
  BY DEF HaltSwitch, At, Running, Going
<1>3. /\ Top.pid = cpu /\ curr_pid = cpu /\ cpu # KERNEL /\ cpu \notin BasePids
      /\ cpu \in Pids /\ cpu \in Owners /\ kstk[cpu] # <<>> /\ Top.fn = "system_halt"
      /\ parent_pid[cpu] \in Pids /\ parent_pid[cpu] # KERNEL
  BY <1>2, GoingFacts, ConstantFacts DEF Running, Live_pids
<1>4. /\ curr_pid' = parent_pid[cpu] /\ Goto("jump", Top.pid)
      /\ UNCHANGED <<procVars, termVars, clockVars, pageVars, esp0, cpu, ifl, wild>>
  BY <1>3 DEF HaltSwitch
<1>5. ~Running("system_halt", {"pop", "switch"})' /\ ~Running("system_execute", {"load", "enter"})'
      /\ Running("system_halt", {"switch", "jump"})' /\ Top'.pid = cpu
  BY <1>3, <1>4, GotoEffect DEF IInv, Running
<1>6. Front' = Front BY <1>2, <1>3, <1>4, <1>5 DEF Front, procVars
<1>7. top_pid[pid_to_term[cpu]] = parent_pid[cpu] BY <1>2 DEF IInv, Running_process
<1>8. Mapping'
  <2>1. Mapped' = parent_pid[cpu] /\ Mapped = parent_pid[cpu]
    BY <1>2, <1>3, <1>4, <1>5 DEF Mapped, Running
  <2> QED BY <1>2, <1>3, <1>4, <1>5, <2>1 DEF IInv, Mapping, termVars, pageVars, procVars
<1> QED BY <1>1, <1>2, <1>3, <1>4, <1>6, <1>7, <1>8, GoingSteps DEF procVars, termVars, clockVars

\* system_halt frees its process and its descriptors.
LEMMA HaltFreeInv == ASSUME IInv, HaltFree PROVE IInv'
<1>1. TypeOK' BY HaltType DEF IInv
<1>2. /\ kstk[cpu] # <<>> /\ Top.fn = "system_halt" /\ Top.at = "free"
      /\ Running("system_halt", {"free"})
      /\ ~Coming /\ ~Going /\ ~Running("system_execute", {"load"})
      /\ ~Running("system_execute", {"flag"}) /\ ~Running("system_halt", {"jump"})
      /\ ~Running("system_halt", {"pop", "switch"}) /\ ~Running("system_halt", {"switch", "jump"})
  BY DEF HaltFree, At, Coming, Going, Running
<1>3. /\ Depth = 1 /\ First(cpu) = Top /\ cpu \in Pids /\ cpu \in Owners /\ Len(kstk[cpu]) = 1
      /\ cpu # KERNEL /\ ifl
  BY <1>2, Basics, ConstantFacts DEF IInv, Shape, Running
<1>4. /\ cpu \in Live_pids /\ curr_pid = cpu /\ Front[pid_to_term[cpu]] = cpu
  BY <1>2, <1>3 DEF IInv, Running_process, Live_pids
<1>5. Top.pid = cpu /\ cpu \notin BasePids BY <1>2, <1>3, <1>4 DEF IInv, Calls
<1>6. /\ free_pid' = [p \in Pids |-> free_pid[p] \/ p = cpu] /\ wild' = FALSE
      /\ Goto("unmap", Top.pid)
      /\ UNCHANGED <<curr_pid, parent_pid, parent_k, my_k, pid_to_term, top_pid, termVars,
                     clockVars, pageVars, esp0, cpu, ifl>>
  BY <1>3, <1>4 DEF HaltFree
<1>7. /\ \A q \in Owners : Len(kstk'[q]) = Len(kstk[q]) /\ (q # cpu => kstk'[q] = kstk[q])
      /\ kstk'[cpu] # <<>> /\ Depth' = 1
      /\ Top'.fn = "system_halt" /\ Top'.at = "unmap" /\ Top'.pid = cpu
      /\ First(cpu)' = Top'
  BY <1>2, <1>3, <1>5, <1>6, GotoEffect DEF IInv
<1>8. /\ Going' /\ ~Coming' /\ ~Running("system_execute", {"load"})'
      /\ ~Running("system_execute", {"load", "enter"})'
      /\ ~Running("system_execute", {"flag"})' /\ ~Running("system_execute", ExecLabels)'
      /\ ~Running("system_halt", {"jump"})' /\ ~Running("system_halt", {"switch", "jump"})'
      /\ ~Running("system_halt", {"pop", "switch"})'
      /\ ~Running("schedule", {"spawned"})' /\ ~Running("schedule", {"tick"})'
      /\ ~Running("schedule", {"tick", "spawned"})'
  BY <1>6, <1>7 DEF Running, Coming, Going
<1>9. Held = Live_pids /\ Mapped = cpu /\ Front = [t \in Terms |-> top_pid[t]]
      /\ Parent = [q \in Pids |-> parent_pid[q]]
  BY <1>2, <1>4, Calm
<1>10. Live_pids' = Live_pids \ {cpu}
  <2>1. \A p \in Pids : free_pid'[p] <=> (free_pid[p] \/ p = cpu) BY <1>6, Zenon
  <2> QED BY <2>1, Zenon DEF Live_pids
<1>11. Held' = Held /\ Front' = Front /\ Parent' = Parent /\ Mapped' = cpu
  <2>1. Held' = Held BY <1>4, <1>7, <1>8, <1>9, <1>10 DEF Held
  <2>2. Front' = [t \in Terms |-> top_pid'[t]] BY <1>8 DEF Front
  <2>3. Parent' = [q \in Pids |-> parent_pid'[q]] BY <1>8 DEF Parent
  <2>4. Mapped' = curr_pid' BY <1>8 DEF Mapped
  <2> QED BY <1>4, <1>6, <1>9, <2>1, <2>2, <2>3, <2>4
<1>12. Rooted' /\ Linked' /\ Lineage'
  <2> SUFFICES ASSUME NEW q \in Nested
      PROVE  /\ Parent[q] \in Live_pids' /\ Parent[q] \in Waiting'
             /\ parent_k[q] = [stk |-> Parent[q], len |-> 1, fn |-> "system_execute"]
    BY <1>6, <1>9, <1>10, <1>11, SameTree, Basics DEF IInv, TypeOK
  <2>1. /\ Parent[q] \in Live_pids /\ (Parent[q] # cpu => Parent[q] \in Waiting)
        /\ Front[pid_to_term[Parent[q]]] # Parent[q]
        /\ parent_k[q] = [stk |-> Parent[q], len |-> 1, fn |-> "system_execute"]
    BY <1>2 DEF IInv, Linked
  <2>2. Parent[q] # cpu BY <1>4, <2>1
  <2>3. Parent[q] \in Waiting /\ kstk'[Parent[q]] = kstk[Parent[q]]
    BY <1>7, <2>1, <2>2, ConstantFacts DEF Live_pids
  <2> QED BY <1>10, <2>1, <2>2, <2>3 DEF Waiting, First
<1>13. Shape' BY <1>3, <1>6, <1>7, <1>8 DEF Shape
<1>14. Running_process'
  <2>1. free_pid'[cpu] BY <1>3, <1>6
  <2> QED BY <1>3, <1>4, <1>6, <1>7, <1>8, <1>11, <2>1 DEF Running_process
<1>15. Mapping'
  BY <1>2, <1>4, <1>6, <1>8, <1>9, <1>11 DEF IInv, Mapping, termVars, pageVars
<1>16. Parked'
  <2> SUFFICES ASSUME NEW p \in Live_pids \ {cpu}, Front[pid_to_term[p]] = p
               PROVE  Suspended(p)'
    BY <1>6, <1>10, <1>11 DEF Parked
  <2>1. Suspended(p) BY DEF IInv, Parked
  <2>2. kstk'[p] = kstk[p] BY <1>7, ConstantFacts DEF Live_pids
  <2> QED BY <1>6, <2>1, <2>2 DEF Suspended, First, Last
<1>17. Calls'
  <2> SUFFICES ASSUME NEW p \in Live_pids \cup {cpu}, kstk'[p] # <<>>
      PROVE (LET g == First(p) IN
                /\ g.fn = "system_halt" => g.pid = p /\ p \notin BasePids
                /\ g.fn = "system_execute" /\ g.at \in {"find", "open"}
                      => pid_to_term[p] = curr_term
                /\ g.fn = "system_execute" /\ g.at = "open"
                      => g.pid \in Pids \ (Held \cup BasePids) /\ pid_to_term[g.pid] = curr_term
                /\ g.fn = "system_vidmap" => g.pid + 1 = video_mem[pid_to_term[p]])'
    BY <1>6, <1>8, <1>10 DEF Calls
  <2>1. CASE p # cpu
    <3>1. p \in Owners /\ kstk'[p] = kstk[p]
      BY <1>7, <2>1, ConstantFacts DEF Live_pids
    <3>2. First(p)' = First(p) /\ kstk[p] # <<>> BY <3>1 DEF First
    <3> QED BY <1>6, <1>11, <3>1, <3>2 DEF IInv, Calls, termVars
  <2>2. CASE p = cpu BY <1>5, <1>6, <1>7, <2>2
  <2> QED BY <2>1, <2>2
<1>18. Boot'
  <2>1. ~Early BY <1>2, <1>3, <1>4 DEF IInv, Boot, NoCalls
  <2>2. pit_count >= MAX_TERM /\ ~(pit_count < MAX_TERM) /\ pit_count' = pit_count
        /\ shells_done' = shells_done
    BY <1>6, <2>1, KernelAssumption DEF Early, IInv, TypeOK, clockVars
  <2>3. ShellsStarted'
    <3>1. shells_done => pit_count >= MAX_TERM - 1 BY DEF IInv, Boot, ShellsStarted
    <3>2. shells_done' => pit_count' >= MAX_TERM - 1 BY <2>2, <3>1, Zenon
    <3> QED BY <1>8, <3>2 DEF ShellsStarted
  <2>4. NoCalls' BY <1>8, <2>2 DEF NoCalls, Early
  <2>5. PidsTaken'
    <3>1. \A p \in Pids : ~free_pid'[p] <=> (~free_pid[p] /\ p # cpu) BY <1>6, Zenon
    <3>2. \A t \in Terms : ~free_pid[t] /\ t # cpu
      BY <1>5, <2>2, Zenon DEF IInv, Boot, PidsTaken, BasePids, Terms
    <3>3. \A t \in Terms : ~free_pid'[t] BY <3>1, <3>2, ConstantFacts, Zenon
    <3> QED BY <2>2, <3>3, Zenon DEF PidsTaken
  <2>6. Spawning' BY <1>8 DEF Spawning
  <2> QED BY <2>3, <2>4, <2>5, <2>6 DEF Boot
<1> QED BY <1>1, <1>6, <1>12, <1>13, <1>14, <1>15, <1>16, <1>17, <1>18 DEF IInv

\* Where system_halt jumps to.
LEMMA HaltJumpEffect ==
    ASSUME IInv, HaltJump
    PROVE  LET P == parent_pid[cpu] IN
           /\ Going /\ P \in Live_pids /\ pid_to_term[P] = pid_to_term[cpu]
           /\ cpu' = P /\ wild' = wild /\ ifl' /\ kstk'[P] = <<>>
           /\ \A q \in Owners : q # cpu /\ q # P => kstk'[q] = kstk[q]
           /\ UNCHANGED <<curr_pid, procVars, termVars, clockVars, pageVars, esp0>>
<1> DEFINE P == parent_pid[cpu]
           T == pid_to_term[cpu]
           stacks == [kstk EXCEPT ![cpu] = SubSeq(@, 1, Depth - 1)]
           k == parent_k[cpu]
<1>1. TypeOK' BY ReturnType DEF IInv
<1>2. Running("system_halt", {"jump"}) /\ Running("system_halt", {"switch", "jump"}) /\ Going
      /\ ~Running("system_execute", {"load"}) /\ ~Running("system_halt", {"pop", "switch"})
      /\ ~Running("system_execute", {"load", "enter"}) /\ Top.at = "jump"
  BY DEF HaltJump, At, Running, Going
<1>3. /\ Depth = 1 /\ Top.pid = cpu
      /\ cpu \in Pids /\ cpu \in Owners /\ cpu \notin BasePids /\ cpu \notin Live_pids
      /\ cpu # KERNEL /\ kstk[cpu] # <<>> /\ Len(kstk[cpu]) = 1
      /\ Held = Live_pids \cup {cpu} /\ Parent = [q \in Pids |-> parent_pid[q]]
      /\ Front[T] = cpu /\ cpu \in Nested
      /\ P \in Live_pids /\ P # cpu /\ pid_to_term[P] = T /\ P \in Waiting
      /\ k = [stk |-> P, len |-> 1, fn |-> "system_execute"]
      /\ pit_count >= MAX_TERM /\ ~Early /\ ~(pit_count < MAX_TERM)
      /\ curr_pid = P /\ T \in Terms /\ P \in Pids /\ P \in Owners /\ P # KERNEL
      /\ Parent[cpu] = P
  BY <1>2, GoingFacts, ConstantFacts DEF Live_pids, IInv, TypeOK
<1>4. top_pid[T] = P BY <1>2 DEF IInv, Running_process
<1>5. /\ UNCHANGED <<curr_pid, procVars, termVars, clockVars, pageVars, esp0>>
      /\ Jump(k, stacks)
  BY <1>3 DEF HaltJump
<1>6. esp0.stk = P /\ Mapped = P /\ user_page = P /\ vid_page = video_mem[pid_to_term[P]]
  <2>1. Mapped = P BY <1>2, <1>3 DEF Mapped
  <2> QED BY <1>2, <1>3, <2>1 DEF IInv, Mapping
<1>7. /\ stacks \in [Owners -> Seq(Frame)]
      /\ \A q \in Owners : q # cpu => stacks[q] = kstk[q]
  <2>1. kstk \in [Owners -> Seq(Frame)] BY DEF IInv, TypeOK
  <2>2. SubSeq(kstk[cpu], 1, Depth - 1) \in Seq(Frame) BY <1>3, <2>1, KeepType
  <2> QED BY <1>3, <2>1, <2>2
<1> HIDE DEF P, T, stacks, k
<1>8. /\ cpu' = P /\ wild' = wild /\ ifl' /\ kstk'[P] = <<>>
      /\ \A q \in Owners : q # cpu /\ q # P => kstk'[q] = kstk[q]
  <2>1. k.stk = P /\ k.len = 1 /\ k.fn = "system_execute" /\ k \in Context
    BY <1>3 DEF Context, Functions
  <2>2. stacks[P] = kstk[P] /\ Len(kstk[P]) = 1 /\ kstk[P][1].fn = "system_execute"
    BY <1>3, <1>7 DEF Waiting, First
  <2>3. Live(k, stacks) /\ Current(k.stk)
    BY <1>3, <1>5, <1>6, <2>1, <2>2 DEF Live, Current
  <2>4. /\ cpu' = k.stk /\ wild' = wild /\ ifl' = (ifl \/ k.fn = "schedule" \/ k.len = 1)
        /\ \A q \in Owners : q # k.stk => kstk'[q] = stacks[q]
        /\ Len(kstk'[k.stk]) = k.len - 1
    BY <1>5, <1>7, <2>1, <2>3, JumpEffect
  <2>5. kstk'[P] \in Seq(Frame) /\ Len(kstk'[P]) = 0 BY <1>1, <1>3, <2>1, <2>4 DEF TypeOK
  <2>6. kstk'[P] = <<>> BY <2>5
  <2> QED BY <1>7, <2>1, <2>4, <2>6
<1> QED BY <1>2, <1>3, <1>5, <1>8 DEF P, T

\* system_halt jumps back into its parent's system_execute.
LEMMA HaltJumpInv == ASSUME IInv, HaltJump PROVE IInv'
<1> DEFINE P == parent_pid[cpu]
           T == pid_to_term[cpu]
<1>1. TypeOK' BY ReturnType DEF IInv
<1>2. Running("system_halt", {"jump"}) /\ Running("system_halt", {"switch", "jump"}) /\ Going
      /\ ~Running("system_execute", {"load"}) /\ ~Running("system_halt", {"pop", "switch"})
      /\ ~Running("system_execute", {"load", "enter"}) /\ Top.at = "jump"
  BY DEF HaltJump, At, Running, Going
<1>3. /\ Depth = 1 /\ Top.pid = cpu
      /\ cpu \in Pids /\ cpu \in Owners /\ cpu \notin BasePids /\ cpu \notin Live_pids
      /\ cpu # KERNEL /\ kstk[cpu] # <<>> /\ Len(kstk[cpu]) = 1
      /\ Held = Live_pids \cup {cpu} /\ Parent = [q \in Pids |-> parent_pid[q]]
      /\ Front[T] = cpu /\ cpu \in Nested
      /\ P \in Live_pids /\ P # cpu /\ pid_to_term[P] = T /\ P \in Waiting
      /\ parent_k[cpu] = [stk |-> P, len |-> 1, fn |-> "system_execute"]
      /\ pit_count >= MAX_TERM /\ ~Early /\ ~(pit_count < MAX_TERM)
      /\ curr_pid = P /\ T \in Terms /\ P \in Pids /\ P \in Owners /\ P # KERNEL
      /\ Parent[cpu] = P
  BY <1>2, GoingFacts, ConstantFacts DEF Live_pids, IInv, TypeOK
<1>4. top_pid[T] = P BY <1>2 DEF IInv, Running_process
<1>5. UNCHANGED <<curr_pid, procVars, termVars, clockVars, pageVars, esp0>> BY HaltJumpEffect
<1>6. esp0.stk = P /\ Mapped = P /\ user_page = P /\ vid_page = video_mem[pid_to_term[P]]
  <2>1. Mapped = P BY <1>2, <1>3 DEF Mapped
  <2> QED BY <1>2, <1>3, <2>1 DEF IInv, Mapping
<1> HIDE DEF P, T
<1>8. /\ cpu' = P /\ wild' = wild /\ ifl' /\ kstk'[P] = <<>>
      /\ \A q \in Owners : q # cpu /\ q # P => kstk'[q] = kstk[q]
  BY HaltJumpEffect DEF P
<1>9. /\ ~Coming' /\ ~Going' /\ \A fn, labels : ~Running(fn, labels)'
  BY <1>8 DEF Coming, Going, Running
<1>10. Live_pids' = Live_pids BY <1>5 DEF Live_pids, procVars
<1>11. /\ Held' = Live_pids /\ Parent' = Parent /\ Mapped' = P
       /\ Front'[T] = P /\ \A t \in Terms : t # T => Front'[t] = Front[t]
  <2>1. (~Coming /\ ~Going =>
        /\ Held = Live_pids /\ Parent = [q \in Pids |-> parent_pid[q]]
        /\ Front = [t \in Terms |-> top_pid[t]] /\ Mapped = curr_pid)'
    BY Calm, PTL
  <2>2. \A t \in Terms : t # T => Front[t] = top_pid[t] BY <1>3 DEF Front, T
  <2> QED BY <1>3, <1>4, <1>5, <1>9, <1>10, <2>1, <2>2 DEF procVars
<1>12. Nested' = Nested \ {cpu} BY <1>3, <1>11 DEF Nested
<1>13. \A p \in Held : p \in Pids /\ pid_to_term[p] \in Terms
  BY Basics DEF IInv, TypeOK
<1>14. Rooted'
  <2> SUFFICES ASSUME NEW t \in Terms \cap Live_pids
      PROVE  /\ pid_to_term[t] = t /\ Front'[t] \in Live_pids /\ pid_to_term[Front'[t]] = t
    BY <1>5, <1>11 DEF Rooted, procVars
  <2>1. pid_to_term[t] = t /\ Front[t] \in Held /\ pid_to_term[Front[t]] = t
    BY <1>3 DEF IInv, Rooted
  <2>2. CASE t = T BY <1>3, <1>11, <2>1, <2>2
  <2>3. CASE t # T
    <3>1. Front[t] # cpu BY <2>1, <2>3 DEF T
    <3> QED BY <1>3, <1>11, <2>1, <2>3, <3>1
  <2> QED BY <2>2, <2>3
<1>15. Linked'
  <2> SUFFICES ASSUME NEW q \in Nested \ {cpu}
      PROVE  /\ Parent[q] \in Live_pids /\ pid_to_term[Parent[q]] = pid_to_term[q]
             /\ Front'[pid_to_term[q]] # Parent[q]
             /\ (Parent[q] # P => Parent[q] \in Waiting')
             /\ parent_k[q] = [stk |-> Parent[q], len |-> 1, fn |-> "system_execute"]
    BY <1>5, <1>8, <1>10, <1>11, <1>12 DEF Linked, procVars
  <2>1. /\ Parent[q] \in Live_pids /\ pid_to_term[Parent[q]] = pid_to_term[q]
        /\ Front[pid_to_term[q]] # Parent[q]
        /\ (Parent[q] # cpu => Parent[q] \in Waiting)
        /\ parent_k[q] = [stk |-> Parent[q], len |-> 1, fn |-> "system_execute"]
    BY <1>2 DEF IInv, Linked
  <2>2. Parent[q] # P BY <1>3 DEF IInv, Lineage
  <2>3. Front'[pid_to_term[q]] # Parent[q]
    <3>1. pid_to_term[q] \in Terms BY <1>13 DEF Nested
    <3> QED BY <1>11, <2>1, <2>2, <3>1
  <2>4. Parent[q] \in Waiting /\ kstk'[Parent[q]] = kstk[Parent[q]]
    BY <1>3, <1>8, <2>1, <2>2, ConstantFacts DEF Live_pids
  <2>5. Parent[q] \in Waiting' BY <1>10, <2>1, <2>4 DEF Waiting, First
  <2> QED BY <2>1, <2>3, <2>5
<1>16. Lineage'
  <2>1. \A q, r \in Nested \ {cpu} : Parent[q] = Parent[r] => q = r
    BY DEF IInv, Lineage
  <2>2. ASSUME NEW p \in Live_pids
        PROVE  Front'[pid_to_term[p]] = p \/ \E q \in Nested \ {cpu} : Parent[q] = p
    <3>1. CASE p = P BY <1>3, <1>11, <3>1
    <3>2. CASE p # P
      <4>1. p \in Held /\ p # cpu BY <1>3
      <4>2. Front[pid_to_term[p]] = p \/ \E q \in Nested : Parent[q] = p
        BY <4>1 DEF IInv, Lineage
      <4>3. Front[pid_to_term[p]] = p => Front'[pid_to_term[p]] = p
        BY <1>3, <1>11, <1>13, <4>1
      <4>4. \A q \in Nested : Parent[q] = p => q \in Nested \ {cpu} BY <1>3, <3>2
      <4> QED BY <4>2, <4>3, <4>4
    <3> QED BY <3>1, <3>2
  <2> QED BY <1>5, <1>11, <1>12, <2>1, <2>2 DEF Lineage, procVars
<1>17. Shape'
  <2>1. Len(<<>>) = 0 OBVIOUS
  <2> QED BY <1>8, <2>1 DEF Shape
<1>18. Running_process'
  BY <1>3, <1>5, <1>8, <1>9, <1>11 DEF Running_process, Live_pids, procVars
<1>19. Mapping'
  BY <1>3, <1>5, <1>6, <1>9, <1>11 DEF Mapping, procVars, termVars, pageVars
<1>20. Parked'
  <2> SUFFICES ASSUME NEW p \in Live_pids, p # P, Front'[pid_to_term[p]] = p
               PROVE  Suspended(p)'
    BY <1>5, <1>8, <1>10 DEF Parked, procVars
  <2>1. p \in Held /\ p # cpu /\ p \in Owners BY <1>3, ConstantFacts DEF Live_pids
  <2>2. Front[pid_to_term[p]] = p BY <1>11, <1>13, <2>1
  <2>3. Suspended(p) /\ kstk'[p] = kstk[p] BY <1>8, <2>1, <2>2 DEF IInv, Parked
  <2> QED BY <1>5, <2>3 DEF Suspended, First, Last, procVars
<1>21. Calls'
  <2>1. \A p \in Live_pids \cup {P} : kstk'[p] # <<>> => p \in Live_pids /\ kstk'[p] = kstk[p]
    BY <1>3, <1>8, ConstantFacts DEF Live_pids
  <2>2. Live_pids \subseteq Held BY <1>3
  <2> QED BY <1>5, <1>8, <1>9, <1>10, <1>11, <2>1, <2>2 DEF IInv, Calls, First, procVars, termVars
<1>22. Boot'
  <2>1. pit_count' = pit_count /\ shells_done' = shells_done /\ free_pid' = free_pid
    BY <1>5 DEF procVars, clockVars
  <2>2. ShellsStarted'
    <3>1. shells_done => pit_count >= MAX_TERM - 1 BY DEF IInv, Boot, ShellsStarted
    <3>2. shells_done' => pit_count' >= MAX_TERM - 1 BY <2>1, <3>1, Zenon
    <3> QED BY <1>9, <3>2 DEF ShellsStarted
  <2>3. NoCalls'
    <3>1. ~Early' BY <1>3, <1>9, <2>1 DEF Early
    <3> QED BY <3>1 DEF NoCalls
  <2>4. PidsTaken' BY <1>3, <2>1, Zenon DEF IInv, Boot, PidsTaken
  <2>5. Spawning' BY <1>9 DEF Spawning
  <2> QED BY <2>2, <2>3, <2>4, <2>5 DEF Boot
<1> QED BY <1>1, <1>8, <1>14, <1>15, <1>16, <1>17, <1>18, <1>19, <1>20, <1>21, <1>22 DEF IInv

-----------------------------------------------------------------------------
(* The keyboard, stuttering and the rest *)

\* What a step that only moves the display leaves alone.
LEMMA Untouched ==
    ASSUME IInv, UNCHANGED <<curr_pid, procVars, clockVars, user_page, esp0, cpuVars>>
    PROVE  /\ Shape' /\ Running_process' /\ Rooted' /\ Linked' /\ Lineage' /\ Parked'
           /\ ShellsStarted' /\ NoCalls' /\ PidsTaken' /\ ~wild'
           /\ Held' = Held /\ Live_pids' = Live_pids /\ Mapped' = Mapped /\ Top' = Top /\ cpu' = cpu
           /\ Coming' = Coming
           /\ \A fn, labels : Running(fn, labels)' = Running(fn, labels)
<1> USE DEF procVars, clockVars, cpuVars
<1>1. Top' = Top /\ cpu' = cpu /\ kstk' = kstk /\ kstk'[cpu'] = kstk[cpu] BY DEF Top, Depth
<1>2. \A fn, labels : Running(fn, labels)' = Running(fn, labels) BY <1>1 DEF Running
<1>3. Coming' = Coming /\ Going' = Going BY <1>2 DEF Coming, Going
<1>4. Live_pids' = Live_pids BY DEF Live_pids
<1>5. Held' = Held BY <1>1, <1>3, <1>4 DEF Held
<1>6. Nested' = Nested BY <1>5 DEF Nested
<1>7. Parent' = Parent BY <1>1, <1>2 DEF Parent
<1>8. Front' = Front BY <1>1, <1>2 DEF Front
<1>9. Mapped' = Mapped BY <1>1, <1>2 DEF Mapped
<1>10. Waiting' = Waiting BY <1>1 DEF Waiting, First
<1>11. Shape' BY <1>1, <1>2, <1>3 DEF IInv, Shape, First, Open
<1>12. Running_process' BY <1>1, <1>2, <1>3, <1>8 DEF IInv, Running_process, First
<1>13. Rooted' BY <1>5, <1>8 DEF IInv, Rooted
<1>14. Linked' BY <1>1, <1>2, <1>4, <1>6, <1>7, <1>8, <1>10 DEF IInv, Linked
<1>15. Lineage' BY <1>5, <1>6, <1>7, <1>8 DEF IInv, Lineage
<1>16. Parked' BY <1>1, <1>4, <1>8 DEF IInv, Parked, Suspended, First, Last, Open
<1>17. ShellsStarted' BY <1>2 DEF IInv, Boot, ShellsStarted
<1>18. NoCalls' BY <1>1, <1>2, <1>4 DEF IInv, Boot, NoCalls, Early, First
<1>19. PidsTaken' BY <1>1, Zenon DEF IInv, Boot, PidsTaken
<1>20. ~wild' BY DEF IInv
<1> QED BY <1>1, <1>2, <1>3, <1>4, <1>5, <1>9, <1>11, <1>12, <1>13, <1>14, <1>15, <1>16,
           <1>17, <1>18, <1>19, <1>20

\* A process that is in system_vidmap has yet to store the entry.
LEMMA Storing ==
    ASSUME IInv, NEW p \in Live_pids \cup {cpu}, kstk[p] # <<>>, First(p).fn = "system_vidmap"
    PROVE  First(p).at = "store"
<1>1. CASE p = cpu
  <2>1. Len(kstk[cpu]) # 0 BY <1>1, Basics
  <2>2. Len(kstk[cpu]) = 1 => First(cpu) = Top BY Basics
  <2> QED BY <1>1, <2>1, <2>2 DEF IInv, Shape, Open, Coming, Going, Running
<1>2. CASE p # cpu
  <2>1. CASE Front[pid_to_term[p]] = p
    <3>1. Suspended(p) BY <1>2, <2>1 DEF IInv, Parked
    <3> QED BY <3>1 DEF Suspended, Open
  <2>2. CASE Front[pid_to_term[p]] # p
    <3>1. p \in Held BY <1>2, Basics
    <3>2. PICK q \in Nested : Parent[q] = p BY <2>2, <3>1 DEF IInv, Lineage
    <3>3. p \in Waiting BY <1>2, <3>2 DEF IInv, Linked
    <3> QED BY <3>3 DEF Waiting
  <2> QED BY <2>1, <2>2
<1> QED BY <1>1, <1>2

\* The first and the last frame of a stack are among all the frames.
LEMMA FramesOf ==
    ASSUME TypeOK, NEW p \in Owners, kstk[p] # <<>>
    PROVE  First(p) \in Frames /\ Last(p) \in Frames
<1>1. kstk[p] \in Seq(Frame) BY DEF TypeOK
<1>2. 1 \in 1 .. Len(kstk[p]) /\ Len(kstk[p]) \in 1 .. Len(kstk[p]) BY <1>1
<1>3. {kstk[p][i] : i \in 1 .. Len(kstk[p])} \subseteq Frames BY DEF Frames
<1> QED BY <1>2, <1>3 DEF First, Last

\* A key moves the display to another terminal.
LEMMA KeySwitchInv ==
    ASSUME IInv, Needed \subseteq Discipline, NEW t \in Terms, KeySwitch(t) PROVE IInv'
<1> USE DEF Rule
<1>1. TypeOK' BY KeySwitchType DEF IInv
<1>2. {"own_term", "mapped", "boot"} \subseteq Discipline BY DEF Needed, Rules
<1>3. /\ ifl /\ t # curr_term /\ term_switch(t) /\ curr_pid # KERNEL
      /\ UNCHANGED <<curr_pid, procVars, clockVars, user_page, esp0, cpuVars>>
      /\ ~\E f \in Frames : f.at \in {"find", "open"}
      /\ ~\E f \in Frames : f.at = "store"
  BY <1>2 DEF KeySwitch, SwitchAllowed
<1>4. /\ Shape' /\ Running_process' /\ Rooted' /\ Linked' /\ Lineage' /\ Parked'
      /\ ShellsStarted' /\ NoCalls' /\ PidsTaken' /\ ~wild'
      /\ Held' = Held /\ Live_pids' = Live_pids /\ Mapped' = Mapped /\ Top' = Top /\ cpu' = cpu
      /\ Coming' = Coming
      /\ \A fn, labels : Running(fn, labels)' = Running(fn, labels)
  BY <1>3, Untouched
<1>5. \A p \in Live_pids \cup {cpu} : kstk[p] # <<>> =>
         First(p).at \notin {"find", "open"} /\ First(p).fn # "system_vidmap"
  BY <1>3, FramesOf, Storing, Basics, ConstantFacts DEF IInv, Live_pids
<1>6. kstk' = kstk BY <1>3 DEF cpuVars
<1>7. Calls'
  <2>1. UNCHANGED <<free_pid, parent_pid, pid_to_term, kstk, cpu>> BY <1>3 DEF procVars, cpuVars
  <2> QED BY <1>4, <1>5, <2>1 DEF IInv, Calls, First
<1>8. Spawning'
  <2>1. kstk[cpu] # <<>> => Top.at \notin {"find", "open"}
    <3>1. kstk[cpu] # <<>> => Last(cpu) \in Frames /\ Last(cpu) = Top
      BY FramesOf, Basics DEF IInv, Last, Top, Depth
    <3> QED BY <1>3, <3>1
  <2>2. UNCHANGED <<pit_count, pid_to_term, my_k, kstk, cpu>> BY <1>3 DEF procVars, clockVars, cpuVars
  <2> QED BY <1>4, <2>1, <2>2 DEF IInv, Boot, Spawning, First, Running
<1>9. Mapping'
  <2>1. curr_pid \in Pids /\ pid_to_term[curr_pid] \in Terms
    BY <1>3 DEF IInv, TypeOK, Owners
  <2>2. vid_page' = video_mem'[pid_to_term[curr_pid]]
    BY <1>3, <2>1 DEF term_switch, TermsOf
  <2>3. Mapped # KERNEL => pid_to_term[Mapped] = pid_to_term[curr_pid]
    <3>1. CASE Running("system_execute", {"load", "enter"})
      <4>1. Coming /\ Mapped = Top.pid /\ ~Running("system_execute", {"flag"})
        BY <3>1 DEF Mapped, Coming, Running
      <4>2. Depth = 1 BY <1>3, <4>1, ChildFacts, ExecWhere DEF IInv
      <4>3. curr_pid = cpu BY <1>3, <4>1, <4>2, ChildFacts, ExecWhere
      <4> QED BY <4>1, <4>2, <4>3, ChildFacts
    <3>2. CASE Running("system_halt", {"pop", "switch"})
      <4>1. Going /\ ~Running("system_halt", {"jump"}) /\ ~Running("system_execute", {"load", "enter"})
        BY <3>2 DEF Going, Running
      <4>2. Mapped = parent_pid[cpu] /\ curr_pid = cpu BY <3>2, <4>1, GoingFacts DEF Mapped
      <4> QED BY <4>1, <4>2, GoingFacts
    <3>3. CASE ~Running("system_execute", {"load", "enter"}) /\ ~Running("system_halt", {"pop", "switch"})
      BY <3>3 DEF Mapped
    <3> QED BY <3>1, <3>2, <3>3
  <2>4. UNCHANGED <<curr_pid, parent_pid, pid_to_term, cpu, esp0, user_page>>
    BY <1>3 DEF procVars, cpuVars
  <2> QED BY <1>4, <2>2, <2>3, <2>4 DEF IInv, Mapping
<1> QED BY <1>1, <1>4, <1>7, <1>8, <1>9 DEF IInv, Boot

\* The invariant is about the variables only.
LEMMA StutterInv == ASSUME IInv, UNCHANGED vars PROVE IInv'
<1>1. TypeOK' BY NextType DEF IInv
<1>2. UNCHANGED <<curr_pid, procVars, termVars, clockVars, pageVars, esp0, cpuVars>> BY DEF vars
<1>3. /\ Shape' /\ Running_process' /\ Rooted' /\ Linked' /\ Lineage' /\ Parked'
      /\ ShellsStarted' /\ NoCalls' /\ PidsTaken' /\ ~wild'
      /\ Held' = Held /\ Live_pids' = Live_pids /\ Mapped' = Mapped /\ Top' = Top /\ cpu' = cpu
      /\ Coming' = Coming
      /\ \A fn, labels : Running(fn, labels)' = Running(fn, labels)
  BY <1>2, Untouched DEF pageVars
<1>4. UNCHANGED <<curr_pid, parent_pid, pid_to_term, free_pid, my_k, cpu, kstk, esp0, pit_count,
                  user_page, vid_page, curr_term, video_mem>>
  BY <1>2 DEF procVars, termVars, clockVars, pageVars, cpuVars
<1>5. Mapping' BY <1>3, <1>4 DEF IInv, Mapping
<1>6. Calls' BY <1>3, <1>4 DEF IInv, Calls, First
<1>7. Spawning' BY <1>3, <1>4 DEF IInv, Boot, Spawning, First
<1> QED BY <1>1, <1>3, <1>5, <1>6, <1>7 DEF IInv, Boot

\* Every step keeps the invariant.
LEMMA NextInv == ASSUME IInv, Needed \subseteq Discipline, [Next]_vars PROVE IInv'
<1>1. {"good_image", "no_fault"} \subseteq Discipline BY DEF Needed, Rules
<1>2. CASE Tick BY <1>2, TickInv
<1>3. CASE KernelStep
  <2>1. ~ExecLoadFail BY <1>1 DEF ExecLoadFail, Rule
  <2> QED BY <1>3, <2>1, ScheduleSpawnInv, ScheduleSwitchInv, ExecPickInv, ExecRejectInv, ExecBindInv,
             ExecLinkInv, ExecSwitchInv, ExecEnterInv, HaltFreeInv, HaltUnmapInv, HaltPopInv,
             HaltSwitchInv, HaltJumpInv, VidmapStoreInv
          DEF KernelStep, ScheduleStep, ExecuteStep, HaltStep
<1>4. CASE SyscallExecute \/ SyscallHalt \/ SyscallVidmap BY <1>4, SyscallInv
<1>5. CASE \E t \in Terms : KeySwitch(t) BY <1>5, KeySwitchInv
<1>6. CASE Fault BY <1>1, <1>6 DEF Fault, Rule
<1>7. CASE UNCHANGED vars BY <1>7, StutterInv
<1> QED BY <1>2, <1>3, <1>4, <1>5, <1>6, <1>7 DEF Next

\* The first state: entry is about to start the first shell.
LEMMA InitInv == Init => IInv
<1> SUFFICES ASSUME Init PROVE IInv OBVIOUS
<1> DEFINE m == [fn |-> "entry", at |-> "main", pid |-> KERNEL]
           f == [fn |-> "system_execute", at |-> "find", pid |-> KERNEL]
<1>1. TypeOK BY InitType
<1>2. /\ 0 \in Pids /\ 0 \in Owners /\ 0 \in Terms /\ 0 < MAX_TERM /\ MAX_TERM \in Nat /\ MAX_TERM >= 2
      /\ KERNEL \notin Pids
  BY ConstantFacts, KernelAssumption
<1>3. /\ curr_pid = KERNEL /\ free_pid = [p \in Pids |-> TRUE] /\ pit_count = 0 /\ shells_done = FALSE
      /\ curr_term = 0 /\ user_page = KERNEL /\ cpu = 0 /\ ifl = TRUE /\ wild = FALSE
      /\ kstk[cpu] = <<m, f>>
  BY <1>2 DEF Init
<1>4. /\ Len(<<m, f>>) = 2 /\ <<m, f>>[1] = m /\ <<m, f>>[2] = f /\ <<m, f>> # <<>>
  <2> HIDE DEF m, f
  <2>1. Len(<<m, f>>) = 2 /\ <<m, f>>[1] = m /\ <<m, f>>[2] = f OBVIOUS
  <2>2. Len(<<>>) = 0 OBVIOUS
  <2> QED BY <2>1, <2>2
<1>5. /\ kstk[cpu] # <<>> /\ Depth = 2 /\ Len(kstk[cpu]) = 2 /\ First(cpu) = m /\ Top = f
  BY <1>3, <1>4 DEF Depth, First, Top
<1>6. First(cpu).fn = "entry" /\ Top.fn = "system_execute" /\ Top.at = "find" BY <1>5
<1> HIDE DEF m, f
<1>7. /\ ~Coming /\ ~Going /\ Running("system_execute", ExecLabels)
      /\ \A labels : ~Running("schedule", labels) /\ ~Running("system_halt", labels)
  BY <1>5, <1>6 DEF Coming, Going, Running, ExecLabels
<1>8. Live_pids = {} BY <1>3 DEF Live_pids
<1>9. Held = {} /\ Nested = {} /\ Mapped = KERNEL BY <1>3, <1>7, <1>8, Calm DEF Nested
<1>10. Shape BY <1>3, <1>5, <1>6, <1>7 DEF Shape
<1>11. Running_process
  <2>1. free_pid[cpu] BY <1>2, <1>3
  <2>2. ~Running("system_execute", {"flag"}) BY <1>6 DEF Running
  <2> QED BY <1>2, <1>3, <1>5, <1>6, <1>7, <2>1, <2>2 DEF Running_process
<1>12. Mapping BY <1>3, <1>9 DEF Mapping
<1>13. Rooted /\ Linked /\ Lineage /\ Parked BY <1>8, <1>9 DEF Rooted, Linked, Lineage, Parked
<1>14. Calls
  <2>1. Live_pids \cup {cpu} = {cpu} BY <1>8
  <2> QED BY <1>6, <1>7, <2>1 DEF Calls
<1>15. ShellsStarted /\ NoCalls BY <1>3, <1>8 DEF ShellsStarted, NoCalls
<1>16. PidsTaken
  <2>1. ~(pit_count >= MAX_TERM) BY <1>2, <1>3
  <2>2. \A p \in Pids : ~(p < pit_count) BY <1>3 DEF Pids
  <2>3. \A p \in Pids : free_pid[p] BY <1>3
  <2> QED BY <1>5, <2>1, <2>2, <2>3, Zenon DEF PidsTaken
<1>17. Spawning BY <1>2, <1>3, <1>6, <1>7 DEF Spawning
<1> QED BY <1>1, <1>3, <1>10, <1>11, <1>12, <1>13, <1>14, <1>15, <1>16, <1>17 DEF IInv, Boot

-----------------------------------------------------------------------------
(* The theorems *)

\* Under the rules every state of every run satisfies the invariant.
THEOREM Invariant == Needed \subseteq Discipline => (Spec => []IInv)
<1> SUFFICES ASSUME Needed \subseteq Discipline PROVE Spec => []IInv OBVIOUS
<1>1. IInv /\ [Next]_vars => IInv' BY NextInv
<1> QED BY <1>1, InitInv, PTL DEF Spec

\* schedule, system_execute and system_halt never load an (ebp, esp) whose frame
\* is gone or that ends in another process's program, for every number of
\* processes and terminals.
THEOREM ContextsAreLive == Needed \subseteq Discipline => (Spec => []NeverWild)
<1> SUFFICES ASSUME Needed \subseteq Discipline PROVE Spec => []NeverWild OBVIOUS
<1>1. IInv => NeverWild BY DEF IInv, NeverWild
<1> QED BY <1>1, Invariant, PTL

\* A program always runs on its own page and with its own kernel stack in the
\* TSS, its pid is taken, and its terminal's top_pid names it.
THEOREM ProcessesAreIsolated == Needed \subseteq Discipline => (Spec => []Isolation)
<1> SUFFICES ASSUME Needed \subseteq Discipline PROVE Spec => []Isolation OBVIOUS
<1>1. IInv => Isolation
  <2> SUFFICES ASSUME IInv, InUser PROVE /\ cpu = curr_pid /\ user_page = curr_pid
                                         /\ esp0.stk = curr_pid /\ ~free_pid[curr_pid]
                                         /\ top_pid[pid_to_term[curr_pid]] = curr_pid
    BY DEF Isolation
  <2>1. /\ ~Coming /\ ~Going /\ curr_pid = cpu /\ cpu \in Live_pids /\ esp0.stk = cpu
        /\ top_pid[pid_to_term[cpu]] = cpu
    BY UserFacts
  <2>2. user_page = curr_pid BY <2>1, Calm DEF IInv, Mapping
  <2> QED BY <2>1, <2>2 DEF Live_pids
<1> QED BY <1>1, Invariant, PTL

\* Through vidmap a program draws on its own terminal's page, the display while
\* that terminal is shown and its backing page otherwise.
THEOREM VidmapIsOwn == Needed \subseteq Discipline => (Spec => []VidmapFollowsTerminal)
<1> SUFFICES ASSUME Needed \subseteq Discipline PROVE Spec => []VidmapFollowsTerminal OBVIOUS
<1>1. IInv => VidmapFollowsTerminal
  <2> SUFFICES ASSUME IInv, InUser PROVE vid_page = video_mem[pid_to_term[curr_pid]]
    BY DEF VidmapFollowsTerminal
  <2>1. Mapped = curr_pid /\ curr_pid # KERNEL BY UserFacts, Calm, ConstantFacts
  <2> QED BY <2>1 DEF IInv, Mapping
<1> QED BY <1>1, Invariant, PTL

\* Every live process is its terminal's newest, or waits in system_execute at the
\* frame its one child will return to.
THEOREM NobodyIsLost == Needed \subseteq Discipline => (Spec => []NobodyLost)
<1> SUFFICES ASSUME Needed \subseteq Discipline PROVE Spec => []NobodyLost OBVIOUS
<1>1. IInv => NobodyLost
  <2> SUFFICES ASSUME IInv, InUser, NEW p \in Live_pids
      PROVE IF Children(p) = {} THEN top_pid[pid_to_term[p]] = p
            ELSE \E q \in Children(p) :
                    /\ Children(p) = {q} /\ pid_to_term[q] = pid_to_term[p]
                    /\ parent_k[q].stk = p /\ Live(parent_k[q], kstk)
    BY DEF NobodyLost
  <2>1. /\ ~Coming /\ ~Going /\ Held = Live_pids /\ Parent = [q \in Pids |-> parent_pid[q]]
        /\ Front = [t \in Terms |-> top_pid[t]] /\ Front[pid_to_term[cpu]] = cpu
    BY UserFacts, Calm DEF IInv, TypeOK
  <2>2. p \in Pids /\ pid_to_term[p] \in Terms BY DEF Live_pids, IInv, TypeOK
  <2>3. \A q : q \in Children(p) <=> q \in Nested /\ Parent[q] = p
    BY <2>1 DEF Children, Nested, Live_pids
  <2>4. CASE Children(p) = {}
    <3>1. Front[pid_to_term[p]] = p BY <2>1, <2>3, <2>4 DEF IInv, Lineage
    <3> QED BY <2>1, <2>2, <2>4, <3>1
  <2>5. CASE Children(p) # {}
    <3>1. PICK q \in Children(p) : TRUE BY <2>5
    <3>2. q \in Nested /\ Parent[q] = p BY <2>3, <3>1
    <3>3. Children(p) = {q} BY <2>3, <3>2 DEF IInv, Lineage
    <3>4. /\ pid_to_term[p] = pid_to_term[q] /\ Front[pid_to_term[q]] # p
          /\ (p # cpu => p \in Waiting)
          /\ parent_k[q] = [stk |-> p, len |-> 1, fn |-> "system_execute"]
      BY <2>1, <3>2 DEF IInv, Linked, Coming, Running
    <3>5. p \in Waiting BY <2>1, <3>4
    <3>6. Len(kstk[p]) = 1 /\ kstk[p][1].fn = "system_execute" BY <3>5 DEF Waiting, First
    <3>7. Live(parent_k[q], kstk) BY <3>4, <3>6 DEF Live
    <3> QED BY <2>5, <3>1, <3>3, <3>4, <3>7
  <2> QED BY <2>4, <2>5
<1> QED BY <1>1, Invariant, PTL

-----------------------------------------------------------------------------
(* Sessions.  What IInv lacks for them: whose turn it is, and from whom the *)
(* shells of the boot come.                                                 *)

\* The processor is still in entry's call of system_execute.
Entering == kstk[cpu] # <<>> /\ First(cpu).fn = "entry"
Starts   == Running("system_execute", {"enter", "flag"})
Fresh    == kstk[cpu] = <<>> \/ Entering

\* The turn is the running process's terminal; shells start in their order.
Turns ==
    /\ pit_count < MAX_TERM => /\ schedule_counter = MAX_TERM - 1
                               /\ (Fresh => cpu = pit_count)
                               /\ (~Fresh => cpu = pit_count - 1)
    /\ pit_count >= MAX_TERM => schedule_counter = pid_to_term[cpu]
    /\ Entering => pid_to_term[cpu] = 0
    /\ Starts /\ Entering => parent_pid[Top.pid] = KERNEL
    /\ Starts /\ ~Entering => parent_pid[Top.pid] = cpu

\* A process that starts or halts does not count for its terminal's programs:
\* then the one below it is the last of them.
Aside  == (Coming \/ Going) /\ Top.pid \in Nested
Tip(t) == IF Aside /\ Front[t] = Top.pid THEN Parent[Top.pid] ELSE Front[t]

\* The programs on a terminal are known once its shell is.
LEMMA TermIsLive ==
    ASSUME IInv, NEW p \in Live_pids PROVE pid_to_term[p] \in Live_pids /\ pid_to_term[p] \in Terms
<1>1. p \in Pids /\ pid_to_term[p] \in Terms /\ p \in Held BY Basics DEF Live_pids, IInv, TypeOK
<1>2. pit_count \in Nat /\ MAX_TERM \in Nat BY KernelAssumption DEF IInv, TypeOK
<1>3. CASE pit_count >= MAX_TERM
  <2>1. ~free_pid[pid_to_term[p]] BY <1>1, <1>3 DEF IInv, Boot, PidsTaken
  <2> QED BY <1>1, <2>1, ConstantFacts DEF Live_pids
<1>4. CASE pit_count < MAX_TERM
  <2>1. p < pit_count + 1
    <3>1. ~free_pid[p] BY DEF Live_pids
    <3>2. CASE kstk[cpu] = <<>> BY <1>1, <1>4, <3>1, <3>2 DEF IInv, Boot, PidsTaken
    <3>3. CASE kstk[cpu] # <<>>
      <4>1. p < pit_count BY <1>1, <1>4, <3>1, <3>3 DEF IInv, Boot, PidsTaken
      <4> QED BY <1>1, <1>2, <4>1 DEF Pids
    <3> QED BY <3>2, <3>3
  <2>2. p \in Terms BY <1>1, <1>2, <1>4, <2>1 DEF Pids, Terms
  <2>3. pid_to_term[p] = p BY <1>1, <2>2 DEF IInv, Rooted
  <2> QED BY <1>1, <2>3
<1> QED BY <1>2, <1>3, <1>4

\* A process that starts or halts is its terminal's newest.
LEMMA AsideFacts ==
    ASSUME IInv, Aside
    PROVE  /\ Top.pid \in Pids \ Live_pids /\ Top.pid \in Nested
           /\ Parent[Top.pid] \in Live_pids /\ Front[pid_to_term[Top.pid]] = Top.pid
           /\ pid_to_term[Parent[Top.pid]] = pid_to_term[Top.pid]
           /\ Held = Live_pids \cup {Top.pid}
<1>1. Top.pid \in Nested /\ Top.pid \in Held BY DEF Aside, Nested
<1>2. Top.pid \in Pids \ Live_pids /\ Held = Live_pids \cup {Top.pid}
  BY ChildFacts, GoingFacts DEF Aside
<1>3. Parent[Top.pid] \in Live_pids /\ pid_to_term[Parent[Top.pid]] = pid_to_term[Top.pid]
  BY <1>1 DEF IInv, Linked
<1>4. Front[pid_to_term[Top.pid]] = Top.pid
  <2>1. ASSUME NEW q \in Nested, Parent[q] = Top.pid PROVE FALSE
    BY <1>2, <2>1 DEF IInv, Linked
  <2> QED BY <1>1, <2>1 DEF IInv, Lineage
<1> QED BY <1>1, <1>2, <1>3, <1>4

\* A terminal's newest process is alive, starts or halts.
LEMMA FrontFacts ==
    ASSUME IInv, NEW t \in Terms \cap Live_pids
    PROVE  /\ pid_to_term[Front[t]] = t
           /\ ~(Aside /\ Front[t] = Top.pid) => Front[t] \in Live_pids
<1>1. t \in Terms \cap Held BY Basics
<1>2. Front[t] \in Held /\ pid_to_term[Front[t]] = t BY <1>1 DEF IInv, Rooted
<1>3. ASSUME Front[t] \notin Live_pids PROVE Aside /\ Front[t] = Top.pid
  <2>1. (Coming \/ Going) /\ Front[t] = Top.pid BY <1>2, <1>3 DEF Held
  <2>2. CASE Going BY <2>1, <2>2, GoingFacts DEF Aside
  <2>3. CASE Coming
    <3>1. Depth # 2
      <4> SUFFICES ASSUME Depth = 2 PROVE FALSE OBVIOUS
      <4>1. Top.pid = pit_count /\ pid_to_term[pit_count] = pit_count /\ Top.pid \notin Live_pids
        BY <2>3, ChildFacts
      <4> QED BY <1>2, <2>1, <4>1
    <3>2. Top.pid \in Nested BY <2>3, <3>1, ChildFacts
    <3> QED BY <2>1, <3>2 DEF Aside
  <2> QED BY <2>1, <2>2, <2>3
<1> QED BY <1>2, <1>3

\* A live process's children are those whose parent it is in the tree.
LEMMA ChildrenAre ==
    ASSUME IInv, NEW p
    PROVE  Children(p) = {q \in Nested \cap Live_pids : Parent[q] = p}
<1>1. ASSUME NEW q \in Live_pids PROVE Parent[q] = parent_pid[q]
  <2>1. q \in Pids BY DEF Live_pids
  <2>2. Running("system_execute", {"load"}) => Top.pid \notin Live_pids
    BY ChildFacts DEF Coming, Running
  <2> QED BY <2>1, <2>2 DEF Parent
<1>2. \A q \in Live_pids : q \in Nested <=> q \notin BasePids BY Basics DEF Nested
<1> QED BY <1>1, <1>2 DEF Children

\* The program on top of each terminal.
LEMMA TopIs ==
    IInv => \A t \in Terms : /\ t \in Live_pids => top[t] = Tip(t) /\ Tip(t) \in Live_pids
                             /\ t \notin Live_pids => top[t] = KERNEL
<1> SUFFICES ASSUME IInv, NEW t \in Terms
    PROVE  /\ t \in Live_pids => top[t] = Tip(t) /\ Tip(t) \in Live_pids
           /\ t \notin Live_pids => top[t] = KERNEL
  OBVIOUS
<1>0. top[t] = IF OnTop(t) = {} THEN KERNEL ELSE CHOOSE p \in OnTop(t) : TRUE BY DEF top
<1>1. ASSUME t \notin Live_pids PROVE OnTop(t) = {}
  BY <1>1, TermIsLive DEF OnTop
<1>2. ASSUME t \in Live_pids PROVE OnTop(t) = {Tip(t)} /\ Tip(t) \in Live_pids
  <2>1. ASSUME NEW p \in OnTop(t) PROVE p = Tip(t)
    <3>1. p \in Live_pids /\ p \in Held /\ pid_to_term[p] = t /\ Children(p) = {}
      BY Basics DEF OnTop
    <3>2. CASE Front[t] = p
      <4>1. ~(Aside /\ Front[t] = Top.pid) BY <3>1, <3>2, AsideFacts
      <4> QED BY <3>2, <4>1 DEF Tip
    <3>3. CASE Front[t] # p
      <4>1. PICK q \in Nested : Parent[q] = p BY <3>1, <3>3 DEF IInv, Lineage
      <4>2. q \notin Live_pids BY <3>1, <4>1, ChildrenAre
      <4>3. q = Top.pid /\ Aside BY <4>1, <4>2 DEF Nested, Held, Aside
      <4>4. Front[t] = Top.pid BY <3>1, <4>1, <4>3, AsideFacts
      <4> QED BY <4>1, <4>3, <4>4 DEF Tip
    <3> QED BY <3>2, <3>3
  <2>2. Tip(t) \in OnTop(t) /\ Tip(t) \in Live_pids
    <3>0. t \in Terms \cap Live_pids BY <1>2
    <3>1. CASE Aside /\ Front[t] = Top.pid
      <4>1. Tip(t) = Parent[Top.pid] BY <3>1 DEF Tip
      <4>2. Tip(t) \in Live_pids /\ pid_to_term[Tip(t)] = t
        BY <3>0, <3>1, <4>1, AsideFacts, FrontFacts
      <4>3. \A q \in Nested : Parent[q] = Tip(t) => q = Top.pid
        BY <3>1, <4>1, AsideFacts DEF IInv, Lineage
      <4>4. Children(Tip(t)) = {} BY <3>1, <4>3, ChildrenAre, AsideFacts
      <4> QED BY <4>2, <4>4 DEF OnTop
    <3>2. CASE ~(Aside /\ Front[t] = Top.pid)
      <4>1. Tip(t) = Front[t] BY <3>2 DEF Tip
      <4>2. Tip(t) \in Live_pids /\ pid_to_term[Tip(t)] = t BY <3>0, <3>2, <4>1, FrontFacts
      <4>3. ASSUME NEW q \in Nested, Parent[q] = Tip(t) PROVE FALSE
        <5>1. pid_to_term[Parent[q]] = pid_to_term[q] /\ Front[pid_to_term[q]] # Parent[q]
          BY DEF IInv, Linked
        <5> QED BY <4>1, <4>2, <4>3, <5>1
      <4>4. Children(Tip(t)) = {} BY <4>3, ChildrenAre
      <4> QED BY <4>2, <4>4 DEF OnTop
    <3> QED BY <3>1, <3>2
  <2> QED BY <2>1, <2>2
<1>3. \A x : (CHOOSE p \in {x} : TRUE) = x OBVIOUS
<1> QED BY <1>0, <1>1, <1>2, <1>3

\* A step that neither takes nor frees a pid, and moves nobody, is not seen.
LEMMA SameTop ==
    ASSUME IInv, free_pid' = free_pid,
           \A p \in Live_pids : parent_pid'[p] = parent_pid[p] /\ pid_to_term'[p] = pid_to_term[p]
    PROVE  top' = top /\ under' = under /\ Live_pids' = Live_pids
<1>1. Live_pids' = Live_pids BY DEF Live_pids
<1>2. ASSUME NEW p PROVE Children(p)' = Children(p) BY <1>1 DEF Children
<1>3. ASSUME NEW t \in Terms PROVE OnTop(t)' = OnTop(t) BY <1>1, <1>2 DEF OnTop
<1> DEFINE F(S) == IF S = {} THEN KERNEL ELSE CHOOSE p \in S : TRUE
<1>4. top' = top
  <2>1. top = [t \in Terms |-> F(OnTop(t))] BY DEF top
  <2>2. top' = [t \in Terms |-> F(OnTop(t)')] BY DEF top
  <2> HIDE DEF F
  <2> QED BY <1>3, <2>1, <2>2
<1>5. under' = under BY DEF under, Live_pids
<1> QED BY <1>1, <1>4, <1>5

\* The turn is the running process's terminal's.
LEMMA TurnIs == IInv /\ Turns => turn = pid_to_term[cpu]
<1> SUFFICES ASSUME IInv, Turns PROVE turn = pid_to_term[cpu] OBVIOUS
<1>1. CASE At("system_execute", "flag")
  <2>1. Running("system_execute", {"flag"}) /\ Starts BY <1>1 DEF At, Running, Starts
  <2>2. curr_pid = Top.pid BY <2>1 DEF IInv, Running_process
  <2>3. turn = IF parent_pid[Top.pid] = KERNEL THEN 0 ELSE pid_to_term[parent_pid[Top.pid]]
    BY <1>1, <2>2 DEF turn
  <2>4. CASE Entering BY <2>1, <2>3, <2>4 DEF Turns
  <2>5. CASE ~Entering BY <2>1, <2>3, <2>5, Basics, ConstantFacts DEF Turns
  <2> QED BY <2>4, <2>5
<1>2. CASE ~At("system_execute", "flag")
  <2>1. ~Running("system_execute", {"flag"}) BY <1>2 DEF At, Running, IInv
  <2>2. turn = IF curr_pid = KERNEL THEN 0 ELSE pid_to_term[curr_pid] BY <1>2 DEF turn
  <2>3. CASE Running("system_halt", {"jump"})
    <3>1. Going BY <2>3 DEF Going, Running
    <3>2. curr_pid \in Pids /\ pid_to_term[curr_pid] = pid_to_term[cpu]
      BY <2>3, <3>1, GoingFacts DEF Live_pids
    <3> QED BY <2>2, <3>2, ConstantFacts
  <2>4. CASE ~Running("system_halt", {"jump"}) /\ ~Entering
    <3>1. curr_pid = cpu BY <2>1, <2>4 DEF IInv, Running_process, Entering
    <3> QED BY <2>2, <3>1, Basics, ConstantFacts
  <2>5. CASE Entering
    <3>1. curr_pid = KERNEL BY <2>1, <2>5 DEF IInv, Running_process, Entering
    <3> QED BY <2>2, <2>5, <3>1 DEF Turns
  <2> QED BY <2>3, <2>4, <2>5
<1> QED BY <1>1, <1>2

\* After the boot the turn is all there is to show.
LEMMA LateTurns == IInv /\ pit_count >= MAX_TERM /\ schedule_counter = pid_to_term[cpu] => Turns
<1> SUFFICES ASSUME IInv, pit_count >= MAX_TERM, schedule_counter = pid_to_term[cpu] PROVE Turns
  OBVIOUS
<1>1. ~(pit_count < MAX_TERM) /\ pit_count # 0 BY KernelAssumption DEF IInv, TypeOK
<1>2. ~Entering BY <1>1 DEF IInv, Running_process, Entering
<1>3. Starts => parent_pid[Top.pid] = cpu
  <2> SUFFICES ASSUME Starts PROVE parent_pid[Top.pid] = cpu OBVIOUS
  <2>1. Coming BY DEF Starts, Coming, Running
  <2>2. Depth = 1 /\ Len(kstk[cpu]) = 1 BY <1>1, <2>1, ChildFacts
  <2> QED BY <2>1, <2>2 DEF IInv, Calls, Starts
<1> QED BY <1>1, <1>2, <1>3 DEF Turns

\* A step that Sessions does not see.
Inside ==
    /\ free_pid' = free_pid /\ pid_to_term'[cpu'] = pid_to_term[cpu]
    /\ \A p \in Live_pids : parent_pid'[p] = parent_pid[p] /\ pid_to_term'[p] = pid_to_term[p]

\* Most steps leave it all alone.
LEMMA StaysInside ==
    ASSUME UNCHANGED <<free_pid, parent_pid, pid_to_term, cpu>> PROVE Inside
BY DEF Inside

\* Late steps that keep the running process's terminal.
LEMMA LateInside ==
    ASSUME IInv, Turns, pit_count >= MAX_TERM, UNCHANGED <<pit_count, schedule_counter>>,
           Inside, IInv'
    PROVE  Turns'
<1>1. (IInv /\ pit_count >= MAX_TERM /\ schedule_counter = pid_to_term[cpu] => Turns)'
  BY LateTurns, PTL
<1> QED BY <1>1 DEF Turns, Inside

\* A system call starts and returns on its process.
LEMMA CallInside ==
    ASSUME IInv, Turns, Needed \subseteq Discipline, IInv',
           SyscallExecute \/ SyscallHalt \/ SyscallVidmap \/ ExecReject \/ VidmapStore
    PROVE  Turns' /\ Inside
<1> USE DEF Rule
<1>1. TypeOK' BY DEF IInv
<1>2. CASE SyscallExecute \/ SyscallHalt \/ SyscallVidmap
  <2>1. "boot" \in Discipline BY DEF Needed, Rules
  <2>2. InUser /\ esp0.stk = cpu BY <1>2, UserFacts DEF SyscallExecute, SyscallHalt, SyscallVidmap
  <2>3. /\ pit_count >= MAX_TERM
        /\ UNCHANGED <<free_pid, parent_pid, pid_to_term, cpu, pit_count, schedule_counter>>
    BY <1>2, <2>1, <2>2
    DEF SyscallExecute, SyscallHalt, SyscallVidmap, ExecuteAllowed, HaltAllowed, VidmapAllowed,
        EnterKernel, procVars, clockVars
  <2> QED BY <2>3, StaysInside, LateInside
<1>3. CASE ExecReject \/ VidmapStore
  <2>1. /\ Depth = 1 /\ kstk[cpu] # <<>> /\ Open(Top) /\ Return
        /\ UNCHANGED <<curr_pid, procVars, clockVars, esp0>>
    BY <1>3, RejectWhere, StoreWhere
  <2>2. ~Early /\ cpu' = cpu BY <1>1, <2>1, ReturnEffect
  <2>3. pit_count >= MAX_TERM BY <2>2, KernelAssumption DEF Early, IInv, TypeOK
  <2>4. UNCHANGED <<free_pid, parent_pid, pid_to_term, cpu, pit_count, schedule_counter>>
    BY <2>1, <2>2 DEF procVars, clockVars
  <2> QED BY <2>3, <2>4, StaysInside, LateInside
<1> QED BY <1>2, <1>3

\* So does what system_halt does when its process is free.
LEMMA HaltInside ==
    ASSUME IInv, Turns, IInv', HaltUnmap \/ HaltPop \/ HaltSwitch \/ HaltJump
    PROVE  Turns' /\ Inside
<1>1. Going
  BY DEF HaltUnmap, HaltPop, HaltSwitch, HaltJump, At, Going, Running
<1>2. pit_count >= MAX_TERM BY <1>1, GoingFacts
<1>3. UNCHANGED <<free_pid, parent_pid, pid_to_term, pit_count, schedule_counter>>
  BY DEF HaltUnmap, HaltPop, HaltSwitch, HaltJump, procVars, clockVars
<1>4. pid_to_term[cpu'] = pid_to_term[cpu]
  <2>1. CASE HaltJump BY <2>1, HaltJumpEffect
  <2>2. CASE HaltUnmap \/ HaltPop \/ HaltSwitch BY <2>2 DEF HaltUnmap, HaltPop, HaltSwitch
  <2> QED BY <2>1, <2>2
<1>5. Inside BY <1>3, <1>4 DEF Inside
<1> QED BY <1>2, <1>3, <1>5, LateInside

\* A tick ends the start of a shell, the last one the boot.
LEMMA TickInside ==
    ASSUME IInv, Turns, Needed \subseteq Discipline, IInv', Tick PROVE Turns' /\ Inside
<1>1. /\ cpu' = cpu /\ kstk'[cpu] # <<>> /\ Top'.fn = "schedule"
      /\ UNCHANGED <<free_pid, parent_pid, pid_to_term, schedule_counter>>
      /\ pit_count' = IF pit_count > MAX_TERM THEN pit_count ELSE pit_count + 1
      /\ First(cpu)'.fn # "entry" /\ cpu \in Live_pids
      /\ Len(kstk[cpu]) = 0 \/ (Len(kstk[cpu]) = 1 /\ Open(First(cpu)))
  <2> DEFINE f == [fn |-> "schedule", at |-> "tick", pid |-> KERNEL]
  <2>1. Open(First(cpu)) => First(cpu).fn # "entry" BY DEF Open
  <2>2. /\ Top' = f /\ First(cpu)' = IF Depth = 0 THEN f ELSE First(cpu)
        /\ Len(kstk[cpu]) = 0 \/ (Len(kstk[cpu]) = 1 /\ Open(First(cpu)))
    BY TickEffect
  <2>3. Top'.fn = "schedule" BY <2>2
  <2>4. First(cpu)'.fn # "entry" BY <2>1, <2>2, Basics
  <2>5. /\ cpu' = cpu /\ kstk'[cpu] # <<>> /\ cpu \in Live_pids
        /\ UNCHANGED <<procVars, schedule_counter>>
        /\ pit_count' = IF pit_count > MAX_TERM THEN pit_count ELSE pit_count + 1
    BY TickEffect
  <2> QED BY <2>2, <2>3, <2>4, <2>5 DEF procVars
<1>2. Inside BY <1>1, StaysInside
<1>3. pit_count \in Nat /\ MAX_TERM \in Nat /\ cpu \in Nat
  <2>1. cpu \in Pids /\ pit_count \in 0 .. (MAX_TERM + 1) BY Basics DEF IInv, TypeOK
  <2> QED BY <2>1, KernelAssumption DEF Pids
<1>4. CASE pit_count >= MAX_TERM
  <2>1. pit_count' >= MAX_TERM BY <1>1, <1>3, <1>4
  <2>2. (IInv /\ pit_count >= MAX_TERM /\ schedule_counter = pid_to_term[cpu] => Turns)'
    BY LateTurns, PTL
  <2> QED BY <1>1, <1>2, <1>4, <2>1, <2>2 DEF Turns
<1>5. CASE pit_count < MAX_TERM
  <2>1. pit_count' = pit_count + 1 BY <1>1, <1>3, <1>5
  <2>2. kstk[cpu] = <<>>
    <3>1. kstk[cpu] # <<>> => First(cpu).fn = "schedule" BY <1>1, <1>5 DEF IInv, Boot, NoCalls, Early
    <3> QED BY <1>1, <3>1, Basics DEF Open
  <2>3. cpu = pit_count /\ schedule_counter = MAX_TERM - 1 BY <1>5, <2>2 DEF Turns, Fresh
  <2>4. ~Fresh' /\ ~Entering' /\ ~Starts' BY <1>1 DEF Fresh, Entering, Starts, Running
  <2>5. pit_count' >= MAX_TERM => schedule_counter = pid_to_term[cpu]
    <3>1. cpu \in Terms \cap Held BY <1>1, <1>3, <1>5, <2>3, Basics DEF Terms
    <3>2. pid_to_term[cpu] = cpu BY <3>1 DEF IInv, Rooted
    <3> QED BY <1>3, <1>5, <2>1, <2>3, <3>2
  <2>6. cpu' = pit_count' - 1 /\ schedule_counter' = MAX_TERM - 1 BY <1>1, <1>3, <2>1, <2>3
  <2>7. pit_count' >= MAX_TERM => schedule_counter' = pid_to_term'[cpu'] BY <1>1, <2>5
  <2> QED BY <1>2, <2>4, <2>6, <2>7 DEF Turns
<1> QED BY <1>3, <1>4, <1>5

\* schedule's call of system_execute, and Alt-Fn.
LEMMA DisplayInside ==
    ASSUME IInv, Turns, ScheduleSpawn \/ (\E t \in Terms : KeySwitch(t)) PROVE Turns' /\ Inside
<1>1. CASE ScheduleSpawn
  <2>1. Running("schedule", {"tick", "spawned"}) /\ pit_count < MAX_TERM /\ kstk[cpu] # <<>>
        /\ UNCHANGED <<procVars, pit_count, schedule_counter, cpu>>
    BY <1>1 DEF ScheduleSpawn, At, MustSpawn, Running
  <2>2. Depth = 1 /\ First(cpu).fn # "entry" BY <2>1, AtSchedule
  <2>3. /\ kstk'[cpu'] # <<>> /\ First(cpu)'.fn = "schedule" /\ Top'.at = "find"
    BY <1>1, <2>1, <2>2, SpawnEffect DEF IInv
  <2>4. ~Fresh /\ ~Fresh' /\ ~Entering' /\ ~Starts'
    BY <2>1, <2>2, <2>3 DEF Fresh, Entering, Starts, Running
  <2>5. pit_count \in Nat /\ MAX_TERM \in Nat BY KernelAssumption DEF IInv, TypeOK
  <2>6. UNCHANGED <<free_pid, parent_pid, pid_to_term, cpu>> BY <2>1 DEF procVars
  <2> QED BY <2>1, <2>4, <2>5, <2>6, StaysInside DEF Turns
<1>2. CASE \E t \in Terms : KeySwitch(t)
  <2>1. UNCHANGED <<curr_pid, procVars, clockVars, user_page, esp0, cpuVars>>
    BY <1>2 DEF KeySwitch
  <2>2. UNCHANGED <<free_pid, parent_pid, pid_to_term, cpu, pit_count, schedule_counter, kstk>>
    BY <2>1 DEF procVars, clockVars, cpuVars
  <2>3. Starts' = Starts /\ Top' = Top BY <2>1, Untouched DEF Starts
  <2>4. Fresh' = Fresh /\ Entering' = Entering BY <2>2 DEF Fresh, Entering, First
  <2> QED BY <2>2, <2>3, <2>4, StaysInside DEF Turns
<1> QED BY <1>1, <1>2

\* A step of system_execute to its next label.
LEMMA ExecTurns ==
    ASSUME IInv, Turns, Running("system_execute", ExecLabels), NEW l, NEW p, Goto(l, p),
           UNCHANGED <<pit_count, schedule_counter, cpu>>, pid_to_term'[cpu] = pid_to_term[cpu],
           l \in {"enter", "flag"} /\ Entering => parent_pid'[p] = KERNEL,
           l \in {"enter", "flag"} /\ ~Entering => parent_pid'[p] = cpu
    PROVE  Turns'
<1>1. kstk[cpu] # <<>> /\ Depth = Len(kstk[cpu]) /\ (Depth = 1 => First(cpu) = Top)
  BY Basics DEF Running
<1>2. /\ kstk'[cpu] # <<>> /\ Top'.fn = Top.fn /\ Top'.at = l /\ Top'.pid = p
      /\ First(cpu)' = IF Depth = 1 THEN Top' ELSE First(cpu)
  BY <1>1, GotoEffect DEF IInv
<1>3. Entering' <=> Entering BY <1>1, <1>2 DEF Entering
<1>4. Fresh' <=> Fresh BY <1>1, <1>2, <1>3 DEF Fresh
<1>5. Starts' => l \in {"enter", "flag"} BY <1>2 DEF Starts, Running
<1> QED BY <1>2, <1>3, <1>4, <1>5 DEF Turns

\* The steps of system_execute up to the start of the program.
LEMMA ExecInside ==
    ASSUME IInv, Turns, ExecPick \/ ExecBind \/ ExecLink \/ ExecSwitch PROVE Turns' /\ Inside
<1>1. CASE ExecPick
  <2> DEFINE f == find_free_process
  <2>1. /\ Running("system_execute", ExecLabels) /\ f \in Pids /\ f \notin Live_pids
        /\ Depth = 2 => f = pit_count /\ curr_term = pit_count
    BY <1>1, Picked
  <2>2. /\ pid_to_term' = [pid_to_term EXCEPT ![f] = curr_term] /\ Goto("open", f)
        /\ UNCHANGED <<free_pid, parent_pid, cpu, pit_count, schedule_counter>>
    BY <1>1 DEF ExecPick, clockVars
  <2> HIDE DEF f
  <2>3. \A p \in Pids : p # f => pid_to_term'[p] = pid_to_term[p]
    BY <2>1, <2>2 DEF IInv, TypeOK
  <2>4. pid_to_term'[cpu] = pid_to_term[cpu]
    <3>1. CASE cpu \in Live_pids BY <2>1, <2>3, <3>1, Basics
    <3>2. CASE cpu \notin Live_pids
      <4>1. Entering /\ Depth = 2 /\ cpu = 0 /\ pit_count = 0
        BY <2>1, <3>2, ExecWhere DEF Entering
      <4>2. pid_to_term[cpu] = 0 /\ pid_to_term'[f] = 0
        BY <2>1, <2>2, <4>1 DEF Turns, IInv, TypeOK
      <4> QED BY <2>3, <4>1, <4>2, Basics
    <3> QED BY <3>1, <3>2
  <2>5. Inside BY <2>1, <2>2, <2>3, <2>4 DEF Inside, Live_pids
  <2> QED BY <2>1, <2>2, <2>4, <2>5, ExecTurns
<1>2. CASE ExecBind
  <2>1. /\ Running("system_execute", ExecLabels) /\ Goto("load", Top.pid)
        /\ UNCHANGED <<free_pid, parent_pid, pid_to_term, cpu, pit_count, schedule_counter>>
    BY <1>2 DEF ExecBind, At, Running, ExecLabels, clockVars
  <2> QED BY <2>1, ExecTurns, StaysInside
<1>3. CASE ExecLink
  <2>1. /\ Running("system_execute", ExecLabels) /\ Running("system_execute", {"load"}) /\ Coming
        /\ ~Running("system_execute", {"flag"}) /\ Goto("enter", Top.pid)
        /\ parent_pid' = [parent_pid EXCEPT ![Top.pid] = curr_pid]
        /\ UNCHANGED <<free_pid, pid_to_term, cpu, pit_count, schedule_counter>>
    BY <1>3 DEF ExecLink, At, Running, ExecLabels, Coming, clockVars
  <2>2. Top.pid \in Pids \ Live_pids /\ Top.pid \in Owners BY <2>1, ChildFacts
  <2>3. /\ parent_pid'[Top.pid] = curr_pid
        /\ \A p \in Owners : p # Top.pid => parent_pid'[p] = parent_pid[p]
    BY <2>1, <2>2 DEF IInv, TypeOK
  <2>4. Inside BY <2>1, <2>2, <2>3, ConstantFacts DEF Inside, Live_pids
  <2>5. curr_pid = IF Entering THEN KERNEL ELSE cpu BY <2>1, ExecWhere DEF Entering
  <2> QED BY <2>1, <2>3, <2>4, <2>5, ExecTurns
<1>4. CASE ExecSwitch
  <2>1. /\ Running("system_execute", ExecLabels) /\ Starts /\ Goto("flag", Top.pid)
        /\ UNCHANGED <<free_pid, parent_pid, pid_to_term, cpu, pit_count, schedule_counter>>
    BY <1>4 DEF ExecSwitch, At, Running, ExecLabels, Starts, procVars, clockVars
  <2> QED BY <2>1, ExecTurns, StaysInside DEF Turns
<1> QED BY <1>1, <1>2, <1>3, <1>4

\* No step of these shows, and the turn stays where it is.
LEMMA InsideStutters ==
    ASSUME IInv, Turns, IInv', Turns', Inside PROVE UNCHANGED <<top, under, Live_pids, turn>>
<1>1. (IInv /\ Turns => turn = pid_to_term[cpu])' BY TurnIs, PTL
<1> QED BY <1>1, TurnIs, SameTop DEF Inside

\* After the boot every terminal has a program on top.
LEMMA AllShown ==
    ASSUME IInv, pit_count >= MAX_TERM
    PROVE  \A t \in Terms : t \in Live_pids /\ top[t] = Tip(t) /\ Tip(t) \in Live_pids /\ top[t] # KERNEL
<1>1. \A t \in Terms : t \in Live_pids BY ConstantFacts DEF IInv, Boot, PidsTaken, Live_pids
<1> QED BY <1>1, TopIs, ConstantFacts DEF Live_pids

\* schedule gives the turn to the next terminal.
LEMMA SwitchIsTurn ==
    ASSUME IInv, Turns, IInv', ScheduleSwitch PROVE Turns' /\ Promised!NextTurn
<1>1. /\ pit_count >= MAX_TERM /\ pid_to_term[cpu'] = NextTurn /\ cpu' \in Pids
      /\ UNCHANGED <<free_pid, parent_pid, pid_to_term, pit_count>> /\ schedule_counter' = NextTurn
  BY SwitchEffect DEF ScheduleSwitch, Live_pids
<1>2. (IInv /\ pit_count >= MAX_TERM /\ schedule_counter = pid_to_term[cpu] => Turns)'
  BY LateTurns, PTL
<1>3. Turns' BY <1>1, <1>2
<1>4. (IInv /\ Turns => turn = pid_to_term[cpu])' BY TurnIs, PTL
<1>5. turn' = NextTurn BY <1>1, <1>3, <1>4
<1>6. NextTurn = (turn + 1) % MAX_TERM BY <1>1, TurnIs DEF Turns, NextTurn
<1>7. top' = top /\ under' = under /\ Live_pids' = Live_pids BY <1>1, SameTop
<1> QED BY <1>1, <1>3, <1>5, <1>6, <1>7, AllShown
        DEF Promised!NextTurn, Promised!Terms, Promised!None, Terms, KERNEL

\* What halts is no boot shell.
LEMMA GoingNested == IInv /\ Going => /\ Top.pid = cpu /\ cpu \notin BasePids /\ cpu \in Nested
                                     /\ pit_count >= MAX_TERM
BY GoingFacts

\* system_halt ends the program on top of its terminal.
LEMMA FreeIsExit ==
    ASSUME IInv, Turns, IInv', HaltFree PROVE Turns' /\ Promised!Exit
<1> DEFINE T == pid_to_term[cpu]
           P == parent_pid[cpu]
<1>1. Running("system_halt", {"free"}) /\ ~Coming /\ ~Going /\ kstk[cpu] # <<>>
      /\ ~Running("system_execute", {"flag"}) /\ ~Running("system_halt", {"jump"})
      /\ Goto("unmap", Top.pid)
      /\ UNCHANGED <<curr_pid, parent_pid, pid_to_term, top_pid, pit_count, schedule_counter, cpu>>
      /\ free_pid' = [p \in Pids |-> free_pid[p] \/ p = curr_pid]
  BY DEF HaltFree, At, Coming, Going, Running, clockVars
<1>2. Top'.fn = "system_halt" /\ Top'.at = "unmap" /\ Top'.pid = Top.pid /\ kstk'[cpu'] # <<>>
  BY <1>1, GotoEffect DEF IInv, Running
<1>3. Going' /\ ~Coming' /\ ~Running("system_execute", {"load"})'
      /\ ~Running("system_halt", {"switch", "jump"})'
  BY <1>2 DEF Going, Coming, Running
<1>4. (IInv /\ Going => /\ Top.pid = cpu /\ cpu \notin BasePids /\ cpu \in Nested
                        /\ pit_count >= MAX_TERM)'
  BY GoingNested, PTL
<1>5. pit_count >= MAX_TERM /\ cpu \notin BasePids /\ Top.pid = cpu /\ cpu \in Pids
  BY <1>1, <1>2, <1>3, <1>4, Basics
<1>6. curr_pid = cpu /\ cpu \in Live_pids /\ Front[T] = cpu
  <2>1. ~Entering BY <1>5, KernelAssumption DEF IInv, Running_process, Entering, TypeOK
  <2> QED BY <1>1, <1>5, <2>1 DEF IInv, Running_process, Entering, Live_pids
<1>8. Turns'
  <2>1. (IInv /\ pit_count >= MAX_TERM /\ schedule_counter = pid_to_term[cpu] => Turns)'
    BY LateTurns, PTL
  <2> QED BY <1>1, <1>5, <2>1 DEF Turns
<1>9. turn = T /\ turn' = T
  <2>1. (IInv /\ Turns => turn = pid_to_term[cpu])' BY TurnIs, PTL
  <2> QED BY <1>1, <1>8, <2>1, TurnIs
<1>10. Live_pids' = Live_pids \ {cpu}
  <2>1. \A p \in Pids : free_pid'[p] <=> (free_pid[p] \/ p = cpu) BY <1>1, <1>6, Zenon
  <2> QED BY <2>1, Zenon DEF Live_pids
<1>11. /\ Held = Live_pids /\ Front = [t \in Terms |-> top_pid[t]]
       /\ Parent = [q \in Pids |-> parent_pid[q]]
  BY <1>1, Calm
<1>12. /\ Front' = [t \in Terms |-> top_pid[t]] /\ Parent' = [q \in Pids |-> parent_pid[q]]
  BY <1>1, <1>3 DEF Front, Parent
<1>13. P \in Live_pids /\ P # KERNEL /\ T \in Terms
  <2>1. cpu \in Nested BY <1>5, <1>6, <1>11 DEF Nested
  <2>2. P \in Live_pids BY <1>5, <1>11, <2>1 DEF IInv, Linked
  <2> QED BY <1>5, <2>2, ConstantFacts DEF Live_pids, IInv, TypeOK
<1>14. \A t \in Terms : top[t] = Front[t] /\ top[t] # KERNEL
  <2>1. ~Aside BY <1>1 DEF Aside
  <2> QED BY <1>5, <2>1, AllShown DEF Tip
<1>15. \A t \in Terms : top'[t] = IF t = T THEN P ELSE top[t]
  <2>1. (IInv => \A t \in Terms : /\ t \in Live_pids => top[t] = Tip(t) /\ Tip(t) \in Live_pids
                                  /\ t \notin Live_pids => top[t] = KERNEL)'
    BY TopIs, PTL
  <2>2. \A t \in Terms : t \in Live_pids'
    BY <1>5, <1>10, AllShown DEF BasePids, Terms
  <2>3. Aside' BY <1>2, <1>3, <1>4, <1>5 DEF Aside
  <2>4. \A t \in Terms : top'[t] = IF Front'[t] = cpu THEN Parent'[cpu] ELSE Front'[t]
    BY <1>1, <1>2, <1>5, <2>1, <2>2, <2>3 DEF Tip
  <2>5. \A t \in Terms : Front[t] = cpu => t = T
    <3>1. \A t \in Terms : t \in Live_pids BY <1>5, AllShown
    <3> QED BY <3>1, FrontFacts
  <2> QED BY <1>5, <1>6, <1>11, <1>12, <1>14, <2>4, <2>5
<1>16. under' = [under EXCEPT ![cpu] = KERNEL] /\ under[cpu] = P
  <2>1. \A p \in Pids : p \in Live_pids' <=> p \in Live_pids /\ p # cpu BY <1>10
  <2>2. \A p \in Pids : free_pid'[p] <=> (free_pid[p] \/ p = cpu) BY <1>1, <1>6, Zenon
  <2>3. under = [p \in Pids |-> IF free_pid[p] \/ p \in BasePids THEN KERNEL ELSE parent_pid[p]]
        /\ under' = [p \in Pids |-> IF free_pid'[p] \/ p \in BasePids THEN KERNEL ELSE parent_pid[p]]
    BY <1>1 DEF under
  <2> QED BY <1>5, <1>6, <2>2, <2>3 DEF Live_pids
<1>17. top' = [top EXCEPT ![T] = P]
  <2>1. top' = [t \in Terms |-> top'[t]] /\ top = [t \in Terms |-> top[t]] BY DEF top
  <2> HIDE DEF T, P
  <2> QED BY <1>13, <1>15, <2>1
<1>18. top[T] = cpu BY <1>6, <1>13, <1>14
<1> HIDE DEF T, P
<1> QED BY <1>8, <1>9, <1>10, <1>13, <1>14, <1>16, <1>17, <1>18, ConstantFacts
        DEF Promised!Exit, Promised!None, KERNEL, Live_pids

\* While nobody starts or halts the terminals know their newest processes.
LEMMA FrontCalm == ~Coming /\ ~Going => Front = [t \in Terms |-> top_pid[t]]
BY Calm

\* system_execute puts a program on top of the running one, at the boot a shell
\* on the next terminal.
LEMMA EnterIsLaunch ==
    ASSUME IInv, Turns, IInv', ExecEnter
    PROVE  /\ Turns'
           /\ \/ Promised!Launch(Top.pid)
              \/ pit_count < MAX_TERM /\ Promised!Boot(pit_count, pit_count)
<1> DEFINE c == Top.pid
           T == pid_to_term[c]
<1>1. /\ Running("system_execute", {"flag"}) /\ Coming /\ Starts /\ Top.fn = "system_execute"
      /\ Running("system_execute", ExecLabels)
      /\ ~Running("system_execute", {"load"}) /\ ~Running("system_halt", {"switch", "jump"})
      /\ UNCHANGED <<curr_pid, parent_pid, pid_to_term, top_pid, pit_count, schedule_counter>>
      /\ free_pid' = [p \in Pids |-> free_pid[p] /\ p # curr_pid]
  BY DEF ExecEnter, At, Running, Coming, Starts, ExecLabels, clockVars
<1>2. /\ c \in Pids \ Live_pids /\ c \in Owners /\ c # KERNEL
      /\ Held = Live_pids \cup {c} /\ Front = [t \in Terms |-> top_pid[t]]
      /\ cpu \in Pids /\ kstk[cpu] # <<>>
      /\ Depth = 1 \/ Depth = 2
      /\ Depth = 1 => /\ c \in Nested /\ c \notin BasePids
                      /\ cpu \in Live_pids /\ T = pid_to_term[cpu]
      /\ Depth = 2 => /\ c = pit_count /\ pit_count < MAX_TERM /\ c \in BasePids
                      /\ T = pit_count /\ c \notin Nested
  BY <1>1, ChildFacts
<1>3. curr_pid = c BY <1>1 DEF IInv, Running_process
<1>4. Parent = [q \in Pids |-> parent_pid[q]] BY <1>1 DEF Parent
<1>5. cpu' = c /\ kstk'[cpu'] = <<>> BY <1>1, <1>2, EnterEffect DEF IInv
<1>6. ~Coming' /\ ~Going' /\ ~Aside' /\ Fresh' /\ ~Starts' /\ ~Entering'
  BY <1>5 DEF Coming, Going, Running, Aside, Fresh, Starts, Entering
<1>7. Live_pids' = Live_pids \cup {c}
  <2>1. \A p \in Pids : free_pid'[p] <=> (free_pid[p] /\ p # c) BY <1>1, <1>3, Zenon
  <2> QED BY <1>2, <2>1, Zenon DEF Live_pids
<1>8. Front' = Front
  <2>1. Front' = [t \in Terms |-> top_pid[t]]
    <3>1. (~Coming /\ ~Going => Front = [t \in Terms |-> top_pid[t]])' BY FrontCalm, PTL
    <3> QED BY <1>1, <1>6, <3>1
  <2> QED BY <1>2, <2>1
<1>9. \A t \in Terms : /\ t \in Live_pids' => top'[t] = Front[t]
                       /\ t \notin Live_pids' => top'[t] = KERNEL
  <2>1. (IInv => \A t \in Terms : /\ t \in Live_pids => top[t] = Tip(t) /\ Tip(t) \in Live_pids
                                  /\ t \notin Live_pids => top[t] = KERNEL)'
    BY TopIs, PTL
  <2> QED BY <1>6, <1>8, <2>1 DEF Tip
<1>10. Turns'
  <2>1. CASE Depth = 1
    <3>1. pit_count >= MAX_TERM BY <1>1, <2>1, ExecWhere
    <3>2. (IInv /\ pit_count >= MAX_TERM /\ schedule_counter = pid_to_term[cpu] => Turns)'
      BY LateTurns, PTL
    <3> QED BY <1>1, <1>2, <1>5, <2>1, <3>1, <3>2 DEF Turns
  <2>2. CASE Depth = 2
    <3>1. ~(pit_count >= MAX_TERM) BY <1>2, <2>2, KernelAssumption DEF IInv, TypeOK
    <3> QED BY <1>1, <1>2, <1>5, <1>6, <2>2, <3>1 DEF Turns
  <2> QED BY <1>2, <2>1, <2>2
<1>11. turn' = T
  <2>1. (IInv /\ Turns => turn = pid_to_term[cpu])' BY TurnIs, PTL
  <2> QED BY <1>1, <1>5, <1>10, <2>1
<1>12. under = [p \in Pids |-> IF free_pid[p] \/ p \in BasePids THEN KERNEL ELSE parent_pid[p]]
       /\ under' = [p \in Pids |-> IF free_pid'[p] \/ p \in BasePids THEN KERNEL ELSE parent_pid[p]]
  BY <1>1 DEF under
<1>13. \A p \in Pids : free_pid'[p] <=> (free_pid[p] /\ p # c) BY <1>1, <1>3, Zenon
<1>14. top' = [t \in Terms |-> top'[t]] /\ top = [t \in Terms |-> top[t]] BY DEF top
<1>15. T \in Terms BY <1>2 DEF IInv, TypeOK
<1>16. \A t \in Terms \cap Live_pids : Front[t] = c => t = T BY FrontFacts
<1>17. CASE Depth = 1
  <2>1. pit_count >= MAX_TERM BY <1>1, <1>17, ExecWhere
  <2>2. Aside /\ Front[T] = c BY <1>1, <1>2, <1>17, AsideFacts DEF Aside
  <2>3. parent_pid[c] = cpu
    <3>1. ~Entering BY <1>1, <1>17, ExecWhere, Basics DEF Entering
    <3> QED BY <1>1, <3>1 DEF Turns
  <2>4. \A t \in Terms : t \in Live_pids /\ top[t] = Tip(t) /\ top[t] # KERNEL BY <2>1, AllShown
  <2>5. top[T] = cpu BY <1>2, <1>4, <1>15, <2>2, <2>3, <2>4 DEF Tip
  <2>6. \A t \in Terms : top'[t] = IF t = T THEN c ELSE top[t]
    BY <1>7, <1>9, <1>16, <2>2, <2>4 DEF Tip
  <2>7. top' = [top EXCEPT ![T] = c]
    <3> HIDE DEF c, T
    <3> QED BY <1>14, <1>15, <2>6
  <2>8. turn = T BY <1>2, <1>17, TurnIs
  <2>9. under' = [under EXCEPT ![c] = cpu]
    <3>1. \A p \in Pids : under'[p] = IF p = c THEN cpu ELSE under[p]
      BY <1>2, <1>12, <1>13, <1>17, <2>3
    <3>2. under' = [p \in Pids |-> under'[p]] /\ under = [p \in Pids |-> under[p]] BY DEF under
    <3> HIDE DEF c
    <3> QED BY <1>2, <3>1, <3>2
  <2>10. Promised!Launch(c)
    <3> HIDE DEF c, T
    <3> QED BY <1>2, <1>7, <1>11, <1>15, <2>4, <2>5, <2>7, <2>8, <2>9
            DEF Promised!Launch, Promised!None, KERNEL
  <2> QED BY <1>10, <2>10
<1>18. CASE Depth = 2
  <2>1. ~Aside BY <1>2, <1>18 DEF Aside
  <2>2. \A t \in Terms : /\ t \in Live_pids => top[t] = Front[t] /\ top[t] # KERNEL
                         /\ t \notin Live_pids => top[t] = KERNEL
    BY <2>1, TopIs, ConstantFacts DEF Tip, Live_pids
  <2>3. Front[c] = c
    <3>1. ASSUME NEW q \in Nested, Parent[q] = c PROVE FALSE BY <1>2, <3>1 DEF IInv, Linked
    <3> QED BY <1>2, <1>18, <3>1 DEF IInv, Lineage
  <2>4. c \in Terms /\ top[c] = KERNEL BY <1>2, <1>15, <1>18, <2>2
  <2>5. \A u \in Terms : u < c => top[u] # KERNEL
    <3> SUFFICES ASSUME NEW u \in Terms, u < c PROVE u \in Live_pids BY <2>2
    <3>1. u \in Pids /\ u < pit_count BY <1>2, <1>18, ConstantFacts
    <3>2. ~free_pid[u] BY <1>2, <1>18, <3>1 DEF IInv, Boot, PidsTaken
    <3> QED BY <3>1, <3>2 DEF Live_pids
  <2>6. \A t \in Terms : top'[t] = IF t = c THEN c ELSE top[t] BY <1>2, <1>7, <1>9, <2>2, <2>3
  <2>7. top' = [top EXCEPT ![c] = c]
    <3> HIDE DEF c
    <3> QED BY <1>14, <2>4, <2>6
  <2>8. under' = under
    <3>1. \A p \in Pids : under'[p] = under[p] BY <1>2, <1>12, <1>13, <1>18
    <3>2. under' = [p \in Pids |-> under'[p]] /\ under = [p \in Pids |-> under[p]] BY DEF under
    <3> QED BY <3>1, <3>2
  <2>9. turn' = c BY <1>2, <1>11, <1>18
  <2>10. Promised!Boot(c, c)
    <3> HIDE DEF c, T
    <3> QED BY <1>2, <1>7, <2>4, <2>5, <2>7, <2>8, <2>9
            DEF Promised!Boot, Promised!None, Promised!Terms, Terms, KERNEL
  <2> QED BY <1>2, <1>10, <1>18, <2>10
<1> QED BY <1>2, <1>17, <1>18

\* Every step of the kernel is one of Sessions or not seen.
LEMMA NextSession ==
    ASSUME IInv, Turns, IInv', Needed \subseteq Discipline, [Next]_vars
    PROVE  Turns' /\ [Promised!Next]_(Promised!vars)
<1>1. {"good_image", "no_fault"} \subseteq Discipline BY DEF Needed, Rules
<1>2. ASSUME Turns', Inside PROVE Turns' /\ [Promised!Next]_(Promised!vars)
  BY <1>2, InsideStutters DEF Promised!vars
<1>3. CASE ScheduleSwitch BY <1>3, SwitchIsTurn DEF Promised!Next
<1>4. CASE HaltFree BY <1>4, FreeIsExit DEF Promised!Next
<1>5. CASE ExecEnter
  <2>1. Running("system_execute", {"flag"}) /\ Coming
    BY <1>5 DEF ExecEnter, At, Running, Coming
  <2>2. Top.pid \in Pids BY <2>1, ChildFacts
  <2>3. CASE Promised!Launch(Top.pid)
    BY <1>5, <2>2, <2>3, EnterIsLaunch DEF Promised!Next, Promised!Pids, Pids
  <2>4. CASE pit_count < MAX_TERM /\ Promised!Boot(pit_count, pit_count)
    <3>1. pit_count \in Terms BY <2>4, KernelAssumption DEF IInv, TypeOK, Terms
    <3> QED BY <1>5, <3>1, <2>4, EnterIsLaunch, ConstantFacts
            DEF Promised!Next, Promised!Terms, Promised!Pids, Terms, Pids
  <2> QED BY <1>5, <2>3, <2>4, EnterIsLaunch
<1>6. CASE Tick BY <1>2, <1>6, TickInside
<1>7. CASE ScheduleSpawn \/ \E t \in Terms : KeySwitch(t) BY <1>2, <1>7, DisplayInside
<1>8. CASE ExecPick \/ ExecBind \/ ExecLink \/ ExecSwitch BY <1>2, <1>8, ExecInside
<1>9. CASE SyscallExecute \/ SyscallHalt \/ SyscallVidmap \/ ExecReject \/ VidmapStore
  BY <1>2, <1>9, CallInside
<1>10. CASE HaltUnmap \/ HaltPop \/ HaltSwitch \/ HaltJump BY <1>2, <1>10, HaltInside
<1>11. ~ExecLoadFail /\ ~Fault BY <1>1 DEF ExecLoadFail, Fault, Rule
<1>12. CASE UNCHANGED vars
  <2>1. UNCHANGED <<free_pid, parent_pid, pid_to_term, cpu, pit_count, schedule_counter, kstk>>
    BY <1>12 DEF vars, procVars, clockVars, cpuVars
  <2>2. Top' = Top BY <2>1 DEF Top, Depth
  <2>3. Starts' = Starts /\ Fresh' = Fresh /\ Entering' = Entering
    BY <2>1, <2>2 DEF Starts, Running, Fresh, Entering, First
  <2> QED BY <1>2, <2>1, <2>2, <2>3, StaysInside DEF Turns
<1> QED BY <1>3, <1>4, <1>5, <1>6, <1>7, <1>8, <1>9, <1>10, <1>11, <1>12
        DEF Next, KernelStep, ScheduleStep, ExecuteStep, HaltStep

\* At first no shell has started and terminal 0 is to be the first.
LEMMA InitSession == Init => Turns /\ Promised!Init
<1> SUFFICES ASSUME Init PROVE Turns /\ Promised!Init OBVIOUS
<1> DEFINE m == [fn |-> "entry", at |-> "main", pid |-> KERNEL]
           f == [fn |-> "system_execute", at |-> "find", pid |-> KERNEL]
<1>1. IInv BY InitInv
<1>2. /\ 0 \in Pids /\ 0 \in Owners /\ MAX_TERM \in Nat /\ MAX_TERM >= 2
  BY ConstantFacts, KernelAssumption
<1>3. /\ pit_count = 0 /\ schedule_counter = MAX_TERM - 1 /\ cpu = 0 /\ kstk[cpu] = <<m, f>>
      /\ pid_to_term[cpu] = 0 /\ free_pid = [p \in Pids |-> TRUE]
  BY <1>2 DEF Init
<1>4. /\ Len(<<m, f>>) = 2 /\ <<m, f>>[1] = m /\ <<m, f>>[2] = f /\ <<m, f>> # <<>>
  <2> HIDE DEF m, f
  <2>1. Len(<<m, f>>) = 2 /\ <<m, f>>[1] = m /\ <<m, f>>[2] = f OBVIOUS
  <2>2. Len(<<>>) = 0 OBVIOUS
  <2> QED BY <2>1, <2>2
<1>5. kstk[cpu] # <<>> /\ First(cpu) = m /\ Top = f BY <1>3, <1>4 DEF Depth, First, Top
<1>6. Entering /\ Fresh /\ ~Starts BY <1>5 DEF Entering, Fresh, Starts, Running
<1> HIDE DEF m, f
<1>7. Turns BY <1>2, <1>3, <1>6 DEF Turns
<1>8. Live_pids = {} BY <1>3 DEF Live_pids
<1>9. top = [t \in Terms |-> KERNEL]
  <2>1. \A t \in Terms : top[t] = KERNEL BY <1>1, <1>8, TopIs
  <2>2. top = [t \in Terms |-> top[t]] BY DEF top
  <2> QED BY <2>1, <2>2
<1>10. under = [p \in Pids |-> KERNEL] BY <1>3 DEF under
<1>11. turn = 0 BY <1>1, <1>3, <1>7, TurnIs
<1> QED BY <1>7, <1>8, <1>9, <1>10, <1>11
        DEF Promised!Init, Promised!None, Promised!Terms, Promised!Pids, Terms, Pids, KERNEL

\* The kernel implements Sessions for every number of processes and terminals:
\* programs stack up and unwind on the terminal that launched them, shells start
\* in their order, and turns go round.
THEOREM SessionsAreKept == Needed \subseteq Discipline => (Spec => ImplementsSessions)
<1> SUFFICES ASSUME Needed \subseteq Discipline PROVE Spec => ImplementsSessions OBVIOUS
<1>1. IInv /\ [Next]_vars => IInv' BY NextInv
<1>2. IInv /\ IInv' /\ Turns /\ [Next]_vars => Turns' /\ [Promised!Next]_(Promised!vars)
  BY NextSession
<1> QED BY <1>1, <1>2, InitInv, InitSession, PTL DEF Spec, ImplementsSessions, Promised!Spec
-----------------------------------------------------------------------------
(* What Sessions promises: the programs are those stacked on the terminals. *)

\* Stacked, with what its induction needs: dead programs lie on nothing.
Layers == /\ Promised!TypeOK /\ Promised!Stacked
          /\ \A p \in Pids \ Live_pids : under[p] = KERNEL

\* A step of Sessions keeps the stacks.
LEMMA LayersNext == ASSUME Layers, [Promised!Next]_(Promised!vars) PROVE Layers'
<1> USE DEF Promised!Pids, Promised!Terms, Promised!None, Pids, Terms, KERNEL
<1> DEFINE A == Live_pids
<1>0. /\ top \in [Terms -> Pids \cup {KERNEL}] /\ under \in [Pids -> Pids \cup {KERNEL}]
      /\ A \subseteq Pids /\ turn \in Terms /\ KERNEL \notin Pids
  BY ConstantFacts DEF Layers, Promised!TypeOK
<1>1. /\ \A t, u \in Terms : top[t] = top[u] /\ top[t] # KERNEL => t = u
      /\ \A p, q \in A : under[p] = under[q] /\ under[p] # KERNEL => p = q
      /\ \A p \in A : under[p] # KERNEL => under[p] \in A /\ \A t \in Terms : top[t] # under[p]
      /\ \A t \in Terms : top[t] # KERNEL => top[t] \in A
      /\ \A p \in A : (\E t \in Terms : top[t] = p) \/ (\E q \in A : under[q] = p)
      /\ \A p \in Pids \ A : under[p] = KERNEL
  BY DEF Layers, Promised!Stacked
<1> SUFFICES
      /\ top' \in [Terms -> Pids \cup {KERNEL}] /\ under' \in [Pids -> Pids \cup {KERNEL}]
      /\ A' \subseteq Pids /\ turn' \in Terms
      /\ \A t, u \in Terms : top'[t] = top'[u] /\ top'[t] # KERNEL => t = u
      /\ \A p, q \in A' : under'[p] = under'[q] /\ under'[p] # KERNEL => p = q
      /\ \A p \in A' : under'[p] # KERNEL => under'[p] \in A' /\ \A t \in Terms : top'[t] # under'[p]
      /\ \A t \in Terms : top'[t] # KERNEL => top'[t] \in A'
      /\ \A p \in A' : (\E t \in Terms : top'[t] = p) \/ (\E q \in A' : under'[q] = p)
      /\ \A p \in Pids \ A' : under'[p] = KERNEL
  BY DEF Layers, Promised!TypeOK, Promised!Stacked
<1> USE DEF Promised!Boot, Promised!Launch, Promised!Exit, Promised!NextTurn
<1>2. CASE \E t \in Terms, p \in Pids : Promised!Boot(t, p)
  <2>1. PICK t \in Terms, p \in Pids : Promised!Boot(t, p) BY <1>2
  <2> QED BY <1>0, <1>1, <2>1
<1>3. CASE \E p \in Pids : Promised!Launch(p)
  <2>1. PICK p \in Pids : Promised!Launch(p) BY <1>3
  <2> QED BY <1>0, <1>1, <2>1
<1>4. CASE Promised!Exit
  <2> DEFINE x == top[turn]
             y == under[x]
  <2>1. /\ x \in A /\ x \in Pids /\ y # KERNEL /\ y \in A /\ y \in Pids /\ x # y
        /\ \A t \in Terms : top[t] # y
        /\ \A t \in Terms : top[t] = x => t = turn
        /\ \A q \in A : under[q] # x /\ (under[q] = y => q = x)
    BY <1>0, <1>1, <1>4
  <2>2. /\ A' = A \ {x} /\ turn' = turn
        /\ \A t \in Terms : top'[t] = IF t = turn THEN y ELSE top[t]
        /\ \A p \in Pids : under'[p] = IF p = x THEN KERNEL ELSE under[p]
        /\ top' \in [Terms -> Pids \cup {KERNEL}] /\ under' \in [Pids -> Pids \cup {KERNEL}]
    BY <1>0, <1>4, <2>1
  <2> HIDE DEF x, y, A
  <2> USE <1>0, <2>1, <2>2
  <2>3. \A t, u \in Terms : top'[t] = top'[u] /\ top'[t] # KERNEL => t = u
    BY <1>1
  <2>4. \A p, q \in A' : under'[p] = under'[q] /\ under'[p] # KERNEL => p = q
    BY <1>1
  <2>5. \A p \in A' : under'[p] # KERNEL => under'[p] \in A' /\ \A t \in Terms : top'[t] # under'[p]
    BY <1>1
  <2>6. \A t \in Terms : top'[t] # KERNEL => top'[t] \in A'
    BY <1>1
  <2>7. \A p \in A' : (\E t \in Terms : top'[t] = p) \/ (\E q \in A' : under'[q] = p)
    <3> TAKE p \in A'
    <3>1. CASE \E t \in Terms : top[t] = p
      <4>1. PICK t \in Terms : top[t] = p BY <3>1
      <4>2. t # turn BY <4>1 DEF x
      <4> QED BY <4>1, <4>2
    <3>2. CASE \E q \in A : under[q] = p
      <4>1. PICK q \in A : under[q] = p BY <3>2
      <4>2. CASE q = x
        <5>1. p = y BY <4>1, <4>2 DEF y
        <5>2. top'[turn] = p BY <5>1
        <5> QED BY <5>2
      <4>3. CASE q # x BY <4>1, <4>3
      <4> QED BY <4>2, <4>3
    <3> QED BY <1>1, <3>1, <3>2
  <2>8. \A p \in Pids \ A' : under'[p] = KERNEL BY <1>1
  <2> QED BY <2>3, <2>4, <2>5, <2>6, <2>7, <2>8 DEF A
<1>5. CASE Promised!NextTurn
  <2>1. (turn + 1) % MAX_TERM \in Terms BY <1>0, KernelAssumption
  <2> QED BY <1>0, <1>1, <1>5, <2>1
<1>6. CASE UNCHANGED Promised!vars BY <1>0, <1>1, <1>6 DEF Promised!vars
<1> QED BY <1>2, <1>3, <1>4, <1>5, <1>6 DEF Promised!Next

\* At first nothing is stacked.
LEMMA InitLayers == Promised!Init => Layers
<1> SUFFICES ASSUME Promised!Init PROVE Layers OBVIOUS
<1> USE DEF Promised!Init, Promised!Pids, Promised!Terms, Promised!None, Pids, Terms, KERNEL
<1>1. 0 \in Terms BY KernelAssumption
<1>2. Promised!TypeOK BY <1>1 DEF Promised!TypeOK
<1>3. Promised!Stacked BY DEF Promised!Stacked
<1> QED BY <1>2, <1>3 DEF Layers

\* What the stacks of Sessions are good for, in the kernel's own words: two
\* terminals never show the same process, no two programs have the same parent
\* to return to, a parent is alive and covered while its child runs, and every
\* process is on top of a terminal or somebody's parent.
THEOREM ProgramsAreStacked == Needed \subseteq Discipline => (Spec => []Promised!Stacked)
<1> SUFFICES ASSUME Needed \subseteq Discipline PROVE Spec => []Promised!Stacked OBVIOUS
<1>1. Spec => ImplementsSessions BY SessionsAreKept
<1>2. Layers /\ [Promised!Next]_(Promised!vars) => Layers' BY LayersNext
<1>3. Layers => Promised!Stacked BY DEF Layers
<1> QED BY <1>1, <1>2, <1>3, InitLayers, PTL DEF ImplementsSessions, Promised!Spec

=============================================================================
