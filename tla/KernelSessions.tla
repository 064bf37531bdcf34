--------------------------- MODULE KernelSessions ---------------------------
(***************************************************************************)
(* The kernel implements Sessions.  A program is alive from ExecEnter,     *)
(* which takes its pid, to HaltFree, which gives it back; it lies on the   *)
(* process that executed it.  The many steps in between are stutters.      *)
(***************************************************************************)
EXTENDS Kernel

OnTop(t) == {p \in Live_pids : pid_to_term[p] = t /\ Children(p) = {}}

top   == [t \in Terms |-> IF OnTop(t) = {} THEN KERNEL ELSE CHOOSE p \in OnTop(t) : TRUE]
under == [p \in Pids |-> IF free_pid[p] \/ p \in BasePids THEN KERNEL ELSE parent_pid[p]]

\* curr_pid changes one step before the child's pid is taken.
turn  == LET p == IF At("system_execute", "flag") THEN parent_pid[curr_pid] ELSE curr_pid
         IN  IF p = KERNEL THEN 0 ELSE pid_to_term[p]

Promised == INSTANCE Sessions WITH alive <- Live_pids

\* Every behaviour of the kernel is one of Sessions: programs stack up and
\* unwind on the terminal that launched them, and turns follow in order.
ImplementsSessions == Promised!Spec

=============================================================================
