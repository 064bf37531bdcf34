------------------------------ MODULE MCKernel ------------------------------
(* Instances of Kernel for TLC: a Discipline is all the rules, none of them, *)
(* or all but the ones whose need, or whose absence, a run shows.            *)
EXTENDS KernelSessions

AllRules     == Rules
Vidmapping   == Rules \ {"no_vidmap"}
TickInside   == Rules \ {"atomic"}
AnyTerminal  == Rules \ {"own_term"}
=============================================================================
