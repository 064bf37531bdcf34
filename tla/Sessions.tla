------------------------------ MODULE Sessions ------------------------------
(***************************************************************************)
(* What the kernel promises its users, with no kernel in it: each terminal *)
(* holds a stack of programs, the shell started at boot at the bottom.     *)
(* The processor goes round the terminals; whichever program is on top of  *)
(* the terminal whose turn it is may launch a new program above itself, or *)
(* exit and uncover the one below.                                         *)
(***************************************************************************)
EXTENDS Integers

CONSTANTS MAX_PID, MAX_TERM

Pids  == 0 .. (MAX_PID - 1)
Terms == 0 .. (MAX_TERM - 1)
None  == -1

VARIABLES
    top,    \* the program on top of each terminal, None before its shell starts
    under,  \* the program each program lies on, None for a boot shell
    alive,  \* the pids in use
    turn    \* the terminal that has the processor

vars == <<top, under, alive, turn>>

TypeOK == /\ top \in [Terms -> Pids \cup {None}]
          /\ under \in [Pids -> Pids \cup {None}]
          /\ alive \subseteq Pids
          /\ turn \in Terms

Init == /\ top = [t \in Terms |-> None]
        /\ under = [p \in Pids |-> None]
        /\ alive = {}
        /\ turn = 0

\* Terminal t gets its shell, once, in the order of the terminals.
Boot(t, p) ==
    /\ top[t] = None /\ \A u \in Terms : u < t => top[u] # None
    /\ p \notin alive
    /\ top' = [top EXCEPT ![t] = p]
    /\ alive' = alive \cup {p}
    /\ turn' = t
    /\ UNCHANGED under

Launch(p) ==
    /\ top[turn] # None
    /\ p \notin alive
    /\ top' = [top EXCEPT ![turn] = p]
    /\ under' = [under EXCEPT ![p] = top[turn]]
    /\ alive' = alive \cup {p}
    /\ UNCHANGED turn

Exit ==
    /\ top[turn] # None /\ under[top[turn]] # None
    /\ top' = [top EXCEPT ![turn] = under[top[turn]]]
    /\ under' = [under EXCEPT ![top[turn]] = None]
    /\ alive' = alive \ {top[turn]}
    /\ UNCHANGED turn

NextTurn ==
    /\ \A t \in Terms : top[t] # None
    /\ turn' = (turn + 1) % MAX_TERM
    /\ UNCHANGED <<top, under, alive>>

Next == \/ \E t \in Terms, p \in Pids : Boot(t, p)
        \/ \E p \in Pids : Launch(p)
        \/ Exit
        \/ NextTurn

Spec == Init /\ [][Next]_vars

\* The programs of the system are those stacked on its terminals: two terminals
\* share none, and nothing lies on top of a top.
Stacked ==
    /\ \A t, u \in Terms : top[t] = top[u] /\ top[t] # None => t = u
    /\ \A p, q \in alive : under[p] = under[q] /\ under[p] # None => p = q
    /\ \A p \in alive : under[p] # None => /\ under[p] \in alive
                                           /\ \A t \in Terms : top[t] # under[p]
    /\ \A t \in Terms : top[t] # None => top[t] \in alive
    /\ \A p \in alive : (\E t \in Terms : top[t] = p) \/ (\E q \in alive : under[q] = p)

=============================================================================
