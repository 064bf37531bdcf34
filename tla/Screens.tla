------------------------------ MODULE Screens ------------------------------
(***************************************************************************)
(* What the display promises: every terminal has a screen of its own, on   *)
(* which its program's output and its keys are drawn one character at a    *)
(* time, whichever terminal is shown and whenever that changes.            *)
(***************************************************************************)
EXTENDS Drawing

CONSTANT MAX_TERM
Terms == 0 .. (MAX_TERM - 1)

VARIABLE screens

Init == screens = [t \in Terms |-> Blank]

\* A screen after one more character, printed or echoed, or a Ctrl-L.
After(s) == {Put(s, g) : g \in Glyphs} \cup {Echo(s, g) : g \in Glyphs} \cup {Cleared(s)}

Next == \E t \in Terms :
    /\ \A u \in Terms \ {t} : screens'[u] = screens[u]
    /\ screens'[t] \in After(screens[t])
    /\ DOMAIN screens' = Terms

Spec == Init /\ [][Next]_screens
=============================================================================
