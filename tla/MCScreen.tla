------------------------------ MODULE MCScreen ------------------------------
(* Instances of Screen for TLC: a screen of two short rows wraps and scrolls *)
(* within a few characters.                                                 *)
EXTENDS Screen

AllRules == Rules
=============================================================================
