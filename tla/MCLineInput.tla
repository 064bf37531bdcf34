---------------------------- MODULE MCLineInput ----------------------------
(* Instances of LineInput for TLC.  LineKeys leaves out the keys that only   *)
(* change the case of a letter when case plays no part.                     *)
EXTENDS LineInput

AllRules == Rules
TwoSizes == {1, KEYBUFSIZE}
LineKeys == {"L", "Enter", "Back", "Alt", "Ctrl", "F"}
=============================================================================
