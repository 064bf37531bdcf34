----------------------------- MODULE MCPrograms -----------------------------
(* Instances of Programs for TLC.  The letters: 3 and 4.                     *)
EXTENDS Programs
Entry(name, content) == [name |-> name, content |-> content]
\* "text" and "other" share a beginning; one name fills all its characters.
MCDirectory == << Entry(<<4, 3>>, "other"), Entry(<<4>>, "text"), Entry(<<3>>, "cat"),
                  Entry(<<4, 4>>, "shell") >>
MCShell == <<4, 4>>
MCExit == <<3, 3>>
MCPatterns == {<<3>>, <<3, 4>>, <<4, 4>>}
MCPhases == {<<1, 2>>, <<2, 1>>}
=============================================================================
