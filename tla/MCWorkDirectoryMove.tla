------------------------ MODULE MCWorkDirectoryMove ------------------------
(* A small instance of WorkDirectoryMove for TLC: a move away and one back, *)
(* of a work directory with one tool state directory and two sessions.      *)
EXTENDS WorkDirectoryMove

CONSTANTS away, back, home, other, work, tools, s1, s2

MCTarget == (away :> other) @@ (back :> home)
MCDirectories == <<work, tools>>
MCHeaders == <<s1, s2>>
=============================================================================
