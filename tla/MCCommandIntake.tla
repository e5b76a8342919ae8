--------------------------- MODULE MCCommandIntake ---------------------------
(* A finite instance of CommandIntake for TLC. *)
EXTENDS CommandIntake

\* Students are alike.
SameKeys == Permutations(Keys)
=============================================================================
