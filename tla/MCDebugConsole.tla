--------------------------- MODULE MCDebugConsole ---------------------------
(* The end of a line, and what stands before it.                           *)
EXTENDS DebugConsole, TLC

CONSTANT c

MCTexts == {<<Newline>>, <<c>>}

Symmetry == Permutations(Threads) \cup Permutations(Severities)
=============================================================================
