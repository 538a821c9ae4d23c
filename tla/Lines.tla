------------------------------- MODULE Lines -------------------------------
(* The delay lines with which every table of the predictor remembers what it *)
(* read for an instruction until ID has decided it.                          *)
EXTENDS Integers

CONSTANT DELAY      \* length of the lines, the number of dummy stages

Line(x) == [k \in 0 .. DELAY - 1 |-> x]

\* A new value enters at DELAY - 1, the oldest is at 0.
Enter(line, new) == [k \in 0 .. DELAY - 1 |-> IF k = DELAY - 1 THEN new
                                                               ELSE line[k+1]]
=============================================================================
