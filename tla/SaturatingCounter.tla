------------------------- MODULE SaturatingCounter -------------------------
(***************************************************************************)
(* What a bank of FSM.v promises: a two-bit counter per selector, counting *)
(* the outcomes it is told up and down without wrapping around.            *)
(***************************************************************************)
EXTENDS Integers

CONSTANT Sel    \* the selectors

VARIABLE count

Init == count = [s \in Sel |-> 0]

Up(s) == count' = [count EXCEPT ![s] = IF @ = 3 THEN 3 ELSE @ + 1]
Down(s) == count' = [count EXCEPT ![s] = IF @ = 0 THEN 0 ELSE @ - 1]

Next == \E s \in Sel : Up(s) \/ Down(s)

Spec == Init /\ [][Next]_count
=============================================================================
