-------------------------------- MODULE FSM --------------------------------
(***************************************************************************)
(* FSM.v: a bank of two-bit state machines, kept as two arrays of bits.    *)
(* GBP, LBP and META each instantiate one.                                 *)
(***************************************************************************)
EXTENDS Integers

CONSTANT Sel    \* pred_sel and update_sel range over 2^INDEX selectors

VARIABLES A, B

FSMInit ==
    /\ A = [s \in Sel |-> FALSE]
    /\ B = [s \in Sel |-> FALSE]

pred(s) == A[s]

\* The two next-state equations.
NextA(a, b, up) == (a /\ b) \/ (a /\ up) \/ (b /\ up)

\* Mutant: the complement of B is lost in the last term.
NextB_NoComplement(a, b, up) == (a /\ ~b) \/ (a /\ up) \/ (b /\ up)
NextB(a, b, up) == (a /\ ~b) \/ (a /\ up) \/ (~b /\ up)

\* One edge of the clock on which the bank is not stalled.
FSMEdge(update, update_sel, up_down) ==
    IF update
    THEN /\ A' = [A EXCEPT ![update_sel] = NextA(A[update_sel], B[update_sel], up_down)]
         /\ B' = [B EXCEPT ![update_sel] = NextB(A[update_sel], B[update_sel], up_down)]
    ELSE UNCHANGED <<A, B>>

FSMNext ==
    \E update \in BOOLEAN, up_down \in BOOLEAN, s \in Sel :
        FSMEdge(update, s, up_down)

FSMSpec == FSMInit /\ [][FSMNext]_<<A, B>>

-----------------------------------------------------------------------------
Bit(x) == IF x THEN 1 ELSE 0
Value(a, b) == 2 * Bit(a) + Bit(b)

\* A is the high bit: a counter of 2 or 3 predicts taken.
Counter == INSTANCE SaturatingCounter
             WITH count <- [s \in Sel |-> Value(A[s], B[s])]

\* The state machines are saturating counters: FSM.v's equations never wrap,
\* never skip a state and leave the other selectors alone (FSM.v:41-46).
CountsSaturating == Counter!Spec
=============================================================================
