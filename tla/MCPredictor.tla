---------------------------- MODULE MCPredictor ----------------------------
(* Small instances of the predictor. *)
EXTENDS PredictorProps

FreeChoice == [p \in 0 .. NPC - 1 |-> {NoPC} \cup (0 .. NPC - 1)]

\* One loop that is shorter than the delay stages, with and without a SYSCALL.
TightPrograms == {[p \in 0 .. 2 |-> <<"br", "sys", "op">>[p+1]],
                  [p \in 0 .. 2 |-> <<"br", "op", "op">>[p+1]]}
TightTargets == [p \in 0 .. 2 |-> IF p = 0 THEN {0} ELSE {}]

\* The branch decides freely until it settles on one of its two ways to go:
\* after that the predictor is right, whatever it was trained on
\* (FSM.v:41-46, GBP.v:53-58, LBP.v:64-69, BTB.v:63-66).
LearnsHabit == Learns({[p \in 0 .. 2 |-> to] : to \in {0, 2}})

\* A function called from two places, the second time by a jump through a
\* register that may also go back to the start; calls and return are branches.
\*   0 call 5   1 slot   2 jump 5 or 0   3 slot   4 op   5 return   6 slot
CallPrograms == {[p \in 0 .. 6 |-> <<"br", "op", "br", "op", "op", "br", "op">>[p+1]]}
CallTargets == [p \in 0 .. 6 |-> CASE p = 0 -> {5}
                                    [] p = 2 -> {5, 0}
                                    [] p = 5 -> {2, 4}
                                    [] OTHER -> {}]

\* Every program of five instructions without a branch in a delay slot; the
\* branches at even addresses always go three instructions on, the others
\* always fall through.
FixedPrograms ==
    {m \in [0 .. NPC - 1 -> {"op", "br", "sys"}] :
        \A p \in 0 .. NPC - 1 : m[p] = "br" => m[Plus4(p)] # "br"}
FixedTargets == [p \in 0 .. NPC - 1 |-> {(p + 3) % NPC}]
FixedDecides == [p \in 0 .. NPC - 1 |-> IF p % 2 = 0 THEN FixedTargets[p] ELSE {NoPC}]

\* From reset the predictor learns every such program: after a while no branch
\* is mispredicted, though branches of one habit share the entries of its tables
\* (META.v:86-88, BTB.v:42-66, LBP.v:49-50).
LearnsFixed ==
    Learns({[p \in 0 .. NPC - 1 |-> IF p % 2 = 0 THEN (p + 3) % NPC ELSE (p + 2) % NPC]})
=============================================================================
