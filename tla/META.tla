-------------------------------- MODULE META --------------------------------
(* META.v: a counter per branch chooses between the two predictors.          *)
EXTENDS Lines

CONSTANT Entries    \* counters; 1024 in the code

VARIABLES
    gbp_histories, lbp_histories,   \* what each of the two predicted
    A, B                            \* META_FSM

META_FSM == INSTANCE FSM WITH Sel <- 0 .. Entries - 1

METAInit ==
    /\ gbp_histories = Line(FALSE)
    /\ lbp_histories = Line(FALSE)
    /\ META_FSM!FSMInit

\* pc[11:2]
idx(pc) == pc % Entries

take(if_pc, gbp_pred, lbp_pred) ==
    IF META_FSM!pred(idx(if_pc)) THEN gbp_pred ELSE lbp_pred

\* Mutant: counts also when both predicted the same.
update_Always == TRUE

update == gbp_histories[0] # lbp_histories[0]

\* Mutant: rewards the global predictor whenever it said taken.
up_down_Global(is_taken) == gbp_histories[0]

\* Up is towards the global predictor: it was right, the local one wrong.
up_down(is_taken) == IF is_taken THEN gbp_histories[0] ELSE lbp_histories[0]

METAEdge(stall, past_pc, is_branch, is_taken, gbp_pred, lbp_pred) ==
    IF stall THEN UNCHANGED <<gbp_histories, lbp_histories, A, B>>
    ELSE /\ gbp_histories' = Enter(gbp_histories, gbp_pred)
         /\ lbp_histories' = Enter(lbp_histories, lbp_pred)
         /\ META_FSM!FSMEdge(is_branch /\ update, idx(past_pc), up_down(is_taken))
=============================================================================
