-------------------------------- MODULE LBP --------------------------------
(* LBP.v: a history per branch selects a counter.                            *)
EXTENDS Lines

CONSTANTS
    H,              \* bits of each history; 10 in the code
    Entries         \* entries of branch_history; 1024 in the code

VARIABLES
    branch_history,
    past_histories, \* the history each prediction was read with
    A, B            \* LBP_FSM

Histories == [1 .. H -> BOOLEAN]
LBP_FSM == INSTANCE FSM WITH Sel <- Histories

LBPInit ==
    /\ branch_history = [e \in 0 .. Entries - 1 |-> [i \in 1 .. H |-> FALSE]]
    /\ past_histories = Line([i \in 1 .. H |-> FALSE])
    /\ LBP_FSM!FSMInit

\* pc[11:2]
idx(pc) == pc % Entries

history(if_pc) == branch_history[idx(if_pc)]
pred(if_pc) == LBP_FSM!pred(history(if_pc))

\* {is_taken, past_history[9:1]}
Shifted(h, is_taken) == [i \in 1 .. H |-> IF i = 1 THEN is_taken ELSE h[i-1]]

\* Mutant: the outcome goes to the entry of the instruction being fetched.
LBPEdge_FetchEntry(stall, if_pc, past_pc, is_branch, is_taken) ==
    IF stall THEN UNCHANGED <<branch_history, past_histories, A, B>>
    ELSE /\ past_histories' = Enter(past_histories, history(if_pc))
         /\ branch_history' =
              IF is_branch
              THEN [branch_history EXCEPT ![idx(if_pc)] =
                                              Shifted(past_histories[0], is_taken)]
              ELSE branch_history
         /\ LBP_FSM!FSMEdge(is_branch, past_histories[0], is_taken)

\* The history written back is the one read when the branch was predicted.
LBPEdge(stall, if_pc, past_pc, is_branch, is_taken) ==
    IF stall THEN UNCHANGED <<branch_history, past_histories, A, B>>
    ELSE /\ past_histories' = Enter(past_histories, history(if_pc))
         /\ branch_history' =
              IF is_branch
              THEN [branch_history EXCEPT ![idx(past_pc)] =
                                              Shifted(past_histories[0], is_taken)]
              ELSE branch_history
         /\ LBP_FSM!FSMEdge(is_branch, past_histories[0], is_taken)
=============================================================================
