-------------------------------- MODULE GBP --------------------------------
(* GBP.v: one history of the outcomes of all branches selects a counter.     *)
EXTENDS Lines

CONSTANT H          \* bits of history; 12 in the code

VARIABLES
    history,        \* history[1] is the latest outcome
    past_histories, \* the history each prediction was read with
    A, B            \* GBP_FSM

Histories == [1 .. H -> BOOLEAN]
GBP_FSM == INSTANCE FSM WITH Sel <- Histories

GBPInit ==
    /\ history = [i \in 1 .. H |-> FALSE]
    /\ past_histories = Line([i \in 1 .. H |-> FALSE])
    /\ GBP_FSM!FSMInit

pred == GBP_FSM!pred(history)

\* {is_taken, history[11:1]}
Shifted(h, is_taken) == [i \in 1 .. H |-> IF i = 1 THEN is_taken ELSE h[i-1]]

\* Mutant: the line goes on while the pipeline is stalled.
GBPEdge_NoStall(stall, is_branch, is_taken) ==
    /\ past_histories' = Enter(past_histories, history)
    /\ IF stall THEN UNCHANGED <<history, A, B>>
       ELSE /\ history' = IF is_branch THEN Shifted(history, is_taken) ELSE history
            /\ GBP_FSM!FSMEdge(is_branch, past_histories[0], is_taken)

\* Mutant: the history records what was predicted for the IF register.
GBPEdge_Speculative(stall, is_branch, is_taken) ==
    IF stall THEN UNCHANGED <<history, past_histories, A, B>>
    ELSE /\ history' = Shifted(history, pred)
         /\ past_histories' = Enter(past_histories, history)
         /\ GBP_FSM!FSMEdge(is_branch, past_histories[0], is_taken)

GBPEdge(stall, is_branch, is_taken) ==
    IF stall THEN UNCHANGED <<history, past_histories, A, B>>
    ELSE /\ history' = IF is_branch THEN Shifted(history, is_taken) ELSE history
         /\ past_histories' = Enter(past_histories, history)
         /\ GBP_FSM!FSMEdge(is_branch, past_histories[0], is_taken)
=============================================================================
