--------------------------- MODULE PredictorProps ---------------------------
(* What the tables must guarantee, and what they are there for.              *)
EXTENDS Predictor

PTypeOK ==
    /\ instr_histories \in [0 .. DELAY - 1 -> PC]
    /\ history \in GBP!Histories
    /\ gbp_past \in [0 .. DELAY - 1 -> GBP!Histories]
    /\ lbp_past \in [0 .. DELAY - 1 -> LBP!Histories]
    /\ branch_history \in [0 .. LocalEntries - 1 -> LBP!Histories]
    /\ gbp_histories \in [0 .. DELAY - 1 -> BOOLEAN]
    /\ lbp_histories \in [0 .. DELAY - 1 -> BOOLEAN]
    /\ pointer \in 0 .. StackSize
    /\ stack \in [0 .. StackSize - 1 -> PC]

\* The real tables are one of the guessers that the front end is proved
\* correct for: they answer for branches only, and only with an address that
\* this branch has gone to or that a call returns to (BRANCH_PREDICTOR.v:51-52,
\* BTB.v:46-48, 76-79, RAS.v:72-75).
GuessesOnly == FSafe

\* For each branch in ID the delay lines hold what the tables read for THAT
\* branch: its address, the two histories and the two predictions.  Stalls and
\* flushes, which the stages and the lines treat differently, have not shifted
\* one against the other (GBP.v:53-58, LBP.v:64-68, META.v:68-75, BTB.v:60-62).
TrainsWhatPredicted ==
    is_branch => /\ past_instr = st[0]
                 /\ gbp_past[0] = asked[0].global
                 /\ lbp_past[0] = asked[0].local
                 /\ gbp_histories[0] = asked[0].gbp
                 /\ lbp_histories[0] = asked[0].lbp

\* The global history is made of the outcomes of the branches on the path,
\* each once and in order: wrong-path branches leave no trace (GBP.v:54).
GlobalHistoryExact == history = decided

\* The history that LBP keeps of an entry is made of the outcomes of its
\* branches on the path, each once and in order, as long as none was decided
\* while another one that was rightly fetched had already read the entry; that
\* one writes the older history back and the outcome is lost (LBP.v:49-52, 64-69).
LocalHistoryExact ==
    \A e \in (0 .. LocalEntries - 1) \ overlapped : branch_history[e] = localDecided[e]

\* META's counter moves only towards the predictor that was right when the
\* other was wrong, and it is the counter of the branch decided (META.v:57-58).
MetaValue(i) == META!META_FSM!Value(meta_A[i], meta_B[i])
MetaRewardsTheRight ==
    [][\A i \in 0 .. MetaEntries - 1 :
         MetaValue(i)' # MetaValue(i) =>
           /\ i = META!idx(st[0])
           /\ asked[0].gbp # asked[0].lbp
           /\ (MetaValue(i)' > MetaValue(i)) <=> (asked[0].gbp = history[1]')]_pvars

\* The predictor learns.  Once every branch has made a habit of going to one
\* place, h[p] for the branch at p, none is mispredicted any more after a while,
\* whatever the tables have learnt before (FSM.v:41-46, GBP.v:53-58,
\* LBP.v:64-69, BTB.v:63-66).
Keeps(h) == Takes /\ is_branch => dest' = h[st[0]]
Learns(Habits) == \A h \in Habits : <>[][Keeps(h)]_pvars => <>[](~flush)
=============================================================================
