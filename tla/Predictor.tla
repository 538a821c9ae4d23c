------------------------------ MODULE Predictor ------------------------------
(***************************************************************************)
(* The whole branch predictor, driving the front end: BRANCH_PREDICTOR.v   *)
(* with its five tables.  The guess that FrontEnd leaves open is what the  *)
(* tables answer for the instruction in the IF register; the tables learn  *)
(* from the instruction in ID, and what they stored for it is read off     *)
(* their delay lines.                                                      *)
(***************************************************************************)
EXTENDS FrontEnd

CONSTANTS
    Decides,                    \* Decides[p]: what the program lets the branch
                                \* at p decide, among NoPC and Targets[p]
    Calls, Returns,             \* addresses of the branches that link, of jr $31
    GlobalBits,                 \* history of GBP
    LocalBits, LocalEntries,    \* LBP
    MetaEntries,                \* META
    BTBSets,                    \* BTB
    StackSize                   \* STACK

\* The guesses of FrontEnd cover what the tables can have learnt: the targets
\* of the branch itself, and for a return the addresses after the calls.
ASSUME DecidesAssumption ==
    Decides \in [PC -> SUBSET (PC \cup {NoPC})]
ASSUME LearntAssumption ==
    /\ \A p \in PC : Targets[p] \subseteq Guessed[p]
    /\ \A r \in Returns, c \in Calls : Plus8(c) \in Guessed[r]

ASSUME TableAssumption ==
    /\ BTBSets \in Nat \ {0} /\ StackSize \in Nat \ {0}
    /\ LocalEntries \in Nat \ {0} /\ MetaEntries \in Nat \ {0}
    /\ GlobalBits \in Nat /\ LocalBits \in Nat

VARIABLES
    instr_histories,                    \* the same in GBP, LBP, META and BTB
    history, gbp_past, gbp_A, gbp_B,
    branch_history, lbp_past, lbp_A, lbp_B,
    gbp_histories, lbp_histories, meta_A, meta_B,
    cache,
    stack, pointer,
    asked,      \* history: asked[k] is what the tables read for the
                \* instruction in stage k, and what they answered
    decided,    \* history: the outcomes of the latest branches ID took over
    localDecided,   \* history: the same for each entry of LBP
    overlapped      \* history: the entries of which a branch was decided when
                    \* another one had read them and stayed under way

GBP == INSTANCE GBP WITH H <- GlobalBits, past_histories <- gbp_past,
                         A <- gbp_A, B <- gbp_B
LBP == INSTANCE LBP WITH H <- LocalBits, Entries <- LocalEntries,
                         past_histories <- lbp_past, A <- lbp_A, B <- lbp_B
META == INSTANCE META WITH Entries <- MetaEntries, A <- meta_A, B <- meta_B
BTB == INSTANCE BTB WITH Sets <- BTBSets
RAS == INSTANCE RAS WITH SIZE <- StackSize
Delay == INSTANCE Lines

tvars == <<instr_histories, history, gbp_past, gbp_A, gbp_B, branch_history,
           lbp_past, lbp_A, lbp_B, gbp_histories, lbp_histories, meta_A, meta_B,
           cache, stack, pointer>>
pvars == <<fvars, tvars, asked, decided, localDecided, overlapped>>

\* A cleared register reads as address 0.
Address(k) == IF st[k] = NoPC THEN 0 ELSE st[k]
if_pc == Address(DELAY)
id_pc == Address(0)
past_instr == instr_histories[0]

is_link == is_branch /\ st[0] \in Calls
is_return == Class(DELAY) = "br" /\ st[DELAY] \in Returns

gbp_pred == GBP!pred
lbp_pred == LBP!pred(if_pc)
meta_pred == META!take(if_pc, gbp_pred, lbp_pred)
btb_hit == BTB!hit(if_pc)
ras_hit == RAS!hit(is_return)

\* req_alt and req_alt_pc: the return address stack goes first.
TableGuess ==
    CASE ras_hit -> RAS!alt_pc(is_link, is_return, Plus8(id_pc))
      [] ~ras_hit /\ btb_hit /\ meta_pred -> BTB!alt_pc(if_pc)
      [] ~ras_hit /\ ~(btb_hit /\ meta_pred) -> NoPC

LineEdge ==
    instr_histories' = IF STALL THEN instr_histories
                                ELSE Delay!Enter(instr_histories, if_pc)

RASEdge == IF STALL THEN UNCHANGED <<stack, pointer>>
           ELSE RAS!RASEdge(is_link, is_return, Plus8(id_pc))

TablesEdge(outcome) ==
    LET is_taken == outcome # NoPC IN
    /\ LineEdge
    /\ GBP!GBPEdge(STALL, is_branch, is_taken)
    /\ LBP!LBPEdge(STALL, if_pc, past_instr, is_branch, is_taken)
    /\ META!METAEdge(STALL, past_instr, is_branch, is_taken, gbp_pred, lbp_pred)
    /\ BTB!BTBEdge(STALL, if_pc, past_instr, id_pc, outcome, is_branch /\ is_taken)
    /\ RASEdge

-----------------------------------------------------------------------------
\* What is asked travels with the instruction, by the rules of the stages.
NotAsked == [global |-> [i \in 1 .. GlobalBits |-> FALSE],
             local |-> [i \in 1 .. LocalBits |-> FALSE],
             gbp |-> FALSE, lbp |-> FALSE]

Asking == [global |-> history, local |-> LBP!history(if_pc),
           gbp |-> gbp_pred, lbp |-> lbp_pred]

AskedEdge ==
    asked' = [k \in 0 .. DELAY - 1 |->
                CASE flush -> NotAsked
                  [] ~flush /\ STALL -> asked[k]
                  [] ~flush /\ ~STALL -> IF k = DELAY - 1 THEN Asking ELSE asked[k+1]]

DecidedEdge(outcome) ==
    decided' =
      IF Takes /\ is_branch
      THEN GBP!Shifted(decided, outcome # NoPC)
      ELSE decided

\* A branch of the same entry is under way, and not thrown away by a flush.
Overlaps(outcome) ==
    /\ ~mispred(outcome)
    /\ \E k \in 1 .. DELAY : Class(k) = "br" /\ LBP!idx(st[k]) = LBP!idx(st[0])

LocalEdge(outcome) ==
    IF Takes /\ is_branch
    THEN /\ localDecided' = [localDecided EXCEPT ![LBP!idx(st[0])] =
                                              LBP!Shifted(@, outcome # NoPC)]
         /\ overlapped' = IF Overlaps(outcome) THEN overlapped \cup {LBP!idx(st[0])}
                                               ELSE overlapped
    ELSE UNCHANGED <<localDecided, overlapped>>

PInit ==
    /\ FInit
    /\ instr_histories = Delay!Line(0)
    /\ GBP!GBPInit
    /\ LBP!LBPInit
    /\ META!METAInit
    /\ BTB!BTBInit
    /\ RAS!StackInit
    /\ asked = [k \in 0 .. DELAY - 1 |-> NotAsked]
    /\ decided = NotAsked.global
    /\ localDecided = [e \in 0 .. LocalEntries - 1 |-> NotAsked.local]
    /\ overlapped = {}

PEdge(outcome) ==
    /\ Edge(outcome, TableGuess)
    /\ TablesEdge(outcome)
    /\ AskedEdge
    /\ DecidedEdge(outcome)
    /\ LocalEdge(outcome)

PNext == \E outcome \in Outcomes :
            /\ is_branch => outcome \in Decides[st[0]]
            /\ PEdge(outcome)

PSafe == PInit /\ [][PNext]_pvars

\* The clock runs for as long as the simulator does.
PSpec == PSafe /\ WF_pvars(PNext)
=============================================================================
