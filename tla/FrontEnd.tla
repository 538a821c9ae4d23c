------------------------------ MODULE FrontEnd ------------------------------
(***************************************************************************)
(* The path of an instruction from fetch to execute: IF, the DELAY dummy   *)
(* stages, the redirect logic of BRANCH_PREDICTOR and the freeze machine   *)
(* of ID, with the occupancy of the ID, EXE and MEM output registers.      *)
(*                                                                         *)
(* One step of the model is one rising edge of CLK: every register takes   *)
(* its next value from the values before the edge (the XEdge operators),   *)
(* exactly as the non-blocking assignments of the always blocks do.        *)
(*                                                                         *)
(* The prediction tables are abstracted to a guess: for a branch in the IF *)
(* register they may say "not taken" or name any address in Guessed, right *)
(* or wrong; for anything else they miss (BTB and RAS hit on branches      *)
(* only).  The register values a branch tests are abstracted to its        *)
(* outcome.                                                                *)
(***************************************************************************)
EXTENDS Isa

CONSTANTS
    DELAY,      \* dummy stages between IF and ID; 7 in the code
    Guessed     \* Guessed[p]: where the tables may send the branch at p

\* From 3 stages on the count of the freeze machine ends before the stages a
\* flush has emptied are full again.
ASSUME DelayAssumption == DELAY \in Nat /\ DELAY >= 3
ASSUME GuessAssumption == Guessed \in [PC -> SUBSET PC]

VARIABLES
    imem,               \* instruction memory
    plus4,              \* IF.Instr_PC_Plus4
    st,                 \* st[DELAY] is IF's output register, st[k-1] the dummy
                        \* after st[k], st[0] dummy7's output, which ID reads
    take, altpc, flush, \* BRANCH_PREDICTOR outputs
    past,               \* past_pcs
    sbc, inhibit, sys,  \* syscall_bubble_counter, INHIBIT_FREEZE, SYS
    idOut, exeOut, memOut, \* class of the instruction in the output registers
    dest,               \* history: where the branch just decided goes, or NoPC
    serial              \* history: class of the instruction being serialised

fvars == <<imem, dest, plus4, st, take, altpc, flush, past, sbc, inhibit,
           sys, idOut, exeOut, memOut, serial>>

Stages == 0 .. DELAY
Classes == Kinds \cup {"nop"}

\* A cleared register holds instruction 0 at address 0, which is a nop.
Class(k) == IF st[k] = NoPC THEN "nop" ELSE imem[st[k]]

is_branch == Class(0) = "br"
syscal1 == Class(0) \in Serial
STALL == syscal1 /\ ~inhibit        \* WANT_FREEZE; FORCE_FREEZE is never set

\* What compare and NextInstructionCalculator can answer for the instruction
\* in ID: NoPC when it is not a branch or is not taken.
Outcomes == IF is_branch THEN {NoPC} \cup Targets[st[0]] ELSE {NoPC}

\* What the tables can answer for the instruction in the IF register.
Guesses == IF Class(DELAY) = "br" THEN {NoPC} \cup Guessed[st[DELAY]]
                                  ELSE {NoPC}

Instr_address_2IM == IF take THEN altpc ELSE plus4

IFEdge ==
    plus4' = IF STALL THEN plus4 ELSE Plus4(Instr_address_2IM)

\* Mutant: the flush does not reach the first dummy.
StageEdge_FlushShort ==
    st' = [k \in Stages |->
             CASE k < DELAY - 1 /\ flush -> NoPC
               [] (k >= DELAY - 1 \/ ~flush) /\ STALL -> st[k]
               [] k = DELAY /\ ~STALL -> Instr_address_2IM
               [] k < DELAY /\ (k = DELAY - 1 \/ ~flush) /\ ~STALL -> st[k+1]]

\* IF's output register holds during a stall, the dummies are cleared by a
\* flush even then.
StageEdge ==
    st' = [k \in Stages |->
             CASE k = DELAY /\ STALL  -> st[k]
               [] k = DELAY /\ ~STALL -> Instr_address_2IM
               [] k < DELAY /\ flush  -> NoPC
               [] k < DELAY /\ ~flush /\ STALL  -> st[k]
               [] k < DELAY /\ ~flush /\ ~STALL -> st[k+1]]

\* A prediction is remembered as the address after the delay slot when taken
\* and as PC + 4, the address of the delay slot, when not taken.
mispred(outcome) ==
    /\ is_branch
    /\ past[0] # IF outcome # NoPC THEN outcome ELSE Plus4(st[0])

\* Mutant: a branch wrongly predicted taken goes on at its delay slot.
RedirectPC_Plus4(outcome, guess) ==
    CASE mispred(outcome) /\ outcome # NoPC -> outcome
      [] mispred(outcome) /\ outcome = NoPC -> Plus4(st[0])
      [] ~mispred(outcome) /\ guess # NoPC  -> guess
      [] OTHER -> Plus4(IF st[DELAY] = NoPC THEN 0 ELSE st[DELAY])

RedirectPC(outcome, guess) ==
    CASE mispred(outcome) /\ outcome # NoPC -> outcome
      [] mispred(outcome) /\ outcome = NoPC -> Plus8(st[0])
      [] ~mispred(outcome) /\ guess # NoPC  -> guess
      [] ~mispred(outcome) /\ guess = NoPC /\ st[DELAY] # NoPC
                                            -> Plus4(st[DELAY])
      [] OTHER                              -> Plus4(0)

\* Mutant: past_pcs shifts during a stall too.
PredictorEdge_Shift(outcome, guess) ==
    /\ past' = [k \in 0 .. DELAY - 1 |->
                  IF flush THEN past[k]
                  ELSE IF k = DELAY - 1 THEN RedirectPC(outcome, guess)
                                        ELSE past[k+1]]
    /\ IF STALL THEN UNCHANGED <<take, altpc, flush>>
       ELSE /\ take' = (~flush /\ (guess # NoPC \/ mispred(outcome)))
            /\ flush' = mispred(outcome)
            /\ altpc' = IF flush THEN 0 ELSE RedirectPC(outcome, guess)

PredictorEdge(outcome, guess) ==
    \/ /\ STALL
       /\ UNCHANGED <<take, altpc, flush, past>>
    \/ /\ ~STALL /\ ~flush
       /\ past' = [k \in 0 .. DELAY - 1 |->
                     IF k = DELAY - 1 THEN RedirectPC(outcome, guess)
                                      ELSE past[k+1]]
       /\ take' = (guess # NoPC \/ mispred(outcome))
       /\ flush' = mispred(outcome)
       /\ altpc' = RedirectPC(outcome, guess)
    \/ /\ ~STALL /\ flush
       /\ take' = FALSE
       /\ flush' = mispred(outcome)
       /\ altpc' = 0
       /\ UNCHANGED past

\* Mutants: the freeze machine counting from n and raising SYS for the classes
\* in raises: a count from 5 or from 2, SYS for LL/SC too, no count at all.
Freeze(n, raises) ==
    /\ sbc' = IF sbc > 0 THEN sbc - 1 ELSE IF syscal1 THEN n ELSE 0
    /\ sys' = CASE sbc = 2 -> Class(0) \in raises
                [] sbc = 1 -> FALSE
                [] OTHER   -> sys
    /\ inhibit' = CASE sbc = 2       -> TRUE
                    [] sbc \in 0 .. 1 -> FALSE
                    [] OTHER          -> inhibit
FreezeEdge_From5 == Freeze(5, Classes \ {"llsc"})
FreezeEdge_From2 == Freeze(2, Classes \ {"llsc"})
FreezeEdge_AlwaysSys == Freeze(4, Classes)
FreezeEdge_NoCount == Freeze(0, Classes \ {"llsc"})

\* The freeze machine.  Its second case statement decides what ID sends: a nop
\* for {syscal1, sbc} in {8,9,11,12,13,1}, the instruction for {10, 0}; for the
\* other values the output registers keep what they hold.
FreezeEdge ==
    /\ sbc' = IF sbc > 0 THEN sbc - 1 ELSE IF syscal1 THEN 4 ELSE 0
    /\ sys' = CASE sbc = 2 -> Class(0) # "llsc"
                [] sbc = 1 -> FALSE
                [] OTHER   -> sys
    /\ inhibit' = CASE sbc = 2      -> TRUE
                    [] sbc \in 0..1 -> FALSE
                    [] OTHER        -> inhibit

SendsNop == \/ syscal1 /\ sbc \in {0, 1, 3, 4, 5}
            \/ ~syscal1 /\ sbc = 1
SendsInstr == \/ syscal1 /\ sbc = 2
              \/ ~syscal1 /\ sbc = 0

OutputEdge ==
    /\ idOut' = CASE SendsNop   -> "nop"
                  [] SendsInstr -> Class(0)
                  [] OTHER      -> idOut
    /\ exeOut' = idOut
    /\ memOut' = exeOut

\* ID takes an instruction over when it sends it, or when it starts the count
\* that serialises it.
Takes == sbc = 0 /\ st[0] # NoPC

HistoryEdge(outcome) ==
    /\ dest' = CASE Takes /\ is_branch -> IF outcome = NoPC THEN Plus8(st[0])
                                                            ELSE outcome
                 [] Takes /\ ~is_branch -> NoPC
                 [] ~Takes              -> dest
    /\ serial' = CASE sbc = 0 /\ syscal1 -> Class(0)
                   [] sbc = 1            -> "none"
                   [] OTHER              -> serial

\* After RESET; the predictor's outputs are not reset and start at 0.
FInit ==
    /\ imem \in Programs
    /\ plus4 = ResetPC
    /\ st = [k \in Stages |-> NoPC]
    /\ past = [k \in 0 .. DELAY - 1 |-> 0]
    /\ take = FALSE /\ flush = FALSE /\ altpc = 0
    /\ sbc = 0 /\ inhibit = FALSE /\ sys = FALSE
    /\ idOut = "nop" /\ exeOut = "nop" /\ memOut = "nop"
    /\ dest = NoPC
    /\ serial = "none"

Edge(outcome, guess) ==
    /\ IFEdge
    /\ StageEdge
    /\ PredictorEdge(outcome, guess)
    /\ FreezeEdge
    /\ OutputEdge
    /\ HistoryEdge(outcome)
    /\ UNCHANGED imem

FNext == \E outcome \in Outcomes, guess \in Guesses : Edge(outcome, guess)

FSafe == FInit /\ [][FNext]_fvars

\* The simulator toggles CLK for as long as it runs.
FSpec == FSafe /\ WF_fvars(FNext)
=============================================================================
