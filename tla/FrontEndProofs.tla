--------------------------- MODULE FrontEndProofs ---------------------------
(***************************************************************************)
(* The front end keeps its promise for every address space, every number   *)
(* of dummy stages from 3 on, every program and every guess of the tables. *)
(***************************************************************************)
EXTENDS FrontEndInv, TLAPS, WellFoundedInduction

USE AddressAssumption, DelayAssumption

LEMMA NextAddress == ASSUME NEW p \in PC PROVE Plus4(p) \in PC
  BY DEF PC, Plus4

LEMMA NoAddress == NoPC \notin PC
  BY DEF PC, NoPC

LEMMA ZeroAddress == 0 \in PC
  BY DEF PC

LEMMA StageNumbers ==
    /\ Stages = 0 .. DELAY
    /\ 0 \in Stages /\ DELAY \in Stages /\ 1 \in Stages
    /\ \A k \in Stages : k # DELAY => k + 1 \in Stages /\ k < DELAY
  BY DEF Stages

\* The type invariant, one conjunct of FTypeOK per edge operator.
LEMMA TypeStep ==
  ASSUME FTypeOK, NEW outcome \in Outcomes, NEW guess \in Guesses,
         Edge(outcome, guess)
  PROVE  FTypeOK'
<1> USE NextAddress, NoAddress, ZeroAddress DEF FTypeOK
<1>1. /\ imem' = imem /\ imem \in [PC -> Kinds]
      /\ \A p \in PC : Targets[p] \subseteq PC /\ Guessed[p] \subseteq PC
  BY ProgramAssumption, TargetAssumption, GuessAssumption DEF Edge
<1>2. \A k \in Stages : Class(k) \in Classes
  BY <1>1 DEF Class, Classes
<1>3. outcome \in PC \cup {NoPC} /\ (~is_branch => outcome = NoPC)
  BY <1>1, StageNumbers DEF Outcomes, is_branch, Class
<1>4. guess \in PC \cup {NoPC}
  BY <1>1, StageNumbers DEF Guesses, Class
<1>5. Instr_address_2IM \in PC
  BY DEF Instr_address_2IM
<1>6. RedirectPC(outcome, guess) \in PC
  <2>1. is_branch => st[0] \in PC
    BY StageNumbers DEF is_branch, Class
  <2>2. mispred(outcome) => is_branch
    BY DEF mispred
  <2>3. Plus4(st[DELAY]) \in PC \/ st[DELAY] = NoPC
    BY StageNumbers
  <2>4. is_branch => Plus8(st[0]) \in PC
    BY <2>1 DEF Plus8
  <2> QED BY <1>3, <1>4, <2>1, <2>2, <2>3, <2>4 DEF RedirectPC
<1>7. plus4' \in PC
  BY <1>5 DEF Edge, IFEdge
<1>8. st' \in [Stages -> PC \cup {NoPC}]
  BY <1>5, StageNumbers DEF Edge, StageEdge
<1>9. altpc' \in PC /\ take' \in BOOLEAN /\ flush' \in BOOLEAN
  BY <1>6 DEF Edge, PredictorEdge, mispred
<1>10. past' \in [0 .. DELAY - 1 -> PC]
  <2>1. \A k \in 0 .. DELAY - 1 : k # DELAY - 1 => k + 1 \in 0 .. DELAY - 1
    OBVIOUS
  <2> QED BY <1>6, <2>1 DEF Edge, PredictorEdge
<1>11. sbc' \in 0 .. 4 /\ inhibit' \in BOOLEAN /\ sys' \in BOOLEAN
  <2>1. sbc' \in 0 .. 4
    BY DEF Edge, FreezeEdge
  <2>2. inhibit' \in BOOLEAN
    BY DEF Edge, FreezeEdge
  <2>3. sys' \in BOOLEAN
    BY DEF Edge, FreezeEdge
  <2> QED BY <2>1, <2>2, <2>3
<1>12. idOut' \in Classes /\ exeOut' \in Classes /\ memOut' \in Classes
  BY <1>2, StageNumbers DEF Edge, OutputEdge, Classes
<1>13. dest' \in PC \cup {NoPC}
  <2>1. Takes /\ is_branch => Plus8(st[0]) \in PC
    BY StageNumbers DEF Takes, Plus8
  <2> QED BY <1>3, <2>1 DEF Edge, HistoryEdge
<1>14. serial' \in Serial \cup {"none"}
  BY DEF Edge, HistoryEdge, syscal1
<1> QED BY <1>1, <1>7, <1>8, <1>9, <1>10, <1>11, <1>12, <1>13, <1>14

LEMMA TypeInit == FInit => FTypeOK
<1> SUFFICES ASSUME FInit PROVE FTypeOK
  OBVIOUS
<1>1. past \in [0 .. DELAY - 1 -> PC]
  BY ZeroAddress DEF FInit
<1>2. st \in [Stages -> PC \cup {NoPC}]
  BY DEF FInit
<1>3. idOut \in Classes /\ exeOut \in Classes /\ memOut \in Classes
  BY DEF FInit, Classes
<1>4. imem \in Programs /\ plus4 \in PC /\ altpc \in PC
  BY ZeroAddress DEF FInit
<1>5. take \in BOOLEAN /\ flush \in BOOLEAN
  BY Zenon DEF FInit
<1>6. sbc \in 0 .. 4 /\ inhibit \in BOOLEAN /\ sys \in BOOLEAN
  <2>1. inhibit \in BOOLEAN /\ sys \in BOOLEAN
    BY Zenon DEF FInit
  <2> QED BY <2>1 DEF FInit
<1>7. dest \in PC \cup {NoPC} /\ serial \in Serial \cup {"none"}
  BY DEF FInit
<1> QED BY <1>1, <1>2, <1>3, <1>4, <1>5, <1>6, <1>7 DEF FTypeOK

THEOREM TypeCorrect == FSpec => []FTypeOK
<1>1. FTypeOK /\ [FNext]_fvars => FTypeOK'
  <2> SUFFICES ASSUME FTypeOK, [FNext]_fvars PROVE FTypeOK'
    OBVIOUS
  <2>1. CASE FNext
    BY <2>1, TypeStep DEF FNext
  <2>2. CASE UNCHANGED fvars
    BY <2>2 DEF fvars, FTypeOK
  <2> QED BY <2>1, <2>2
<1> QED BY TypeInit, <1>1, PTL DEF FSpec, FSafe

-----------------------------------------------------------------------------
(* What a state that satisfies the invariant looks like. *)

LEMMA ClassFacts ==
  ASSUME FTypeOK
  PROVE  /\ \A k \in Stages : /\ st[k] \in PC \cup {NoPC}
                              /\ Class(k) \in Classes
                              /\ Class(k) = "nop" <=> st[k] = NoPC
                              /\ st[k] # NoPC => st[k] \in PC /\ Class(k) = imem[st[k]]
         /\ is_branch <=> Class(0) = "br"
         /\ syscal1 <=> Class(0) \in {"sys", "llsc"}
<1>1. imem \in [PC -> Kinds]
  BY ProgramAssumption DEF FTypeOK
<1> QED BY <1>1, NoAddress DEF FTypeOK, Class, Classes, Kinds, is_branch, syscal1, Serial

\* The instruction after a branch is neither a branch nor an LL/SC.
LEMMA DelaySlot ==
  ASSUME FTypeOK, NEW j \in Stages, NEW k \in Stages,
         Class(j) = "br", st[k] = Plus4(st[j])
  PROVE  Class(k) \notin {"br", "llsc"} /\ st[k] # NoPC
<1>1. st[j] \in PC /\ imem[st[j]] = "br"
  BY ClassFacts
<1>2. st[k] \in PC /\ st[k] # NoPC
  BY <1>1, NextAddress, NoAddress
<1>3. imem[st[k]] \notin {"br", "llsc"}
  BY <1>1, SlotAssumption DEF FTypeOK
<1> QED BY <1>2, <1>3, ClassFacts

\* While ID counts there is no branch in it.
LEMMA CountingHead ==
  ASSUME FInd, sbc > 0
  PROVE  ~is_branch /\ (syscal1 => Class(0) = serial) /\ (~syscal1 => st[0] = NoPC)
<1>1. serial \in {"sys", "llsc"}
  BY DEF FInd, FTypeOK, Window, Serial
<1>2. Class(0) # serial => st[0] = NoPC
  BY StageNumbers DEF FInd, FTypeOK, Window
<1> QED BY <1>1, <1>2, ClassFacts, StageNumbers DEF FInd

\* A branch in ID is being taken over and is followed by its delay slot.
LEMMA BranchHead ==
  ASSUME FInd, is_branch, ~flush
  PROVE  /\ st[0] \in PC /\ Takes /\ ~syscal1 /\ ~STALL
         /\ st[1] = Plus4(st[0]) /\ st[1] \in PC
         /\ Class(1) \notin {"br", "llsc"}
<1>1. sbc = 0
  BY CountingHead DEF FInd, FTypeOK
<1>2. Class(0) = "br" /\ st[0] \in PC /\ st[0] # NoPC
  BY ClassFacts, StageNumbers DEF FInd, is_branch
<1>3. dest = NoPC
  BY <1>2 DEF FInd, HeadSequential
<1>4. After(0) = st[1]
  BY DEF After
<1>5. st[1] = Plus4(st[0])
  BY <1>1, <1>2, <1>3, <1>4 DEF FInd, HeadSequential
<1>6. Class(1) \notin {"br", "llsc"} /\ st[1] # NoPC
  BY <1>2, <1>5, DelaySlot, StageNumbers DEF FInd
<1>7. ~syscal1 /\ ~STALL
  BY <1>2, ClassFacts DEF FInd, STALL
<1> QED BY <1>1, <1>2, <1>5, <1>6, <1>7, ClassFacts, StageNumbers DEF FInd, Takes

\* When a branch is in the IF register its delay slot is being fetched.
LEMMA FetchAfterBranch ==
  ASSUME FInd, ~flush, Class(DELAY) = "br"
  PROVE  /\ Instr_address_2IM = Plus4(st[DELAY])
         /\ st[DELAY] \in PC
<1>1. st[DELAY] \in PC /\ st[DELAY] # NoPC
  BY ClassFacts, StageNumbers DEF FInd
<1>2. DELAY \in 1 .. DELAY /\ DELAY - 1 \in Stages
  BY StageNumbers
<1>3. Class(DELAY - 1) # "br"
  <2> SUFFICES ASSUME Class(DELAY - 1) = "br" PROVE FALSE
    OBVIOUS
  <2>1. st[DELAY] = Plus4(st[DELAY - 1])
    BY <1>1, <1>2 DEF FInd, Sequential
  <2> QED BY <2>1, <1>2, DelaySlot, StageNumbers DEF FInd
<1>4. After(DELAY) = Plus4(st[DELAY])
  BY <1>1, <1>2, <1>3 DEF FInd, Sequential
<1> QED BY <1>1, <1>4 DEF After

-----------------------------------------------------------------------------
(* The shape of an edge in each of the pipeline's modes. *)

LEMMA ClassNext ==
  ASSUME NEW outcome, NEW guess, Edge(outcome, guess)
  PROVE  /\ imem' = imem
         /\ \A k : Class(k)' = IF st'[k] = NoPC THEN "nop" ELSE imem[st'[k]]
  BY DEF Edge, Class

LEMMA StallShape ==
  ASSUME FInd, NEW outcome \in Outcomes, NEW guess \in Guesses,
         Edge(outcome, guess), STALL
  PROVE  /\ syscal1 /\ ~is_branch /\ st[0] # NoPC /\ sbc # 1
         /\ plus4' = plus4 /\ take' = take /\ altpc' = altpc
         /\ flush' = flush /\ past' = past
         /\ ~flush => st' = st
         /\ flush => \A k \in 0 .. DELAY - 1 : st'[k] = NoPC
<1>1. syscal1 /\ ~inhibit
  BY DEF STALL
<1>2. ~is_branch /\ st[0] # NoPC /\ sbc # 1
  BY <1>1, ClassFacts, StageNumbers DEF FInd, Draining
<1>3. plus4' = plus4 /\ take' = take /\ altpc' = altpc /\ flush' = flush /\ past' = past
  BY DEF Edge, IFEdge, PredictorEdge
<1>4. ~flush => st' = st
  <2>1. st = [k \in Stages |-> st[k]]
    BY DEF FInd, FTypeOK
  <2> QED BY <2>1, StageNumbers DEF Edge, StageEdge
<1>5. flush => \A k \in 0 .. DELAY - 1 : st'[k] = NoPC
  BY StageNumbers DEF Edge, StageEdge
<1> QED BY <1>1, <1>2, <1>3, <1>4, <1>5

LEMMA FlushShape ==
  ASSUME FInd, NEW outcome \in Outcomes, NEW guess \in Guesses,
         Edge(outcome, guess), ~STALL, flush
  PROVE  /\ ~is_branch /\ take' = FALSE /\ flush' = FALSE
         /\ st'[DELAY] = altpc /\ plus4' = Plus4(altpc)
         /\ \A k \in 0 .. DELAY - 1 : st'[k] = NoPC
         /\ sbc # 1 /\ ~syscal1
<1>1. ~is_branch /\ take
  BY DEF FInd, FlushTakes, is_branch
<1>2. take' = FALSE /\ flush' = FALSE
  BY <1>1 DEF Edge, PredictorEdge, mispred
<1>3. st'[DELAY] = altpc /\ plus4' = Plus4(altpc)
  BY <1>1, StageNumbers DEF Edge, StageEdge, IFEdge, Instr_address_2IM
<1>4. \A k \in 0 .. DELAY - 1 : st'[k] = NoPC
  BY StageNumbers DEF Edge, StageEdge
<1>5. sbc # 1 /\ ~syscal1
  BY DEF FInd, FlushTakes, STALL, Draining
<1> QED BY <1>1, <1>2, <1>3, <1>4, <1>5

LEMMA FlowShape ==
  ASSUME FInd, NEW outcome \in Outcomes, NEW guess \in Guesses,
         Edge(outcome, guess), ~STALL, ~flush
  PROVE  /\ st'[DELAY] = Instr_address_2IM
         /\ Instr_address_2IM \in PC
         /\ plus4' = Plus4(Instr_address_2IM)
         /\ \A k \in 0 .. DELAY - 1 : st'[k] = st[k+1]
         /\ past'[DELAY - 1] = RedirectPC(outcome, guess)
         /\ \A k \in 0 .. DELAY - 2 : past'[k] = past[k+1]
         /\ altpc' = RedirectPC(outcome, guess)
         /\ take' = (guess # NoPC \/ mispred(outcome))
         /\ flush' = mispred(outcome)
         /\ syscal1 => sbc = 1
<1>1. Instr_address_2IM \in PC
  BY DEF FInd, FTypeOK, Instr_address_2IM
<1>2. st'[DELAY] = Instr_address_2IM /\ plus4' = Plus4(Instr_address_2IM)
  BY StageNumbers DEF Edge, StageEdge, IFEdge
<1>3. \A k \in 0 .. DELAY - 1 : st'[k] = st[k+1]
  BY StageNumbers DEF Edge, StageEdge
<1>4. /\ past'[DELAY - 1] = RedirectPC(outcome, guess)
      /\ \A k \in 0 .. DELAY - 2 : past'[k] = past[k+1]
      /\ altpc' = RedirectPC(outcome, guess)
      /\ take' = (guess # NoPC \/ mispred(outcome))
      /\ flush' = mispred(outcome)
  BY DEF Edge, PredictorEdge
<1>5. syscal1 => sbc = 1
  BY DEF FInd, STALL, Draining
<1> QED BY <1>1, <1>2, <1>3, <1>4, <1>5

\* Without a misprediction the fetched path is carried along unchanged.
LEMMA AfterShift ==
  ASSUME FInd, NEW outcome \in Outcomes, NEW guess \in Guesses,
         Edge(outcome, guess), ~STALL, ~flush, ~mispred(outcome)
  PROVE  \A k \in 0 .. DELAY - 1 : After(k)' = After(k+1)
<1> SUFFICES ASSUME NEW k \in 0 .. DELAY - 1 PROVE After(k)' = After(k+1)
  OBVIOUS
<1>1. flush' = FALSE /\ k # DELAY
  BY FlowShape
<1>2. After(k)' = st'[k+1]
  BY <1>1 DEF After
<1>3. CASE k + 1 = DELAY
  BY <1>2, <1>3, FlowShape DEF After
<1>4. CASE k + 1 # DELAY
  <2>1. k + 1 \in 0 .. DELAY - 1
    BY <1>4
  <2> QED BY <1>2, <1>4, <2>1, FlowShape DEF After
<1> QED BY <1>3, <1>4

-----------------------------------------------------------------------------
(* Each conjunct of the invariant is preserved by an edge. *)

LEMMA NoGapStep ==
  ASSUME FInd, NEW outcome \in Outcomes, NEW guess \in Guesses,
         Edge(outcome, guess)
  PROVE  NoGap'
<1> SUFFICES ASSUME ~flush', NEW k \in 0 .. DELAY - 1, st'[k] # NoPC
             PROVE  st'[k+1] # NoPC
  BY DEF NoGap
<1>1. CASE STALL
  <2>1. ~flush /\ st' = st
    BY <1>1, StallShape
  <2> QED BY <2>1 DEF FInd, NoGap
<1>2. CASE ~STALL /\ flush
  BY <1>2, FlushShape
<1>3. CASE ~STALL /\ ~flush
  <2>1. CASE k + 1 = DELAY
    BY <1>3, <2>1, FlowShape, NoAddress
  <2>2. CASE k + 1 # DELAY
    <3>1. k + 1 \in 0 .. DELAY - 1
      BY <2>2
    <3> QED BY <1>3, <3>1, FlowShape DEF FInd, NoGap
  <2> QED BY <2>1, <2>2
<1> QED BY <1>1, <1>2, <1>3

LEMMA PredictionStep ==
  ASSUME FInd, NEW outcome \in Outcomes, NEW guess \in Guesses,
         Edge(outcome, guess)
  PROVE  PredictionAligned'
<1> SUFFICES ASSUME NEW k \in 0 .. DELAY - 1, ~flush', Class(k)' = "br"
             PROVE  After(k+1)' = IF past'[k] = Plus4(st'[k]) THEN Plus8(st'[k])
                                                              ELSE past'[k]
  BY DEF PredictionAligned, Plus8, Plus4
<1>1. st'[k] # NoPC
  BY ClassNext
<1>2. CASE STALL
  <2>1. /\ ~flush /\ st' = st /\ take' = take /\ altpc' = altpc
        /\ plus4' = plus4 /\ past' = past /\ flush' = flush
    BY <1>2, StallShape
  <2>2. Class(k) = "br" /\ After(k+1)' = After(k+1)
    BY <2>1, ClassNext DEF Class, After, Instr_address_2IM
  <2> QED BY <2>1, <2>2 DEF FInd, PredictionAligned
<1>3. CASE ~STALL /\ flush
  BY <1>1, <1>3, FlushShape
<1>4. CASE ~STALL /\ ~flush
  <2>1. ~mispred(outcome) /\ st'[k] = st[k+1] /\ Class(k+1) = "br"
    BY <1>4, FlowShape, ClassNext DEF Class
  <2>2. CASE k + 1 # DELAY
    <3>1. k + 1 \in 0 .. DELAY - 1 /\ k \in 0 .. DELAY - 2
      BY <2>2
    <3>2. past'[k] = past[k+1] /\ After(k+1)' = After(k+2)
      BY <1>4, <2>1, <3>1, FlowShape, AfterShift
    <3> QED BY <1>4, <2>1, <3>1, <3>2 DEF FInd, PredictionAligned
  <2>3. CASE k + 1 = DELAY
    <3>1. k = DELAY - 1
      BY <2>3
    <3>2. /\ Instr_address_2IM = Plus4(st[DELAY])
          /\ st[DELAY] \in PC
      BY <1>4, <2>1, <2>3, FetchAfterBranch
    <3>3. /\ take' = (guess # NoPC)
          /\ altpc' = RedirectPC(outcome, guess)
          /\ past'[k] = RedirectPC(outcome, guess)
          /\ plus4' = Plus8(st[DELAY])
      BY <1>4, <2>1, <3>1, <3>2, FlowShape DEF Plus8
    <3>4. After(k+1)' = IF take' THEN altpc' ELSE plus4'
      BY <2>3 DEF After, Instr_address_2IM
    <3>5. CASE guess # NoPC
      <4>1. guess \in Guessed[st[DELAY]]
        BY <3>5, <2>1, <2>3 DEF Guesses
      <4>2. guess # Plus4(st[DELAY])
        BY <4>1, <3>2, OwnSlotAssumption
      <4>3. RedirectPC(outcome, guess) = guess
        BY <3>5, <2>1 DEF RedirectPC
      <4> QED BY <2>1, <2>3, <3>3, <3>4, <3>5, <4>2, <4>3
    <3>6. CASE guess = NoPC
      <4>1. RedirectPC(outcome, guess) = Plus4(st[DELAY])
        BY <3>6, <2>1, <3>2, NoAddress DEF RedirectPC
      <4> QED BY <2>1, <2>3, <3>3, <3>4, <3>6, <4>1
    <3> QED BY <3>5, <3>6
  <2> QED BY <2>2, <2>3
<1> QED BY <1>2, <1>3, <1>4

LEMMA SequentialStep ==
  ASSUME FInd, NEW outcome \in Outcomes, NEW guess \in Guesses,
         Edge(outcome, guess)
  PROVE  Sequential'
<1> SUFFICES ASSUME ~flush', NEW k \in 1 .. DELAY, st'[k] # NoPC
             PROVE  IF Class(k-1)' = "br" THEN st'[k] = Plus4(st'[k-1])
                                          ELSE After(k)' = Plus4(st'[k])
  BY DEF Sequential, Plus4
<1>1. k - 1 \in 0 .. DELAY - 1
  OBVIOUS
<1>2. CASE STALL
  <2>1. /\ ~flush /\ st' = st /\ take' = take /\ altpc' = altpc
        /\ plus4' = plus4 /\ flush' = flush
    BY <1>2, StallShape
  <2>2. Class(k-1)' = Class(k-1) /\ After(k)' = After(k)
    BY <2>1, ClassNext DEF Class, After, Instr_address_2IM
  <2> QED BY <2>1, <2>2 DEF FInd, Sequential
<1>3. CASE ~STALL /\ flush
  <2>1. k = DELAY
    <3>1. k \notin 0 .. DELAY - 1
      BY <1>3, FlushShape
    <3> QED BY <3>1
  <2>2. Class(k-1)' = "nop"
    BY <1>1, <1>3, FlushShape, ClassNext
  <2>3. After(k)' = Plus4(st'[k])
    BY <1>3, <2>1, FlushShape DEF After, Instr_address_2IM
  <2> QED BY <2>2, <2>3
<1>4. CASE ~STALL /\ ~flush
  <2>1. ~mispred(outcome) /\ st'[k-1] = st[k] /\ Class(k-1)' = Class(k)
    BY <1>1, <1>4, FlowShape, ClassNext DEF Class
  <2>2. CASE k # DELAY
    <3>1. k \in 0 .. DELAY - 1 /\ k + 1 \in 1 .. DELAY
      BY <2>2
    <3>2. st'[k] = st[k+1] /\ After(k)' = After(k+1)
      BY <1>4, <2>1, <3>1, FlowShape, AfterShift
    <3> QED BY <1>4, <2>1, <3>1, <3>2 DEF FInd, Sequential
  <2>3. CASE k = DELAY
    <3>1. st'[k] = Instr_address_2IM
      BY <1>4, <2>3, FlowShape
    <3>2. CASE Class(DELAY) = "br"
      BY <1>4, <2>1, <2>3, <3>1, <3>2, FetchAfterBranch
    <3>3. CASE Class(DELAY) # "br"
      <4>1. guess = NoPC
        BY <3>3 DEF Guesses
      <4>2. After(k)' = plus4'
        BY <1>4, <2>1, <2>3, <4>1, FlowShape DEF After, Instr_address_2IM
      <4> QED BY <1>4, <2>1, <2>3, <3>1, <3>3, <4>2, FlowShape
    <3> QED BY <3>2, <3>3
  <2> QED BY <2>2, <2>3
<1> QED BY <1>2, <1>3, <1>4

LEMMA WindowStep ==
  ASSUME FInd, NEW outcome \in Outcomes, NEW guess \in Guesses,
         Edge(outcome, guess)
  PROVE  Window'
<1> DEFINE Emptied == /\ serial = "sys"
                      /\ sbc < 4 => ~flush
                      /\ sbc = 4 => flush
                      /\ \A k \in 0 .. DELAY : k < DELAY + sbc - 3 /\ k < DELAY => st[k] = NoPC
<1>1. /\ sbc \in 0 .. 4 /\ serial \in {"sys", "llsc", "none"}
      /\ sbc = 0 <=> serial = "none"
  BY DEF FInd, FTypeOK, Serial, Window
<1>2. /\ sbc' = IF sbc > 0 THEN sbc - 1 ELSE IF syscal1 THEN 4 ELSE 0
      /\ sbc = 0 /\ syscal1 => serial' = Class(0)
      /\ sbc = 1 => serial' = "none"
      /\ sbc # 1 /\ ~(sbc = 0 /\ syscal1) => serial' = serial
  BY DEF Edge, FreezeEdge, HistoryEdge
<1>3. (sbc = 0 <=> serial = "none")'
  BY <1>1, <1>2, ClassFacts DEF FInd
<1>4. ASSUME sbc' > 0
      PROVE  (Class(0) = serial /\ ~flush)' \/ Emptied'
  <2>1. CASE STALL /\ ~flush
    <3>1. /\ st' = st /\ ~flush' /\ syscal1 /\ st[0] # NoPC
      BY <2>1, StallShape
    <3>2. Class(0)' = Class(0)
      BY <3>1, ClassNext DEF Class
    <3>3. serial' = Class(0)
      BY <1>1, <1>2, <1>4, <3>1, CountingHead
    <3> QED BY <3>1, <3>2, <3>3
  <2>2. CASE STALL /\ flush
    <3>1. /\ flush' /\ syscal1 /\ st[0] # NoPC
          /\ \A k \in 0 .. DELAY - 1 : st'[k] = NoPC
      BY <2>2, StallShape
    <3>2. sbc = 0 /\ Class(0) = "sys"
      BY <2>2, <3>1, ClassFacts DEF FInd, FlushTakes
    <3>3. sbc' = 4 /\ serial' = "sys"
      BY <1>2, <3>1, <3>2
    <3>4. \A k \in 0 .. DELAY : k < DELAY => st'[k] = NoPC
      BY <3>1
    <3> QED BY <3>1, <3>3, <3>4
  <2>3. CASE ~STALL /\ flush
    <3>1. /\ ~syscal1 /\ ~flush' /\ sbc # 1
          /\ \A k \in 0 .. DELAY - 1 : st'[k] = NoPC
      BY <2>3, FlushShape
    <3>2. sbc = 4
      BY <1>1, <1>2, <1>4, <2>3, <3>1 DEF FInd, FlushTakes
    <3>3. sbc' = 3 /\ serial' = "sys"
      BY <1>2, <2>3, <3>2 DEF FInd, Window
    <3>4. \A k \in 0 .. DELAY : k < DELAY => st'[k] = NoPC
      BY <3>1
    <3> QED BY <3>1, <3>3, <3>4
  <2>4. CASE ~STALL /\ ~flush
    <3>1. ~syscal1 /\ sbc \in 2 .. 4
      BY <1>1, <1>2, <1>4, <2>4, FlowShape
    <3>2. Class(0) # serial /\ ~is_branch
      BY <3>1, CountingHead, ClassFacts, <1>1 DEF FInd
    <3>3. Emptied /\ sbc \in 2 .. 3
      BY <2>4, <3>1, <3>2 DEF FInd, Window
    <3>4. ~flush'
      BY <2>4, <3>2, FlowShape DEF mispred
    <3>5. \A k \in 0 .. DELAY : k < DELAY + sbc - 4 /\ k < DELAY => st'[k] = NoPC
      <4> SUFFICES ASSUME NEW k \in 0 .. DELAY, k < DELAY + sbc - 4
                   PROVE  st'[k] = NoPC
        OBVIOUS
      <4>1. k \in 0 .. DELAY - 1 /\ k + 1 \in 0 .. DELAY
        BY <3>3
      <4>2. k + 1 < DELAY + sbc - 3 /\ k + 1 < DELAY
        BY <3>3
      <4> QED BY <2>4, <3>3, <4>1, <4>2, FlowShape
    <3>6. sbc' = sbc - 1 /\ serial' = "sys"
      BY <1>2, <3>1, <3>3
    <3> QED BY <3>3, <3>4, <3>5, <3>6
  <2> QED BY <2>1, <2>2, <2>3, <2>4
<1> QED BY <1>3, <1>4 DEF Window

LEMMA DrainingStep ==
  ASSUME FInd, NEW outcome \in Outcomes, NEW guess \in Guesses,
         Edge(outcome, guess)
  PROVE  Draining'
<1>1. /\ sbc \in 0 .. 4 /\ serial \in {"sys", "llsc", "none"}
      /\ sbc = 0 <=> serial = "none"
      /\ inhibit \in BOOLEAN /\ sys \in BOOLEAN
  BY DEF FInd, FTypeOK, Serial, Window
<1>2. Draining
  BY DEF FInd
<1>3. /\ sbc > 1 /\ ~syscal1 => serial = "sys" /\ Class(0) = "nop"
      /\ sbc > 0 /\ syscal1 => Class(0) = serial
  <2>1. sbc > 1 /\ ~syscal1 => serial = "sys"
    <3> SUFFICES ASSUME sbc > 1, ~syscal1, serial # "sys" PROVE FALSE
      OBVIOUS
    <3>1. Class(0) = serial
      BY <1>1 DEF FInd, Window
    <3> QED BY <1>1, <3>1, ClassFacts DEF FInd
  <2>2. sbc > 1 /\ ~syscal1 => st[0] = NoPC
    BY <1>1, CountingHead
  <2>3. sbc > 1 /\ ~syscal1 => Class(0) = "nop"
    BY <2>2 DEF Class
  <2>4. sbc > 0 /\ syscal1 => Class(0) = serial
    BY CountingHead
  <2> QED BY <2>1, <2>3, <2>4
<1>4. FreezeEdge /\ OutputEdge /\ HistoryEdge(outcome)
  BY DEF Edge
<1>5. exeOut' = idOut /\ memOut' = exeOut
  BY <1>4 DEF OutputEdge
<1>6. CASE sbc = 0
  <2>1. sbc' \in {0, 4} /\ ~inhibit' /\ (sys' <=> sys)
    BY <1>4, <1>6 DEF FreezeEdge
  <2>2. ~sys
    BY <1>2, <1>6 DEF Draining
  <2>3. sbc' = 4 => idOut' = "nop"
    <3> SUFFICES ASSUME sbc' = 4 PROVE idOut' = "nop"
      OBVIOUS
    <3>1. syscal1
      BY <1>4, <1>6 DEF FreezeEdge
    <3>2. SendsNop /\ ~SendsInstr
      BY <3>1, <1>6 DEF SendsNop, SendsInstr
    <3> QED BY <1>4, <3>2 DEF OutputEdge
  <2> QED BY <2>1, <2>2, <2>3 DEF Draining
<1>7. CASE sbc = 1
  <2>1. sbc' = 0 /\ ~inhibit' /\ ~sys'
    BY <1>4, <1>7 DEF FreezeEdge
  <2> QED BY <2>1 DEF Draining
<1>8. CASE sbc = 2
  <2>1. sbc' = 1 /\ inhibit' /\ (sys' <=> Class(0) # "llsc")
    <3>1. sbc' = 1
      BY <1>4, <1>8 DEF FreezeEdge
    <3>2. inhibit' = TRUE
      BY <1>4, <1>8 DEF FreezeEdge
    <3>3. sys' = (Class(0) # "llsc")
      BY <1>4, <1>8 DEF FreezeEdge
    <3> QED BY <3>1, <3>2, <3>3
  <2>2. serial' = serial
    BY <1>4, <1>8 DEF HistoryEdge
  <2>3. serial = "sys" <=> Class(0) # "llsc"
    BY <1>1, <1>3, <1>8
  <2>4. idOut = "nop" /\ exeOut = "nop"
    BY <1>2, <1>8 DEF Draining
  <2>5. idOut' = IF syscal1 THEN Class(0) ELSE idOut
    BY <1>4, <1>8 DEF OutputEdge, SendsNop, SendsInstr
  <2>6. idOut' = serial \/ (serial = "sys" /\ idOut' = "nop")
    BY <1>3, <1>8, <2>4, <2>5
  <2> QED BY <1>5, <2>1, <2>2, <2>3, <2>4, <2>6 DEF Draining
<1>9. CASE sbc \in 3 .. 4
  <2>1. sbc' = sbc - 1 /\ (inhibit' <=> inhibit) /\ (sys' <=> sys)
    BY <1>4, <1>9 DEF FreezeEdge
  <2>2. ~inhibit /\ ~sys /\ idOut = "nop" /\ (sbc = 3 => exeOut = "nop")
    BY <1>2, <1>9 DEF Draining
  <2>3. idOut' = "nop"
    BY <1>4, <1>9, <2>2 DEF OutputEdge, SendsNop, SendsInstr
  <2> QED BY <1>5, <1>9, <2>1, <2>2, <2>3 DEF Draining
<1> QED BY <1>1, <1>6, <1>7, <1>8, <1>9

LEMMA FlushStep ==
  ASSUME FInd, NEW outcome \in Outcomes, NEW guess \in Guesses,
         Edge(outcome, guess)
  PROVE  FlushTakes'
<1> SUFFICES ASSUME flush'
             PROVE  /\ take'
                    /\ Class(0)' \notin {"br", "llsc"}
                    /\ st'[0] # NoPC => sbc' = 0
                    /\ st'[0] = NoPC => sbc' = 4 /\ \A k \in 0 .. DELAY - 1 : st'[k] = NoPC
  BY DEF FlushTakes
<1>1. sbc' = IF sbc > 0 THEN sbc - 1 ELSE IF syscal1 THEN 4 ELSE 0
  BY DEF Edge, FreezeEdge
<1>2. CASE STALL
  <2>1. flush /\ take' = take /\ syscal1 /\ st[0] # NoPC
    BY <1>2, StallShape
  <2>2. \A k \in 0 .. DELAY - 1 : st'[k] = NoPC
    BY <1>2, <2>1, StallShape
  <2>3. take /\ sbc = 0
    BY <2>1 DEF FInd, FlushTakes
  <2>4. Class(0)' = "nop" /\ st'[0] = NoPC
    BY <2>2, ClassNext
  <2> QED BY <1>1, <2>1, <2>2, <2>3, <2>4
<1>3. CASE ~STALL /\ flush
  BY <1>3, FlushShape
<1>4. CASE ~STALL /\ ~flush
  <2>1. is_branch /\ take' /\ st'[0] = st[1]
    <3>1. mispred(outcome)
      BY <1>4, FlowShape
    <3>2. take'
      BY <1>4, <3>1, FlowShape
    <3>3. st'[0] = st[1]
      <4>1. \A k \in 0 .. DELAY - 1 : st'[k] = st[k+1]
        BY <1>4, FlowShape
      <4> QED BY <4>1
    <3> QED BY <3>1, <3>2, <3>3 DEF mispred
  <2>2. st[1] \in PC /\ Class(1) \notin {"br", "llsc"} /\ ~syscal1 /\ sbc = 0
    BY <1>4, <2>1, BranchHead DEF Takes
  <2>3. Class(0)' = Class(1) /\ st'[0] # NoPC
    BY <2>1, <2>2, ClassNext, NoAddress DEF Class
  <2> QED BY <1>1, <2>1, <2>2, <2>3
<1> QED BY <1>2, <1>3, <1>4

LEMMA HeadStep ==
  ASSUME FInd, NEW outcome \in Outcomes, NEW guess \in Guesses,
         Edge(outcome, guess)
  PROVE  HeadSequential'
<1>1. /\ sbc \in 0 .. 4
      /\ sbc' = IF sbc > 0 THEN sbc - 1 ELSE IF syscal1 THEN 4 ELSE 0
  BY DEF FInd, FTypeOK, Edge, FreezeEdge
<1>2. /\ Takes /\ is_branch => dest' = IF outcome = NoPC THEN Plus8(st[0]) ELSE outcome
      /\ Takes /\ ~is_branch => dest' = NoPC
      /\ ~Takes => dest' = dest
  BY DEF Edge, HistoryEdge
<1>3. ~is_branch => dest' = NoPC
  <2> SUFFICES ASSUME ~Takes PROVE dest = NoPC
    BY <1>2
  <2> QED BY DEF Takes, FInd, HeadSequential
<1>4. CASE STALL
  <2>1. ~is_branch /\ syscal1 /\ sbc # 1
    BY <1>4, StallShape
  <2>2. sbc' # 0
    BY <1>1, <2>1
  <2> QED BY <1>3, <2>1, <2>2 DEF HeadSequential
<1>5. CASE ~STALL /\ flush
  <2>1. ~is_branch /\ \A k \in 0 .. DELAY - 1 : st'[k] = NoPC
    BY <1>5, FlushShape
  <2>2. st'[0] = NoPC
    BY <2>1
  <2> QED BY <1>3, <2>1, <2>2 DEF HeadSequential
<1>6. CASE ~STALL /\ ~flush
  <2>1. \A k \in 0 .. DELAY - 1 : st'[k] = st[k+1]
    BY <1>6, FlowShape
  <2>2. st'[0] = st[1]
    BY <2>1
  <2>3. CASE ~is_branch
    <3> SUFFICES ASSUME ~flush', st'[0] # NoPC PROVE After(0)' = Plus4(st'[0])
      BY <1>3, <2>3 DEF HeadSequential, Plus4
    <3>1. ~mispred(outcome)
      BY <2>3 DEF mispred
    <3>2. \A k \in 0 .. DELAY - 1 : After(k)' = After(k+1)
      BY <1>6, <3>1, AfterShift
    <3>3. After(0)' = After(1)
      BY <3>2
    <3>4. After(1) = Plus4(st[1])
      <4>1. 1 \in 1 .. DELAY /\ 1 - 1 = 0
        OBVIOUS
      <4> QED BY <1>6, <2>2, <2>3, <4>1 DEF FInd, Sequential, is_branch
    <3> QED BY <2>2, <3>3, <3>4
  <2>4. CASE is_branch
    <3>1. /\ st[0] \in PC /\ Takes /\ ~syscal1
          /\ st[1] = Plus4(st[0]) /\ st[1] \in PC
          /\ Class(1) \notin {"br", "llsc"}
      BY <1>6, <2>4, BranchHead
    <3>2. /\ st'[0] # NoPC /\ sbc' = 0
          /\ Class(0)' \notin {"br", "llsc"}
      BY <1>1, <2>2, <3>1, ClassNext, NoAddress DEF Takes, Class
    <3>3. outcome \in {NoPC} \cup Targets[st[0]]
      BY <2>4 DEF Outcomes
    <3>4. dest' = IF outcome = NoPC THEN Plus8(st[0]) ELSE outcome
      BY <1>2, <2>4, <3>1
    <3>5. outcome # NoPC => outcome # Plus4(st[0])
      BY <3>1, <3>3, OwnSlotAssumption
    <3>6. dest' # NoPC
      BY <3>1, <3>4, NextAddress, NoAddress DEF Plus8
    <3>7. CASE mispred(outcome)
      <4>1. take' /\ flush' /\ altpc' = RedirectPC(outcome, guess)
        BY <1>6, <3>7, FlowShape
      <4>2. altpc' = dest'
        BY <3>4, <3>7, <4>1 DEF RedirectPC
      <4>3. After(0)' = altpc'
        BY <4>1 DEF After, Instr_address_2IM
      <4> QED BY <3>2, <4>1, <4>2, <4>3, <3>6 DEF HeadSequential
    <3>8. CASE ~mispred(outcome)
      <4>1. \A k \in 0 .. DELAY - 1 : After(k)' = After(k+1)
        BY <1>6, <3>8, AfterShift
      <4>2. After(0)' = After(0+1)
        BY <4>1
      <4>3. After(0+1) = IF past[0] = Plus4(st[0]) THEN Plus8(st[0]) ELSE past[0]
        BY <1>6, <2>4 DEF FInd, PredictionAligned, is_branch
      <4>4. past[0] = IF outcome # NoPC THEN outcome ELSE Plus4(st[0])
        BY <2>4, <3>8 DEF mispred
      <4>5. After(0)' = dest'
        BY <3>4, <3>5, <4>2, <4>3, <4>4
      <4> QED BY <3>2, <3>6, <4>5 DEF HeadSequential
    <3> QED BY <3>7, <3>8
  <2> QED BY <2>3, <2>4
<1> QED BY <1>4, <1>5, <1>6

LEMMA FIndInit == FInit => FInd
<1> SUFFICES ASSUME FInit PROVE FInd
  OBVIOUS
<1>1. FTypeOK
  BY TypeInit
<1>2. \A k \in Stages : st[k] = NoPC /\ Class(k) = "nop"
  BY DEF FInit, Class
<1>3. ~flush /\ ~inhibit /\ ~sys
  BY Zenon DEF FInit
<1>4. sbc = 0 /\ serial = "none" /\ dest = NoPC
  BY DEF FInit
<1>5. NoGap /\ Sequential /\ PredictionAligned
  BY <1>2 DEF NoGap, Sequential, PredictionAligned, Stages
<1>6. HeadSequential /\ FlushTakes /\ Window
  BY <1>2, <1>3, <1>4, StageNumbers DEF HeadSequential, FlushTakes, Window
<1>7. Draining
  BY <1>3, <1>4 DEF Draining
<1> QED BY <1>1, <1>5, <1>6, <1>7 DEF FInd

LEMMA FIndStep == FInd /\ [FNext]_fvars => FInd'
<1> SUFFICES ASSUME FInd, [FNext]_fvars PROVE FInd'
  OBVIOUS
<1>1. ASSUME NEW outcome \in Outcomes, NEW guess \in Guesses,
             Edge(outcome, guess)
      PROVE  FInd'
  BY <1>1, TypeStep, NoGapStep, SequentialStep, HeadStep, PredictionStep,
     FlushStep, WindowStep, DrainingStep DEF FInd
<1>2. CASE UNCHANGED fvars
  BY <1>2 DEF fvars, FInd, FTypeOK, NoGap, Sequential, HeadSequential,
     PredictionAligned, FlushTakes, Window, Draining, After, Class,
     Instr_address_2IM
<1> QED BY <1>1, <1>2 DEF FNext

\* The invariant holds in every reachable state.
THEOREM Invariance == FSafe => []FInd
  BY FIndInit, FIndStep, PTL DEF FSafe

-----------------------------------------------------------------------------
(* The safety properties follow from the invariant. *)

LEMMA LeastExists ==
  ASSUME NEW S \in SUBSET Nat, S # {}
  PROVE  \E m \in S : \A j \in S : m <= j
<1> DEFINE R == OpToRel(<, Nat)
<1>1. IsWellFoundedOn(R, Nat)
  BY NatLessThanWellFounded
<1>2. PICK m \in S : \A j \in S : <<j, m>> \notin R
  BY <1>1, WFMin
<1>3. \A j \in S : ~(j < m)
  BY <1>2 DEF OpToRel
<1> QED BY <1>3

LEMMA LeastStage ==
  ASSUME NEW S \in SUBSET Stages, NEW k \in S, \A j \in S : k <= j
  PROVE  (CHOOSE i \in S : \A j \in S : i <= j) = k
<1> DEFINE m == CHOOSE i \in S : \A j \in S : i <= j
<1>1. m \in S /\ \A j \in S : m <= j
  OBVIOUS
<1> HIDE DEF m
<1>2. m <= k /\ k <= m
  BY <1>1
<1>3. m \in Int /\ k \in Int
  BY <1>1 DEF Stages
<1>4. m = k
  BY <1>2, <1>3
<1> QED BY <1>4 DEF m

LEMMA HeadIsOldest ==
  ASSUME 0 \in Live
  PROVE  nextPC = st[0] /\ nextNPC = After(0)
<1>1. Live \in SUBSET Stages /\ \A j \in Live : 0 <= j
  BY DEF Live, Stages
<1>2. Oldest = 0
  BY <1>1, LeastStage DEF Oldest
<1> QED BY <1>2 DEF nextPC, nextNPC

\* After a branch and its delay slot the instruction the branch decided on is
\* executed.
THEOREM BranchCorrect == FSpec => []BranchObeyed
<1>1. FInd => BranchObeyed
  <2> SUFFICES ASSUME FInd, dest # NoPC PROVE nextNPC = dest
    BY DEF BranchObeyed
  <2>1. st[0] # NoPC /\ sbc = 0 /\ After(0) = dest
    BY DEF FInd, HeadSequential
  <2>2. 0 \in Live
    BY <2>1, StageNumbers DEF Live
  <2> QED BY <2>1, <2>2, HeadIsOldest
<1> QED BY <1>1, Invariance, PTL DEF FSpec

\* The predictions kept in past_pcs describe the path that was fetched.
THEOREM AlignmentCorrect == FSpec => []PredictionAligned
<1>1. FInd => PredictionAligned
  BY DEF FInd
<1> QED BY <1>1, Invariance, PTL DEF FSpec

\* SYS is raised with the back end empty.
THEOREM DrainCorrect == FSpec => []SyscallDrained
<1>1. FInd => SyscallDrained
  <2> SUFFICES ASSUME FInd, sys
               PROVE  idOut \in {"nop", "sys"} /\ exeOut = "nop" /\ memOut = "nop"
    BY DEF SyscallDrained
  <2>1. sbc = 1 /\ serial = "sys"
    BY DEF FInd, Draining
  <2> QED BY <2>1 DEF FInd, Draining
<1> QED BY <1>1, Invariance, PTL DEF FSpec

\* SYS is raised exactly for a SYSCALL, and LL and SC are sent to EXE.
THEOREM SerialCorrect == FSpec => []SerialServed
<1>1. FInd => SerialServed
  <2> SUFFICES ASSUME FInd PROVE SerialServed
    OBVIOUS
  <2>1. sys => sbc = 1
    BY DEF FInd, Draining
  <2>2. sbc = 1 => (sys <=> serial = "sys")
    BY DEF FInd, Draining
  <2>3. sbc = 1 /\ serial = "llsc" => idOut = "llsc"
    BY DEF FInd, Draining
  <2> QED BY <2>1, <2>2, <2>3 DEF SerialServed
<1> QED BY <1>1, Invariance, PTL DEF FSpec

-----------------------------------------------------------------------------
(* Refinement: each edge is a step of the architecture or leaves it alone. *)

\* Which stage is the oldest after an edge.
LEMMA OldestAfter ==
  ASSUME NEW k \in Live', \A j \in Live' : k <= j
  PROVE  nextPC' = st'[k] /\ nextNPC' = After(k)'
<1>1. Live' \in SUBSET Stages
  BY DEF Live
<1>2. Oldest' = k
  BY <1>1, LeastStage DEF Oldest
<1> QED BY <1>2 DEF nextPC, nextNPC, After

LEMMA NoneAfter ==
  ASSUME Live' = {}
  PROVE  nextPC' = Instr_address_2IM' /\ nextNPC' = Plus4(Instr_address_2IM)'
  BY DEF nextPC, nextNPC

\* ID takes over an instruction that is not a branch.
LEMMA StraightStep ==
  ASSUME FInd, sbc = 0, st[0] # NoPC, ~is_branch, imem' = imem,
         nextPC' = nextNPC, nextNPC' = Plus4(nextNPC), dest' = NoPC,
         servedKind' = IF syscal1 THEN Class(0) ELSE "none"
  PROVE  Arch!Straight
<1>1. 0 \in Live
  BY StageNumbers DEF FInd, FlushTakes, Live
<1>2. nextPC = st[0] /\ imem[nextPC] = Class(0)
  BY <1>1, HeadIsOldest DEF Class
<1>3. servedKind = "none"
  BY DEF servedKind, FInd, Draining
<1>4. Class(0) # "br"
  BY DEF is_branch
<1>5. servedKind' = IF imem[nextPC] \in Serial THEN imem[nextPC] ELSE "none"
  BY <1>2 DEF syscal1
<1> QED BY <1>2, <1>3, <1>4, <1>5
        DEF Arch!Straight, Arch!Plus4, Plus4, Arch!Serial, Serial, Arch!NoPC, NoPC

\* ID takes over a branch.
LEMMA BranchStep ==
  ASSUME FInd, NEW outcome \in Outcomes, NEW guess \in Guesses,
         Edge(outcome, guess), ~STALL, ~flush, is_branch
  PROVE  Arch!Branch
<1>1. /\ st[0] \in PC /\ st[0] # NoPC /\ sbc = 0 /\ Takes /\ ~syscal1
      /\ st[1] \in PC
  BY BranchHead DEF Takes
<1>2. nextPC = st[0] /\ nextNPC = st[1]
  <2>1. 0 \in Live
    BY <1>1, StageNumbers DEF Live
  <2> QED BY <2>1, HeadIsOldest DEF After
<1>3. imem' = imem /\ imem[nextPC] = "br"
  BY <1>1, <1>2, ClassNext DEF is_branch, Class
<1>4. /\ dest' = IF outcome = NoPC THEN Plus8(st[0]) ELSE outcome
      /\ dest' \in {Plus8(st[0])} \cup Targets[st[0]]
      /\ dest' # NoPC
  <2>1. outcome \in {NoPC} \cup Targets[st[0]]
    BY DEF Outcomes
  <2>2. dest' = IF outcome = NoPC THEN Plus8(st[0]) ELSE outcome
    BY <1>1 DEF Edge, HistoryEdge
  <2>3. Plus8(st[0]) # NoPC
    BY <1>1, NextAddress, NoAddress DEF Plus8
  <2> QED BY <2>1, <2>2, <2>3
<1>5. HeadSequential'
  BY HeadStep
<1>6. st'[0] = st[1] /\ sbc' = 0
  <2>1. \A k \in 0 .. DELAY - 1 : st'[k] = st[k+1]
    BY FlowShape
  <2>2. sbc' = 0
    BY <1>1 DEF Edge, FreezeEdge
  <2> QED BY <2>1, <2>2
<1>7. nextPC' = st[1] /\ nextNPC' = dest'
  <2>1. 0 \in Live' /\ \A j \in Live' : 0 <= j
    BY <1>1, <1>6, NoAddress, StageNumbers DEF Live
  <2>2. nextPC' = st'[0] /\ nextNPC' = After(0)'
    BY <2>1, OldestAfter
  <2>3. After(0)' = dest'
    BY <1>4, <1>5 DEF HeadSequential
  <2> QED BY <1>6, <2>2, <2>3
<1>8. servedKind = "none" /\ servedKind' = "none"
  <2>1. ~sys /\ ~sys'
    BY <1>1, <1>6, DrainingStep DEF FInd, Draining
  <2> QED BY <1>1, <1>6, <2>1 DEF servedKind
<1> QED BY <1>2, <1>3, <1>4, <1>7, <1>8 DEF Arch!Branch, Arch!Plus8, Arch!Plus4, Plus8, Plus4

\* ID goes on serialising, or nothing is left to take over: the architecture
\* sees at most the end of the service.
LEMMA QuietStep ==
  ASSUME FInd, imem' = imem, nextPC' = nextPC, nextNPC' = nextNPC, dest' = dest,
         servedKind' = servedKind \/ (servedKind # "none" /\ servedKind' = "none")
  PROVE  [Arch!Next]_(Arch!vars)
  BY DEF Arch!Next, Arch!Served, Arch!vars

\* A frozen edge: ID starts or continues a count.
LEMMA StallRefines ==
  ASSUME FInd, NEW outcome \in Outcomes, NEW guess \in Guesses,
         Edge(outcome, guess), STALL
  PROVE  [Arch!Next]_(Arch!vars)
<1>1. /\ syscal1 /\ ~is_branch /\ st[0] # NoPC /\ sbc # 1
      /\ plus4' = plus4 /\ take' = take /\ altpc' = altpc /\ flush' = flush
      /\ ~flush => st' = st
      /\ flush => \A k \in 0 .. DELAY - 1 : st'[k] = NoPC
  BY StallShape
<1>2. Instr_address_2IM' = Instr_address_2IM
  BY <1>1 DEF Instr_address_2IM
<1>3. /\ sbc \in 0 .. 4 /\ imem' = imem
      /\ sbc' = IF sbc > 0 THEN sbc - 1 ELSE 4
  BY <1>1, ClassNext DEF FInd, FTypeOK, Edge, FreezeEdge
<1>4. /\ sbc = 0 => serial' = Class(0) /\ dest' = NoPC
      /\ sbc > 1 => serial' = serial /\ dest' = dest
  BY <1>1, <1>3 DEF Edge, HistoryEdge, Takes
<1>5. /\ sys <=> sbc = 1 /\ serial = "sys"
      /\ sys' <=> sbc' = 1 /\ serial' = "sys"
      /\ serial \in {"sys", "llsc", "none"}
      /\ sbc = 0 <=> serial = "none"
  BY DrainingStep DEF FInd, FTypeOK, Serial, Draining, Window
<1>6. CASE sbc = 0
  <2>1. servedKind' = Class(0)
    BY <1>3, <1>4, <1>6 DEF servedKind
  <2>2. 0 \in Live
    BY <1>1, <1>6, StageNumbers DEF Live
  <2>3. nextNPC = After(0)
    BY <2>2, HeadIsOldest
  <2>4. CASE flush
    <3>1. Live' = {}
      BY <1>1, <2>4, StageNumbers DEF Live
    <3>2. nextPC' = Instr_address_2IM /\ nextNPC' = Plus4(Instr_address_2IM)
      BY <1>2, <3>1, NoneAfter DEF Plus4
    <3>3. nextNPC = Instr_address_2IM
      BY <2>3, <2>4 DEF After
    <3>4. Arch!Straight
      BY <1>1, <1>3, <1>4, <1>6, <2>1, <3>2, <3>3, StraightStep
    <3> QED BY <3>4 DEF Arch!Next
  <2>5. CASE ~flush
    <3>1. st[1] # NoPC /\ nextNPC = st[1]
      <4>1. 0 \in 0 .. DELAY - 1
        OBVIOUS
      <4>2. st[0+1] # NoPC
        BY <1>1, <2>5, <4>1 DEF FInd, NoGap
      <4> QED BY <2>3, <2>5, <4>2 DEF After
    <3>2. 1 \in Live' /\ \A j \in Live' : 1 <= j
      BY <1>1, <1>3, <1>6, <2>5, <3>1 DEF Live, Stages
    <3>3. nextPC' = st[1] /\ nextNPC' = After(1)'
      BY <1>1, <2>5, <3>2, OldestAfter
    <3>4. After(1)' = After(1)
      BY <1>1, <1>2, <2>5 DEF After
    <3>5. After(1) = Plus4(st[1])
      <4>1. 1 \in 1 .. DELAY /\ 1 - 1 = 0
        OBVIOUS
      <4> QED BY <1>1, <2>5, <3>1, <4>1 DEF FInd, Sequential, is_branch
    <3>6. Arch!Straight
      BY <1>1, <1>3, <1>4, <1>6, <2>1, <3>1, <3>3, <3>4, <3>5, StraightStep
    <3> QED BY <3>6 DEF Arch!Next
  <2> QED BY <2>4, <2>5
<1>7. CASE sbc # 0
  <2>1. ~flush /\ sbc \in 2 .. 4
    BY <1>1, <1>3, <1>7 DEF FInd, FlushTakes
  <2>2. Live' = Live
    BY <1>1, <1>3, <2>1 DEF Live
  <2>3. nextPC' = nextPC /\ nextNPC' = nextNPC
    BY <1>1, <1>2, <2>1, <2>2 DEF nextPC, nextNPC, Oldest, After, Plus4
  <2>4. servedKind = serial
    BY <2>1 DEF servedKind
  <2>5. servedKind' = serial \/ servedKind' = "none"
    <3>1. CASE sbc = 2
      <4>1. sbc' = 1
        BY <1>3, <3>1
      <4>2. servedKind' = IF sys' THEN "sys" ELSE "none"
        BY <4>1 DEF servedKind
      <4> QED BY <1>4, <1>5, <2>1, <4>1, <4>2
    <3>2. CASE sbc # 2
      <4>1. sbc' \in 2 .. 4
        BY <1>3, <2>1, <3>2
      <4> QED BY <1>4, <2>1, <4>1 DEF servedKind
    <3> QED BY <3>1, <3>2
  <2>6. serial # "none"
    BY <1>5, <1>7
  <2> QED BY <1>3, <1>4, <2>1, <2>3, <2>4, <2>5, <2>6, QuietStep
<1> QED BY <1>6, <1>7

\* The edge that ends a flush.
LEMMA FlushRefines ==
  ASSUME FInd, NEW outcome \in Outcomes, NEW guess \in Guesses,
         Edge(outcome, guess), ~STALL, flush
  PROVE  [Arch!Next]_(Arch!vars)
<1>1. /\ ~is_branch /\ take' = FALSE /\ flush' = FALSE
      /\ st'[DELAY] = altpc /\ plus4' = Plus4(altpc)
      /\ \A k \in 0 .. DELAY - 1 : st'[k] = NoPC
      /\ sbc # 1 /\ ~syscal1
  BY FlushShape
<1>2. /\ Instr_address_2IM = altpc /\ altpc # NoPC /\ imem' = imem
      /\ sbc \in 0 .. 4
  BY ClassNext, NoAddress DEF FInd, FTypeOK, FlushTakes, Instr_address_2IM
<1>3. nextPC' = altpc /\ nextNPC' = Plus4(altpc)
  <2>1. DELAY \in Live' /\ \A j \in Live' : DELAY <= j
    <3>1. \A j \in Live' : j \in Stages /\ j \notin 0 .. DELAY - 1
      BY <1>1 DEF Live
    <3>2. DELAY \in Live'
      BY <1>1, <1>2, StageNumbers DEF Live
    <3> QED BY <3>1, <3>2 DEF Stages
  <2>2. nextPC' = st'[DELAY] /\ nextNPC' = After(DELAY)'
    BY <2>1, OldestAfter
  <2>3. After(DELAY)' = plus4'
    BY <1>1 DEF After, Instr_address_2IM
  <2> QED BY <1>1, <2>2, <2>3
<1>4. CASE st[0] # NoPC
  <2>1. sbc = 0 /\ sbc' = 0 /\ ~sys
    BY <1>1, <1>4 DEF FInd, FlushTakes, Edge, FreezeEdge, Draining
  <2>2. dest' = NoPC /\ serial' = serial /\ ~sys'
    <3>1. dest' = NoPC
      BY <1>1, <1>4, <2>1 DEF Edge, HistoryEdge, Takes
    <3>2. serial' = serial
      BY <1>1, <2>1 DEF Edge, HistoryEdge
    <3>3. ~sys'
      BY <2>1, DrainingStep DEF Draining
    <3> QED BY <3>1, <3>2, <3>3
  <2>3. servedKind' = "none"
    BY <2>1, <2>2 DEF servedKind
  <2>4. nextNPC = altpc
    <3>1. 0 \in Live
      BY <1>4, <2>1, StageNumbers DEF Live
    <3> QED BY <1>2, <3>1, HeadIsOldest DEF After
  <2>5. Arch!Straight
    BY <1>1, <1>2, <1>3, <1>4, <2>1, <2>2, <2>3, <2>4, StraightStep
  <2> QED BY <2>5 DEF Arch!Next
<1>5. CASE st[0] = NoPC
  <2>1. sbc = 4 /\ sbc' = 3
    BY <1>5 DEF FInd, FlushTakes, Edge, FreezeEdge
  <2>2. dest' = dest /\ serial' = serial
    BY <2>1 DEF Edge, HistoryEdge, Takes
  <2>3. Live = {}
    BY <1>5 DEF Live
  <2>4. nextPC = altpc /\ nextNPC = Plus4(altpc)
    BY <1>2, <2>3 DEF nextPC, nextNPC
  <2>5. servedKind' = servedKind
    BY <2>1, <2>2 DEF servedKind
  <2> QED BY <1>2, <1>3, <2>2, <2>4, <2>5, QuietStep
<1> QED BY <1>4, <1>5

\* Where the oldest instruction is after a flowing edge: one stage further on,
\* or just fetched when no filled stage was left behind ID.
LEMMA FlowPath ==
  ASSUME FInd, NEW outcome \in Outcomes, NEW guess \in Guesses,
         Edge(outcome, guess), ~STALL, ~flush, ~is_branch
  PROVE  /\ st[1] # NoPC /\ Class(0) # "br" => nextPC' = st[1] /\ nextNPC' = Plus4(st[1])
         /\ 0 \notin Live => nextPC' = nextPC /\ nextNPC' = nextNPC
         /\ st[0] # NoPC => st[1] # NoPC
<1>1. /\ st'[DELAY] = Instr_address_2IM /\ Instr_address_2IM # NoPC
      /\ plus4' = Plus4(Instr_address_2IM)
      /\ \A k \in 0 .. DELAY - 1 : st'[k] = st[k+1]
      /\ ~mispred(outcome) /\ ~flush'
      /\ syscal1 => sbc = 1
  BY FlowShape, NoAddress DEF mispred
<1>2. \A k \in 0 .. DELAY - 1 : After(k)' = After(k+1)
  BY <1>1, AfterShift
<1>3. st[0] # NoPC => st[1] # NoPC
  <2>1. 0 \in 0 .. DELAY - 1
    OBVIOUS
  <2>2. st[0] # NoPC => st[0+1] # NoPC
    BY <2>1 DEF FInd, NoGap
  <2> QED BY <2>2
<1>4. st[1] # NoPC => sbc' = 0
  <2> SUFFICES ASSUME sbc' # 0 PROVE st[1] = NoPC
    OBVIOUS
  <2>1. sbc \in 0 .. 4 /\ sbc' = IF sbc > 0 THEN sbc - 1 ELSE IF syscal1 THEN 4 ELSE 0
    BY DEF FInd, FTypeOK, Edge, FreezeEdge
  <2>2. sbc \in 2 .. 4 /\ ~syscal1
    BY <1>1, <2>1
  <2>3. serial \in {"sys", "llsc", "none"} /\ serial # "none"
    BY <2>2 DEF FInd, FTypeOK, Serial, Window
  <2>4. Class(0) # serial
    BY <2>2, <2>3, ClassFacts DEF FInd
  <2>5. \A k \in 0 .. DELAY : k < DELAY + sbc - 3 /\ k < DELAY => st[k] = NoPC
    BY <2>2, <2>4 DEF FInd, Window
  <2> QED BY <2>2, <2>5
<1>5. ASSUME NEW m \in 1 .. DELAY, st[m] # NoPC, \A j \in 1 .. DELAY : st[j] # NoPC => m <= j
      PROVE  nextPC' = st[m] /\ nextNPC' = After(m)
  <2>1. m - 1 \in 0 .. DELAY - 1 /\ m - 1 \in Stages /\ (m - 1) + 1 = m
    BY DEF Stages
  <2>2. st'[m-1] = st[m] /\ After(m-1)' = After(m)
    BY <1>1, <1>2, <2>1
  <2>3. m - 1 = 0 => sbc' = 0
    BY <1>4, <1>5, <2>1
  <2>4. m - 1 \in Live'
    BY <1>1, <1>5, <2>1, <2>2, <2>3 DEF Live
  <2>5. ASSUME NEW j \in Live' PROVE m - 1 <= j
    <3>1. j \in Stages /\ st'[j] # NoPC
      BY DEF Live
    <3>2. CASE j = DELAY
      BY <3>2
    <3>3. CASE j # DELAY
      <4>1. j \in 0 .. DELAY - 1 /\ j + 1 \in 1 .. DELAY
        BY <3>1, <3>3 DEF Stages
      <4>2. st[j+1] # NoPC
        BY <1>1, <3>1, <4>1
      <4>3. m <= j + 1
        BY <1>5, <4>1, <4>2
      <4> QED BY <4>1, <4>3
    <3> QED BY <3>2, <3>3
  <2> QED BY <2>2, <2>4, <2>5, OldestAfter
<1>6. ASSUME st[1] # NoPC, Class(0) # "br"
      PROVE  nextPC' = st[1] /\ nextNPC' = Plus4(st[1])
  <2>1. nextPC' = st[1] /\ nextNPC' = After(1)
    <3>1. 1 \in 1 .. DELAY /\ \A j \in 1 .. DELAY : 1 <= j
      OBVIOUS
    <3> QED BY <1>5, <1>6, <3>1
  <2>2. After(1) = Plus4(st[1])
    <3>1. 1 \in 1 .. DELAY /\ 1 - 1 = 0
      OBVIOUS
    <3> QED BY <1>6, <3>1 DEF FInd, Sequential
  <2> QED BY <2>1, <2>2
<1>7. ASSUME 0 \notin Live
      PROVE  nextPC' = nextPC /\ nextNPC' = nextNPC
  <2>1. Live = {k \in 1 .. DELAY : st[k] # NoPC}
    BY <1>7 DEF Live, Stages
  <2>2. CASE Live = {}
    <3>1. \A k \in 1 .. DELAY : st[k] = NoPC
      BY <2>1, <2>2
    <3>2. DELAY \in Live' /\ \A j \in Live' : DELAY <= j
      <4>1. DELAY \in Live'
        BY <1>1, StageNumbers DEF Live
      <4>2. ASSUME NEW j \in Live', j # DELAY PROVE FALSE
        <5>1. j \in 0 .. DELAY - 1 /\ st'[j] # NoPC
          BY <4>2 DEF Live, Stages
        <5>2. j + 1 \in 1 .. DELAY /\ st[j+1] # NoPC
          BY <1>1, <5>1
        <5> QED BY <3>1, <5>2
      <4> QED BY <4>1, <4>2
    <3>3. nextPC' = Instr_address_2IM /\ nextNPC' = After(DELAY)'
      BY <1>1, <3>2, OldestAfter
    <3>4. guess = NoPC
      <4>1. Class(DELAY) = "nop"
        BY <3>1 DEF Class
      <4> QED BY <4>1 DEF Guesses
    <3>5. ~take'
      BY <1>1, <3>4, FlowShape
    <3>6. After(DELAY)' = Plus4(Instr_address_2IM)
      BY <1>1, <3>5 DEF After, Instr_address_2IM
    <3> QED BY <2>2, <3>3, <3>6 DEF nextPC, nextNPC
  <2>3. CASE Live # {}
    <3>1. PICK m \in Live : \A j \in Live : m <= j
      <4>1. Live \in SUBSET Nat
        BY DEF Live, Stages
      <4> QED BY <2>3, <4>1, LeastExists
    <3>2. m \in 1 .. DELAY /\ st[m] # NoPC
      BY <2>1
    <3>3. nextPC' = st[m] /\ nextNPC' = After(m)
      BY <1>5, <2>1, <3>1, <3>2
    <3>4. Oldest = m
      BY <3>1, LeastStage DEF Oldest, Live
    <3> QED BY <2>3, <3>3, <3>4 DEF nextPC, nextNPC
  <2> QED BY <2>2, <2>3
<1> QED BY <1>3, <1>6, <1>7

\* An edge on which everything advances and ID holds no branch.
LEMMA FlowRefines ==
  ASSUME FInd, NEW outcome \in Outcomes, NEW guess \in Guesses,
         Edge(outcome, guess), ~STALL, ~flush, ~is_branch
  PROVE  [Arch!Next]_(Arch!vars)
<1>1. /\ imem' = imem /\ sbc \in 0 .. 4
      /\ sbc' = IF sbc > 0 THEN sbc - 1 ELSE IF syscal1 THEN 4 ELSE 0
      /\ syscal1 => sbc = 1
  BY ClassNext, FlowShape DEF FInd, FTypeOK, Edge, FreezeEdge
<1>2. /\ sys <=> sbc = 1 /\ serial = "sys"
      /\ sys' <=> sbc' = 1 /\ serial' = "sys"
      /\ serial \in {"sys", "llsc", "none"}
  BY DrainingStep DEF FInd, FTypeOK, Serial, Draining
<1>3. CASE sbc = 0 /\ st[0] # NoPC
  <2>1. sbc' = 0 /\ servedKind' = "none" /\ ~syscal1
    <3>1. sbc' = 0 /\ ~syscal1
      BY <1>1, <1>3
    <3> QED BY <1>2, <3>1 DEF servedKind
  <2>2. dest' = NoPC
    BY <1>3 DEF Edge, HistoryEdge, Takes
  <2>3. 0 \in Live
    BY <1>3, StageNumbers DEF Live
  <2>4. nextNPC = st[1]
    BY <2>3, HeadIsOldest DEF After
  <2>5. nextPC' = st[1] /\ nextNPC' = Plus4(st[1])
    BY <1>3, FlowPath DEF is_branch
  <2>6. Arch!Straight
    BY <1>1, <1>3, <2>1, <2>2, <2>4, <2>5, StraightStep
  <2> QED BY <2>6 DEF Arch!Next
<1>4. CASE ~(sbc = 0 /\ st[0] # NoPC)
  <2>1. dest' = dest
    BY <1>4 DEF Edge, HistoryEdge, Takes
  <2>2. 0 \notin Live
    BY <1>4 DEF Live
  <2>3. nextPC' = nextPC /\ nextNPC' = nextNPC
    BY <2>2, FlowPath
  <2>4. servedKind' = servedKind \/ (servedKind # "none" /\ servedKind' = "none")
    <3>1. CASE sbc = 0
      <4>1. sbc' = 0
        BY <1>1, <3>1
      <4> QED BY <1>2, <3>1, <4>1 DEF servedKind
    <3>2. CASE sbc = 1
      <4>1. sbc' = 0
        BY <1>1, <3>2
      <4> QED BY <1>2, <3>2, <4>1 DEF servedKind
    <3>3. CASE sbc \in 2 .. 4
      <4>1. ~syscal1 /\ sbc' = sbc - 1
        BY <1>1, <3>3
      <4>2. serial = "sys" /\ serial' = "sys"
        <5>1. serial' = serial
          BY <3>3, <4>1 DEF Edge, HistoryEdge
        <5>2. Class(0) # serial
          <6>1. serial # "none"
            BY <3>3 DEF FInd, Window
          <6> QED BY <1>2, <4>1, <6>1, ClassFacts DEF FInd
        <5> QED BY <3>3, <5>1, <5>2 DEF FInd, Window
      <4>3. servedKind = "sys"
        BY <3>3, <4>2 DEF servedKind
      <4>4. CASE sbc = 2
        BY <1>2, <4>1, <4>2, <4>3, <4>4 DEF servedKind
      <4>5. CASE sbc \in 3 .. 4
        <5>1. sbc' \in 2 .. 4
          BY <4>1, <4>5
        <5> QED BY <4>2, <4>3, <5>1 DEF servedKind
      <4> QED BY <3>3, <4>4, <4>5
    <3> QED BY <1>1, <3>1, <3>2, <3>3
  <2> QED BY <1>1, <2>1, <2>3, <2>4, QuietStep
<1> QED BY <1>3, <1>4

LEMMA RefinementInit == FInit => Arch!Init
<1> SUFFICES ASSUME FInit PROVE Arch!Init
  OBVIOUS
<1>1. Live = {}
  BY DEF FInit, Live
<1>2. ~take /\ ~sys
  BY Zenon DEF FInit
<1>3. plus4 = ResetPC /\ dest = NoPC /\ sbc = 0 /\ imem \in Programs
  BY DEF FInit
<1>4. nextPC = ResetPC /\ nextNPC = Plus4(ResetPC)
  BY <1>1, <1>2, <1>3 DEF nextPC, nextNPC, Instr_address_2IM
<1>5. servedKind = "none"
  BY <1>2, <1>3 DEF servedKind
<1> QED BY <1>3, <1>4, <1>5 DEF Arch!Init, Arch!Plus4, Plus4, Arch!NoPC, NoPC

\* The front end implements sequential execution (its safety part; that the
\* machine keeps going is checked by TLC).
THEOREM Refinement == FSafe => Implements
<1>1. FInd /\ [FNext]_fvars => [Arch!Next]_(Arch!vars)
  <2> SUFFICES ASSUME FInd, [FNext]_fvars PROVE [Arch!Next]_(Arch!vars)
    OBVIOUS
  <2>1. ASSUME NEW outcome \in Outcomes, NEW guess \in Guesses,
               Edge(outcome, guess)
        PROVE  [Arch!Next]_(Arch!vars)
    <3>1. CASE STALL
      BY <2>1, <3>1, StallRefines
    <3>2. CASE ~STALL /\ flush
      BY <2>1, <3>2, FlushRefines
    <3>3. CASE ~STALL /\ ~flush /\ is_branch
      BY <2>1, <3>3, BranchStep DEF Arch!Next
    <3>4. CASE ~STALL /\ ~flush /\ ~is_branch
      BY <2>1, <3>4, FlowRefines
    <3> QED BY <3>1, <3>2, <3>3, <3>4
  <2>2. CASE UNCHANGED fvars
    BY <2>2 DEF fvars, Arch!vars, nextPC, nextNPC, servedKind, Live, Oldest,
       After, Instr_address_2IM, Plus4
  <2> QED BY <2>1, <2>2 DEF FNext
<1> QED BY RefinementInit, Invariance, <1>1, PTL DEF FSafe, Implements, Arch!Execution
=============================================================================
