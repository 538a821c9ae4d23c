-------------------------- MODULE PredictorProofs --------------------------
(***************************************************************************)
(* The five tables only ever make guesses that FrontEnd allows for, so     *)
(* everything proved about the front end holds for the whole predictor;    *)
(* and they are trained with what they predicted.  For every size of the   *)
(* tables, every delay from 3 on and every program.                        *)
(***************************************************************************)
EXTENDS PredictorProps, FrontEndProofs

\* A filled stage and the delay lines speak of the same instruction.
LinesAligned ==
    \A k \in 0 .. DELAY - 1 :
       st[k] # NoPC => /\ instr_histories[k] = st[k]
                       /\ gbp_past[k] = asked[k].global
                       /\ lbp_past[k] = asked[k].local
                       /\ gbp_histories[k] = asked[k].gbp
                       /\ lbp_histories[k] = asked[k].lbp

\* The entries of BTB are branches with a target they have gone to.
EntriesLegal ==
    /\ cache \in [0 .. BTBSets - 1 ->
                    [lru : BOOLEAN,
                     way : [1 .. 2 -> [valid : BOOLEAN, tag : Nat, target : PC]]]]
    /\ \A p \in PC, w \in 1 .. 2 :
          BTB!tag_match(p, w) => /\ imem[p] = "br"
                                 /\ cache[BTB!Index(p)].way[w].target \in Targets[p]

\* The entries of STACK are addresses that a call returns to.
ReturnsLegal ==
    /\ pointer \in 0 .. StackSize
    /\ stack \in [0 .. StackSize - 1 -> PC]
    /\ \A i \in 0 .. StackSize - 1 :
          i < pointer => \E c \in Calls : stack[i] = Plus8(c)

\* Nothing is learnt before the first fetch.
NothingYet ==
    st[DELAY] = NoPC => /\ \A k \in Stages : st[k] = NoPC
                        /\ \A p \in PC, w \in 1 .. 2 : ~BTB!tag_match(p, w)

PInd == FTypeOK /\ LinesAligned /\ EntriesLegal /\ ReturnsLegal /\ NothingYet

\* What the tables answer is a guess that FrontEnd allows for.
LEMMA GuessLegal == ASSUME PInd PROVE TableGuess \in Guesses
<1>1. CASE ras_hit
  <2>1. /\ Class(DELAY) = "br" /\ st[DELAY] \in Returns
        /\ RAS!top # 0
    BY <1>1 DEF ras_hit, RAS!hit, is_return, RAS!available
  <2>2. TableGuess = RAS!alt_pc(is_link, is_return, Plus8(id_pc))
    BY <1>1 DEF TableGuess
  <2>3. \E c \in Calls : TableGuess = Plus8(c)
    <3>1. CASE RAS!special(is_link, is_return)
      <4>1. is_link
        BY <3>1 DEF RAS!special
      <4>2. st[0] \in Calls /\ st[0] # NoPC
        BY <4>1, ClassFacts, StageNumbers DEF is_link, PInd
      <4> QED BY <2>2, <3>1, <4>2 DEF RAS!alt_pc, id_pc, Address
    <3>2. CASE ~RAS!special(is_link, is_return)
      <4>1. pointer > 0 /\ TableGuess = stack[pointer - 1]
        BY <2>1, <2>2, <3>2 DEF RAS!alt_pc, RAS!top
      <4>2. pointer - 1 \in 0 .. StackSize - 1 /\ pointer - 1 < pointer
        BY <4>1, TableAssumption DEF PInd, ReturnsLegal
      <4> QED BY <4>1, <4>2 DEF PInd, ReturnsLegal
    <3> QED BY <3>1, <3>2
  <2> QED BY <2>1, <2>3, LearntAssumption DEF Guesses
<1>2. CASE ~ras_hit /\ btb_hit /\ meta_pred /\ st[DELAY] # NoPC
  <2>1. TableGuess = BTB!alt_pc(st[DELAY]) /\ BTB!hit(st[DELAY])
    BY <1>2 DEF TableGuess, btb_hit, if_pc, Address
  <2>2. PICK w \in 1 .. 2 : BTB!tag_match(st[DELAY], w)
                            /\ TableGuess = cache[BTB!Index(st[DELAY])].way[w].target
    BY <2>1 DEF BTB!alt_pc, BTB!hit
  <2>3. st[DELAY] \in PC /\ Class(DELAY) = imem[st[DELAY]]
    BY <1>2, ClassFacts, StageNumbers DEF PInd
  <2>4. Class(DELAY) = "br" /\ TableGuess \in Targets[st[DELAY]]
    BY <2>2, <2>3 DEF PInd, EntriesLegal
  <2> QED BY <2>3, <2>4, LearntAssumption DEF Guesses
<1>3. CASE ~ras_hit /\ ~(btb_hit /\ meta_pred)
  BY <1>3 DEF TableGuess, Guesses
<1>4. CASE ~ras_hit /\ btb_hit /\ meta_pred /\ st[DELAY] = NoPC
  BY <1>4, ZeroAddress DEF PInd, NothingYet, btb_hit, BTB!hit, if_pc, Address
<1> QED BY <1>1, <1>2, <1>3, <1>4

\* An address is known by its set and its tag.
LEMMA Division ==
  ASSUME NEW n \in Nat \ {0}, NEW x \in Nat, NEW y \in Nat,
         x % n = y % n, x \div n = y \div n
  PROVE  x = y
<1>1. x = n * (x \div n) + (x % n) /\ y = n * (y \div n) + (y % n)
  BY SMTT(30)
<1> QED BY <1>1

LEMMA SetAndTag ==
  ASSUME NEW p \in PC, NEW q \in PC,
         BTB!Index(p) = BTB!Index(q), BTB!Tag(p) = BTB!Tag(q)
  PROVE  p = q
<1>1. p \in Nat /\ q \in Nat
  BY AddressAssumption DEF PC
<1> QED BY <1>1, Division, TableAssumption DEF BTB!Index, BTB!Tag

LEMMA SetOf ==
  ASSUME NEW p \in PC
  PROVE  BTB!Index(p) \in 0 .. BTBSets - 1 /\ BTB!Tag(p) \in Nat
<1>1. BTBSets \in Nat /\ BTBSets > 0 /\ p \in Nat
  BY TableAssumption, AddressAssumption DEF PC
<1> QED BY <1>1 DEF BTB!Index, BTB!Tag

LEMMA LinesStep ==
  ASSUME PInd, NEW outcome \in Outcomes, PEdge(outcome)
  PROVE  LinesAligned'
<1> SUFFICES ASSUME NEW k \in 0 .. DELAY - 1, st'[k] # NoPC
             PROVE  /\ instr_histories'[k] = st'[k]
                    /\ gbp_past'[k] = asked'[k].global
                    /\ lbp_past'[k] = asked'[k].local
                    /\ gbp_histories'[k] = asked'[k].gbp
                    /\ lbp_histories'[k] = asked'[k].lbp
  BY DEF LinesAligned
<1>1. ~flush /\ k \in Stages /\ k + 1 \in Stages /\ k # DELAY /\ k < DELAY
  BY StageNumbers, DelayAssumption DEF PEdge, Edge, StageEdge
<1>2. st' = [j \in Stages |-> IF STALL THEN st[j] ELSE
                               IF j = DELAY THEN Instr_address_2IM ELSE st[j+1]]
  BY <1>1, StageNumbers DEF PEdge, Edge, StageEdge
<1>3. CASE STALL
  <2>1. UNCHANGED <<instr_histories, gbp_past, lbp_past, gbp_histories, lbp_histories>>
    BY <1>3 DEF PEdge, TablesEdge, LineEdge, GBP!GBPEdge, LBP!LBPEdge, META!METAEdge
  <2>2. asked'[k] = asked[k]
    BY <1>1, <1>3 DEF PEdge, AskedEdge
  <2>3. st'[k] = st[k]
    BY <1>1, <1>2, <1>3
  <2> QED BY <2>1, <2>2, <2>3 DEF PInd, LinesAligned
<1>4. CASE ~STALL
  <2>1. /\ instr_histories' = Delay!Enter(instr_histories, if_pc)
        /\ gbp_past' = GBP!Enter(gbp_past, history)
        /\ lbp_past' = LBP!Enter(lbp_past, LBP!history(if_pc))
        /\ gbp_histories' = META!Enter(gbp_histories, gbp_pred)
        /\ lbp_histories' = META!Enter(lbp_histories, lbp_pred)
    BY <1>4 DEF PEdge, TablesEdge, LineEdge, GBP!GBPEdge, LBP!LBPEdge, META!METAEdge
  <2>2. asked'[k] = IF k = DELAY - 1 THEN Asking ELSE asked[k+1]
    BY <1>1, <1>4 DEF PEdge, AskedEdge
  <2>3. st'[k] = st[k+1]
    BY <1>1, <1>2, <1>4
  <2>4. CASE k = DELAY - 1
    <3>1. instr_histories'[k] = if_pc /\ if_pc = st[DELAY]
      BY <2>1, <2>3, <2>4, DelayAssumption DEF Delay!Enter, if_pc, Address
    <3>2. /\ gbp_past'[k] = history /\ lbp_past'[k] = LBP!history(if_pc)
          /\ gbp_histories'[k] = gbp_pred /\ lbp_histories'[k] = lbp_pred
      BY <2>1, <2>4, DelayAssumption DEF GBP!Enter, LBP!Enter, META!Enter
    <3> QED BY <2>2, <2>3, <2>4, <3>1, <3>2, DelayAssumption DEF Asking
  <2>5. CASE k # DELAY - 1
    <3>1. k + 1 \in 0 .. DELAY - 1
      BY <2>5, DelayAssumption
    <3>2. /\ instr_histories'[k] = instr_histories[k+1]
          /\ gbp_past'[k] = gbp_past[k+1] /\ lbp_past'[k] = lbp_past[k+1]
          /\ gbp_histories'[k] = gbp_histories[k+1]
          /\ lbp_histories'[k] = lbp_histories[k+1]
      BY <2>1, <2>5 DEF Delay!Enter, GBP!Enter, LBP!Enter, META!Enter
    <3> QED BY <2>2, <2>3, <2>5, <3>1, <3>2 DEF PInd, LinesAligned
  <2> QED BY <2>4, <2>5
<1> QED BY <1>3, <1>4

\* A branch in ID is the instruction that the delay lines speak of.
LEMMA PastInstr ==
  ASSUME PInd, is_branch
  PROVE  st[0] \in PC /\ imem[st[0]] = "br" /\ past_instr = st[0] /\ id_pc = st[0]
<1>1. st[0] \in PC /\ st[0] # NoPC /\ imem[st[0]] = "br"
  BY ClassFacts, StageNumbers DEF PInd
<1> QED BY <1>1, DelayAssumption DEF PInd, LinesAligned, past_instr, id_pc, Address

LEMMA EntriesStep ==
  ASSUME PInd, NEW outcome \in Outcomes, PEdge(outcome)
  PROVE  EntriesLegal'
<1> DEFINE ways == [valid : BOOLEAN, tag : Nat, target : PC]
<1>1. imem' = imem
  BY DEF PEdge, Edge
<1>2. CASE STALL
  <2>1. cache' = cache
    BY <1>2 DEF PEdge, TablesEdge, BTB!BTBEdge
  <2> QED BY <1>1, <2>1 DEF PInd, EntriesLegal, BTB!tag_match
<1>3. CASE ~STALL
  <2> DEFINE update == is_branch /\ outcome # NoPC
  <2>1. cache' = [s \in 0 .. BTBSets - 1 |->
                    [lru |-> BTB!NextLru(s, if_pc, past_instr),
                     way |-> [w \in 1 .. 2 |->
                        BTB!NextWay(s, w, past_instr, id_pc, outcome, update)]]]
    BY <1>3 DEF PEdge, TablesEdge, BTB!BTBEdge
  <2>2. update => /\ st[0] \in PC /\ imem[st[0]] = "br"
                  /\ past_instr = st[0] /\ id_pc = st[0]
                  /\ outcome \in Targets[st[0]] /\ outcome \in PC
    BY PastInstr, TargetAssumption DEF Outcomes
  <2>3. \A s \in 0 .. BTBSets - 1, w \in 1 .. 2 :
           BTB!NextWay(s, w, past_instr, id_pc, outcome, update) \in ways
    <3> SUFFICES ASSUME NEW s \in 0 .. BTBSets - 1, NEW w \in 1 .. 2
                 PROVE  BTB!NextWay(s, w, past_instr, id_pc, outcome, update) \in ways
      OBVIOUS
    <3>1. cache[s].way[w] \in ways
      BY DEF PInd, EntriesLegal
    <3>2. update => BTB!Tag(id_pc) \in Nat
      BY <2>2, SetOf
    <3> QED BY <2>2, <3>1, <3>2 DEF BTB!NextWay
  <2>4. \A s \in 0 .. BTBSets - 1 : BTB!NextLru(s, if_pc, past_instr) \in BOOLEAN
    <3>1. \A s \in 0 .. BTBSets - 1 : cache[s].lru \in BOOLEAN
      BY DEF PInd, EntriesLegal
    <3> QED BY <3>1 DEF BTB!NextLru
  <2>5. cache' \in [0 .. BTBSets - 1 -> [lru : BOOLEAN, way : [1 .. 2 -> ways]]]
    BY <2>1, <2>3, <2>4
  <2>6. ASSUME NEW p \in PC, NEW w \in 1 .. 2, BTB!tag_match(p, w)'
        PROVE  imem'[p] = "br" /\ cache'[BTB!Index(p)].way[w].target \in Targets[p]
    <3> DEFINE s == BTB!Index(p)
    <3>1. s \in 0 .. BTBSets - 1
      BY SetOf
    <3>2. cache'[s].way[w] = BTB!NextWay(s, w, past_instr, id_pc, outcome, update)
      BY <2>1, <3>1
    <3>3. cache'[s].way[w].valid /\ cache'[s].way[w].tag = BTB!Tag(p)
      BY <2>6 DEF BTB!tag_match, BTB!Index, BTB!Tag
    <3>4. CASE update /\ s = BTB!Index(past_instr) /\ w = BTB!Victim(past_instr)
      <4>1. cache'[s].way[w].tag = BTB!Tag(id_pc) /\ cache'[s].way[w].target = outcome
        BY <3>2, <3>4 DEF BTB!NextWay
      <4>2. p = st[0]
        BY <2>2, <3>3, <3>4, <4>1, SetAndTag
      <4> QED BY <1>1, <2>2, <3>4, <4>1, <4>2
    <3>5. CASE ~(update /\ s = BTB!Index(past_instr) /\ w = BTB!Victim(past_instr))
      <4>1. cache'[s].way[w] = cache[s].way[w]
        BY <3>2, <3>5 DEF BTB!NextWay
      <4>2. BTB!tag_match(p, w)
        BY <3>3, <4>1 DEF BTB!tag_match
      <4> QED BY <1>1, <4>1, <4>2 DEF PInd, EntriesLegal
    <3> QED BY <3>4, <3>5
  <2> QED BY <2>5, <2>6 DEF EntriesLegal, BTB!Index
<1> QED BY <1>2, <1>3

LEMMA ReturnsStep ==
  ASSUME PInd, NEW outcome \in Outcomes, PEdge(outcome)
  PROVE  ReturnsLegal'
<1>1. CASE STALL
  <2>1. UNCHANGED <<stack, pointer>>
    BY <1>1 DEF PEdge, TablesEdge, RASEdge
  <2> QED BY <2>1 DEF PInd, ReturnsLegal, Plus8, Plus4
<1>2. CASE ~STALL
  <2> DEFINE data == Plus8(id_pc)
             push == is_link /\ ~RAS!special(is_link, is_return)
             pop == RAS!hit(is_return) /\ ~RAS!special(is_link, is_return)
  <2>1. RAS!StackEdge(push, pop, data)
    BY <1>2 DEF PEdge, TablesEdge, RASEdge, RAS!RASEdge
  <2>2. push => data \in PC /\ \E c \in Calls : data = Plus8(c)
    <3>1. is_link => st[0] \in PC /\ id_pc = st[0] /\ st[0] \in Calls
      BY PastInstr DEF is_link
    <3> QED BY <3>1, NextAddress DEF Plus8
  <2>3. /\ pointer \in 0 .. StackSize /\ StackSize \in Nat \ {0}
        /\ stack \in [0 .. StackSize - 1 -> PC]
        /\ \A i \in 0 .. StackSize - 1 :
              i < pointer => \E c \in Calls : stack[i] = Plus8(c)
    BY TableAssumption DEF PInd, ReturnsLegal
  <2>4. ~(push /\ pop)
    BY DEF RAS!special
  <2> HIDE DEF data, push, pop
  <2>5. CASE push /\ pointer < StackSize
    <3>1. pointer' = pointer + 1 /\ stack' = [stack EXCEPT ![pointer] = data]
      BY <2>1, <2>3, <2>4, <2>5 DEF RAS!StackEdge
    <3> QED BY <2>2, <2>3, <2>5, <3>1 DEF ReturnsLegal, Plus8, Plus4
  <2>6. CASE push /\ ~(pointer < StackSize)
    <3>1. /\ pointer' = pointer /\ pointer = StackSize
          /\ stack' = [i \in 0 .. StackSize - 1 |-> IF i = StackSize - 1 THEN data
                                                                    ELSE stack[i+1]]
      BY <2>1, <2>3, <2>4, <2>6 DEF RAS!StackEdge
    <3> QED BY <2>2, <2>3, <2>6, <3>1 DEF ReturnsLegal, Plus8, Plus4
  <2>7. CASE ~push
    <3>1. stack' = stack /\ pointer' \in 0 .. pointer
      BY <2>1, <2>3, <2>7 DEF RAS!StackEdge
    <3> QED BY <2>3, <3>1 DEF ReturnsLegal, Plus8, Plus4
  <2> QED BY <2>5, <2>6, <2>7
<1> QED BY <1>1, <1>2

LEMMA NothingYetStep ==
  ASSUME PInd, NEW outcome \in Outcomes, PEdge(outcome)
  PROVE  NothingYet'
<1>1. st[DELAY] = NoPC => ~STALL
  <2>1. STALL => st[0] # NoPC
    BY ClassFacts, StageNumbers DEF PInd, STALL
  <2> QED BY <2>1, StageNumbers DEF PInd, NothingYet
<1>2. STALL => st'[DELAY] = st[DELAY]
  BY StageNumbers DEF PEdge, Edge, StageEdge
<1>3. ~STALL => st'[DELAY] = Instr_address_2IM
  BY StageNumbers DEF PEdge, Edge, StageEdge
<1>4. Instr_address_2IM \in PC
  BY DEF PInd, FTypeOK, Instr_address_2IM
<1>5. st'[DELAY] # NoPC
  BY <1>1, <1>2, <1>3, <1>4, NoAddress
<1> QED BY <1>5 DEF NothingYet

LEMMA PIndInit == PInit => PInd
<1> SUFFICES ASSUME PInit PROVE PInd
  OBVIOUS
<1>1. FInit /\ \A k \in Stages : st[k] = NoPC
  BY DEF PInit, FInit
<1>2. FTypeOK
  BY <1>1, TypeInit
<1>3. LinesAligned
  BY <1>1, StageNumbers DEF LinesAligned
<1>4. cache = [s \in 0 .. BTBSets - 1 |->
                 [lru |-> FALSE, way |-> [w \in 1 .. 2 |-> BTB!Empty]]]
  BY DEF PInit, BTB!BTBInit
<1>5. \A p \in PC, w \in 1 .. 2 : ~BTB!tag_match(p, w)
  BY <1>4, SetOf DEF BTB!tag_match, BTB!Empty
<1>6. EntriesLegal
  BY <1>4, <1>5, ZeroAddress DEF EntriesLegal, BTB!Empty
<1>7. ReturnsLegal
  <2>1. pointer = 0 /\ stack = [i \in 0 .. StackSize - 1 |-> 0]
    BY DEF PInit, RAS!StackInit
  <2> QED BY <2>1, ZeroAddress, TableAssumption DEF ReturnsLegal
<1> QED BY <1>1, <1>2, <1>3, <1>5, <1>6, <1>7 DEF PInd, NothingYet

LEMMA PIndStep ==
  ASSUME PInd, [PNext]_pvars
  PROVE  PInd' /\ [FNext]_fvars
<1>1. CASE PNext
  <2>1. PICK outcome \in Outcomes : PEdge(outcome)
    BY <1>1 DEF PNext
  <2>2. Edge(outcome, TableGuess) /\ TableGuess \in Guesses
    BY <2>1, GuessLegal DEF PEdge
  <2>3. FTypeOK'
    BY <2>2, TypeStep DEF PInd
  <2>4. FNext
    BY <2>2 DEF FNext
  <2> QED BY <2>1, <2>3, <2>4, LinesStep, EntriesStep, ReturnsStep, NothingYetStep DEF PInd
<1>2. CASE UNCHANGED pvars
  <2>1. UNCHANGED fvars /\ UNCHANGED tvars /\ UNCHANGED asked
    BY <1>2 DEF pvars
  <2>2. FTypeOK'
    BY <2>1 DEF fvars, FTypeOK, PInd
  <2>3. LinesAligned'
    BY <2>1 DEF fvars, tvars, LinesAligned, PInd
  <2>4. EntriesLegal' /\ NothingYet'
    BY <2>1 DEF fvars, tvars, EntriesLegal, NothingYet, BTB!tag_match, PInd
  <2>5. ReturnsLegal'
    BY <2>1 DEF tvars, ReturnsLegal, PInd, Plus8, Plus4
  <2> QED BY <2>1, <2>2, <2>3, <2>4, <2>5 DEF PInd
<1> QED BY <1>1, <1>2

\* The delay lines follow the stages and the tables hold branches and return
\* addresses of the program only: the inductive invariant of the predictor.
THEOREM PredictorInvariance == PSafe => []PInd
  BY PIndInit, PIndStep, PTL DEF PSafe

\* The tables answer with guesses that the front end is proved correct for.
THEOREM TablesGuess == PSafe => GuessesOnly
<1>1. PInit => FInit
  BY DEF PInit
<1> QED BY <1>1, PIndStep, PredictorInvariance, PTL DEF PSafe, GuessesOnly, FSafe

\* So the pipeline with all its tables executes the program one instruction
\* after the other, whatever the tables have learnt.
THEOREM PredictorImplements == PSafe => Implements
  BY TablesGuess, Refinement, PTL DEF GuessesOnly

\* A branch trains the entries that were read to predict it.
THEOREM TrainingCorrect == PSafe => []TrainsWhatPredicted
<1>1. PInd => TrainsWhatPredicted
  <2> SUFFICES ASSUME PInd, is_branch
               PROVE  /\ past_instr = st[0]
                      /\ gbp_past[0] = asked[0].global
                      /\ lbp_past[0] = asked[0].local
                      /\ gbp_histories[0] = asked[0].gbp
                      /\ lbp_histories[0] = asked[0].lbp
    BY DEF TrainsWhatPredicted
  <2>1. st[0] \in PC /\ st[0] # NoPC
    BY PastInstr, NoAddress
  <2> QED BY <2>1, PastInstr, DelayAssumption DEF PInd, LinesAligned
<1> QED BY <1>1, PredictorInvariance, PTL

\* The global history is exact: ID decides a branch on the very edges on which
\* GBP is told of one.  This needs the invariant of the freeze machine.
THEOREM HistoryExact == PSafe => []GlobalHistoryExact
<1>1. PInit => GlobalHistoryExact
  BY DEF PInit, GBP!GBPInit, NotAsked, GlobalHistoryExact
<1>2. ASSUME FInd, GlobalHistoryExact, [PNext]_pvars
      PROVE  GlobalHistoryExact'
  <2>1. CASE PNext
    <3>1. PICK outcome \in Outcomes : PEdge(outcome)
      BY <2>1 DEF PNext
    <3>2. is_branch => Takes /\ ~STALL
      <4>1. is_branch => ~flush
        BY <1>2 DEF FInd, FlushTakes, is_branch
      <4> QED BY <4>1, <1>2, BranchHead
    <3>3. CASE is_branch
      <4>1. history' = GBP!Shifted(history, outcome # NoPC)
        BY <3>1, <3>2, <3>3 DEF PEdge, TablesEdge, GBP!GBPEdge
      <4>2. decided' = GBP!Shifted(decided, outcome # NoPC)
        BY <3>1, <3>2, <3>3 DEF PEdge, DecidedEdge
      <4> QED BY <1>2, <4>1, <4>2 DEF GlobalHistoryExact
    <3>4. CASE ~is_branch
      <4>1. history' = history
        BY <3>1, <3>4 DEF PEdge, TablesEdge, GBP!GBPEdge
      <4>2. decided' = decided
        BY <3>1, <3>4 DEF PEdge, DecidedEdge
      <4> QED BY <1>2, <4>1, <4>2 DEF GlobalHistoryExact
    <3> QED BY <3>3, <3>4
  <2>2. CASE UNCHANGED pvars
    BY <1>2, <2>2 DEF pvars, tvars, GlobalHistoryExact
  <2> QED BY <1>2, <2>1, <2>2
<1>3. PSafe => []FInd
  BY TablesGuess, Invariance, PTL DEF GuessesOnly
<1> QED BY <1>1, <1>2, <1>3, PTL DEF PSafe

\* A branch under way has read its entry as it is now, unless it will be thrown
\* away or the entry is one of the overlapped ones.
LocalReads ==
    ~flush => \A k \in 0 .. DELAY - 1 :
        Class(k) = "br" /\ LBP!idx(st[k]) \notin overlapped =>
            asked[k].local = branch_history[LBP!idx(st[k])]

LocalTables ==
    /\ DOMAIN branch_history = 0 .. LocalEntries - 1
    /\ DOMAIN localDecided = 0 .. LocalEntries - 1

LocalInd == LocalTables /\ LocalReads /\ LocalHistoryExact

LEMMA LocalEntry ==
  ASSUME NEW p \in PC
  PROVE  LBP!idx(p) \in 0 .. LocalEntries - 1
<1>1. p \in Nat /\ LocalEntries \in Nat /\ LocalEntries > 0
  BY TableAssumption, AddressAssumption DEF PC
<1> QED BY <1>1 DEF LBP!idx

LEMMA LocalInit == PInit => LocalInd
<1> SUFFICES ASSUME PInit PROVE LocalInd
  OBVIOUS
<1>1. /\ branch_history = [e \in 0 .. LocalEntries - 1 |-> [i \in 1 .. LocalBits |-> FALSE]]
      /\ localDecided = [e \in 0 .. LocalEntries - 1 |-> [i \in 1 .. LocalBits |-> FALSE]]
  BY DEF PInit, LBP!LBPInit, NotAsked
<1>2. LocalTables /\ LocalHistoryExact
  BY <1>1 DEF LocalTables, LocalHistoryExact
<1>3. LocalReads
  BY StageNumbers DEF PInit, FInit, LocalReads, Class
<1> QED BY <1>2, <1>3 DEF LocalInd

\* What an edge does to the entries: only a branch in ID writes one, with the
\* history that it read.
LEMMA LocalWrites ==
  ASSUME PInd, LocalInd, FInd, NEW outcome \in Outcomes, PEdge(outcome)
  PROVE  /\ ~is_branch => UNCHANGED <<branch_history, localDecided, overlapped>>
         /\ is_branch =>
              LET e == LBP!idx(st[0]) IN
              /\ ~STALL /\ ~flush /\ e \in 0 .. LocalEntries - 1
              /\ branch_history' = [branch_history EXCEPT ![e] =
                                       LBP!Shifted(asked[0].local, outcome # NoPC)]
              /\ localDecided' = [localDecided EXCEPT ![e] =
                                       LBP!Shifted(localDecided[e], outcome # NoPC)]
              /\ overlapped' = IF Overlaps(outcome) THEN overlapped \cup {e} ELSE overlapped
<1>1. CASE ~is_branch
  <2>1. branch_history' = branch_history
    BY <1>1 DEF PEdge, TablesEdge, LBP!LBPEdge
  <2>2. UNCHANGED <<localDecided, overlapped>>
    BY <1>1 DEF PEdge, LocalEdge
  <2> QED BY <1>1, <2>1, <2>2
<1>2. CASE is_branch
  <2> DEFINE e == LBP!idx(st[0])
  <2>1. ~flush
    BY <1>2 DEF FInd, FlushTakes, is_branch
  <2>2. Takes /\ ~STALL
    BY <1>2, <2>1, BranchHead
  <2>3. st[0] \in PC /\ st[0] # NoPC /\ past_instr = st[0] /\ e \in 0 .. LocalEntries - 1
    BY <1>2, PastInstr, LocalEntry, NoAddress
  <2>4. lbp_past[0] = asked[0].local
    BY <2>3, DelayAssumption DEF PInd, LinesAligned
  <2>5. branch_history' = [branch_history EXCEPT ![e] =
                                       LBP!Shifted(asked[0].local, outcome # NoPC)]
    BY <1>2, <2>2, <2>3, <2>4 DEF PEdge, TablesEdge, LBP!LBPEdge
  <2>6. /\ localDecided' = [localDecided EXCEPT ![e] =
                                       LBP!Shifted(localDecided[e], outcome # NoPC)]
        /\ overlapped' = IF Overlaps(outcome) THEN overlapped \cup {e} ELSE overlapped
    BY <1>2, <2>2 DEF PEdge, LocalEdge
  <2> QED BY <1>2, <2>1, <2>2, <2>3, <2>5, <2>6
<1> QED BY <1>1, <1>2

LEMMA LocalExactStep ==
  ASSUME PInd, LocalInd, FInd, NEW outcome \in Outcomes, PEdge(outcome)
  PROVE  LocalTables' /\ LocalHistoryExact'
<1>1. CASE ~is_branch
  BY <1>1, LocalWrites DEF LocalInd, LocalTables, LocalHistoryExact
<1>2. CASE is_branch
  <2> DEFINE e == LBP!idx(st[0])
             h == asked[0].local
             taken == outcome # NoPC
  <2>1. /\ ~flush /\ e \in 0 .. LocalEntries - 1
        /\ branch_history' = [branch_history EXCEPT ![e] = LBP!Shifted(h, taken)]
        /\ localDecided' = [localDecided EXCEPT ![e] = LBP!Shifted(localDecided[e], taken)]
        /\ overlapped \subseteq overlapped'
    BY <1>2, LocalWrites
  <2>2. e \notin overlapped => h = branch_history[e] /\ branch_history[e] = localDecided[e]
    <3>1. Class(0) = "br" /\ 0 \in 0 .. DELAY - 1
      BY <1>2, DelayAssumption DEF is_branch
    <3> QED BY <2>1, <3>1 DEF LocalInd, LocalReads, LocalHistoryExact
  <2> DEFINE kept == LBP!Shifted(h, taken)
             now == LBP!Shifted(localDecided[e], taken)
  <2>3. e \notin overlapped => kept = now
    BY <2>2
  <2> HIDE DEF e, h, taken, kept, now
  <2>4. /\ branch_history' = [branch_history EXCEPT ![e] = kept]
        /\ localDecided' = [localDecided EXCEPT ![e] = now]
    BY <2>1 DEF kept, now
  <2> QED BY <2>1, <2>3, <2>4 DEF LocalInd, LocalTables, LocalHistoryExact
<1> QED BY <1>1, <1>2

LEMMA LocalReadsStep ==
  ASSUME PInd, LocalInd, FInd, NEW outcome \in Outcomes, PEdge(outcome)
  PROVE  LocalReads'
<1> SUFFICES ASSUME ~flush', NEW k \in 0 .. DELAY - 1, Class(k)' = "br",
                    LBP!idx(st'[k]) \notin overlapped'
             PROVE  asked'[k].local = branch_history'[LBP!idx(st'[k])]
  BY DEF LocalReads, LBP!idx
<1>1. k \in Stages /\ k + 1 \in Stages /\ k # DELAY /\ k < DELAY
  BY StageNumbers, DelayAssumption
<1>2. imem' = imem /\ st'[k] # NoPC
  BY DEF PEdge, Edge, Class
<1>3. ~flush
  BY <1>1, <1>2 DEF PEdge, Edge, StageEdge
<1>4. st' = [j \in Stages |-> IF STALL THEN st[j] ELSE
                               IF j = DELAY THEN Instr_address_2IM ELSE st[j+1]]
  BY <1>3, StageNumbers DEF PEdge, Edge, StageEdge
<1>5. CASE STALL
  <2>1. st'[k] = st[k] /\ asked'[k] = asked[k]
    BY <1>1, <1>3, <1>4, <1>5 DEF PEdge, AskedEdge
  <2>2. ~is_branch
    BY <1>5, LocalWrites
  <2>3. UNCHANGED <<branch_history, overlapped>>
    BY <2>2, LocalWrites
  <2>4. Class(k) = "br"
    BY <1>2, <2>1 DEF Class
  <2> QED BY <1>3, <2>1, <2>3, <2>4 DEF LocalInd, LocalReads
<1>6. CASE ~STALL
  <2> DEFINE e == LBP!idx(st[k+1])
  <2>1. st'[k] = st[k+1]
    BY <1>1, <1>4, <1>6
  <2>2. Class(k+1) = "br" /\ st[k+1] # NoPC
    BY <1>2, <2>1 DEF Class
  <2>3. asked'[k] = IF k = DELAY - 1 THEN Asking ELSE asked[k+1]
    BY <1>3, <1>6 DEF PEdge, AskedEdge
  <2>4. overlapped \subseteq overlapped'
    BY LocalWrites
  <2>5. asked'[k].local = branch_history[e]
    <3>1. CASE k = DELAY - 1
      <4>1. if_pc = st[k+1]
        BY <2>2, <3>1, DelayAssumption DEF if_pc, Address
      <4> QED BY <2>3, <3>1, <4>1 DEF Asking, LBP!history
    <3>2. CASE k # DELAY - 1
      <4>1. k + 1 \in 0 .. DELAY - 1
        BY <3>2, DelayAssumption
      <4>2. e \notin overlapped
        BY <2>1, <2>4
      <4> QED BY <1>3, <2>2, <2>3, <3>2, <4>1, <4>2 DEF LocalInd, LocalReads
    <3> QED BY <3>1, <3>2
  <2>6. branch_history'[e] = branch_history[e]
    <3>1. CASE ~is_branch
      BY <3>1, LocalWrites
    <3>2. CASE is_branch
      <4>1. ~mispred(outcome)
        BY <1>3, <1>6 DEF PEdge, Edge, PredictorEdge
      <4>2. k + 1 \in 1 .. DELAY
        BY DelayAssumption
      <4>3. e = LBP!idx(st[0]) => Overlaps(outcome)
        BY <2>2, <4>1, <4>2 DEF Overlaps
      <4>4. e # LBP!idx(st[0])
        BY <2>1, <3>2, <4>3, LocalWrites
      <4>5. branch_history' = [branch_history EXCEPT ![LBP!idx(st[0])] =
                                       LBP!Shifted(asked[0].local, outcome # NoPC)]
        BY <3>2, LocalWrites
      <4>6. e \in 0 .. LocalEntries - 1
        BY <2>2, ClassFacts, LocalEntry, <1>1 DEF PInd, FTypeOK
      <4> QED BY <4>4, <4>5, <4>6 DEF LocalInd, LocalTables
    <3> QED BY <3>1, <3>2
  <2> QED BY <2>1, <2>5, <2>6
<1> QED BY <1>5, <1>6

\* The local histories are exact but for overlapping branches, whatever stalls
\* and flushes come between: a branch that is not thrown away writes back what
\* its entry held when it was read, which nothing has changed since.
THEOREM LocalHistoriesExact == PSafe => []LocalHistoryExact
<1>1. ASSUME PInd, FInd, LocalInd, [PNext]_pvars
      PROVE  LocalInd'
  <2>1. CASE PNext
    <3>1. PICK outcome \in Outcomes : PEdge(outcome)
      BY <2>1 DEF PNext
    <3> QED BY <1>1, <3>1, LocalExactStep, LocalReadsStep DEF LocalInd
  <2>2. CASE UNCHANGED pvars
    <3>1. UNCHANGED <<imem, flush, st, asked, branch_history, localDecided, overlapped>>
      BY <2>2 DEF pvars, fvars, tvars
    <3> QED BY <1>1, <3>1 DEF LocalInd, LocalTables, LocalReads, LocalHistoryExact,
                              Class, LBP!idx
  <2> QED BY <1>1, <2>1, <2>2
<1>2. PSafe => []FInd
  BY TablesGuess, Invariance, PTL DEF GuessesOnly
<1>3. LocalInd => LocalHistoryExact
  BY DEF LocalInd
<1> QED BY <1>1, <1>2, <1>3, LocalInit, PredictorInvariance, PTL DEF PSafe

\* The counters are pairs of bits.
Counters ==
    /\ gbp_A \in [GBP!Histories -> BOOLEAN] /\ gbp_B \in [GBP!Histories -> BOOLEAN]
    /\ lbp_A \in [LBP!Histories -> BOOLEAN] /\ lbp_B \in [LBP!Histories -> BOOLEAN]
    /\ meta_A \in [0 .. MetaEntries - 1 -> BOOLEAN]
    /\ meta_B \in [0 .. MetaEntries - 1 -> BOOLEAN]

TInd == PTypeOK /\ Counters

LEMMA TablesTypedInit == PInit => TInd
<1> SUFFICES ASSUME PInit PROVE TInd
  OBVIOUS
<1>1. Counters
  BY DEF PInit, GBP!GBPInit, GBP!GBP_FSM!FSMInit, LBP!LBPInit, LBP!LBP_FSM!FSMInit,
         META!METAInit, META!META_FSM!FSMInit, Counters
<1>2. PTypeOK
  BY ZeroAddress, TableAssumption
     DEF PInit, PTypeOK, Delay!Line, GBP!GBPInit, GBP!Line, GBP!Histories,
         LBP!LBPInit, LBP!Line, LBP!Histories, META!METAInit, META!Line, RAS!StackInit
<1>3. QED
  BY <1>1, <1>2 DEF TInd

\* What is predicted and read for the IF register has its type.
LEMMA ReadsTyped ==
  ASSUME PInd, TInd
  PROVE  /\ if_pc \in PC /\ past_instr \in PC
         /\ gbp_pred \in BOOLEAN /\ lbp_pred \in BOOLEAN
         /\ LBP!history(if_pc) \in LBP!Histories
<1>1. if_pc \in PC
  BY ClassFacts, StageNumbers, ZeroAddress DEF PInd, if_pc, Address
<1>2. past_instr \in PC
  BY DelayAssumption DEF TInd, PTypeOK, past_instr
<1>3. gbp_pred \in BOOLEAN
  BY DEF TInd, PTypeOK, Counters, gbp_pred, GBP!pred, GBP!GBP_FSM!pred
<1>4. LBP!idx(if_pc) \in 0 .. LocalEntries - 1
  <2>1. LocalEntries \in Nat /\ LocalEntries > 0 /\ if_pc \in Nat
    BY <1>1, TableAssumption, AddressAssumption DEF PC
  <2>2. QED
    BY <2>1 DEF LBP!idx
<1>5. LBP!history(if_pc) \in LBP!Histories
  BY <1>4 DEF TInd, PTypeOK, LBP!history
<1>6. lbp_pred \in BOOLEAN
  BY <1>5 DEF TInd, Counters, lbp_pred, LBP!pred, LBP!LBP_FSM!pred
<1>7. QED
  BY <1>1, <1>2, <1>3, <1>5, <1>6

LEMMA TablesTypedStep ==
  ASSUME PInd, PInd', TInd, NEW outcome \in Outcomes, PEdge(outcome)
  PROVE  TInd'
<1> DEFINE is_taken == outcome # NoPC
<1>1. pointer' \in 0 .. StackSize /\ stack' \in [0 .. StackSize - 1 -> PC]
  BY DEF PInd, ReturnsLegal
<1>2. CASE STALL
  <2>1. UNCHANGED <<instr_histories, history, gbp_past, gbp_A, gbp_B, branch_history, lbp_past,
                    lbp_A, lbp_B, gbp_histories, lbp_histories, meta_A, meta_B>>
    BY <1>2 DEF PEdge, TablesEdge, LineEdge, GBP!GBPEdge, LBP!LBPEdge, META!METAEdge
  <2>2. QED
    BY <1>1, <2>1 DEF TInd, PTypeOK, Counters
<1>3. CASE ~STALL
  <2>1. /\ LineEdge
        /\ GBP!GBPEdge(STALL, is_branch, is_taken)
        /\ LBP!LBPEdge(STALL, if_pc, past_instr, is_branch, is_taken)
        /\ META!METAEdge(STALL, past_instr, is_branch, is_taken, gbp_pred, lbp_pred)
    BY DEF PEdge, TablesEdge
  <2>2. \A h \in GBP!Histories : GBP!Shifted(h, is_taken) \in GBP!Histories
    <3>1. ASSUME NEW t \in BOOLEAN, NEW h \in GBP!Histories
          PROVE  GBP!Shifted(h, t) \in GBP!Histories
      BY TableAssumption DEF GBP!Shifted, GBP!Histories
    <3>2. is_taken \in BOOLEAN
      OBVIOUS
    <3>3. QED
      BY <3>1, <3>2, Zenon
  <2>3. \A h \in LBP!Histories : LBP!Shifted(h, is_taken) \in LBP!Histories
    <3>1. ASSUME NEW t \in BOOLEAN, NEW h \in LBP!Histories
          PROVE  LBP!Shifted(h, t) \in LBP!Histories
      BY TableAssumption DEF LBP!Shifted, LBP!Histories
    <3>2. is_taken \in BOOLEAN
      OBVIOUS
    <3>3. QED
      BY <3>1, <3>2, Zenon
  <2> HIDE DEF is_taken
  <2>4. instr_histories' \in [0 .. DELAY - 1 -> PC]
    BY <1>3, <2>1, ReadsTyped, DelayAssumption DEF LineEdge, Delay!Enter, TInd, PTypeOK
  <2>5. history' \in GBP!Histories /\ gbp_past' \in [0 .. DELAY - 1 -> GBP!Histories]
    <3>1. history \in GBP!Histories /\ gbp_past \in [0 .. DELAY - 1 -> GBP!Histories]
      BY DEF TInd, PTypeOK
    <3>2. history' = IF is_branch THEN GBP!Shifted(history, is_taken) ELSE history
      BY <1>3, <2>1 DEF GBP!GBPEdge
    <3>3. gbp_past' = GBP!Enter(gbp_past, history)
      BY <1>3, <2>1 DEF GBP!GBPEdge
    <3>4. gbp_past' \in [0 .. DELAY - 1 -> GBP!Histories]
      BY <3>1, <3>3, DelayAssumption DEF GBP!Enter
    <3>5. QED
      BY <2>2, <3>1, <3>2, <3>4
  <2>6. lbp_past' \in [0 .. DELAY - 1 -> LBP!Histories]
    BY <1>3, <2>1, ReadsTyped, DelayAssumption DEF LBP!LBPEdge, LBP!Enter, TInd, PTypeOK
  <2>7. branch_history' \in [0 .. LocalEntries - 1 -> LBP!Histories]
    <3>1. lbp_past[0] \in LBP!Histories
      BY DelayAssumption DEF TInd, PTypeOK
    <3>2. QED
      BY <1>3, <2>1, <2>3, <3>1 DEF LBP!LBPEdge, TInd, PTypeOK
  <2>8. /\ gbp_histories' \in [0 .. DELAY - 1 -> BOOLEAN]
        /\ lbp_histories' \in [0 .. DELAY - 1 -> BOOLEAN]
    BY <1>3, <2>1, ReadsTyped, DelayAssumption DEF META!METAEdge, META!Enter, TInd, PTypeOK
  <2>9. PTypeOK'
    BY <1>1, <2>4, <2>5, <2>6, <2>7, <2>8 DEF PTypeOK
  <2>10. /\ gbp_A' \in [GBP!Histories -> BOOLEAN] /\ gbp_B' \in [GBP!Histories -> BOOLEAN]
    <3>1. \A a, b, up : /\ GBP!GBP_FSM!NextA(a, b, up) \in BOOLEAN
                        /\ GBP!GBP_FSM!NextB(a, b, up) \in BOOLEAN
      BY DEF GBP!GBP_FSM!NextA, GBP!GBP_FSM!NextB
    <3>2. QED
      BY <1>3, <2>1, <3>1 DEF GBP!GBPEdge, GBP!GBP_FSM!FSMEdge, TInd, Counters
  <2>11. /\ lbp_A' \in [LBP!Histories -> BOOLEAN] /\ lbp_B' \in [LBP!Histories -> BOOLEAN]
    <3>1. \A a, b, up : /\ LBP!LBP_FSM!NextA(a, b, up) \in BOOLEAN
                        /\ LBP!LBP_FSM!NextB(a, b, up) \in BOOLEAN
      BY DEF LBP!LBP_FSM!NextA, LBP!LBP_FSM!NextB
    <3>2. QED
      BY <1>3, <2>1, <3>1 DEF LBP!LBPEdge, LBP!LBP_FSM!FSMEdge, TInd, Counters
  <2>12. /\ meta_A' \in [0 .. MetaEntries - 1 -> BOOLEAN]
         /\ meta_B' \in [0 .. MetaEntries - 1 -> BOOLEAN]
    <3>1. \A a, b, up : /\ META!META_FSM!NextA(a, b, up) \in BOOLEAN
                        /\ META!META_FSM!NextB(a, b, up) \in BOOLEAN
      BY DEF META!META_FSM!NextA, META!META_FSM!NextB
    <3>2. QED
      BY <1>3, <2>1, <3>1 DEF META!METAEdge, META!META_FSM!FSMEdge, TInd, Counters
  <2>13. QED
    BY <2>9, <2>10, <2>11, <2>12 DEF TInd, Counters
<1>4. QED
  BY <1>2, <1>3

LEMMA TablesTyped == PSafe => []TInd
<1>1. PInd /\ PInd' /\ TInd /\ [PNext]_pvars => TInd'
  <2>1. PInd /\ PInd' /\ TInd /\ PNext => TInd'
    BY TablesTypedStep DEF PNext
  <2>2. TInd /\ UNCHANGED pvars => TInd'
    BY DEF pvars, tvars, TInd, PTypeOK, Counters
  <2>3. QED
    BY <2>1, <2>2
<1>2. QED
  BY <1>1, TablesTypedInit, PredictorInvariance, PTL DEF PSafe

\* The tables have their types after every sequence of branches, stalls and
\* flushes (GBP.v, LBP.v, META.v, RAS.v).
THEOREM PredictorTypes == PSafe => []PTypeOK
<1>1. TInd => PTypeOK
  BY DEF TInd
<1>2. QED
  BY <1>1, TablesTyped, PTL

\* When the two bits of a counter change their value, up is the reason.
LEMMA MetaCounts ==
  ASSUME NEW a \in BOOLEAN, NEW b \in BOOLEAN, NEW up \in BOOLEAN,
         META!META_FSM!Value(META!META_FSM!NextA(a, b, up), META!META_FSM!NextB(a, b, up))
           # META!META_FSM!Value(a, b)
  PROVE  META!META_FSM!Value(META!META_FSM!NextA(a, b, up), META!META_FSM!NextB(a, b, up))
           > META!META_FSM!Value(a, b) <=> up
<1> USE DEF META!META_FSM!Value, META!META_FSM!Bit, META!META_FSM!NextA, META!META_FSM!NextB
<1>1. CASE a /\ b
  BY <1>1
<1>2. CASE a /\ ~b
  BY <1>2
<1>3. CASE ~a /\ b
  BY <1>3
<1>4. CASE ~a /\ ~b
  BY <1>4
<1>5. QED
  BY <1>1, <1>2, <1>3, <1>4

LEMMA MetaStep ==
  ASSUME GlobalBits > 0, PInd, TInd, TrainsWhatPredicted, NEW outcome \in Outcomes, PEdge(outcome),
         NEW i \in 0 .. MetaEntries - 1, MetaValue(i)' # MetaValue(i)
  PROVE  /\ i = META!idx(st[0])
         /\ asked[0].gbp # asked[0].lbp
         /\ (MetaValue(i)' > MetaValue(i)) <=> (asked[0].gbp = history[1]')
<1> DEFINE is_taken == outcome # NoPC
           a == meta_A[i]
           b == meta_B[i]
           up == META!up_down(is_taken)
<1>1. META!METAEdge(STALL, past_instr, is_branch, is_taken, gbp_pred, lbp_pred)
      /\ GBP!GBPEdge(STALL, is_branch, is_taken)
  BY DEF PEdge, TablesEdge
<1>2. MetaValue(i) = META!META_FSM!Value(a, b)
      /\ MetaValue(i)' = META!META_FSM!Value(meta_A'[i], meta_B'[i])
  BY DEF MetaValue, META!META_FSM!Value, META!META_FSM!Bit
<1>3. ~STALL
  BY <1>1, <1>2 DEF META!METAEdge
<1>4. META!META_FSM!FSMEdge(is_branch /\ META!update, META!idx(past_instr), up)
  BY <1>1, <1>3 DEF META!METAEdge
<1>5. is_branch /\ META!update
  BY <1>2, <1>4 DEF META!META_FSM!FSMEdge
<1>6. i = META!idx(past_instr)
  BY <1>2, <1>4, <1>5 DEF META!META_FSM!FSMEdge, TInd, Counters
<1>7. past_instr = st[0] /\ gbp_histories[0] = asked[0].gbp /\ lbp_histories[0] = asked[0].lbp
  BY <1>5 DEF TrainsWhatPredicted
<1>8. asked[0].gbp # asked[0].lbp
  BY <1>5, <1>7 DEF META!update
<1>9. meta_A'[i] = META!META_FSM!NextA(a, b, up) /\ meta_B'[i] = META!META_FSM!NextB(a, b, up)
  BY <1>4, <1>5, <1>6 DEF META!META_FSM!FSMEdge, TInd, Counters
<1>10. asked[0].gbp \in BOOLEAN /\ asked[0].lbp \in BOOLEAN /\ is_taken \in BOOLEAN
  BY <1>7, DelayAssumption DEF TInd, PTypeOK
<1>11. up \in BOOLEAN /\ up = (asked[0].gbp = is_taken)
  <2>1. up = IF is_taken THEN asked[0].gbp ELSE asked[0].lbp
    BY <1>7 DEF META!up_down
  <2> HIDE DEF up, is_taken
  <2>2. QED
    BY <1>8, <1>10, <2>1
<1>12. history'[1] = is_taken
  BY <1>1, <1>3, <1>5, TableAssumption DEF GBP!GBPEdge, GBP!Shifted
<1>13. a \in BOOLEAN /\ b \in BOOLEAN
  BY DEF TInd, Counters
<1> HIDE DEF a, b, up, is_taken
<1>14. (MetaValue(i)' > MetaValue(i)) <=> up
  <2>1. MetaValue(i)' = META!META_FSM!Value(META!META_FSM!NextA(a, b, up),
                                            META!META_FSM!NextB(a, b, up))
    BY <1>2, <1>9, Zenon
  <2>2. META!META_FSM!Value(META!META_FSM!NextA(a, b, up), META!META_FSM!NextB(a, b, up))
          # META!META_FSM!Value(a, b)
    BY <1>2, <2>1, Zenon
  <2>3. META!META_FSM!Value(META!META_FSM!NextA(a, b, up), META!META_FSM!NextB(a, b, up))
          > META!META_FSM!Value(a, b) <=> up
    BY <1>11, <1>13, <2>2, MetaCounts
  <2>4. QED
    BY <1>2, <2>1, <2>3, Zenon
<1>15. QED
  BY <1>6, <1>7, <1>8, <1>11, <1>12, <1>14

\* The chooser is rewarded for the right predictor and at the counter of the
\* branch that was decided, for every program and every sequence of stalls
\* (META.v:57-58).
THEOREM MetaRewards ==
  ASSUME GlobalBits > 0
  PROVE  PSafe => MetaRewardsTheRight
<1>1. PInd => TrainsWhatPredicted
  <2> SUFFICES ASSUME PInd, is_branch
               PROVE  /\ past_instr = st[0]
                      /\ gbp_past[0] = asked[0].global
                      /\ lbp_past[0] = asked[0].local
                      /\ gbp_histories[0] = asked[0].gbp
                      /\ lbp_histories[0] = asked[0].lbp
    BY DEF TrainsWhatPredicted
  <2>1. st[0] \in PC /\ st[0] # NoPC
    BY PastInstr, NoAddress
  <2>2. QED
    BY <2>1, PastInstr, DelayAssumption DEF PInd, LinesAligned
<1>2. PInd /\ TInd /\ [PNext]_pvars =>
        [\A i \in 0 .. MetaEntries - 1 :
           MetaValue(i)' # MetaValue(i) =>
             /\ i = META!idx(st[0])
             /\ asked[0].gbp # asked[0].lbp
             /\ (MetaValue(i)' > MetaValue(i)) <=> (asked[0].gbp = history[1]')]_pvars
  BY <1>1, MetaStep DEF PNext
<1>3. QED
  BY <1>2, PredictorInvariance, TablesTyped, PTL DEF PSafe, MetaRewardsTheRight
=============================================================================
