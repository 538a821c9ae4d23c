---------------------------- MODULE BypassProofs ----------------------------
(* Forwarding implements sequential execution with a load delay, for every   *)
(* set of registers, values and instructions and whatever the ALU computes.  *)
EXTENDS Bypass, TLAPS

\* What the proof needs to know of the pipeline registers: the shapes that
\* the forwarding paths read, that no write to $0 is in flight, and that the
\* instruction in ID/EXE holds what the registers hold after those before it.
Shapes ==
    /\ Regs = [r \in Reg |-> Regs[r]]
    /\ idexe.WriteRegister \in Reg /\ idexe.RegWrite \in BOOLEAN
    /\ exemem.WriteRegister \in Reg /\ exemem.RegWrite \in BOOLEAN
    /\ memwb.WriteRegister \in Reg /\ memwb.RegWrite \in BOOLEAN

ZeroUnwritten ==
    /\ Regs[Zero] = 0
    /\ idexe.RegWrite => idexe.WriteRegister # Zero
    /\ exemem.RegWrite => exemem.WriteRegister # Zero
    /\ memwb.RegWrite => memwb.WriteRegister # Zero

\* A system call may change the registers under an instruction that does not
\* use them.
Inert == /\ ~idexe.RegWrite /\ ~idexe.MemRead /\ ~idexe.MemWrite /\ idexe.test = None
         /\ idexe.RegB \in Reg
Issued == \E i \in Instrs \cup {Bubble} : idexe = Issue(i, Current)

BInd == Shapes /\ ZeroUnwritten /\ (Inert \/ Issued)

-----------------------------------------------------------------------------
\* Facts about single instructions.

LEMMA BubbleFacts ==
    /\ Bubble \in Instruction
    /\ Dest(Bubble) = Zero /\ ~Writes(Bubble) /\ ~Memory(Bubble)
    /\ ~Bubble.Link /\ ~Bubble.Branch /\ ~Bubble.RegDst /\ ~Bubble.RegWrite
    /\ ~Bubble.MemRead /\ ~Bubble.MemWrite
<1>1. (CHOOSE op \in Op : TRUE) \in Op
  BY OperandsAssumption
<1> QED
  BY <1>1, OperandsAssumption DEF Bubble, Instruction, Dest, Writes, Memory

LEMMA InstrFacts ==
    ASSUME NEW i \in Instrs \cup {Bubble}
    PROVE  /\ i \in Instruction
           /\ Dest(i) \in Reg
           /\ Writes(i) \in BOOLEAN
           /\ Writes(i) => Dest(i) # Zero
           /\ i.Link => i.Branch
           /\ i.Link /\ i.RegDst => i.rt = Zero
           /\ i.Branch /\ ~i.Link => ~Writes(i) /\ ~Memory(i)
<1>1. i \in Instruction
  BY BubbleFacts, InstrsAssumption
<1>2. Dest(i) \in Reg
  BY <1>1, OperandsAssumption DEF Instruction, Dest
<1> QED
  BY <1>1, <1>2, BubbleFacts, InstrsAssumption DEF Instruction, Writes, Memory

LEMMA IssueFacts ==
    ASSUME NEW i \in Instrs \cup {Bubble}, NEW read
    PROVE  /\ Issue(i, read).WriteRegister \in Reg
           /\ Issue(i, read).RegWrite \in BOOLEAN
           /\ Issue(i, read).RegWrite => Issue(i, read).WriteRegister # Zero
           /\ Issue(i, read).RegA \in Reg
           /\ Issue(i, read).RegB \in Reg
  BY InstrFacts, OperandsAssumption DEF Issue, Instruction

-----------------------------------------------------------------------------
\* The registers that the instruction in EXE should see already contain what
\* the two paths into EXE carry: forwarding once more changes nothing.
LEMMA ForwardingIsIdempotent ==
    ASSUME Shapes, NEW r \in Reg
    PROVE  RegValue2(r, Current[r], WriteOfEXE, WriteOfMEM) = Current[r]
  BY DEF Current, WrittenBack, RegValue2, RegValue1, WriteOfEXE, WriteOfMEM, Write

\* No path carries a write to $0.
LEMMA ZeroNotForwarded ==
    ASSUME ZeroUnwritten, NEW d
    PROVE  /\ RegValue2(Zero, d, WriteOfEXE, WriteOfMEM) = d
           /\ RegValue3(Zero, d, BypassEXEID, BypassMEMID, WriteOfMEM) = d
           /\ Zero \in Reg => Current[Zero] = 0
  BY DEF ZeroUnwritten, Current, WrittenBack, RegValue3, RegValue2, RegValue1,
         WriteOfEXE, WriteOfMEM, BypassEXEID, BypassMEMID, Write

\* What ID reads before an edge is what the instructions up to the one that
\* enters EXE/MEM with that edge leave in the registers.
LEMMA ReadIsCurrent ==
    ASSUME Shapes, NEW word, EXEEdge(word), MEMEdge, WriteBack
    PROVE  Current' = [r \in Reg |-> ReadInID(r)]
<1>1. ASSUME NEW r \in Reg
      PROVE  RegValue1(r, Regs[r], WriteOfMEM) = Regs'[r]
  BY DEF Shapes, WriteBack, RegValue1, WriteOfMEM, Write
<1>2. /\ WriteOfMEM' = BypassMEMID
      /\ WriteOfEXE' = BypassEXEID
  BY DEF EXEEdge, MEMEdge, WriteOfMEM, WriteOfEXE, BypassMEMID, BypassEXEID, Write
<1>3. ASSUME NEW r \in Reg
      PROVE  Current'[r] = RegValue1(r, RegValue1(r, Regs'[r], BypassMEMID), BypassEXEID)
  BY <1>2 DEF Current, WrittenBack, RegValue1
<1>4. ASSUME NEW r \in Reg
      PROVE  Current'[r] = ReadInID(r)
  BY <1>1, <1>3 DEF ReadInID, RegValue3, RegValue2
<1> QED
  BY <1>4 DEF Current

-----------------------------------------------------------------------------
\* The invariant holds throughout.
LEMMA IndInit == BInit => BInd
<1> SUFFICES ASSUME BInit PROVE BInd
  OBVIOUS
<1>1. idexe = Issue(Bubble, [r \in Reg |-> 0])
  BY DEF BInit
<1>2. /\ idexe.WriteRegister = Zero /\ ~idexe.RegWrite /\ idexe.RegWrite \in BOOLEAN
      /\ ~idexe.MemRead /\ ~idexe.MemWrite /\ idexe.test = None
      /\ idexe.RegB = Zero
  BY <1>1, BubbleFacts DEF Issue, Writes
<1>3. Shapes /\ ZeroUnwritten
  BY <1>2, OperandsAssumption DEF BInit, Shapes, ZeroUnwritten
<1> QED
  BY <1>2, <1>3, OperandsAssumption DEF BInd, Inert

LEMMA EdgeInd ==
    ASSUME BInd, NEW i \in Instrs \cup {Bubble}, NEW word \in Value,
           IDEdge(i), EXEEdge(word), MEMEdge, WriteBack
    PROVE  BInd'
<1>1. idexe' = Issue(i, Current')
  BY ReadIsCurrent DEF IDEdge, BInd
<1>2. Regs' = [r \in Reg |-> Regs'[r]]
  BY DEF BInd, Shapes, WriteBack
<1>3. Shapes'
  BY <1>1, <1>2, IssueFacts DEF BInd, Shapes, EXEEdge, MEMEdge
<1>4. Regs'[Zero] = 0
  BY OperandsAssumption DEF BInd, ZeroUnwritten, Shapes, WriteBack
<1>5. ZeroUnwritten'
  BY <1>1, <1>4, IssueFacts DEF BInd, ZeroUnwritten, EXEEdge, MEMEdge
<1> QED
  BY <1>1, <1>3, <1>5 DEF BInd, Issued

LEMMA CallInd == BInd /\ SystemCall => BInd'
<1> SUFFICES ASSUME BInd, SystemCall PROVE BInd'
  OBVIOUS
<1>1. PICK r \in Reg \ {Zero}, v \in Value : Regs' = [Regs EXCEPT ![r] = v]
  BY DEF SystemCall
<1>2. UNCHANGED <<idexe, exemem, memwb>> /\ Drained
  BY DEF SystemCall
<1>3. Shapes' /\ ZeroUnwritten'
  BY <1>1, <1>2, OperandsAssumption DEF BInd, Shapes, ZeroUnwritten
<1>4. idexe.RegB \in Reg
  BY IssueFacts DEF BInd, Inert, Issued
<1>5. Inert'
  BY <1>2, <1>4 DEF Drained, Inert
<1> QED
  BY <1>3, <1>5 DEF BInd

LEMMA IndNext == BInd /\ [BNext]_bvars => BInd'
<1> SUFFICES ASSUME BInd, [BNext]_bvars PROVE BInd'
  OBVIOUS
<1>1. CASE BEdge
  BY <1>1, EdgeInd DEF BEdge
<1>2. CASE SystemCall
  BY <1>2, CallInd
<1>3. CASE UNCHANGED bvars
  <2>1. Current' = Current
    BY <1>3 DEF bvars, Current, WrittenBack, WriteOfEXE, WriteOfMEM
  <2> QED
    BY <1>3, <2>1 DEF BInd, Shapes, ZeroUnwritten, Inert, Issued, bvars
<1> QED
  BY <1>1, <1>2, <1>3 DEF BNext

\* The invariant of the pipeline registers, for every size (ID.v:388-403,
\* EXE.v:190-203, MEM.v:311-316).
THEOREM BypassInvariance == BSpec => []BInd
  BY IndInit, IndNext, PTL DEF BSpec

-----------------------------------------------------------------------------
\* $0 is never written nor forwarded.
THEOREM ZeroIsZero == BSpec => []ZeroStaysZero
<1>1. BInd => ZeroStaysZero
  <2> SUFFICES ASSUME BInd PROVE ZeroStaysZero
    OBVIOUS
  <2>1. Regs[Zero] = 0
    BY DEF BInd, ZeroUnwritten
  <2>2. ReadInID(Zero) = 0
    BY <2>1, ZeroNotForwarded DEF BInd, ReadInID
  <2>3. idexe.RegB = Zero => B1 = idexe.OperandB
    BY ZeroNotForwarded DEF BInd, B1
  <2> QED
    BY <2>1, <2>2, <2>3 DEF ZeroStaysZero
<1> QED
  BY <1>1, BypassInvariance, PTL

-----------------------------------------------------------------------------
\* The abstract machine has the definitions of Operands under names of its own.
LEMMA SameOperands ==
    /\ Seen!None = None
    /\ Seen!Bubble = Bubble
    /\ \A i : Seen!Dest(i) = Dest(i) /\ Seen!Writes(i) = Writes(i) /\ Seen!Memory(i) = Memory(i)
  BY DEF Seen!None, None, Seen!Bubble, Bubble, Seen!Dest, Dest, Seen!Writes, Writes,
         Seen!Memory, Memory

\* One edge is one step of the machine with a load delay: the instruction in
\* ID/EXE executes.
LEMMA EdgeExecutes ==
    ASSUME BInd, NEW i \in Instrs \cup {Bubble}, NEW word \in Value,
           IDEdge(i), EXEEdge(word), MEMEdge, WriteBack
    PROVE  \E j \in Instrs \cup {Bubble} : Seen!Execute(j, word)
<1>1. Current' = [r \in Reg |-> ReadInID(r)]
  BY ReadIsCurrent DEF BInd
<1>2. ASSUME NEW r \in Reg, ~idexe.RegWrite \/ idexe.MemRead \/ idexe.MemWrite \/ r # idexe.WriteRegister
      PROVE  ReadInID(r) = Seen!Settled[r]
  BY <1>2 DEF ReadInID, RegValue3, RegValue2, RegValue1, Write, BypassEXEID, BypassMEMID,
         WriteOfMEM, WriteOfEXE, Seen!Settled, Current, WrittenBack, Pending, WriteData,
         BInd, ZeroUnwritten, Shapes
<1>3. ASSUME NEW r \in Reg, idexe.RegWrite, ~idexe.MemRead, ~idexe.MemWrite, r = idexe.WriteRegister
      PROVE  ReadInID(r) = ALU_result
  BY <1>3 DEF ReadInID, RegValue3, RegValue1, Write, BypassEXEID
<1>4. CASE Inert
  <2>1. Current' = Seen!Settled
    BY <1>1, <1>2, <1>4 DEF Inert, Seen!Settled
  <2>2. Pending' = [reg |-> Zero, value |-> 0]
    BY <1>4 DEF Inert, EXEEdge, Pending
  <2>3. Shown' = [test |-> None, access |-> None]
    BY <1>4 DEF Inert, EXEEdge, Shown
  <2>4. Seen!Execute(Bubble, word)
    BY <2>1, <2>2, <2>3, BubbleFacts, SameOperands DEF Seen!Execute, Seen!NoWrite, Seen!Settled
  <2> QED
    BY <2>4
<1>5. CASE Issued
  <2>1. PICK j \in Instrs \cup {Bubble} : idexe = Issue(j, Current)
    BY <1>5 DEF Issued
  <2>2. /\ idexe.op = j.op /\ idexe.MemRead = j.MemRead /\ idexe.MemWrite = j.MemWrite
        /\ idexe.RegWrite = Writes(j) /\ idexe.WriteRegister = Dest(j)
        /\ idexe.MemWriteData = Current[Dest(j)]
        /\ idexe.test = IF j.Branch THEN <<Current[j.rs], Current[j.rt]>> ELSE None
    BY <2>1 DEF Issue
  <2>3. j \in Instruction /\ Dest(j) \in Reg
    BY InstrFacts
  <2>4. A1 = IF j.Link THEN 0 ELSE Current[j.rs]
    <3>1. /\ idexe.RegA = IF j.Link THEN Zero ELSE j.rs
          /\ idexe.OperandA = IF j.Link THEN 0 ELSE Current[j.rs]
      BY <2>1 DEF Issue
    <3>2. CASE j.Link
      BY <3>1, <3>2, ZeroNotForwarded DEF A1, BInd
    <3>3. CASE ~j.Link
      BY <3>1, <3>3, <2>3, ForwardingIsIdempotent DEF A1, BInd, Instruction
    <3> QED
      BY <3>2, <3>3
  <2>5. Writes(j) \/ Memory(j) =>
          B1 = IF j.RegDst /\ ~j.Link THEN Current[j.rt] ELSE j.immediate
    <3>1. /\ idexe.RegB = IF j.RegDst THEN j.rt ELSE Zero
          /\ idexe.OperandB = IF ~j.Link /\ (j.Branch \/ j.RegDst)
                              THEN Current[j.rt] ELSE j.immediate
      BY <2>1 DEF Issue
    <3>2. CASE j.RegDst /\ ~j.Link
      BY <3>1, <3>2, <2>3, ForwardingIsIdempotent DEF B1, BInd, Instruction
    <3>3. CASE ~(j.RegDst /\ ~j.Link)
      <4>1. idexe.RegB = Zero
        BY <3>1, <3>3, InstrFacts
      <4>2. B1 = idexe.OperandB
        BY <4>1, ZeroNotForwarded DEF B1, BInd
      <4> QED
        BY <3>1, <3>3, <4>2, InstrFacts
    <3> QED
      BY <3>2, <3>3
  <2>6. Writes(j) \/ Memory(j) => ALU_result = Seen!Result(j)
    BY <2>2, <2>4, <2>5 DEF ALU_result, Seen!Result
  <2>7. MemoryData' = Seen!Settled[Dest(j)]
    <3>1. StoreData = Current[Dest(j)]
      BY <2>2, <2>3, ForwardingIsIdempotent DEF StoreData, BInd
    <3>2. MemoryData' = IF exemem.RegWrite /\ Dest(j) = exemem.WriteRegister
                        THEN WriteData ELSE Current[Dest(j)]
      BY <2>2, <3>1 DEF MemoryData, RegValue1, WriteOfMEM, Write, EXEEdge, MEMEdge
    <3> QED
      BY <3>2, <2>3 DEF Seen!Settled, Pending, Current, RegValue1, WriteOfEXE, Write,
             WriteData, BInd, ZeroUnwritten, Shapes
  <2>8. WriteData' = IF j.MemRead THEN Loaded(j.op, ALU_result, word, Seen!Settled[Dest(j)])
                     ELSE ALU_result
    BY <2>2, <2>7 DEF WriteData, EXEEdge
  <2>9. Shown' = [test |-> IF j.Branch THEN <<Current[j.rs], Current[j.rt]>> ELSE None,
                  access |-> IF Memory(j) THEN <<Seen!Result(j), Seen!Settled[Dest(j)]>>
                             ELSE None]
    BY <2>2, <2>6, <2>7 DEF Shown, EXEEdge, Memory
  <2>10. Current' = [r \in Reg |-> IF Writes(j) /\ ~Memory(j) /\ r = Dest(j)
                                   THEN Seen!Result(j) ELSE Seen!Settled[r]]
    BY <1>1, <1>2, <1>3, <2>2, <2>6 DEF Memory
  <2>11. Pending' = IF Writes(j) /\ Memory(j)
                    THEN [reg |-> Dest(j),
                          value |-> IF j.MemRead
                                    THEN Loaded(j.op, Seen!Result(j), word, Seen!Settled[Dest(j)])
                                    ELSE Seen!Result(j)]
                    ELSE [reg |-> Zero, value |-> 0]
    BY <2>2, <2>6, <2>8 DEF Pending, EXEEdge, Memory
  <2>12. Seen!Execute(j, word)
    <3> DEFINE value == IF j.MemRead
                        THEN Loaded(j.op, Seen!Result(j), word, Seen!Settled[Dest(j)])
                        ELSE Seen!Result(j)
    <3>1. ~Memory(j) => value = Seen!Result(j)
      BY DEF Memory
    <3>2. Current' = [r \in Reg |-> IF Writes(j) /\ ~Memory(j) /\ r = Dest(j)
                                    THEN value ELSE Seen!Settled[r]]
      BY <2>10, <3>1
    <3>3. Pending' = IF Writes(j) /\ Memory(j) THEN [reg |-> Dest(j), value |-> value]
                     ELSE Seen!NoWrite
      BY <2>11 DEF Seen!NoWrite
    <3> QED
      BY <2>9, <3>2, <3>3, SameOperands, Zenon DEF Seen!Execute
  <2> QED
    BY <2>12
<1> QED
  BY <1>4, <1>5 DEF BInd

LEMMA CallMaps ==
    ASSUME BInd, SystemCall
    PROVE  \E r \in Reg \ {Zero}, v \in Value : Seen!CallReturns(r, v)
<1>1. PICK r \in Reg \ {Zero}, v \in Value : Regs' = [Regs EXCEPT ![r] = v]
  BY DEF SystemCall
<1>2. UNCHANGED <<idexe, exemem, memwb, data_read_fDM>> /\ Drained
  BY DEF SystemCall
<1>3. Current = Regs /\ Current' = Regs'
  BY <1>1, <1>2 DEF Drained, Current, WrittenBack, RegValue1, WriteOfEXE, WriteOfMEM, Write,
         BInd, Shapes
<1>4. Pending = Seen!NoWrite /\ Pending' = Pending
  BY <1>2 DEF Drained, Pending, Seen!NoWrite
<1>5. Shown' = Shown
  BY <1>2 DEF Shown, MemoryData, RegValue1, WriteOfMEM, Write
<1> QED
  BY <1>1, <1>3, <1>4, <1>5 DEF Seen!CallReturns

\* Forwarding implements sequential execution with a load delay (ID.v:206-270,
\* EXE.v:99-168, MEM.v:280-290, MIPS.v:450-518).
THEOREM BypassImplements == BSpec => ForwardsFaithfully
<1>1. BInit => Seen!LInit
  <2> SUFFICES ASSUME BInit PROVE Seen!LInit
    OBVIOUS
  <2>1. Current = [r \in Reg |-> 0]
    BY DEF BInit, Current, WrittenBack, RegValue1, WriteOfEXE, WriteOfMEM, Write
  <2>2. Pending = Seen!NoWrite
    BY DEF BInit, Pending, Seen!NoWrite
  <2>3. Shown = [test |-> None, access |-> None]
    BY DEF BInit, Shown
  <2> QED
    BY <2>1, <2>2, <2>3, SameOperands DEF Seen!LInit
<1>2. BInd /\ [BNext]_bvars => [Seen!LNext]_(Seen!lvars)
  <2> SUFFICES ASSUME BInd, [BNext]_bvars PROVE [Seen!LNext]_(Seen!lvars)
    OBVIOUS
  <2>1. CASE BEdge
    BY <2>1, EdgeExecutes, SameOperands DEF BEdge, Seen!LNext
  <2>2. CASE SystemCall
    BY <2>2, CallMaps DEF Seen!LNext
  <2>3. CASE UNCHANGED bvars
    BY <2>3 DEF bvars, Seen!lvars, Current, WrittenBack, WriteOfEXE, WriteOfMEM, Pending,
           WriteData, MemoryData, Shown
  <2> QED
    BY <2>1, <2>2, <2>3 DEF BNext
<1> QED
  BY <1>1, <1>2, BypassInvariance, PTL DEF BSpec, ForwardsFaithfully, Seen!LSpec
=============================================================================
