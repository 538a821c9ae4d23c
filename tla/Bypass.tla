------------------------------- MODULE Bypass -------------------------------
(***************************************************************************)
(* The registers of the pipeline behind ID and the paths that forward      *)
(* results to the instructions that follow: ID.v, EXE.v, MEM.v, RegFile.v, *)
(* the selectors RegValue1-3 and their wiring in MIPS.v.                   *)
(*                                                                         *)
(* The instructions are those that ID takes over, in the order of the      *)
(* program, which FrontEnd establishes; ID sends bubbles in between while  *)
(* it freezes.                                                             *)
(***************************************************************************)
EXTENDS Operands

VARIABLES
    idexe,      \* registers between ID and EXE
    exemem,     \* registers between EXE and MEM
    memwb,      \* registers between MEM and the write-back
    Regs,       \* RegFile.Reg
    data_read_fDM   \* the word that the memory shows to the load in MEM

bvars == <<idexe, exemem, memwb, Regs, data_read_fDM>>

\* RegValue1: the data of the register file or of another stage, and the write
\* of a stage that may be fresher.
Write(reg, data, valid) == [reg |-> reg, data |-> data, valid |-> valid]
RegValue1(reg, data, first) ==
    IF first.valid /\ reg = first.reg THEN first.data ELSE data

\* Mutant: the second has priority over the first.
RegValue2_Swapped(reg, data, first, second) ==
    RegValue1(reg, RegValue1(reg, data, first), second)
RegValue2(reg, data, first, second) ==
    RegValue1(reg, RegValue1(reg, data, second), first)
RegValue3(reg, data, first, second, third) ==
    RegValue1(reg, RegValue2(reg, data, second, third), first)

\* The write on its way in EXE/MEM, as EXE sees it: not that of a load or SC.
\* Mutant: the address of a load is taken for its result.
WriteOfEXE_Loads == Write(exemem.WriteRegister, exemem.ALU_result, exemem.RegWrite)
WriteOfEXE == Write(exemem.WriteRegister, exemem.ALU_result,
                    exemem.RegWrite /\ ~exemem.MemRead /\ ~exemem.MemWrite)
WriteOfMEM == Write(memwb.WriteRegister, memwb.WriteData, memwb.RegWrite)

-----------------------------------------------------------------------------
(* EXE, on the instruction in ID/EXE.                                      *)

A1 == RegValue2(idexe.RegA, idexe.OperandA, WriteOfEXE, WriteOfMEM)
B1 == RegValue2(idexe.RegB, idexe.OperandB, WriteOfEXE, WriteOfMEM)
ALU_result == ALU(idexe.op, A1, B1)
StoreData == RegValue2(idexe.WriteRegister, idexe.MemWriteData, WriteOfEXE, WriteOfMEM)

EXEEdge(word) ==
    /\ exemem' = [op |-> idexe.op, MemRead |-> idexe.MemRead, MemWrite |-> idexe.MemWrite,
                  RegWrite |-> idexe.RegWrite, WriteRegister |-> idexe.WriteRegister,
                  ALU_result |-> ALU_result, MemWriteData |-> StoreData,
                  test |-> idexe.test]
    /\ data_read_fDM' = word

(* MEM, on the instruction in EXE/MEM.                                     *)

\* Mutant: a store right behind a load writes what the register held before.
MemoryData_Unforwarded == exemem.MemWriteData
MemoryData == RegValue1(exemem.WriteRegister, exemem.MemWriteData, WriteOfMEM)

WriteData == IF exemem.MemRead
             THEN Loaded(exemem.op, exemem.ALU_result, data_read_fDM, MemoryData)
             ELSE exemem.ALU_result

MEMEdge == memwb' = [RegWrite |-> exemem.RegWrite, WriteRegister |-> exemem.WriteRegister,
                     WriteData |-> WriteData]

WriteBack == Regs' = IF memwb.RegWrite
                     THEN [Regs EXCEPT ![memwb.WriteRegister] = memwb.WriteData]
                     ELSE Regs

-----------------------------------------------------------------------------
(* ID.                                                                      *)

\* BypassXXX_EXEID and BypassXXX_MEMID: results of this very cycle.
BypassEXEID == Write(idexe.WriteRegister, ALU_result,
                     idexe.RegWrite /\ ~idexe.MemRead /\ ~idexe.MemWrite)
BypassMEMID == Write(exemem.WriteRegister, WriteData, exemem.RegWrite)

ReadInID(reg) == RegValue3(reg, Regs[reg], BypassEXEID, BypassMEMID, WriteOfMEM)

\* What ID makes of instruction i from the registers it reads.  The test of a
\* branch is made here, and its outcome travels on with the instruction
\* (Request_Alt_PC); the model keeps the values that were tested.
\* Mutant: a write to $0 goes down the pipeline.
Issue_WritesZero(i, read) ==
    [op |-> i.op, MemRead |-> i.MemRead, MemWrite |-> i.MemWrite,
     RegWrite |-> i.RegWrite, WriteRegister |-> Dest(i),
     RegA |-> IF i.Link THEN Zero ELSE i.rs,
     OperandA |-> IF i.Link THEN 0 ELSE read[i.rs],
     RegB |-> IF i.RegDst THEN i.rt ELSE Zero,
     OperandB |-> IF ~i.Link /\ (i.Branch \/ i.RegDst) THEN read[i.rt] ELSE i.immediate,
     MemWriteData |-> read[Dest(i)],
     test |-> IF i.Branch THEN <<read[i.rs], read[i.rt]>> ELSE None]

Issue(i, read) ==
    [op |-> i.op, MemRead |-> i.MemRead, MemWrite |-> i.MemWrite,
     RegWrite |-> Writes(i), WriteRegister |-> Dest(i),
     RegA |-> IF i.Link THEN Zero ELSE i.rs,
     OperandA |-> IF i.Link THEN 0 ELSE read[i.rs],
     RegB |-> IF i.RegDst THEN i.rt ELSE Zero,
     OperandB |-> IF ~i.Link /\ (i.Branch \/ i.RegDst) THEN read[i.rt] ELSE i.immediate,
     MemWriteData |-> read[Dest(i)],
     test |-> IF i.Branch THEN <<read[i.rs], read[i.rt]>> ELSE None]

IDEdge(i) == idexe' = Issue(i, [r \in Reg |-> ReadInID(r)])

-----------------------------------------------------------------------------
BInit ==
    /\ idexe = Issue(Bubble, [r \in Reg |-> 0])
    /\ exemem = [op |-> Bubble.op, MemRead |-> FALSE, MemWrite |-> FALSE,
                 RegWrite |-> FALSE, WriteRegister |-> Zero,
                 ALU_result |-> 0, MemWriteData |-> 0, test |-> None]
    /\ memwb = [RegWrite |-> FALSE, WriteRegister |-> Zero, WriteData |-> 0]
    /\ Regs = [r \in Reg |-> 0]
    /\ data_read_fDM = 0

\* One edge of the clock.
BEdge ==
    \E i \in Instrs \cup {Bubble}, word \in Value :
        IDEdge(i) /\ EXEEdge(word) /\ MEMEdge /\ WriteBack

\* Nothing is in flight: what FrontEnd's SyscallDrained says of the moment in
\* which SYS is raised.
Drained == /\ ~idexe.RegWrite /\ ~idexe.MemRead /\ ~idexe.MemWrite /\ idexe.test = None
           /\ ~exemem.RegWrite /\ ~memwb.RegWrite

\* sim_main sees SYS and stores the results of the call in RegFile.
SystemCall ==
    /\ Drained
    /\ \E r \in Reg \ {Zero}, v \in Value : Regs' = [Regs EXCEPT ![r] = v]
    /\ UNCHANGED <<idexe, exemem, memwb, data_read_fDM>>

BNext == BEdge \/ SystemCall

BSpec == BInit /\ [][BNext]_bvars

-----------------------------------------------------------------------------
(* The registers as the instruction in ID/EXE should see them.              *)

WrittenBack == [r \in Reg |-> RegValue1(r, Regs[r], WriteOfMEM)]

Current == [r \in Reg |-> RegValue1(r, WrittenBack[r], WriteOfEXE)]

Pending == IF exemem.RegWrite /\ (exemem.MemRead \/ exemem.MemWrite)
           THEN [reg |-> exemem.WriteRegister, value |-> WriteData]
           ELSE [reg |-> Zero, value |-> 0]

Shown == [test |-> exemem.test,
          access |-> IF exemem.MemRead \/ exemem.MemWrite
                     THEN <<exemem.ALU_result, MemoryData>> ELSE None]

Seen == INSTANCE LoadDelay WITH
          regs <- Current,
          pending <- Pending,
          out <- Shown

\* Forwarding is invisible: every result, every operand of a test and every
\* access to the memory is that of sequential execution with one load delay,
\* however results overtake each other, at whatever bubbles ID inserts
\* (ID.v:206-270, EXE.v:99-168, MEM.v:280-290, MIPS.v:450-518).
ForwardsFaithfully == Seen!LSpec

\* $0 reads as 0 and is never forwarded, so that the register number 0 that
\* stands for an immediate or a return address cannot pick up a result
\* (ID.v:266-271, 397).
ZeroStaysZero ==
    /\ Regs[Zero] = 0
    /\ ReadInID(Zero) = 0
    /\ idexe.RegB = Zero /\ idexe.test = None => B1 = idexe.OperandB
=============================================================================
