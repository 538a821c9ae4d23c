------------------------------- MODULE Operands -------------------------------
(***************************************************************************)
(* The instructions as the datapath sees them: the registers they name and *)
(* the signals that Decoder.v derives from them.                           *)
(***************************************************************************)
EXTENDS Naturals

CONSTANTS
    Reg, Zero,          \* registers, and $0
    Value,              \* what a register holds
    LinkReg,            \* $31
    Op,                 \* ALU_control: what ALU and MEM are to do
    ALU(_, _, _),       \* ALU(op, a, b): aluResult
    Loaded(_, _, _, _), \* Loaded(op, address, word, old): what a load writes
    Instrs              \* the instructions of the program

\* An instruction that makes no test, or that does not access the memory.
None == << >>

\* immediate is the extended immediate, or the return address of a jump that
\* links: a value that comes with the instruction.
Instruction ==
    [op : Op, rs : Reg, rt : Reg, rd : Reg, immediate : Value,
     Link : BOOLEAN, RegDst : BOOLEAN, Branch : BOOLEAN,
     MemRead : BOOLEAN, MemWrite : BOOLEAN, RegWrite : BOOLEAN]

ASSUME OperandsAssumption ==
    /\ Zero \in Reg /\ LinkReg \in Reg
    /\ 0 \in Value
    /\ Op # {}
    /\ \A op \in Op, a \in Value, b \in Value : ALU(op, a, b) \in Value
    /\ \A op \in Op, a \in Value, w \in Value, o \in Value : Loaded(op, a, w, o) \in Value

\* What Decoder's table and the encoding say of them: only branches link, the
\* unused rt of jalr is zero, and a branch that does not link has no result.
ASSUME InstrsAssumption ==
    /\ Instrs \subseteq Instruction
    /\ \A i \in Instrs :
         /\ i.Link => i.Branch
         /\ i.Link /\ i.RegDst => i.rt = Zero
         /\ i.Branch /\ ~i.Link => ~i.RegWrite /\ ~i.MemRead /\ ~i.MemWrite

\* What ID sends down the pipeline while it freezes.
Bubble ==
    [op |-> CHOOSE op \in Op : TRUE, rs |-> Zero, rt |-> Zero, rd |-> Zero, immediate |-> 0,
     Link |-> FALSE, RegDst |-> FALSE, Branch |-> FALSE,
     MemRead |-> FALSE, MemWrite |-> FALSE, RegWrite |-> FALSE]

\* WriteRegister1
Dest(i) == CASE i.RegDst -> i.rd
             [] ~i.RegDst /\ i.Link -> LinkReg
             [] ~i.RegDst /\ ~i.Link -> i.rt

\* RegWrite1_OUT: ID drops the writes to $0.
Writes(i) == i.RegWrite /\ Dest(i) # Zero

\* These write their register from MEM, not from EXE.
Memory(i) == i.MemRead \/ i.MemWrite
=============================================================================
