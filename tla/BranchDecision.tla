--------------------------- MODULE BranchDecision ---------------------------
(***************************************************************************)
(* What ID decides about a branch or jump from the instruction and its two *)
(* operands: the signals of Decoder, the operand selection of ID, the test *)
(* of compare and the address of NextInstructionCalculator.                *)
(*                                                                         *)
(* Registers have W bits and, as in the other modules, an address counts   *)
(* instructions.  An instruction comes with the values of its registers rs *)
(* and rt, its lower bits as field, and Instr1_PC_Plus4_IN as pc4.  The    *)
(* front end leaves this outcome open.                                     *)
(***************************************************************************)
EXTENDS Integers

CONSTANTS
    W,          \* bits of a register and of an address; 32 in the code
    IW,         \* bits of a branch offset; 16
    JW          \* bits of a jump index; 26

ASSUME WidthAssumption == /\ W \in Nat /\ IW \in 1 .. W /\ JW \in 1 .. W

Words == 0 .. 2^W - 1
Plain == {"beq", "bne", "blez", "bgtz", "bltz", "bgez"}
LinkBranches == {"bltzal", "bgezal"}
Jumps == {"j", "jal", "jr", "jalr"}
Ops == Plain \cup LinkBranches \cup Jumps

\* The bits that Decoder sets for these instructions; Branch is set for all.
Link(op) == op \in LinkBranches \cup {"jal", "jalr"}
Jump(op) == op \in Jumps
JumpRegister(op) == op \in {"jr", "jalr"}

\* OpA1 is 0 and OpB1 the return address for an instruction that links, so
\* that the ALU's sum is the value to write.
OpA(i) == IF Link(i.op) THEN 0 ELSE i.rs
OpB(i) == IF Link(i.op) THEN (i.pc4 + 1) % 2^W ELSE i.rt

Negative(x) == x >= 2^(W-1)     \* x[31]

\* Mutant: BGTZ without its test for zero.
br_taken_NoZero(op, a, b) ==
    CASE op \in {"bltz", "bltzal"} -> Negative(a)
      [] op \in {"bgez", "bgezal", "bgtz"} -> ~Negative(a)
      [] op = "beq"  -> a = b
      [] op = "bne"  -> a # b
      [] op = "blez" -> Negative(a) \/ a = 0
      [] OTHER -> FALSE

br_taken(op, a, b) ==
    CASE op \in {"bltz", "bltzal"} -> Negative(a)
      [] op \in {"bgez", "bgezal"} -> ~Negative(a)
      [] op = "beq"  -> a = b
      [] op = "bne"  -> a # b
      [] op = "blez" -> Negative(a) \/ a = 0
      [] op = "bgtz" -> ~Negative(a) /\ a # 0
      [] OTHER -> FALSE

\* {{14{immediate[15]}},immediate,2'b00}
signExtended(imm) == IF imm >= 2^(IW-1) THEN imm + 2^W - 2^IW ELSE imm

\* The offset and the index are fields of the same instruction word.
NextInstructionAddress(i) ==
    CASE JumpRegister(i.op) -> i.rs
      [] Jump(i.op) /\ ~JumpRegister(i.op) ->
            (i.pc4 \div 2^JW) * 2^JW + (i.field % 2^JW)
      [] ~Jump(i.op) -> (i.pc4 + signExtended(i.field % 2^IW)) % 2^W

Decision(i) ==
    [taken |-> Jump(i.op) \/ br_taken(i.op, OpA(i), OpB(i)),
     address |-> NextInstructionAddress(i),
     link |-> IF Link(i.op) THEN (OpA(i) + OpB(i)) % 2^W ELSE -1]

-----------------------------------------------------------------------------
(* The same instructions as the MIPS I architecture defines them, on signed  *)
(* numbers.                                                                  *)

Signed(x, bits) == IF x >= 2^(bits-1) THEN x - 2^bits ELSE x

Condition(i) ==
    LET s == Signed(i.rs, W) IN
    CASE i.op = "beq" -> i.rs = i.rt
      [] i.op = "bne" -> i.rs # i.rt
      [] i.op = "blez" -> s <= 0
      [] i.op = "bgtz" -> s > 0
      [] i.op \in {"bltz", "bltzal"} -> s < 0
      [] i.op \in {"bgez", "bgezal"} -> s >= 0
      [] i.op \in Jumps -> TRUE

Destination(i) ==
    CASE i.op \in {"jr", "jalr"} -> i.rs
      [] i.op \in {"j", "jal"} ->
            CHOOSE a \in Words : /\ a \div 2^JW = i.pc4 \div 2^JW
                                 /\ a % 2^JW = i.field % 2^JW
      [] i.op \notin Jumps -> (i.pc4 + Signed(i.field % 2^IW, IW)) % 2^W
=============================================================================
