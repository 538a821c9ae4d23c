---------------------------- MODULE Instructions ----------------------------
(***************************************************************************)
(* One instruction with its operands, decided by ID or computed by EXE:    *)
(* the operators of BranchDecision and ALU against the architecture, for   *)
(* every operand of a narrow machine.                                      *)
(***************************************************************************)
EXTENDS BranchDecision, ALU

VARIABLES
    instr,      \* the instruction and its operands
    HILO,       \* the registers HI and LO
    out         \* what the hardware made of it; Undecided before

ivars == <<instr, HILO, out>>

Undecided == << >>
Branches == [op : Ops, rs : Words, rt : Words, field : Words, pc4 : Words]
Calculations ==
         [op : Shifts, a : {0}, b : Numbers, shift : 0 .. N-1]
    \cup [op : ALUOps \ Shifts, a : Numbers, b : Numbers, shift : {0}]

Ready == /\ HILO = [HI |-> 1, LO |-> 2]
         /\ out = Undecided

IInit == Ready /\ instr \in Branches \cup Calculations

Decide == /\ out = Undecided /\ instr.op \in Ops
          /\ out' = Decision(instr)
          /\ UNCHANGED <<instr, HILO>>

Calculate == /\ out = Undecided /\ instr.op \in ALUOps
             /\ out' = Calculation(instr, HILO)
             /\ UNCHANGED <<instr, HILO>>

INext == Decide \/ Calculate
ISpec == IInit /\ [][INext]_ivars

-----------------------------------------------------------------------------
Obeys ==
    /\ out.taken <=> Condition(instr)
    /\ out.taken => out.address = Destination(instr)

\* Every branch and jump, those that test a register and link excepted, has
\* the outcome and the destination of the architecture, across the wrap of the
\* address space and for negative operands and offsets; whatever links writes
\* the address after its delay slot (ID.v:155-202, compare.v,
\* NextInstructionCalculator.v).
DecidesLikeMIPS ==
    out # Undecided /\ instr.op \in Ops =>
        /\ instr.op \notin LinkBranches => Obeys
        /\ Link(instr.op) => out.link = (instr.pc4 + 1) % 2^W

\* BLTZAL and BGEZAL have the outcome and destination of BLTZ and BGEZ
\* (ID.v:265 gives the test the operand 0 that the link needs).
LinkBranchDecision ==
    out # Undecided /\ instr.op \in LinkBranches => Obeys

\* What ALU.v does otherwise than the architecture: SLT of a negative number
\* with bits above those of a positive one, shifts left by a whole register, the
\* upper half of a signed product, and the quotient that does not fit.
Exceptional ==
    \/ /\ instr.op = "slt" /\ Twos(instr.a) < 0 /\ Twos(instr.b) >= 0
       /\ Rest(instr.a) > Rest(instr.b)
    \/ instr.op = "sllv" /\ instr.a >= N
    \/ instr.op = "mult" /\ (Twos(instr.a) < 0 \/ Twos(instr.b) < 0)
    \/ instr.op = "div" /\ Twos(instr.a) = -(2^(N-1)) /\ Twos(instr.b) = -1

\* Every other operation of the ALU gives the result of the architecture, for
\* words read as signed or unsigned numbers: the bit-by-bit arithmetic shifts,
\* comparisons, addresses, products, quotients and remainders; the lower half of
\* a signed product is right for every operand (ALU.v:22-178).
ComputesLikeMIPS ==
    out # Undecided /\ instr.op \in ALUOps =>
        /\ ~Exceptional => ComputesRight(instr, out, HILO)
        /\ instr.op = "mult" => Same(out.LO, Twos(instr.a) * Twos(instr.b))

\* SLT tells whether A < B as signed numbers, as the comment in ALU.v:77 says.
SetOnLess ==
    out # Undecided /\ instr.op = "slt" => ComputesRight(instr, out, HILO)
=============================================================================
