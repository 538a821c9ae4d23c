-------------------------------- MODULE ALU --------------------------------
(***************************************************************************)
(* The arithmetic, shifts, comparisons, products and quotients of ALU, on  *)
(* words of N = 2^S bits (S = 5 in the code).  The bitwise operations and  *)
(* the moves between registers are left out.                               *)
(***************************************************************************)
EXTENDS Integers

CONSTANT S          \* bits of a shift amount

ASSUME ShiftAssumption == S \in Nat \ {0}

N == 2^S
Numbers == 0 .. 2^N - 1
HalfN == 2^(N \div 2)                       \* a halfword is N/2 bits
Shifts == {"sll", "srl", "sra"}
ShiftsByRegister == {"sllv", "srlv", "srav"}
Products == {"mult", "multu", "div", "divu"}
Single == {"add", "sub", "lui", "slt", "sltu", "address"}
ALUOps == Shifts \cup ShiftsByRegister \cup Products \cup Single

SignBit(x) == x \div 2^(N-1)                \* x[31]
Rest(x) == x % 2^(N-1)                      \* x[30:0]
BitOf(x, k) == (x \div 2^k) % 2

\* {{16{B[15]}},B[15:0]}
Extended(b) ==
    LET h == b % HalfN IN IF 2 * h >= HalfN THEN h + 2^N - HalfN ELSE h

\* The word with these bits.
FromBits(bits) == CHOOSE x \in Numbers : \A k \in 0 .. N-1 : BitOf(x, k) = bits[k]

\* Mutant: the sign is copied one place short.
sra_Short(b, s) ==
    FromBits([k \in 0 .. N-1 |->
        IF k > N - s THEN SignBit(b) ELSE BitOf(b \div 2^s, k)])

\* temp[31:0]: B >> s, whose bits above N-2-s are overwritten one by one with
\* the sign.
sra(b, s) ==
    FromBits([k \in 0 .. N-1 |->
        IF k >= N - 1 - s THEN SignBit(b) ELSE BitOf(b \div 2^s, k)])

slt(a, b) ==
    IF SignBit(a) < SignBit(b) \/ Rest(a) > Rest(b) \/ a = b THEN 0 ELSE 1

\* B << A takes all of A, the other shifts A[4:0].
aluResult(op, a, b, shiftAmount) ==
    CASE op = "add" -> (a + b) % 2^N
      [] op = "sub" -> (a - b) % 2^N
      [] op = "address" -> (a + Extended(b)) % 2^N
      [] op = "lui" -> (b % HalfN) * HalfN
      [] op = "sll" -> (b * 2^shiftAmount) % 2^N
      [] op = "sllv" -> (b * 2^a) % 2^N
      [] op = "srl" -> b \div 2^shiftAmount
      [] op = "srlv" -> b \div 2^(a % N)
      [] op = "sra" -> sra(b, shiftAmount)
      [] op = "srav" -> sra(b, a % N)
      [] op = "slt" -> slt(a, b)
      [] op = "sltu" -> IF a >= b THEN 0 ELSE 1

Twos(x) == x - SignBit(x) * 2^N             \* $signed(x)
Abs(x) == IF x < 0 THEN -x ELSE x

\* Verilog's / rounds towards 0 and % has the sign of the dividend.
Quotient(x, y) == IF (x < 0) = (y < 0) THEN Abs(x) \div Abs(y) ELSE -(Abs(x) \div Abs(y))
Remainder(x, y) == x - y * Quotient(x, y)

\* One multiplication, of the unsigned words, for MULT and MULTU; a division
\* by 0 leaves HI and LO.
HI_LO(op, a, b, old) ==
    CASE op \in {"mult", "multu"} -> [HI |-> (a * b) \div 2^N, LO |-> (a * b) % 2^N]
      [] op \in {"div", "divu"} /\ b = 0 -> old
      [] op = "div" /\ b # 0 -> [HI |-> Remainder(Twos(a), Twos(b)) % 2^N,
                                 LO |-> Quotient(Twos(a), Twos(b)) % 2^N]
      [] op = "divu" /\ b # 0 -> [HI |-> a % b, LO |-> a \div b]

Calculation(i, old) ==
    IF i.op \in Products THEN HI_LO(i.op, i.a, i.b, old)
    ELSE [result |-> aluResult(i.op, i.a, i.b, i.shift)]

-----------------------------------------------------------------------------
(* What MIPS I says of the same operations, on the numbers the words stand   *)
(* for.                                                                      *)

Same(x, y) == (x - y) % 2^N = 0
Less(x, y) == IF x < y THEN 1 ELSE 0

\* q and r divide x by y: r is smaller than y and has the sign of x.
Divides(x, y, q, r) ==
    /\ x = q * y + r
    /\ Abs(r) < Abs(y)
    /\ x >= 0 => r >= 0
    /\ x <= 0 => r <= 0

\* x / 2^s rounded down, for a logical or an arithmetic shift.
ShiftedDown(x, s, y) == 2^s * y <= x /\ x < 2^s * (y + 1)

ComputesRight(i, out, old) ==
    CASE i.op = "add" -> Same(Twos(out.result), Twos(i.a) + Twos(i.b))
      [] i.op = "sub" -> Same(Twos(out.result), Twos(i.a) - Twos(i.b))
      [] i.op = "address" ->
            \E d \in -(HalfN \div 2) .. HalfN \div 2 - 1 :
                (d - i.b) % HalfN = 0 /\ Same(out.result, i.a + d)
      [] i.op = "lui" -> out.result = (i.b * HalfN) % 2^N
      [] i.op = "sll" -> Same(out.result, i.b * 2^i.shift)
      [] i.op = "sllv" -> Same(out.result, i.b * 2^(i.a % N))
      [] i.op = "srl" -> ShiftedDown(i.b, i.shift, out.result)
      [] i.op = "srlv" -> ShiftedDown(i.b, i.a % N, out.result)
      [] i.op = "sra" -> ShiftedDown(Twos(i.b), i.shift, Twos(out.result))
      [] i.op = "srav" -> ShiftedDown(Twos(i.b), i.a % N, Twos(out.result))
      [] i.op = "slt" -> out.result = Less(Twos(i.a), Twos(i.b))
      [] i.op = "sltu" -> out.result = Less(i.a, i.b)
      [] i.op = "multu" -> i.a * i.b = 2^N * out.HI + out.LO
      [] i.op = "mult" -> Twos(i.a) * Twos(i.b) = 2^N * Twos(out.HI) + out.LO
      [] i.op = "divu" -> IF i.b = 0 THEN out = old ELSE Divides(i.a, i.b, out.LO, out.HI)
      [] i.op = "div" -> IF i.b = 0 THEN out = old
                         ELSE Divides(Twos(i.a), Twos(i.b), Twos(out.LO), Twos(out.HI))
=============================================================================
