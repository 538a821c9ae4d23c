------------------------- MODULE InstructionsProofs -------------------------
(* Branch decisions and the arithmetic of the ALU, for words of any width.   *)
EXTENDS Instructions, FiniteSetTheorems, NaturalsInduction, TLAPS

-----------------------------------------------------------------------------
(* Powers of two: 2^n counts the subsets of 1 .. n. *)

LEMMA PowerIsNumber ==
  ASSUME NEW n \in Nat
  PROVE  2^n = Cardinality(SUBSET (1 .. n)) /\ IsFiniteSet(SUBSET (1 .. n)) /\ 2^n \in Nat
<1>1. IsFiniteSet(1 .. n) /\ Cardinality(1 .. n) = n
  BY FS_Interval
<1>2. QED
  BY <1>1, FS_SUBSET, FS_CardinalityType

\* A subset of 1 .. n + 1 is one of 1 .. n, or one with n + 1 added.
LEMMA PowerStep ==
  ASSUME NEW n \in Nat
  PROVE  2^(n + 1) = 2 * 2^n
<1> DEFINE A == SUBSET (1 .. n)
           B == {t \cup {n + 1} : t \in A}
           f == [t \in A |-> t \cup {n + 1}]
<1>1. IsFiniteSet(A) /\ Cardinality(A) = 2^n /\ 2^n \in Nat
  BY PowerIsNumber
<1>2. n + 1 \in Nat /\ n + 1 \notin 1 .. n /\ 1 .. n + 1 = (1 .. n) \cup {n + 1}
  OBVIOUS
<1>3. f \in Bijection(A, B)
  <2>1. f \in [A -> B]
    OBVIOUS
  <2>2. \A t, u \in A : f[t] = f[u] => t = u
    <3>1. SUFFICES ASSUME NEW t \in A, NEW u \in A, t \cup {n + 1} = u \cup {n + 1}
                   PROVE  t = u
      OBVIOUS
    <3>2. n + 1 \notin t /\ n + 1 \notin u
      BY <1>2
    <3>3. QED
      BY <3>1, <3>2
  <2>3. \A b \in B : \E t \in A : f[t] = b
    OBVIOUS
  <2>4. QED
    BY <2>1, <2>2, <2>3 DEF Bijection, Injection, IsInjective, Surjection
<1>4. IsFiniteSet(B) /\ Cardinality(B) = 2^n
  BY <1>1, <1>3, FS_Bijection DEF ExistsBijection
<1>5. A \cap B = {}
  BY <1>2
<1>6. A \cup B = SUBSET (1 .. n + 1)
  <2>1. ASSUME NEW s \in SUBSET (1 .. n + 1)  PROVE s \in A \cup B
    <3>1. CASE n + 1 \in s
      <4>1. s = (s \ {n + 1}) \cup {n + 1} /\ s \ {n + 1} \in A
        BY <1>2, <3>1
      <4>2. QED
        BY <4>1
    <3>2. CASE n + 1 \notin s
      BY <1>2, <3>2
    <3>3. QED
      BY <3>1, <3>2
  <2>2. A \cup B \subseteq SUBSET (1 .. n + 1)
    BY <1>2
  <2>3. QED
    BY <2>1, <2>2
<1>7. 2^(n + 1) = Cardinality(A \cup B)
  BY <1>2, <1>6, PowerIsNumber
<1> HIDE DEF A, B
<1>8. Cardinality(A \cup B) = Cardinality(A) + Cardinality(B) - Cardinality(A \cap B)
  BY <1>1, <1>4, FS_Union
<1>9. Cardinality(A \cap B) = 0
  BY <1>5, FS_EmptySet
<1>10. QED
  BY <1>1, <1>4, <1>7, <1>8, <1>9

LEMMA PowerZero == 2^0 = 1
<1>1. 2^0 = Cardinality(SUBSET (1 .. 0))
  BY PowerIsNumber
<1>2. SUBSET (1 .. 0) = {{}}
  OBVIOUS
<1>3. QED
  BY <1>1, <1>2, FS_Singleton

LEMMA LeastExists ==
  ASSUME NEW T \in SUBSET Nat, T # {}
  PROVE  \E m \in T : \A j \in T : m <= j
<1> DEFINE R == OpToRel(<, Nat)
<1>1. IsWellFoundedOn(R, Nat)
  BY NatLessThanWellFounded
<1>2. PICK m \in T : \A j \in T : <<j, m>> \notin R
  BY <1>1, WFMin
<1>3. \A j \in T : ~(j < m)
  BY <1>2 DEF OpToRel
<1>4. QED
  BY <1>3

\* Induction over a set of numbers.
LEMMA Induction ==
  ASSUME NEW T \in SUBSET Nat, 0 \in T, \A n \in T : n + 1 \in T
  PROVE  T = Nat
<1>1. SUFFICES ASSUME Nat \ T # {} PROVE FALSE
  OBVIOUS
<1>2. PICK m \in Nat \ T : \A j \in Nat \ T : m <= j
  BY <1>1, LeastExists
<1>3. m # 0 /\ m - 1 \in Nat /\ m - 1 + 1 = m
  BY <1>2
<1>4. m - 1 \in T
  BY <1>2, <1>3
<1>5. QED
  BY <1>2, <1>3, <1>4

LEMMA PowerPositive ==
  ASSUME NEW n \in Nat
  PROVE  2^n \in Nat \ {0}
<1> DEFINE T == {k \in Nat : 2^k \in Nat \ {0}}
<1>1. 0 \in T
  BY PowerZero
<1>2. \A k \in T : k + 1 \in T
  BY PowerStep
<1> HIDE DEF T
<1>3. T = Nat
  BY <1>1, <1>2, Induction DEF T
<1>4. QED
  BY <1>3 DEF T

LEMMA PowerSum ==
  ASSUME NEW m \in Nat, NEW n \in Nat
  PROVE  2^(m + n) = 2^m * 2^n
<1> DEFINE T == {k \in Nat : 2^(m + k) = 2^m * 2^k}
<1>1. 0 \in T
  BY PowerZero, PowerPositive
<1>2. ASSUME NEW k \in T  PROVE k + 1 \in T
  <2>1. 2^(m + (k + 1)) = 2 * 2^(m + k)
    <3>1. m + (k + 1) = (m + k) + 1 /\ m + k \in Nat
      OBVIOUS
    <3>2. QED
      BY <3>1, PowerStep
  <2>2. 2^(k + 1) = 2 * 2^k
    BY PowerStep
  <2>3. 2^m \in Nat /\ 2^k \in Nat
    BY PowerPositive
  <2>4. 2 * (2^m * 2^k) = 2^m * (2 * 2^k)
    BY <2>3
  <2>5. QED
    BY <2>1, <2>2, <2>4
<1> HIDE DEF T
<1>3. T = Nat
  BY <1>1, <1>2, Induction DEF T
<1>4. QED
  BY <1>3 DEF T

-----------------------------------------------------------------------------
(* Division by a positive number. *)

LEMMA Division ==
  ASSUME NEW x \in Int, NEW m \in Nat \ {0}
  PROVE  x = (x \div m) * m + (x % m) /\ x % m \in 0 .. m - 1 /\ x \div m \in Int
OBVIOUS

LEMMA DivisionUnique ==
  ASSUME NEW q \in Int, NEW m \in Nat \ {0}, NEW r \in 0 .. m - 1
  PROVE  (q * m + r) % m = r /\ (q * m + r) \div m = q
OBVIOUS

\* The numbers that a modulus identifies.
LEMMA SameRemainder ==
  ASSUME NEW x \in Int, NEW k \in Int, NEW m \in Nat \ {0}
  PROVE  (x + k * m) % m = x % m
<1>1. x = (x \div m) * m + (x % m) /\ x % m \in 0 .. m - 1 /\ x \div m \in Int
  BY Division
<1> DEFINE q == x \div m
           r == x % m
<1>2. x + k * m = (q + k) * m + r /\ q + k \in Int
  <2> HIDE DEF q, r
  <2>1. x = q * m + r /\ q \in Int /\ r \in Int
    BY <1>1 DEF q, r
  <2>2. QED
    BY <2>1
<1>3. r \in 0 .. m - 1
  BY <1>1
<1> HIDE DEF q, r
<1>4. ((q + k) * m + r) % m = r
  BY <1>2, <1>3, DivisionUnique
<1>5. QED
  BY <1>2, <1>4 DEF r

\* A number below a product, divided by one factor.
LEMMA QuotientBelow ==
  ASSUME NEW m \in Nat \ {0}, NEW l \in Nat \ {0}, NEW x \in 0 .. m * l - 1
  PROVE  x \div m \in 0 .. l - 1
<1> DEFINE q == x \div m
           r == x % m
<1>1. x = q * m + r /\ r \in 0 .. m - 1 /\ q \in Int
  BY Division
<1> HIDE DEF q, r
<1>2. q >= 0
  <2>1. SUFFICES ASSUME q <= -1 PROVE FALSE
    BY <1>1
  <2>2. q * m <= -m
    BY <1>1, <2>1
  <2>3. QED
    BY <1>1, <2>2
<1>3. q <= l - 1
  <2>1. SUFFICES ASSUME q >= l PROVE FALSE
    BY <1>1
  <2>2. q * m >= l * m
    BY <1>1, <2>1
  <2>3. QED
    BY <1>1, <2>2
<1>4. QED
  BY <1>1, <1>2, <1>3 DEF q

\* Twice the weight of the top bit.
LEMMA TopBit ==
  ASSUME NEW n \in Nat \ {0}
  PROVE  2^n = 2 * 2^(n-1) /\ 2^(n-1) \in Nat \ {0} /\ 2^n \in Nat \ {0}
<1>1. n - 1 \in Nat /\ (n - 1) + 1 = n
  OBVIOUS
<1>2. 2^((n - 1) + 1) = 2 * 2^(n-1)
  BY <1>1, PowerStep
<1>3. QED
  BY <1>1, <1>2, PowerPositive

\* A power divides the larger ones.
LEMMA PowerSplit ==
  ASSUME NEW n \in Nat, NEW k \in 0 .. n
  PROVE  2^n = 2^k * 2^(n-k) /\ 2^k \in Nat \ {0} /\ 2^(n-k) \in Nat \ {0}
<1>1. k \in Nat /\ n - k \in Nat /\ k + (n - k) = n
  OBVIOUS
<1>2. QED
  BY <1>1, PowerSum, PowerPositive

-----------------------------------------------------------------------------
(* Branches and jumps. *)

LEMMA WordsAssumption ==
  /\ W \in Nat \ {0} /\ IW \in Nat \ {0} /\ JW \in Nat \ {0}
  /\ 2^W \in Nat \ {0} /\ 2^(W-1) \in Nat \ {0} /\ 2^W = 2 * 2^(W-1)
  /\ 2^IW \in Nat \ {0} /\ 2^(IW-1) \in Nat \ {0}
  /\ 2^JW \in Nat \ {0} /\ 2^(W-JW) \in Nat \ {0} /\ 2^W = 2^JW * 2^(W-JW)
<1>1. W \in Nat \ {0} /\ IW \in Nat \ {0} /\ JW \in Nat \ {0} /\ JW \in 0 .. W
  BY WidthAssumption
<1>2. QED
  BY <1>1, TopBit, PowerSplit

\* The test of a branch that does not link is the one of the architecture.
LEMMA TakenRight ==
  ASSUME NEW i \in Branches, i.op \notin LinkBranches
  PROVE  Decision(i).taken <=> Condition(i)
<1>1. i.rs \in Words /\ i.rt \in Words /\ i.op \in Ops
  BY DEF Branches
<1>2. CASE i.op \in Jumps
  BY <1>2 DEF Decision, Jump, Condition, Jumps
<1>3. CASE i.op \in Plain
  <2>1. Decision(i).taken = (FALSE \/ br_taken(i.op, i.rs, i.rt))
    <3>1. ~Jump(i.op) /\ ~Link(i.op)
      BY <1>3 DEF Jump, Jumps, Plain, Link, LinkBranches
    <3>2. OpA(i) = i.rs /\ OpB(i) = i.rt
      BY <3>1 DEF OpA, OpB
    <3>3. Decision(i).taken = (Jump(i.op) \/ br_taken(i.op, OpA(i), OpB(i)))
      BY DEF Decision
    <3>4. QED
      BY <3>1, <3>2, <3>3
  <2>2. i.rs \in Nat /\ i.rs < 2^W /\ 2^W \in Nat /\ 2^(W-1) \in Nat \ {0}
    BY <1>1, WordsAssumption DEF Words
  <2>3. Negative(i.rs) <=> Signed(i.rs, W) < 0
    BY <2>2 DEF Negative, Signed
  <2>4. i.rs = 0 <=> Signed(i.rs, W) = 0
    BY <2>2 DEF Signed
  <2>5. Signed(i.rs, W) \in Int
    BY <2>2 DEF Signed
  <2>6. br_taken(i.op, i.rs, i.rt) <=> Condition(i)
    <3> DEFINE n == Signed(i.rs, W)
    <3>1. n \in Int /\ (Negative(i.rs) <=> n < 0) /\ (i.rs = 0 <=> n = 0)
      BY <2>3, <2>4, <2>5
    <3> HIDE DEF n
    <3>2. CASE i.op = "beq"
      <4>1. Condition(i) <=> (i.rs = i.rt)
        BY <3>2, Zenon DEF Condition, Jumps
      <4>2. QED
        BY <3>2, <4>1 DEF br_taken
    <3>3. CASE i.op = "bne"
      <4>1. Condition(i) <=> (i.rs # i.rt)
        BY <3>3, Zenon DEF Condition, Jumps
      <4>2. QED
        BY <3>3, <4>1 DEF br_taken
    <3>4. CASE i.op = "blez"
      <4>1. Condition(i) <=> n <= 0
        BY <3>4, Zenon DEF Condition, Jumps, n
      <4>2. QED
        BY <3>1, <3>4, <4>1 DEF br_taken
    <3>5. CASE i.op = "bgtz"
      <4>1. Condition(i) <=> n > 0
        BY <3>5, Zenon DEF Condition, Jumps, n
      <4>2. QED
        BY <3>1, <3>5, <4>1 DEF br_taken
    <3>6. CASE i.op = "bltz"
      <4>1. Condition(i) <=> n < 0
        BY <3>6, Zenon DEF Condition, Jumps, n
      <4>2. QED
        BY <3>1, <3>6, <4>1 DEF br_taken
    <3>7. CASE i.op = "bgez"
      <4>1. Condition(i) <=> n >= 0
        BY <3>7, Zenon DEF Condition, Jumps, n
      <4>2. QED
        BY <3>1, <3>7, <4>1 DEF br_taken
    <3>8. QED
      BY <1>3, <3>2, <3>3, <3>4, <3>5, <3>6, <3>7 DEF Plain
  <2>7. QED
    BY <2>1, <2>6
<1>4. QED
  BY <1>1, <1>2, <1>3 DEF Ops

\* So is the destination of every branch and jump.
LEMMA DestinationRight ==
  ASSUME NEW i \in Branches
  PROVE  Decision(i).address = Destination(i)
<1>1. i.rs \in Words /\ i.field \in Words /\ i.pc4 \in Words /\ i.op \in Ops
  BY DEF Branches
<1>2. i.pc4 \in Nat /\ i.field \in Nat /\ i.pc4 < 2^W
  BY <1>1, WordsAssumption DEF Words
<1>3. CASE i.op \in {"jr", "jalr"}
  <2>1. Decision(i).address = i.rs
    <3>1. NextInstructionAddress(i) = i.rs
      BY <1>3, Zenon DEF NextInstructionAddress, JumpRegister, Jump, Jumps
    <3>2. QED
      BY <3>1 DEF Decision
  <2>2. Destination(i) = i.rs
    BY <1>3, Zenon DEF Destination, Jumps
  <2>3. QED
    BY <2>1, <2>2
<1>4. CASE i.op \in {"j", "jal"}
  <2> DEFINE K == 2^JW
             L == 2^(W-JW)
             p == i.pc4 \div K
             f == i.field % K
             a == p * K + f
  <2>1. K \in Nat \ {0} /\ L \in Nat \ {0} /\ 2^W = K * L
    BY WordsAssumption
  <2>2. p \in 0 .. L - 1 /\ f \in 0 .. K - 1
    <3> HIDE DEF K, L
    <3>1. i.pc4 \in 0 .. K * L - 1
      BY <1>2, <2>1
    <3>2. QED
      <4>1. i.pc4 \div K \in 0 .. L - 1
        BY <2>1, <3>1, QuotientBelow
      <4>2. i.field % K \in 0 .. K - 1
        BY <1>2, <2>1
      <4>3. QED
        BY <4>1, <4>2
  <2>3. a \div K = p /\ a % K = f
    <3> HIDE DEF K, L, p, f
    <3>1. QED
      BY <2>1, <2>2, DivisionUnique
  <2>4. a \in Words
    <3> HIDE DEF K, L, p, f
    <3>1. p * K <= (L - 1) * K
      BY <2>1, <2>2
    <3>2. (L - 1) * K = K * L - K /\ p * K \in Nat
      BY <2>1, <2>2
    <3>3. a \in 0 .. K * L - 1
      BY <2>1, <2>2, <3>1, <3>2
    <3>4. QED
      BY <2>1, <3>3 DEF Words
  <2>5. ASSUME NEW b \in Words, b \div K = p, b % K = f
        PROVE  b = a
    <3>1. b \in Int
      BY WordsAssumption DEF Words
    <3> HIDE DEF K, p, f
    <3>2. QED
      BY <2>1, <2>5, <3>1, Division
  <2>6. Destination(i) = CHOOSE b \in Words : b \div K = p /\ b % K = f
    BY <1>4, Zenon DEF Destination, Jumps
  <2>7. Decision(i).address = a
    BY <1>4 DEF Decision, NextInstructionAddress, JumpRegister, Jump, Jumps
  <2> HIDE DEF K, L, p, f, a
  <2>8. QED
    BY <2>3, <2>4, <2>5, <2>6, <2>7
<1>5. CASE i.op \in Plain \cup LinkBranches
  <2> DEFINE f == i.field % 2^IW
  <2>1. Decision(i).address = (i.pc4 + signExtended(f)) % 2^W
    BY <1>5 DEF Decision, NextInstructionAddress, JumpRegister, Jump, Jumps, Plain, LinkBranches
  <2>2. Destination(i) = (i.pc4 + Signed(f, IW)) % 2^W
    BY <1>5 DEF Destination, Jumps, Plain, LinkBranches
  <2>3. f \in Nat
    BY <1>2, WordsAssumption
  <2> HIDE DEF f
  <2>4. CASE f >= 2^(IW-1)
    <3>1. signExtended(f) = f + 2^W - 2^IW /\ Signed(f, IW) = f - 2^IW
      BY <2>4 DEF signExtended, Signed
    <3>2. i.pc4 + (f + 2^W - 2^IW) = (i.pc4 + (f - 2^IW)) + 1 * 2^W
      BY <1>2, <2>3, WordsAssumption
    <3>3. i.pc4 + (f - 2^IW) \in Int
      BY <1>2, <2>3, WordsAssumption
    <3>4. ((i.pc4 + (f - 2^IW)) + 1 * 2^W) % 2^W = (i.pc4 + (f - 2^IW)) % 2^W
      <4> DEFINE x == i.pc4 + (f - 2^IW)
                 M == 2^W
      <4>1. x \in Int /\ M \in Nat \ {0} /\ 1 \in Int
        BY <3>3, WordsAssumption
      <4> HIDE DEF x, M
      <4>2. (x + 1 * M) % M = x % M
        BY <4>1, SameRemainder
      <4>3. QED
        BY <4>2 DEF x, M
    <3>5. QED
      BY <2>1, <2>2, <3>1, <3>2, <3>4
  <2>5. CASE ~(f >= 2^(IW-1))
    BY <2>1, <2>2, <2>5 DEF signExtended, Signed
  <2>6. QED
    BY <2>4, <2>5
<1>6. QED
  BY <1>1, <1>3, <1>4, <1>5 DEF Ops, Jumps

\* Whatever links writes the address after its delay slot.
LEMMA LinkRight ==
  ASSUME NEW i \in Branches, Link(i.op)
  PROVE  Decision(i).link = (i.pc4 + 1) % 2^W
<1> DEFINE r == (i.pc4 + 1) % 2^W
<1>1. i.pc4 + 1 \in Int
  BY WordsAssumption DEF Branches, Words
<1>2. r \in 0 .. 2^W - 1 /\ 2^W \in Nat \ {0}
  BY <1>1, Division, WordsAssumption
<1>3. Decision(i).link = (0 + r) % 2^W
  BY DEF Decision, OpA, OpB
<1> HIDE DEF r
<1>4. 0 + r = 0 * 2^W + r
  BY <1>2
<1>5. (0 * 2^W + r) % 2^W = r
  BY <1>2, DivisionUnique
<1>6. QED
  BY <1>3, <1>4, <1>5 DEF r

\* What the hardware makes of an instruction is what its operators compute.
OutRight ==
    /\ instr \in Branches \cup Calculations
    /\ \/ out = Undecided
       \/ instr.op \in Ops /\ out = Decision(instr)
       \/ instr.op \in ALUOps /\ out = Calculation(instr, HILO)

LEMMA OutInvariant == ISpec => []OutRight
<1>1. IInit => OutRight
  BY DEF IInit, Ready, OutRight
<1>2. OutRight /\ [INext]_ivars => OutRight'
  BY DEF OutRight, INext, Decide, Calculate, ivars
<1>3. QED
  BY <1>1, <1>2, PTL DEF ISpec

LEMMA Apart == Ops \cap ALUOps = {}
BY DEF Ops, Plain, LinkBranches, Jumps, ALUOps, Shifts, ShiftsByRegister, Products, Single

\* Branches and jumps are decided as the architecture says, for every width of
\* words, offsets and jump indices.
THEOREM DecisionsRight == ISpec => []DecidesLikeMIPS
<1>1. ASSUME OutRight, out # Undecided, instr.op \in Ops
      PROVE  /\ instr.op \notin LinkBranches => Obeys
             /\ Link(instr.op) => out.link = (instr.pc4 + 1) % 2^W
  <2>1. instr \in Branches /\ out = Decision(instr)
    BY <1>1, Apart DEF OutRight, Calculations, ALUOps
  <2>2. QED
    BY <2>1, TakenRight, DestinationRight, LinkRight DEF Obeys
<1>2. OutRight => DecidesLikeMIPS
  BY <1>1 DEF DecidesLikeMIPS
<1>3. QED
  BY <1>2, OutInvariant, PTL

\* BLTZAL is never taken and BGEZAL always, whatever the register holds and
\* however wide it is (ID.v:265, compare.v:30-31).
THEOREM LinkBranchesIgnoreRegister ==
  ISpec => [](out # Undecided /\ instr.op \in LinkBranches =>
                 (out.taken <=> instr.op = "bgezal"))
<1> DEFINE Ignores == out # Undecided /\ instr.op \in LinkBranches =>
                          (out.taken <=> instr.op = "bgezal")
<1>1. ASSUME OutRight, out # Undecided, instr.op \in LinkBranches
      PROVE  out.taken <=> instr.op = "bgezal"
  <2>1. out = Decision(instr)
    BY <1>1, Apart DEF OutRight, Ops
  <2>2. ~Jump(instr.op) /\ OpA(instr) = 0
    BY <1>1 DEF Jump, Jumps, LinkBranches, OpA, Link
  <2>3. out.taken = (Jump(instr.op) \/ br_taken(instr.op, OpA(instr), OpB(instr)))
    BY <2>1 DEF Decision
  <2>4. ~Negative(0)
    BY WordsAssumption DEF Negative
  <2>5. QED
    BY <1>1, <2>2, <2>3, <2>4 DEF br_taken, LinkBranches
<1>2. OutRight => Ignores
  BY <1>1
<1> HIDE DEF Ignores
<1>3. ISpec => []Ignores
  BY <1>2, OutInvariant, PTL
<1>4. QED
  BY <1>3 DEF Ignores

-----------------------------------------------------------------------------
(* Words as signed numbers. *)

LEMMA WordSize ==
  /\ N \in Nat /\ N >= 2 /\ N \div 2 \in Nat \ {0} /\ N = 2 * (N \div 2)
  /\ 2^N \in Nat \ {0} /\ 2^(N-1) \in Nat \ {0} /\ 2^N = 2 * 2^(N-1)
  /\ HalfN \in Nat \ {0} /\ 2^N = HalfN * HalfN
  /\ HalfN = 2 * (HalfN \div 2) /\ HalfN \div 2 \in Nat \ {0}
<1>1. S \in Nat \ {0}
  BY ShiftAssumption
<1>2. 2^S = 2 * 2^(S-1) /\ 2^(S-1) \in Nat \ {0}
  BY <1>1, TopBit
<1>3. N \in Nat /\ N >= 2 /\ N \div 2 \in Nat \ {0} /\ N = 2 * (N \div 2)
  <2> DEFINE h == 2^(S-1)
  <2>1. N = 2 * h /\ h \in Nat \ {0}
    BY <1>2 DEF N
  <2> HIDE DEF h
  <2>2. QED
    BY <2>1
<1>4. 2^N \in Nat \ {0} /\ 2^(N-1) \in Nat \ {0} /\ 2^N = 2 * 2^(N-1)
  BY <1>3, TopBit
<1>5. HalfN \in Nat \ {0} /\ HalfN = 2 * 2^((N \div 2) - 1) /\ 2^((N \div 2) - 1) \in Nat \ {0}
  BY <1>3, TopBit DEF HalfN
<1>6. HalfN = 2 * (HalfN \div 2) /\ HalfN \div 2 \in Nat \ {0}
  <2> DEFINE h == 2^((N \div 2) - 1)
  <2>1. HalfN = 2 * h /\ h \in Nat \ {0}
    BY <1>5
  <2> HIDE DEF h
  <2>2. QED
    BY <2>1
<1>7. 2^N = HalfN * HalfN
  <2>1. 2^((N \div 2) + (N \div 2)) = 2^(N \div 2) * 2^(N \div 2)
    BY <1>3, PowerSum
  <2>2. (N \div 2) + (N \div 2) = N
    BY <1>3
  <2>3. QED
    BY <2>1, <2>2 DEF HalfN
<1>8. QED
  BY <1>3, <1>4, <1>5, <1>6, <1>7

\* A word read as a signed number.
LEMMA TwosRange ==
  ASSUME NEW x \in Numbers
  PROVE  /\ x \in Nat /\ x < 2^N
         /\ SignBit(x) = IF x >= 2^(N-1) THEN 1 ELSE 0
         /\ Twos(x) = IF x >= 2^(N-1) THEN x - 2^N ELSE x
         /\ Twos(x) \in Int /\ -(2^(N-1)) <= Twos(x) /\ Twos(x) < 2^(N-1)
<1> DEFINE M == 2^N
           h == 2^(N-1)
<1>1. M \in Nat \ {0} /\ h \in Nat \ {0} /\ M = 2 * h
  BY WordSize
<1>2. x \in 0 .. M - 1 /\ SignBit(x) = x \div h /\ Twos(x) = x - SignBit(x) * M
  BY DEF Numbers, SignBit, Twos
<1> HIDE DEF M, h
<1>3. SignBit(x) = IF x >= h THEN 1 ELSE 0
  <2>1. CASE x >= h
    <3> DEFINE d == x - h
    <3>1. x = 1 * h + d /\ d \in 0 .. h - 1
      BY <1>1, <1>2, <2>1
    <3> HIDE DEF d
    <3>2. (1 * h + d) \div h = 1
      BY <1>1, <3>1, DivisionUnique
    <3>3. QED
      BY <1>2, <2>1, <3>1, <3>2
  <2>2. CASE ~(x >= h)
    <3>1. x = 0 * h + x /\ x \in 0 .. h - 1
      BY <1>1, <1>2, <2>2
    <3>2. (0 * h + x) \div h = 0
      BY <1>1, <3>1, DivisionUnique
    <3>3. QED
      BY <1>2, <2>2, <3>1, <3>2
  <2>3. QED
    BY <2>1, <2>2
<1>4. Twos(x) = IF x >= h THEN x - M ELSE x
  BY <1>1, <1>2, <1>3
<1>5. x \in Nat /\ x < M /\ Twos(x) \in Int /\ -h <= Twos(x) /\ Twos(x) < h
  BY <1>1, <1>2, <1>4
<1>6. QED
  BY <1>3, <1>4, <1>5 DEF M, h

\* A number that fits, cut to a word and read as a signed number.
LEMMA TwosOfCut ==
  ASSUME NEW x \in Int, -(2^(N-1)) <= x, x < 2^(N-1)
  PROVE  x % 2^N \in Numbers /\ Twos(x % 2^N) = x
<1> DEFINE M == 2^N
           h == 2^(N-1)
           r == x % M
<1>1. M \in Nat \ {0} /\ h \in Nat \ {0} /\ M = 2 * h /\ -h <= x /\ x < h
  BY WordSize
<1> HIDE DEF M, h
<1>2. r = IF x >= 0 THEN x ELSE x + M
  <2>1. CASE x >= 0
    <3>1. x = 0 * M + x /\ x \in 0 .. M - 1
      BY <1>1, <2>1
    <3>2. (0 * M + x) % M = x
      BY <1>1, <3>1, DivisionUnique
    <3>3. QED
      BY <2>1, <3>1, <3>2
  <2>2. CASE x < 0
    <3>1. x = (-1) * M + (x + M) /\ x + M \in 0 .. M - 1
      BY <1>1, <2>2
    <3>2. ((-1) * M + (x + M)) % M = x + M
      BY <1>1, <3>1, DivisionUnique
    <3>3. QED
      BY <2>2, <3>1, <3>2
  <2>3. QED
    BY <2>1, <2>2
<1>3. r \in 0 .. M - 1 /\ (r >= h <=> x < 0)
  BY <1>1, <1>2
<1> HIDE DEF r
<1>4. r \in Numbers
  BY <1>3 DEF Numbers, M
<1>5. Twos(r) = IF r >= h THEN r - M ELSE r
  BY <1>4, TwosRange DEF M, h
<1>6. Twos(r) = x
  BY <1>1, <1>2, <1>3, <1>5
<1>7. QED
  BY <1>4, <1>6 DEF r, M

\* Words that stand for the same number, wrapped.
LEMMA SameWhen ==
  ASSUME NEW x \in Int, NEW y \in Int, NEW k \in Int, x = y + k * 2^N
  PROVE  Same(x, y)
<1> DEFINE M == 2^N
<1>1. M \in Nat \ {0}
  BY WordSize
<1> HIDE DEF M
<1>2. x - y = k * M + 0 /\ 0 \in 0 .. M - 1
  BY <1>1 DEF M
<1>3. (k * M + 0) % M = 0
  BY <1>1, <1>2, DivisionUnique
<1>4. QED
  BY <1>2, <1>3 DEF Same, M

\* Cutting a number to a word, or reading a word as signed, wraps it.
LEMMA CutWraps ==
  ASSUME NEW x \in Int
  PROVE  x % 2^N \in Numbers /\ \E k \in Int : x % 2^N = x + k * 2^N
<1> DEFINE M == 2^N
           q == x \div M
           r == x % M
<1>1. M \in Nat \ {0}
  BY WordSize
<1> HIDE DEF M
<1>2. x = q * M + r /\ r \in 0 .. M - 1 /\ q \in Int
  BY <1>1, Division
<1> HIDE DEF q, r
<1>3. r = x + (-q) * M /\ -q \in Int
  BY <1>1, <1>2
<1>4. QED
  BY <1>2, <1>3 DEF Numbers, M, r

LEMMA TwosWraps ==
  ASSUME NEW x \in Numbers
  PROVE  \E k \in Int : Twos(x) = x + k * 2^N
<1>1. x \in Nat /\ Twos(x) = IF x >= 2^(N-1) THEN x - 2^N ELSE x
  BY TwosRange
<1>2. x - 2^N = x + (-1) * 2^N /\ x = x + 0 * 2^N
  BY <1>1, WordSize
<1>3. QED
  BY <1>1, <1>2

-----------------------------------------------------------------------------
(* Sums, addresses and comparisons. *)

LEMMA AddRight ==
  ASSUME NEW a \in Numbers, NEW b \in Numbers
  PROVE  Same(Twos((a + b) % 2^N), Twos(a) + Twos(b))
<1> DEFINE M == 2^N
           r == (a + b) % M
<1>1. M \in Nat \ {0} /\ a \in Int /\ b \in Int /\ a + b \in Int
  BY WordSize, TwosRange
<1>2. PICK i \in Int : Twos(a) = a + i * M
  BY TwosWraps
<1>3. PICK j \in Int : Twos(b) = b + j * M
  BY TwosWraps
<1>4. PICK k \in Int : r \in Numbers /\ r = (a + b) + k * M
  BY <1>1, CutWraps
<1>5. PICK l \in Int : Twos(r) = r + l * M
  BY <1>4, TwosWraps
<1> HIDE DEF r, M
<1>6. Twos(r) = (Twos(a) + Twos(b)) + (k + l - i - j) * M
  BY <1>1, <1>2, <1>3, <1>4, <1>5
<1>7. Twos(r) \in Int /\ Twos(a) + Twos(b) \in Int /\ k + l - i - j \in Int
  BY <1>4, TwosRange
<1>8. QED
  BY <1>6, <1>7, SameWhen DEF r, M

LEMMA SubRight ==
  ASSUME NEW a \in Numbers, NEW b \in Numbers
  PROVE  Same(Twos((a - b) % 2^N), Twos(a) - Twos(b))
<1> DEFINE M == 2^N
           r == (a - b) % M
<1>1. M \in Nat \ {0} /\ a \in Int /\ b \in Int /\ a - b \in Int
  BY WordSize, TwosRange
<1>2. PICK i \in Int : Twos(a) = a + i * M
  BY TwosWraps
<1>3. PICK j \in Int : Twos(b) = b + j * M
  BY TwosWraps
<1>4. PICK k \in Int : r \in Numbers /\ r = (a - b) + k * M
  BY <1>1, CutWraps
<1>5. PICK l \in Int : Twos(r) = r + l * M
  BY <1>4, TwosWraps
<1> HIDE DEF r, M
<1>6. Twos(r) = (Twos(a) - Twos(b)) + (k + l - i + j) * M
  BY <1>1, <1>2, <1>3, <1>4, <1>5
<1>7. Twos(r) \in Int /\ Twos(a) - Twos(b) \in Int /\ k + l - i + j \in Int
  BY <1>4, TwosRange
<1>8. QED
  BY <1>6, <1>7, SameWhen DEF r, M

\* The offset of a load or store is the signed lower half of the operand.
LEMMA AddressRight ==
  ASSUME NEW a \in Numbers, NEW b \in Numbers
  PROVE  \E d \in -(HalfN \div 2) .. HalfN \div 2 - 1 :
            (d - b) % HalfN = 0 /\ Same((a + Extended(b)) % 2^N, a + d)
<1> DEFINE M == 2^N
           K == HalfN
           c == K \div 2
           h == b % K
           d == IF 2 * h >= K THEN h - K ELSE h
           q == b \div K
<1>1. M \in Nat \ {0} /\ K \in Nat \ {0} /\ c \in Nat \ {0} /\ K = 2 * c
  BY WordSize
<1>2. a \in Int /\ b \in Int
  BY TwosRange
<1>3. Extended(b) = IF 2 * h >= K THEN h + M - K ELSE h
  BY DEF Extended
<1> HIDE DEF K, c, M
<1>4. b = q * K + h /\ h \in 0 .. K - 1 /\ q \in Int
  BY <1>1, <1>2, Division
<1> HIDE DEF h, q
<1>5. d \in -c .. c - 1 /\ \E j \in {-1, 0} : d = h + j * K
  BY <1>1, <1>4
<1>6. \E j \in {0, 1} : Extended(b) = d + j * M
  BY <1>1, <1>3, <1>4
<1> HIDE DEF d
<1>7. (d - b) % K = 0
  <2>1. PICK j \in {-1, 0} : d = h + j * K
    BY <1>5
  <2> DEFINE l == j - q
  <2>2. d - b = l * K + 0 /\ l \in Int /\ 0 \in 0 .. K - 1
    BY <1>1, <1>4, <2>1
  <2> HIDE DEF l
  <2>3. (l * K + 0) % K = 0
    BY <1>1, <2>2, DivisionUnique
  <2>4. QED
    BY <2>2, <2>3
<1>8. Same((a + Extended(b)) % M, a + d)
  <2>1. PICK j \in {0, 1} : Extended(b) = d + j * M
    BY <1>6
  <2>2. d \in Int /\ a + Extended(b) \in Int
    BY <1>1, <1>2, <1>5, <2>1
  <2>3. PICK k \in Int : (a + Extended(b)) % M = (a + Extended(b)) + k * M
    BY <2>2, CutWraps DEF M
  <2>4. (a + Extended(b)) % M = (a + d) + (j + k) * M
    BY <1>1, <1>2, <2>1, <2>2, <2>3
  <2>5. (a + Extended(b)) % M \in Int /\ a + d \in Int /\ j + k \in Int
    BY <1>1, <1>2, <2>2, Division
  <2>6. QED
    BY <2>4, <2>5, SameWhen DEF M
<1>9. QED
  BY <1>5, <1>7, <1>8 DEF K, c, M

\* LUI keeps the lower half of its operand.
LEMMA LuiRight ==
  ASSUME NEW b \in Numbers
  PROVE  (b % HalfN) * HalfN = (b * HalfN) % 2^N
<1> DEFINE M == 2^N
           K == HalfN
           h == b % K
           q == b \div K
<1>1. M \in Nat \ {0} /\ K \in Nat \ {0} /\ M = K * K /\ b \in Int
  BY WordSize, TwosRange
<1> HIDE DEF M, K
<1>2. b = q * K + h /\ h \in 0 .. K - 1 /\ q \in Int
  BY <1>1, Division
<1> HIDE DEF h, q
<1>3. h * K <= (K - 1) * K /\ h * K >= 0 /\ h * K \in Int
  BY <1>1, <1>2
<1>4. h * K \in 0 .. M - 1
  <2>1. (K - 1) * K = M - K
    BY <1>1
  <2>2. QED
    BY <1>1, <1>3, <2>1
<1>5. b * K = q * M + h * K
  <2>1. (q * K + h) * K = q * (K * K) + h * K
    BY <1>1, <1>2
  <2>2. QED
    BY <1>1, <1>2, <2>1
<1> DEFINE l == h * K
<1> HIDE DEF l
<1>6. (q * M + l) % M = l
  BY <1>1, <1>2, <1>4, DivisionUnique DEF l
<1>7. QED
  BY <1>5, <1>6 DEF M, K, h, l

\* SLT is right but for a negative and a positive operand, and wrong for these
\* exactly if the bits below the sign compare the other way.
LEMMA SltRight ==
  ASSUME NEW a \in Numbers, NEW b \in Numbers
  PROVE  slt(a, b) = Less(Twos(a), Twos(b))
           <=> ~(Twos(a) < 0 /\ Twos(b) >= 0 /\ Rest(a) > Rest(b))
<1> DEFINE M == 2^N
           h == 2^(N-1)
<1>1. M \in Nat \ {0} /\ h \in Nat \ {0} /\ M = 2 * h
  BY WordSize
<1>2. /\ a \in Nat /\ a < M /\ SignBit(a) = (IF a >= h THEN 1 ELSE 0)
      /\ Twos(a) = IF a >= h THEN a - M ELSE a
  BY TwosRange
<1>3. /\ b \in Nat /\ b < M /\ SignBit(b) = (IF b >= h THEN 1 ELSE 0)
      /\ Twos(b) = IF b >= h THEN b - M ELSE b
  BY TwosRange
<1>4. Rest(a) = a % h /\ Rest(b) = b % h
  BY DEF Rest
<1> HIDE DEF M, h
<1>5. ASSUME NEW x \in Nat, x < M
      PROVE  x % h = IF x >= h THEN x - h ELSE x
  <2>1. CASE x >= h
    <3> DEFINE d == x - h
    <3>1. x = 1 * h + d /\ d \in 0 .. h - 1
      BY <1>1, <1>5, <2>1
    <3> HIDE DEF d
    <3>2. (1 * h + d) % h = d
      BY <1>1, <3>1, DivisionUnique
    <3>3. QED
      BY <2>1, <3>1, <3>2 DEF d
  <2>2. CASE ~(x >= h)
    <3>1. x = 0 * h + x /\ x \in 0 .. h - 1
      BY <1>1, <2>2
    <3>2. (0 * h + x) % h = x
      BY <1>1, <3>1, DivisionUnique
    <3>3. QED
      BY <2>2, <3>1, <3>2
  <2>3. QED
    BY <2>1, <2>2
<1>6. /\ Rest(a) = IF a >= h THEN a - h ELSE a
      /\ Rest(b) = IF b >= h THEN b - h ELSE b
  BY <1>2, <1>3, <1>4, <1>5
<1>7. QED
  BY <1>1, <1>2, <1>3, <1>6 DEF slt, Less

-----------------------------------------------------------------------------
(* Shifts. *)

LEMMA CutSame ==
  ASSUME NEW x \in Int
  PROVE  Same(x % 2^N, x)
<1>1. PICK k \in Int : x % 2^N = x + k * 2^N
  BY CutWraps
<1>2. x % 2^N \in Int
  BY Division, WordSize
<1>3. QED
  BY <1>1, <1>2, SameWhen

LEMMA SrlRight ==
  ASSUME NEW b \in Numbers, NEW s \in Nat
  PROVE  ShiftedDown(b, s, b \div 2^s)
<1> DEFINE K == 2^s
           q == b \div K
           r == b % K
<1>1. K \in Nat \ {0} /\ b \in Int
  BY PowerPositive, TwosRange
<1> HIDE DEF K
<1>2. b = q * K + r /\ r \in 0 .. K - 1 /\ q \in Int
  BY <1>1, Division
<1> HIDE DEF q, r
<1>3. K * q = q * K /\ K * (q + 1) = q * K + K /\ q * K \in Int
  BY <1>1, <1>2
<1>4. K * q <= b /\ b < K * (q + 1)
  BY <1>1, <1>2, <1>3
<1>5. QED
  BY <1>4 DEF ShiftedDown, K, q

\* A division by a product is one by each of its factors in turn.
LEMMA DivideTwice ==
  ASSUME NEW x \in Int, NEW m \in Nat \ {0}, NEW l \in Nat \ {0}
  PROVE  (x \div m) \div l = x \div (m * l)
<1> DEFINE q == x \div m
           r == x % m
           p == q \div l
           t == q % l
           e == t * m + r
           ml == m * l
<1>1. x = q * m + r /\ r \in 0 .. m - 1 /\ q \in Int
  BY Division
<1>2. q = p * l + t /\ t \in 0 .. l - 1 /\ p \in Int
  BY <1>1, Division
<1> HIDE DEF q, r, p, t
<1>3. t * m <= (l - 1) * m /\ t * m >= 0 /\ t * m \in Int /\ (l - 1) * m = ml - m
  BY <1>2
<1>4. e \in 0 .. ml - 1 /\ ml \in Nat \ {0}
  BY <1>1, <1>3
<1>5. x = p * ml + e
  <2>1. (p * l + t) * m = p * (m * l) + t * m
    BY <1>2
  <2>2. p * (m * l) \in Int
    BY <1>2
  <2>3. QED
    BY <1>1, <1>2, <1>3, <2>1, <2>2
<1> HIDE DEF e, ml
<1>6. (p * ml + e) \div ml = p
  BY <1>2, <1>4, DivisionUnique
<1>7. QED
  BY <1>5, <1>6 DEF p, q, ml

\* The lowest n + 1 bits of a number are bit n and the n bits below it.
LEMMA LowBits ==
  ASSUME NEW x \in Int, NEW n \in Nat
  PROVE  x % 2^(n + 1) = BitOf(x, n) * 2^n + (x % 2^n) /\ BitOf(x, n) \in {0, 1}
<1> DEFINE P == 2^n
           q == x \div P
           r == x % P
           p == q \div 2
           t == q % 2
           e == t * P + r
           PP == 2 * P
<1>1. P \in Nat \ {0} /\ 2^(n + 1) = PP
  BY PowerPositive, PowerStep
<1> HIDE DEF P
<1>2. x = q * P + r /\ r \in 0 .. P - 1 /\ q \in Int
  BY <1>1, Division
<1>3. q = p * 2 + t /\ t \in 0 .. 1 /\ p \in Int
  BY <1>2
<1> HIDE DEF q, r, p, t
<1>4. e \in 0 .. PP - 1 /\ PP \in Nat \ {0}
  <2>1. t * P \in {0, P}
    BY <1>1, <1>3
  <2>2. QED
    BY <1>1, <1>2, <2>1
<1>5. x = p * PP + e
  <2>1. (p * 2 + t) * P = p * (2 * P) + t * P /\ p * (2 * P) \in Int /\ t * P \in Int
    BY <1>1, <1>3
  <2>2. QED
    BY <1>1, <1>2, <1>3, <2>1
<1> HIDE DEF e, PP
<1>6. (p * PP + e) % PP = e
  BY <1>3, <1>4, DivisionUnique
<1>7. BitOf(x, n) = t
  BY DEF BitOf, t, q, P
<1>8. x % 2^(n + 1) = e
  BY <1>1, <1>5, <1>6
<1>9. QED
  BY <1>3, <1>7, <1>8 DEF e, r, P

\* A word is determined by its bits.
LEMMA BitsDetermine ==
  ASSUME NEW x \in Numbers, NEW y \in Numbers,
         \A k \in 0 .. N - 1 : BitOf(x, k) = BitOf(y, k)
  PROVE  x = y
<1> DEFINE T == {n \in Nat : n <= N => x % 2^n = y % 2^n}
<1>1. x \in Int /\ y \in Int /\ N \in Nat /\ 2^N \in Nat \ {0}
      /\ x \in 0 .. 2^N - 1 /\ y \in 0 .. 2^N - 1
  BY TwosRange, WordSize DEF Numbers
<1>2. 0 \in T
  BY <1>1, PowerZero
<1>3. ASSUME NEW n \in T  PROVE n + 1 \in T
  <2>1. SUFFICES ASSUME n + 1 <= N  PROVE x % 2^(n + 1) = y % 2^(n + 1)
    OBVIOUS
  <2>2. n \in Nat /\ n \in 0 .. N - 1
    BY <1>1, <2>1
  <2>3. x % 2^n = y % 2^n
    BY <1>1, <2>1, <2>2
  <2>4. BitOf(x, n) = BitOf(y, n)
    BY <2>2
  <2>5. QED
    BY <1>1, <2>2, <2>3, <2>4, LowBits
<1> HIDE DEF T
<1>4. T = Nat
  BY <1>2, <1>3, Induction DEF T
<1>5. x % 2^N = y % 2^N
  <2>1. N \in T /\ N <= N
    BY <1>1, <1>4
  <2>2. QED
    BY <2>1 DEF T
<1>6. ASSUME NEW z \in 0 .. 2^N - 1  PROVE z % 2^N = z
  <2> DEFINE M == 2^N
  <2>1. M \in Nat \ {0} /\ z \in 0 .. M - 1
    BY <1>1
  <2> HIDE DEF M
  <2>2. (0 * M + z) % M = z
    BY <2>1, DivisionUnique
  <2>3. QED
    BY <2>1, <2>2 DEF M
<1>7. QED
  BY <1>1, <1>5, <1>6

\* The word that an arithmetic shift of b by s makes: the quotient, and the sign
\* in the bits above it.
Shifted(b, s) == b \div 2^s + SignBit(b) * (2^N - 2^(N - s))

LEMMA ShiftedRange ==
  ASSUME NEW b \in Numbers, NEW s \in 0 .. N - 1
  PROVE  /\ b \div 2^s \in 0 .. 2^(N-s) - 1
         /\ 2^N = 2^s * 2^(N-s) /\ 2^s \in Nat \ {0} /\ 2^(N-s) \in Nat \ {0}
         /\ 2^N - 2^(N-s) \in Nat
         /\ Shifted(b, s) \in Numbers
<1> DEFINE M == 2^N
           K == 2^s
           L == 2^(N-s)
           q == b \div K
<1>1. M = K * L /\ K \in Nat \ {0} /\ L \in Nat \ {0} /\ M \in Nat \ {0}
  <2>1. N \in Nat /\ s \in 0 .. N
    BY WordSize
  <2>2. QED
    BY <2>1, WordSize, PowerSplit
<1>2. b \in 0 .. M - 1 /\ SignBit(b) \in {0, 1}
  BY TwosRange DEF Numbers
<1> HIDE DEF M, K, L
<1>3. q \in 0 .. L - 1
  BY <1>1, <1>2, QuotientBelow
<1> HIDE DEF q
<1>4. M - L \in Nat
  <2>1. K * L >= 1 * L
    BY <1>1
  <2>2. QED
    BY <1>1, <2>1
<1>5. q + SignBit(b) * (M - L) \in 0 .. M - 1
  BY <1>1, <1>2, <1>3, <1>4
<1>6. QED
  BY <1>1, <1>3, <1>4, <1>5 DEF Shifted, Numbers, M, K, L, q

\* Adding a multiple of 2^(k+1) leaves bit k.
LEMMA BitUnchanged ==
  ASSUME NEW x \in Int, NEW k \in Nat, NEW c \in Int
  PROVE  BitOf(x + c * 2^(k + 1), k) = BitOf(x, k)
<1> DEFINE P == 2^k
           u == x \div P
           r == x % P
           v == u + c * 2
<1>1. P \in Nat \ {0} /\ 2^(k + 1) = 2 * P
  BY PowerPositive, PowerStep
<1> HIDE DEF P
<1>2. x = u * P + r /\ r \in 0 .. P - 1 /\ u \in Int
  BY <1>1, Division
<1> HIDE DEF u, r
<1>3. x + c * (2 * P) = v * P + r /\ v \in Int
  <2>1. v * P = u * P + c * (2 * P) /\ u * P \in Int /\ c * (2 * P) \in Int
    BY <1>1, <1>2
  <2>2. QED
    BY <1>1, <1>2, <2>1
<1> HIDE DEF v
<1>4. (v * P + r) \div P = v
  BY <1>1, <1>2, <1>3, DivisionUnique
<1>5. v % 2 = u % 2
  BY <1>2, SameRemainder DEF v
<1>6. QED
  BY <1>1, <1>3, <1>4, <1>5 DEF BitOf, P, u

LEMMA ShiftedBits ==
  ASSUME NEW b \in Numbers, NEW s \in 0 .. N - 1, NEW k \in 0 .. N - 1
  PROVE  BitOf(Shifted(b, s), k)
           = IF k >= N - 1 - s THEN SignBit(b) ELSE BitOf(b \div 2^s, k)
<1> DEFINE q == b \div 2^s
           L == 2^(N-s)
           M == 2^N
           P == 2^k
           sign == SignBit(b)
<1>1. N \in Nat /\ s \in Nat /\ k \in Nat /\ N - s \in Nat /\ sign \in {0, 1} /\ b \in Int
  BY WordSize, TwosRange
<1>2. q \in 0 .. L - 1 /\ L \in Nat \ {0} /\ M - L \in Nat /\ M = 2^s * L /\ M \in Nat \ {0}
      /\ P \in Nat \ {0}
  BY <1>1, ShiftedRange, WordSize, PowerPositive
<1>3. Shifted(b, s) = q + sign * (M - L)
  BY DEF Shifted
<1>4. CASE k < N - s
  <2> DEFINE PP == 2^(k + 1)
             d == 2^(N - s - (k + 1))
             c == sign * ((2^s - 1) * d)
  <2>1. L = PP * d /\ PP \in Nat \ {0} /\ d \in Nat \ {0}
    <3>1. k + 1 \in 0 .. N - s
      BY <1>1, <1>4
    <3>2. QED
      BY <1>1, <3>1, PowerSplit
  <2>2. 2^s \in Nat \ {0}
    BY <1>1, PowerPositive
  <2> DEFINE K == 2^s
  <2>3. sign * (M - L) = c * PP /\ c \in Int
    <3>1. M = K * L /\ K \in Nat /\ c = sign * ((K - 1) * d)
      BY <1>2, <2>2
    <3> HIDE DEF M, L, K, PP, d, c
    <3>2. M - L = ((K - 1) * d) * PP /\ (K - 1) * d \in Int
      <4>1. M - L = (K - 1) * L
        BY <1>2, <3>1
      <4>2. (K - 1) * (PP * d) = ((K - 1) * d) * PP
        BY <2>1, <3>1
      <4>3. QED
        BY <2>1, <3>1, <4>1, <4>2
    <3> DEFINE f == (K - 1) * d
    <3>3. M - L = f * PP /\ f \in Int /\ c = sign * f
      BY <3>1, <3>2
    <3> HIDE DEF f, sign
    <3>4. CASE sign = 0
      BY <1>2, <2>1, <3>3, <3>4
    <3>5. CASE sign = 1
      BY <1>2, <2>1, <3>3, <3>5
    <3>6. QED
      BY <1>1, <3>4, <3>5
  <2>4. BitOf(Shifted(b, s), k) = BitOf(q, k)
    <3>1. q \in Int /\ k \in Nat
      BY <1>1, <1>2
    <3> HIDE DEF q, c, M, L
    <3>2. BitOf(q + c * 2^(k + 1), k) = BitOf(q, k)
      BY <2>3, <3>1, BitUnchanged
    <3>3. QED
      BY <1>3, <2>3, <3>2 DEF PP
  <2>5. ASSUME k >= N - 1 - s  PROVE BitOf(q, k) = sign
    <3>1. s + k = N - 1
      BY <1>1, <1>4, <2>5
    <3>2. 2^(N-1) = 2^s * 2^k
      BY <1>1, <3>1, PowerSum
    <3>3. q \div 2^k = b \div 2^(N-1)
      <4>1. K \in Nat \ {0} /\ 2^(N-1) = K * P
        BY <2>2, <3>2
      <4> HIDE DEF K, P
      <4>2. (b \div K) \div P = b \div (K * P)
        BY <1>1, <1>2, <4>1, DivideTwice
      <4>3. QED
        BY <4>1, <4>2 DEF K, P
    <3>4. BitOf(q, k) = sign % 2
      BY <3>3 DEF BitOf, SignBit
    <3>5. QED
      BY <1>1, <3>4
  <2>6. QED
    BY <2>4, <2>5 DEF q, sign
<1>5. CASE k >= N - s
  <2> DEFINE R == 2^(N - k)
             y == Shifted(b, s)
  <2>1. M = P * R /\ R \in Nat \ {0} /\ R % 2 = 0
    <3>1. N - k \in Nat \ {0} /\ k \in 0 .. N
      BY <1>1
    <3>2. 2^(N-k) = 2 * 2^((N-k)-1) /\ 2^((N-k)-1) \in Nat \ {0}
      BY <3>1, TopBit
    <3> DEFINE g == 2^((N-k)-1)
    <3>3. R = 2 * g /\ g \in Nat \ {0}
      BY <3>2
    <3> HIDE DEF g, R
    <3>4. R % 2 = 0 /\ R \in Nat \ {0}
      BY <3>3
    <3>5. QED
      BY <1>1, <3>1, <3>4, PowerSplit DEF R
  <2>2. L <= P
    <3>1. P = L * 2^(k - (N - s)) /\ 2^(k - (N - s)) \in Nat \ {0}
      BY <1>1, <1>5, PowerSplit
    <3> DEFINE g == 2^(k - (N - s))
    <3>2. P = L * g /\ g \in Nat \ {0}
      BY <3>1
    <3> HIDE DEF g, L, P
    <3>3. L * g >= L * 1
      BY <1>2, <3>2
    <3>4. QED
      BY <1>2, <3>2, <3>3
  <2> HIDE DEF q, L, M, P, R, sign
  <2>3. CASE sign = 0
    <3>1. y = 0 * P + q /\ q \in 0 .. P - 1
      BY <1>2, <1>3, <2>2, <2>3
    <3> HIDE DEF y
    <3>2. (0 * P + q) \div P = 0
      BY <1>2, <3>1, DivisionUnique
    <3>3. BitOf(y, k) = 0
      BY <3>1, <3>2 DEF BitOf, P
    <3>4. QED
      BY <1>1, <1>5, <2>3, <3>3 DEF y, sign
  <2>4. CASE sign = 1
    <3> DEFINE e == q + (P - L)
               l == R - 1
    <3>1. y = l * P + e /\ e \in 0 .. P - 1 /\ l \in Int
      <4>1. l * P = M - P
        BY <1>2, <2>1
      <4>2. QED
        BY <1>2, <1>3, <2>1, <2>2, <2>4, <4>1
    <3>2. l % 2 = 1
      BY <2>1
    <3> HIDE DEF y, e, l
    <3>3. (l * P + e) \div P = l
      BY <1>2, <3>1, DivisionUnique
    <3>4. BitOf(y, k) = 1
      BY <3>1, <3>2, <3>3 DEF BitOf, P
    <3>5. QED
      BY <1>1, <1>5, <2>4, <3>4 DEF y, sign
  <2>5. QED
    BY <1>1, <2>3, <2>4
<1>6. QED
  BY <1>1, <1>4, <1>5

LEMMA SraIsShifted ==
  ASSUME NEW b \in Numbers, NEW s \in 0 .. N - 1
  PROVE  sra(b, s) = Shifted(b, s)
<1> DEFINE bits == [k \in 0 .. N-1 |->
                      IF k >= N - 1 - s THEN SignBit(b) ELSE BitOf(b \div 2^s, k)]
           y == Shifted(b, s)
<1>1. y \in Numbers
  BY ShiftedRange
<1>2. \A k \in 0 .. N - 1 : BitOf(y, k) = bits[k]
  BY ShiftedBits
<1>3. sra(b, s) = CHOOSE x \in Numbers : \A k \in 0 .. N-1 : BitOf(x, k) = bits[k]
  BY DEF sra, FromBits
<1> HIDE DEF bits, y
<1>4. \A x \in Numbers : (\A k \in 0 .. N-1 : BitOf(x, k) = bits[k]) => x = y
  BY <1>1, <1>2, BitsDetermine
<1>5. QED
  BY <1>1, <1>2, <1>3, <1>4 DEF y

\* An arithmetic shift rounds the signed number down.
LEMMA SraRight ==
  ASSUME NEW b \in Numbers, NEW s \in 0 .. N - 1
  PROVE  ShiftedDown(Twos(b), s, Twos(sra(b, s)))
<1> DEFINE M == 2^N
           K == 2^s
           L == 2^(N-s)
           h == 2^(N-1)
           q == b \div K
           y == Shifted(b, s)
<1>1. /\ q \in 0 .. L - 1 /\ M = K * L /\ K \in Nat \ {0} /\ L \in Nat \ {0}
      /\ M \in Nat \ {0} /\ h \in Nat \ {0} /\ M = 2 * h /\ y \in Numbers
  BY ShiftedRange, WordSize
<1>2. /\ b \in Nat /\ b < M /\ SignBit(b) = (IF b >= h THEN 1 ELSE 0)
      /\ Twos(b) = IF b >= h THEN b - M ELSE b
  BY TwosRange
<1>3. Twos(y) = IF y >= h THEN y - M ELSE y
  BY <1>1, TwosRange
<1>4. y = q + SignBit(b) * (M - L)
  BY DEF Shifted
<1>5. K * q <= b /\ b < K * (q + 1)
  BY <1>2, SrlRight DEF ShiftedDown
<1>6. (s = 0 /\ K = 1) \/ L <= h
  <2>1. CASE s = 0
    BY <2>1, PowerZero
  <2>2. CASE s # 0
    <3>1. N - s \in 0 .. N - 1 /\ N - 1 \in Nat
      BY <2>2, WordSize
    <3> DEFINE g == 2^((N - 1) - (N - s))
    <3>2. h = L * g /\ g \in Nat \ {0}
      BY <3>1, PowerSplit
    <3> HIDE DEF h, L, g
    <3>3. L * g >= L * 1
      BY <1>1, <3>2
    <3>4. QED
      BY <1>1, <3>2, <3>3
  <2>3. QED
    BY <2>1, <2>2
<1> HIDE DEF M, K, L, h, q, y
<1>7. Twos(y) = IF b >= h THEN q - L ELSE q
  <2>1. CASE s = 0 /\ K = 1
    <3>1. q = b /\ L = M
      BY <1>1, <1>2, <1>5, <2>1
    <3>2. QED
      BY <1>1, <1>2, <1>3, <1>4, <3>1
  <2>2. CASE L <= h
    BY <1>1, <1>2, <1>3, <1>4, <2>2
  <2>3. QED
    BY <1>6, <2>1, <2>2
<1>8. K * Twos(y) <= Twos(b) /\ Twos(b) < K * (Twos(y) + 1)
  <2>1. CASE b >= h
    <3>1. K * (q - L) = K * q - M /\ K * ((q - L) + 1) = K * (q + 1) - M
          /\ K * q \in Int /\ K * (q + 1) \in Int
      BY <1>1
    <3>2. QED
      BY <1>1, <1>2, <1>5, <1>7, <2>1, <3>1
  <2>2. CASE ~(b >= h)
    BY <1>2, <1>5, <1>7, <2>2
  <2>3. QED
    BY <2>1, <2>2
<1>9. QED
  BY <1>8, SraIsShifted DEF ShiftedDown, K, y

-----------------------------------------------------------------------------
(* Products, quotients and remainders. *)

LEMMA MultuRight ==
  ASSUME NEW a \in Numbers, NEW b \in Numbers
  PROVE  a * b = 2^N * ((a * b) \div 2^N) + ((a * b) % 2^N)
<1> DEFINE M == 2^N
           x == a * b
<1>1. M \in Nat \ {0} /\ x \in Int
  BY WordSize, TwosRange
<1> HIDE DEF M, x
<1>2. x = (x \div M) * M + (x % M) /\ x \div M \in Int
  BY <1>1, Division
<1>3. QED
  BY <1>1, <1>2 DEF M, x

\* The lower half of the product of two words is the one of the signed numbers.
LEMMA ProductWraps ==
  ASSUME NEW a \in Numbers, NEW b \in Numbers
  PROVE  Same((a * b) % 2^N, Twos(a) * Twos(b))
<1> DEFINE M == 2^N
           r == (a * b) % M
<1>1. M \in Nat \ {0} /\ a \in Int /\ b \in Int /\ a * b \in Int
  BY WordSize, TwosRange
<1>2. PICK i \in Int : Twos(a) = a + i * M
  BY TwosWraps
<1>3. PICK j \in Int : Twos(b) = b + j * M
  BY TwosWraps
<1>4. PICK k \in Int : r = a * b + k * M
  BY <1>1, CutWraps
<1> HIDE DEF M
<1> DEFINE c == a * j + i * b + i * j * M
<1>5. Twos(a) * Twos(b) = a * b + c * M
  <2>1. (a + i * M) * (b + j * M) = a * b + (a * j + i * b + i * j * M) * M
    BY <1>1
  <2>2. QED
    BY <1>2, <1>3, <2>1
<1>6. c \in Int /\ r \in Int
  BY <1>1, <1>4
<1> HIDE DEF c, r
<1>7. r = Twos(a) * Twos(b) + (k - c) * M /\ k - c \in Int /\ Twos(a) * Twos(b) \in Int
  <2> DEFINE p == a * b
             t == Twos(a) * Twos(b)
  <2>1. p \in Int /\ t = p + c * M /\ r = p + k * M
    BY <1>1, <1>4, <1>5
  <2> HIDE DEF p, t
  <2>2. r = t + (k - c) * M /\ k - c \in Int /\ t \in Int
    BY <1>1, <1>6, <2>1
  <2>3. QED
    BY <2>2 DEF t
<1>8. Same(r, Twos(a) * Twos(b))
  BY <1>6, <1>7, SameWhen DEF M
<1>9. QED
  BY <1>8 DEF r, M

\* The product of two words that are not negative has an upper half that is not.
LEMMA MultRight ==
  ASSUME NEW a \in Numbers, NEW b \in Numbers, ~(Twos(a) < 0 \/ Twos(b) < 0)
  PROVE  Twos(a) * Twos(b) = 2^N * Twos((a * b) \div 2^N) + ((a * b) % 2^N)
<1> DEFINE M == 2^N
           h == 2^(N-1)
           x == a * b
           q == x \div M
<1>1. M \in Nat \ {0} /\ h \in Nat \ {0} /\ M = 2 * h
  BY WordSize
<1>2. a \in Nat /\ b \in Nat /\ Twos(a) = a /\ Twos(b) = b /\ a < h /\ b < h
  <2>1. a \in Nat /\ a < M /\ Twos(a) = IF a >= h THEN a - M ELSE a
    BY TwosRange
  <2>2. b \in Nat /\ b < M /\ Twos(b) = IF b >= h THEN b - M ELSE b
    BY TwosRange
  <2>3. QED
    BY <1>1, <2>1, <2>2
<1> HIDE DEF M, h
<1>3. x \in 0 .. M * h - 1
  <2>1. a * b <= a * h /\ a * h <= (h - 1) * h
    BY <1>1, <1>2
  <2>2. a * b >= 0 /\ a * b \in Int /\ (h - 1) * h = h * h - h /\ M * h = 2 * (h * h) /\ h * h > 0
    BY <1>1, <1>2
  <2> DEFINE hh == h * h
             ah == a * h
  <2>3. x <= ah /\ ah <= hh - h /\ x >= 0 /\ x \in Int /\ M * h = 2 * hh /\ hh > 0
        /\ hh \in Int /\ ah \in Int
    BY <1>1, <1>2, <2>1, <2>2
  <2> HIDE DEF hh, ah, x
  <2>4. QED
    BY <1>1, <2>3
<1> HIDE DEF x
<1>4. q \in 0 .. h - 1
  BY <1>1, <1>3, QuotientBelow
<1> HIDE DEF q
<1>5. q \in Numbers /\ Twos(q) = q
  <2>1. q \in Numbers
    BY <1>1, <1>4 DEF Numbers, M
  <2>2. Twos(q) = IF q >= h THEN q - M ELSE q
    BY <2>1, TwosRange DEF h, M
  <2>3. QED
    BY <1>1, <1>4, <2>1, <2>2
<1>6. a * b = M * q + ((a * b) % M)
  BY MultuRight DEF M, q, x
<1>7. QED
  BY <1>2, <1>5, <1>6 DEF M, q, x

LEMMA DivuRight ==
  ASSUME NEW a \in Numbers, NEW b \in Numbers, b # 0
  PROVE  Divides(a, b, a \div b, a % b)
<1> DEFINE q == a \div b
           r == a % b
<1>1. a \in Nat /\ a \in Int /\ b \in Nat \ {0}
  BY TwosRange
<1>2. a = q * b + r /\ r \in 0 .. b - 1 /\ q \in Int
  BY <1>1, Division
<1>3. a <= 0 => r <= 0
  BY <1>1
<1> HIDE DEF q, r
<1>4. Divides(a, b, q, r)
  BY <1>1, <1>2, <1>3 DEF Divides, Abs
<1>5. QED
  BY <1>4 DEF q, r

\* Division that rounds towards zero, of numbers of any sign.
LEMMA SignedDivision ==
  ASSUME NEW x \in Int, NEW y \in Int, y # 0
  PROVE  /\ Divides(x, y, Quotient(x, y), Remainder(x, y))
         /\ Quotient(x, y) \in Int /\ Remainder(x, y) \in Int
         /\ Abs(Quotient(x, y)) <= Abs(x)
         /\ Abs(Quotient(x, y)) = Abs(x) /\ x # 0 => Abs(y) = 1
         /\ Quotient(x, y) > 0 => ((x < 0) <=> (y < 0))
<1> DEFINE u == Abs(x)
           v == Abs(y)
           p == u \div v
           r == u % v
<1>1. u \in Nat /\ u \in Int /\ v \in Nat \ {0} /\ u = (IF x < 0 THEN -x ELSE x) /\ v = (IF y < 0 THEN -y ELSE y)
  BY DEF Abs
<1>2. Quotient(x, y) = IF (x < 0) = (y < 0) THEN p ELSE -p
  BY DEF Quotient
<1> HIDE DEF u, v
<1>3. u = p * v + r /\ r \in 0 .. v - 1 /\ p \in Nat
  <2>1. u \in Nat /\ u \in Int /\ v \in Nat \ {0}
    BY <1>1
  <2>2. u = p * v + r /\ r \in 0 .. v - 1 /\ p \in Int
    BY <2>1, Division
  <2>3. p \in Nat
    BY <2>1
  <2>4. QED
    BY <2>2, <2>3
<1>4. u = 0 => p = 0 /\ r = 0
  BY <1>1
<1> HIDE DEF p, r
<1>5. p <= u /\ (p = u /\ u # 0 => v = 1)
  <2>1. p * v >= p * 1 /\ p * v \in Int
    BY <1>1, <1>3
  <2>2. ASSUME v >= 2  PROVE p * v >= p * 2
    BY <1>1, <1>3, <2>2
  <2>3. QED
    BY <1>1, <1>3, <2>1, <2>2
<1>6. (-p) * v = -(p * v) /\ (-p) * (-v) = p * v /\ p * (-v) = -(p * v) /\ p * v \in Int
  BY <1>1, <1>3
<1> DEFINE pv == p * v
           Q == Quotient(x, y)
<1>7. u = pv + r /\ pv \in Int /\ Remainder(x, y) = x - y * Q
  BY <1>3, <1>6 DEF Remainder
<1>8. CASE (x < 0) <=> (y < 0)
  <2>1. Q = p
    BY <1>2, <1>8
  <2>2. y * Q = (IF y < 0 THEN -pv ELSE pv) /\ Q * y = y * Q
    BY <1>1, <1>3, <1>6, <2>1
  <2> HIDE DEF pv, Q
  <2>3. Remainder(x, y) = (IF x < 0 THEN -r ELSE r) /\ x = Q * y + Remainder(x, y)
    BY <1>1, <1>3, <1>7, <1>8, <2>2
  <2>4. QED
    BY <1>1, <1>3, <1>4, <1>5, <1>8, <2>1, <2>3 DEF Divides, Abs, u, v, Q
<1>9. CASE ~((x < 0) <=> (y < 0))
  <2>1. Q = -p
    BY <1>2, <1>9
  <2>2. y * Q = (IF y < 0 THEN pv ELSE -pv) /\ Q * y = y * Q
    BY <1>1, <1>3, <1>6, <2>1
  <2> HIDE DEF pv, Q
  <2>3. Remainder(x, y) = (IF x < 0 THEN -r ELSE r) /\ x = Q * y + Remainder(x, y)
    BY <1>1, <1>3, <1>7, <1>9, <2>2
  <2>4. QED
    BY <1>1, <1>3, <1>4, <1>5, <1>9, <2>1, <2>3 DEF Divides, Abs, u, v, Q
<1>10. QED
  BY <1>8, <1>9

\* DIV is right but for the one quotient that does not fit.
LEMMA DivRight ==
  ASSUME NEW a \in Numbers, NEW b \in Numbers, b # 0,
         ~(Twos(a) = -(2^(N-1)) /\ Twos(b) = -1)
  PROVE  Divides(Twos(a), Twos(b), Twos(Quotient(Twos(a), Twos(b)) % 2^N),
                                   Twos(Remainder(Twos(a), Twos(b)) % 2^N))
<1> DEFINE M == 2^N
           h == 2^(N-1)
           x == Twos(a)
           y == Twos(b)
           Q == Quotient(x, y)
           R == Remainder(x, y)
<1>1. M \in Nat \ {0} /\ h \in Nat \ {0} /\ M = 2 * h
  BY WordSize
<1>2. x \in Int /\ -h <= x /\ x < h /\ y \in Int /\ -h <= y /\ y < h
  BY TwosRange
<1>3. y # 0
  <2>1. b \in Nat /\ b < M /\ y = IF b >= h THEN b - M ELSE b
    BY TwosRange
  <2> HIDE DEF y, M, h
  <2>2. QED
    BY <1>1, <2>1
<1>4. ~(x = -h /\ y = -1)
  OBVIOUS
<1> HIDE DEF x, y
<1>5. /\ Divides(x, y, Q, R) /\ Q \in Int /\ R \in Int /\ Abs(Q) <= Abs(x)
      /\ Abs(Q) = Abs(x) /\ x # 0 => Abs(y) = 1
      /\ Q > 0 => ((x < 0) <=> (y < 0))
  BY <1>2, <1>3, SignedDivision
<1> HIDE DEF M, h, Q, R
<1>6. -h <= Q /\ Q < h
  BY <1>1, <1>2, <1>4, <1>5 DEF Abs
<1>7. -h <= R /\ R < h
  <2>1. Abs(R) < Abs(y)
    BY <1>5 DEF Divides
  <2>2. QED
    BY <1>1, <1>2, <1>5, <2>1 DEF Abs
<1>8. Twos(Q % M) = Q /\ Twos(R % M) = R
  BY <1>5, <1>6, <1>7, TwosOfCut DEF M, h
<1>9. Divides(x, y, Twos(Q % M), Twos(R % M))
  BY <1>5, <1>8
<1>10. QED
  BY <1>9 DEF M, x, y, Q, R

-----------------------------------------------------------------------------
(* The ALU. *)

LEMMA SingleRight ==
  ASSUME NEW i \in Calculations, i.op \notin Products, NEW old,
         ~(i.op = "slt" /\ Twos(i.a) < 0 /\ Twos(i.b) >= 0 /\ Rest(i.a) > Rest(i.b)),
         ~(i.op = "sllv" /\ i.a >= N)
  PROVE  ComputesRight(i, Calculation(i, old), old)
<1> DEFINE a == i.a
           b == i.b
           s == i.shift
           r == aluResult(i.op, a, b, s)
           res == Calculation(i, old)
<1>1. res.result = r
  BY DEF Calculation
<1>2. N \in Nat \ {0} /\ 0 \in Numbers /\ 0 \in 0 .. N - 1
  BY WordSize DEF Numbers
<1>3. a \in Numbers /\ b \in Numbers /\ s \in 0 .. N - 1 /\ i.op \in ALUOps
  BY <1>2 DEF Calculations, ALUOps
<1>4. a \in Nat /\ b \in Nat /\ s \in Nat /\ a % N \in 0 .. N - 1 /\ a % N \in Nat
  BY <1>2, <1>3, TwosRange
<1> HIDE DEF a, b, s, r, res
<1>5. CASE i.op = "add"
  <2>1. r = (a + b) % 2^N
    BY <1>5, Zenon DEF r, aluResult
  <2>2. ComputesRight(i, res, old) <=> Same(Twos(r), Twos(a) + Twos(b))
    BY <1>1, <1>5, Zenon DEF ComputesRight, a, b
  <2>3. QED
    BY <1>3, <2>1, <2>2, AddRight DEF res
<1>6. CASE i.op = "sub"
  <2>1. r = (a - b) % 2^N
    BY <1>6, Zenon DEF r, aluResult
  <2>2. ComputesRight(i, res, old) <=> Same(Twos(r), Twos(a) - Twos(b))
    BY <1>1, <1>6, Zenon DEF ComputesRight, a, b
  <2>3. QED
    BY <1>3, <2>1, <2>2, SubRight DEF res
<1>7. CASE i.op = "address"
  <2>1. r = (a + Extended(b)) % 2^N
    BY <1>7, Zenon DEF r, aluResult
  <2>2. ComputesRight(i, res, old) <=>
          \E d \in -(HalfN \div 2) .. HalfN \div 2 - 1 :
             (d - b) % HalfN = 0 /\ Same(r, a + d)
    BY <1>1, <1>7, Zenon DEF ComputesRight, a, b
  <2>3. QED
    BY <1>3, <2>1, <2>2, AddressRight DEF res
<1>8. CASE i.op = "lui"
  <2>1. r = (b % HalfN) * HalfN
    BY <1>8, Zenon DEF r, aluResult
  <2>2. ComputesRight(i, res, old) <=> r = (b * HalfN) % 2^N
    BY <1>1, <1>8, Zenon DEF ComputesRight, b
  <2>3. QED
    BY <1>3, <2>1, <2>2, LuiRight DEF res
<1>9. CASE i.op = "sll"
  <2>1. r = (b * 2^s) % 2^N
    BY <1>9, Zenon DEF r, aluResult
  <2>2. ComputesRight(i, res, old) <=> Same(r, b * 2^s)
    BY <1>1, <1>9, Zenon DEF ComputesRight, b, s
  <2>3. b * 2^s \in Int
    BY <1>4, PowerPositive
  <2>4. QED
    BY <2>1, <2>2, <2>3, CutSame DEF res
<1>10. CASE i.op = "sllv"
  <2>1. r = (b * 2^a) % 2^N
    BY <1>10, Zenon DEF r, aluResult
  <2>2. ComputesRight(i, res, old) <=> Same(r, b * 2^(a % N))
    BY <1>1, <1>10, Zenon DEF ComputesRight, a, b
  <2>3. a % N = a
    <3>1. a < N
      BY <1>2, <1>4, <1>10 DEF a
    <3>2. QED
      BY <1>2, <1>4, <3>1
  <2>4. b * 2^a \in Int
    BY <1>4, PowerPositive
  <2>5. QED
    BY <2>1, <2>2, <2>3, <2>4, CutSame DEF res
<1>11. CASE i.op = "srl"
  <2>1. r = b \div 2^s
    BY <1>11, Zenon DEF r, aluResult
  <2>2. ComputesRight(i, res, old) <=> ShiftedDown(b, s, r)
    BY <1>1, <1>11, Zenon DEF ComputesRight, b, s
  <2>3. QED
    BY <1>3, <1>4, <2>1, <2>2, SrlRight DEF res
<1>12. CASE i.op = "srlv"
  <2>1. r = b \div 2^(a % N)
    BY <1>12, Zenon DEF r, aluResult
  <2>2. ComputesRight(i, res, old) <=> ShiftedDown(b, a % N, r)
    BY <1>1, <1>12, Zenon DEF ComputesRight, a, b
  <2>3. QED
    BY <1>3, <1>4, <2>1, <2>2, SrlRight DEF res
<1>13. CASE i.op = "sra"
  <2>1. r = sra(b, s)
    BY <1>13, Zenon DEF r, aluResult
  <2>2. ComputesRight(i, res, old) <=> ShiftedDown(Twos(b), s, Twos(r))
    BY <1>1, <1>13, Zenon DEF ComputesRight, b, s
  <2>3. QED
    BY <1>3, <2>1, <2>2, SraRight DEF res
<1>14. CASE i.op = "srav"
  <2>1. r = sra(b, a % N)
    BY <1>14, Zenon DEF r, aluResult
  <2>2. ComputesRight(i, res, old) <=> ShiftedDown(Twos(b), a % N, Twos(r))
    BY <1>1, <1>14, Zenon DEF ComputesRight, a, b
  <2>3. QED
    BY <1>3, <1>4, <2>1, <2>2, SraRight DEF res
<1>15. CASE i.op = "slt"
  <2>1. r = slt(a, b)
    BY <1>15, Zenon DEF r, aluResult
  <2>2. ComputesRight(i, res, old) <=> r = Less(Twos(a), Twos(b))
    BY <1>1, <1>15, Zenon DEF ComputesRight, a, b
  <2>3. ~(Twos(a) < 0 /\ Twos(b) >= 0 /\ Rest(a) > Rest(b))
    BY <1>15 DEF a, b
  <2>4. QED
    BY <1>3, <2>1, <2>2, <2>3, SltRight DEF res
<1>16. CASE i.op = "sltu"
  <2>1. r = IF a >= b THEN 0 ELSE 1
    BY <1>16, Zenon DEF r, aluResult
  <2>2. ComputesRight(i, res, old) <=> r = Less(a, b)
    BY <1>1, <1>16, Zenon DEF ComputesRight, a, b
  <2>3. QED
    BY <1>4, <2>1, <2>2 DEF res, Less
<1>17. QED
  BY <1>3, <1>5, <1>6, <1>7, <1>8, <1>9, <1>10, <1>11, <1>12, <1>13, <1>14, <1>15, <1>16
     DEF ALUOps, Shifts, ShiftsByRegister, Single

LEMMA ProductsRight ==
  ASSUME NEW i \in Calculations, i.op \in Products, NEW old,
         ~(i.op = "mult" /\ (Twos(i.a) < 0 \/ Twos(i.b) < 0)),
         ~(i.op = "div" /\ Twos(i.a) = -(2^(N-1)) /\ Twos(i.b) = -1)
  PROVE  ComputesRight(i, Calculation(i, old), old)
<1> DEFINE a == i.a
           b == i.b
           res == Calculation(i, old)
<1>1. res = HI_LO(i.op, a, b, old)
  BY DEF Calculation
<1>2. a \in Numbers /\ b \in Numbers
  BY WordSize DEF Calculations, Numbers
<1> HIDE DEF a, b, res
<1>3. CASE i.op = "multu"
  <2>1. res = [HI |-> (a * b) \div 2^N, LO |-> (a * b) % 2^N]
    BY <1>1, <1>3, Zenon DEF HI_LO
  <2>2. ComputesRight(i, res, old) <=> a * b = 2^N * res.HI + res.LO
    BY <1>3, Zenon DEF ComputesRight, a, b
  <2>3. res.HI = (a * b) \div 2^N /\ res.LO = (a * b) % 2^N
    BY <2>1
  <2>4. QED
    BY <1>2, <2>2, <2>3, MultuRight DEF res
<1>4. CASE i.op = "mult"
  <2>1. res = [HI |-> (a * b) \div 2^N, LO |-> (a * b) % 2^N]
    BY <1>1, <1>4, Zenon DEF HI_LO
  <2>2. ComputesRight(i, res, old) <=> Twos(a) * Twos(b) = 2^N * Twos(res.HI) + res.LO
    BY <1>4, Zenon DEF ComputesRight, a, b
  <2>3. res.HI = (a * b) \div 2^N /\ res.LO = (a * b) % 2^N
    BY <2>1
  <2>4. ~(Twos(a) < 0 \/ Twos(b) < 0)
    BY <1>4 DEF a, b
  <2>5. QED
    BY <1>2, <2>2, <2>3, <2>4, MultRight DEF res
<1>5. CASE i.op = "divu" /\ b = 0
  <2>1. res = old
    BY <1>1, <1>5, Zenon DEF HI_LO
  <2>2. ComputesRight(i, res, old) <=> res = old
    BY <1>5, Zenon DEF ComputesRight, b
  <2>3. QED
    BY <2>1, <2>2 DEF res
<1>6. CASE i.op = "divu" /\ b # 0
  <2>1. res = [HI |-> a % b, LO |-> a \div b]
    BY <1>1, <1>6, Zenon DEF HI_LO
  <2>2. ComputesRight(i, res, old) <=> Divides(a, b, res.LO, res.HI)
    BY <1>6, Zenon DEF ComputesRight, a, b
  <2>3. res.HI = a % b /\ res.LO = a \div b
    BY <2>1
  <2>4. QED
    BY <1>2, <1>6, <2>2, <2>3, DivuRight DEF res
<1>7. CASE i.op = "div" /\ b = 0
  <2>1. res = old
    BY <1>1, <1>7, Zenon DEF HI_LO
  <2>2. ComputesRight(i, res, old) <=> res = old
    BY <1>7, Zenon DEF ComputesRight, b
  <2>3. QED
    BY <2>1, <2>2 DEF res
<1>8. CASE i.op = "div" /\ b # 0
  <2>1. res = [HI |-> Remainder(Twos(a), Twos(b)) % 2^N, LO |-> Quotient(Twos(a), Twos(b)) % 2^N]
    BY <1>1, <1>8, Zenon DEF HI_LO
  <2>2. ComputesRight(i, res, old) <=> Divides(Twos(a), Twos(b), Twos(res.LO), Twos(res.HI))
    BY <1>8, Zenon DEF ComputesRight, a, b
  <2>3. res.HI = Remainder(Twos(a), Twos(b)) % 2^N /\ res.LO = Quotient(Twos(a), Twos(b)) % 2^N
    BY <2>1
  <2>4. ~(Twos(a) = -(2^(N-1)) /\ Twos(b) = -1)
    BY <1>8 DEF a, b
  <2>5. QED
    BY <1>2, <1>8, <2>2, <2>3, <2>4, DivRight DEF res
<1>9. QED
  BY <1>3, <1>4, <1>5, <1>6, <1>7, <1>8 DEF Products

\* The ALU computes what the architecture says, for words of every width; the
\* operands where it does not are the ones that Exceptional names.
THEOREM CalculationsRight == ISpec => []ComputesLikeMIPS
<1>1. ASSUME OutRight, out # Undecided, instr.op \in ALUOps
      PROVE  /\ ~Exceptional => ComputesRight(instr, out, HILO)
             /\ instr.op = "mult" => Same(out.LO, Twos(instr.a) * Twos(instr.b))
  <2>1. instr \in Calculations /\ out = Calculation(instr, HILO)
    BY <1>1, Apart DEF OutRight, Branches
  <2>2. ASSUME ~Exceptional  PROVE ComputesRight(instr, out, HILO)
    BY <2>1, <2>2, SingleRight, ProductsRight DEF Exceptional
  <2>3. ASSUME instr.op = "mult"
        PROVE  Same(out.LO, Twos(instr.a) * Twos(instr.b))
    <3>1. instr.a \in Numbers /\ instr.b \in Numbers
      BY <2>1, WordSize DEF Calculations, Numbers
    <3>2. HI_LO(instr.op, instr.a, instr.b, HILO)
            = [HI |-> (instr.a * instr.b) \div 2^N, LO |-> (instr.a * instr.b) % 2^N]
      BY <2>3, Zenon DEF HI_LO
    <3>3. out.LO = (instr.a * instr.b) % 2^N
      BY <2>1, <2>3, <3>2 DEF Calculation, Products
    <3>4. QED
      BY <3>1, <3>3, ProductWraps
  <2>4. QED
    BY <2>2, <2>3
<1>2. OutRight => ComputesLikeMIPS
  BY <1>1 DEF ComputesLikeMIPS
<1>3. QED
  BY <1>2, OutInvariant, PTL
=============================================================================
