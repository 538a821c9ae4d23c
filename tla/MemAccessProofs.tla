-------------------------- MODULE MemAccessProofs --------------------------
(* Loads and stores of every size and alignment, for any memory.             *)
EXTENDS MemAccess, SequenceTheorems, TLAPS

\* After LWL or SWL the bytes of the register up to the end of the aligned word
\* are those in memory from the address on; after LWR or SWR, the bytes from
\* the start of the word are those up to the address.  This is what the second
\* instruction of a pair finds.
Halves ==
    LET a == last.address
    IN  /\ a \in Address
        /\ \A i \in Lanes :
           /\ last.op \in {"lwl", "swl"} /\ i + (a % 4) <= 3 => reg[i] = MAIN_MEMORY[a + i]
           /\ last.op \in {"lwr", "swr"} /\ i + (a % 4) >= 3 => reg[i] = MAIN_MEMORY[a + i - 3]

LEMMA Alignment ==
  ASSUME NEW a \in Address
  PROVE  /\ a \in Nat /\ a % 4 \in 0 .. 3
         /\ MemReadAddress(a) \in Nat /\ MemReadAddress(a) + 3 <= Top
<1>1. a \in Nat /\ a <= Top /\ a % 4 \in 0 .. 3
  BY MemoryAssumption DEF Address
<1>2. a = 4 * (a \div 4) + (a % 4) /\ Top = 4 * (Top \div 4) + 3
  BY <1>1, MemoryAssumption
<1>3. a \div 4 \in Nat /\ Top \div 4 \in Nat
  BY <1>1, MemoryAssumption
<1>4. a \div 4 <= Top \div 4
  BY <1>1, <1>2, <1>3
<1>5. QED
  BY <1>1, <1>2, <1>3, <1>4 DEF MemReadAddress

\* Where the bytes that a store hands out go.
LEMMA LeftWritten ==
  ASSUME NEW at \in Nat, NEW k \in 0 .. 3
  PROVE  Written(at, LeftBytes(k, reg))
           = [x \in Address |-> IF x \in at .. at + 3 - k THEN reg[x - at] ELSE MAIN_MEMORY[x]]
<1> DEFINE bytes == LeftBytes(k, reg)
<1>1. Len(bytes) = 4 - k /\ \A i \in 1 .. 4 - k : bytes[i] = reg[i - 1]
  BY DEF LeftBytes
<1> HIDE DEF bytes
<1>2. \A x \in at .. at + 3 - k : bytes[x - at + 1] = reg[x - at]
  <2>1. TAKE x \in at .. at + 3 - k
  <2>2. x - at + 1 \in 1 .. 4 - k /\ (x - at + 1) - 1 = x - at
    OBVIOUS
  <2>3. QED
    BY <1>1, <2>2
<1>3. at .. at + Len(bytes) - 1 = at .. at + 3 - k
  BY <1>1
<1>4. QED
  BY <1>2, <1>3, Zenon DEF Written, bytes

LEMMA RightWritten ==
  ASSUME NEW at \in Nat, NEW k \in 0 .. 3
  PROVE  Written(at, RightBytes(k, reg))
           = [x \in Address |-> IF x \in at .. at + k THEN reg[3 - k + x - at] ELSE MAIN_MEMORY[x]]
<1> DEFINE bytes == RightBytes(k, reg)
<1>1. Len(bytes) = k + 1 /\ \A i \in 1 .. k + 1 : bytes[i] = reg[3 - k + i - 1]
  BY DEF RightBytes
<1> HIDE DEF bytes
<1>2. \A x \in at .. at + k : bytes[x - at + 1] = reg[3 - k + x - at]
  <2>1. TAKE x \in at .. at + k
  <2>2. x - at + 1 \in 1 .. k + 1 /\ 3 - k + (x - at + 1) - 1 = 3 - k + x - at
    OBVIOUS
  <2>3. QED
    BY <1>1, <2>2
<1>3. at .. at + Len(bytes) - 1 = at .. at + k
  BY <1>1
<1>4. QED
  BY <1>2, <1>3, Zenon DEF Written, bytes

\* The addresses that a store writes, and the byte of the register that goes to
\* address x, the two operands of data_write and MemWriteAddress put together.
FirstWritten(op, a) == IF op = "swr" THEN a - (a % 4) ELSE a

LastWritten(op, a) ==
    CASE op \in {"sw", "sc"} -> a + 3
      [] op \in {"sb", "swr"} -> a
      [] op = "sh" -> a + 1
      [] op = "swl" -> a + 3 - (a % 4)

LaneOf(op, a, x) ==
    CASE op \in {"sw", "sc", "swl"} -> x - a
      [] op \in {"sb", "swr"} -> 3 + x - a
      [] op = "sh" -> 2 + x - a

LEMMA StoreEffect ==
  ASSUME NEW op \in Stores, NEW a \in Address, Store(op, a)
  PROVE  \A x \in Address :
            MAIN_MEMORY'[x] = IF x >= FirstWritten(op, a) /\ x <= LastWritten(op, a)
                              THEN reg[LaneOf(op, a, x)] ELSE MAIN_MEMORY[x]
<1> DEFINE k == a % 4
<1>1. a \in Nat /\ k \in 0 .. 3 /\ a - k \in Nat /\ 0 \in 0 .. 3 /\ 1 \in 0 .. 3
  BY Alignment DEF MemReadAddress
<1>2. MAIN_MEMORY' = Written(MemWriteAddress(op, a), data_write(op, k, reg))
  BY DEF Store
<1> HIDE DEF k
<1>3. CASE op \in {"sw", "sc"}
  <2>1. MAIN_MEMORY' = Written(a, LeftBytes(0, reg))
    BY <1>2, <1>3 DEF data_write, MemWriteAddress
  <2>2. \A x \in Address :
           MAIN_MEMORY'[x] = IF x >= a /\ x <= a + 3 THEN reg[x - a] ELSE MAIN_MEMORY[x]
    <3>1. TAKE x \in Address
    <3>2. x \in Nat
      BY DEF Address
    <3>3. Written(a, LeftBytes(0, reg))
            = [y \in Address |-> IF y \in a .. a + 3 - 0 THEN reg[y - a] ELSE MAIN_MEMORY[y]]
      BY <1>1, LeftWritten, Zenon
    <3>4. MAIN_MEMORY'[x] = IF x \in a .. a + 3 - 0 THEN reg[x - a] ELSE MAIN_MEMORY[x]
      BY <2>1, <3>3
    <3>5. QED
      BY <1>1, <3>2, <3>4
  <2>3. QED
    BY <1>3, <2>2 DEF FirstWritten, LastWritten, LaneOf
<1>4. CASE op = "sb"
  <2>1. MAIN_MEMORY' = Written(a, RightBytes(0, reg))
    BY <1>2, <1>4 DEF data_write, MemWriteAddress
  <2>2. \A x \in Address :
           MAIN_MEMORY'[x] = IF x >= a /\ x <= a THEN reg[3 + x - a] ELSE MAIN_MEMORY[x]
    <3>1. TAKE x \in Address
    <3>2. x \in Nat
      BY DEF Address
    <3>3. Written(a, RightBytes(0, reg))
            = [y \in Address |-> IF y \in a .. a + 0 THEN reg[3 - 0 + y - a] ELSE MAIN_MEMORY[y]]
      BY <1>1, RightWritten, Zenon
    <3>4. MAIN_MEMORY'[x] = IF x \in a .. a + 0 THEN reg[3 - 0 + x - a] ELSE MAIN_MEMORY[x]
      BY <2>1, <3>3
    <3>5. QED
      BY <1>1, <3>2, <3>4
  <2>3. QED
    BY <1>4, <2>2 DEF FirstWritten, LastWritten, LaneOf
<1>5. CASE op = "sh"
  <2>1. MAIN_MEMORY' = Written(a, RightBytes(1, reg))
    BY <1>2, <1>5 DEF data_write, MemWriteAddress
  <2>2. \A x \in Address :
           MAIN_MEMORY'[x] = IF x >= a /\ x <= a + 1 THEN reg[2 + x - a] ELSE MAIN_MEMORY[x]
    <3>1. TAKE x \in Address
    <3>2. x \in Nat
      BY DEF Address
    <3>3. Written(a, RightBytes(1, reg))
            = [y \in Address |-> IF y \in a .. a + 1 THEN reg[3 - 1 + y - a] ELSE MAIN_MEMORY[y]]
      BY <1>1, RightWritten, Zenon
    <3>4. MAIN_MEMORY'[x] = IF x \in a .. a + 1 THEN reg[3 - 1 + x - a] ELSE MAIN_MEMORY[x]
      BY <2>1, <3>3
    <3>5. QED
      BY <1>1, <3>2, <3>4
  <2>3. QED
    BY <1>5, <2>2 DEF FirstWritten, LastWritten, LaneOf
<1>6. CASE op = "swl"
  <2>1. MAIN_MEMORY' = Written(a, LeftBytes(k, reg))
    BY <1>2, <1>6 DEF data_write, MemWriteAddress
  <2>2. \A x \in Address :
           MAIN_MEMORY'[x] = IF x >= a /\ x <= a + 3 - k THEN reg[x - a] ELSE MAIN_MEMORY[x]
    <3>1. TAKE x \in Address
    <3>2. x \in Nat
      BY DEF Address
    <3>3. Written(a, LeftBytes(k, reg))
            = [y \in Address |-> IF y \in a .. a + 3 - k THEN reg[y - a] ELSE MAIN_MEMORY[y]]
      BY <1>1, LeftWritten, Zenon
    <3>4. MAIN_MEMORY'[x] = IF x \in a .. a + 3 - k THEN reg[x - a] ELSE MAIN_MEMORY[x]
      BY <2>1, <3>3
    <3>5. QED
      BY <1>1, <3>2, <3>4
  <2>3. QED
    BY <1>6, <2>2 DEF FirstWritten, LastWritten, LaneOf, k
<1>7. CASE op = "swr"
  <2>1. MAIN_MEMORY' = Written(a - k, RightBytes(k, reg))
    BY <1>2, <1>7 DEF data_write, MemWriteAddress, MemReadAddress, k
  <2>2. \A x \in Address :
           MAIN_MEMORY'[x] = IF x >= a - k /\ x <= a THEN reg[3 + x - a] ELSE MAIN_MEMORY[x]
    <3>1. TAKE x \in Address
    <3>2. x \in Nat
      BY DEF Address
    <3>3. Written(a - k, RightBytes(k, reg))
            = [y \in Address |-> IF y \in a - k .. a - k + k THEN reg[3 - k + y - (a - k)] ELSE MAIN_MEMORY[y]]
      BY <1>1, RightWritten, Zenon
    <3>4. MAIN_MEMORY'[x] = IF x \in a - k .. a - k + k THEN reg[3 - k + x - (a - k)] ELSE MAIN_MEMORY[x]
      BY <2>1, <3>3
    <3>5. QED
      BY <1>1, <3>2, <3>4
  <2>3. QED
    BY <1>7, <2>2 DEF FirstWritten, LastWritten, LaneOf, k
<1>8. QED
  BY <1>3, <1>4, <1>5, <1>6, <1>7 DEF Stores

\* A load reads the aligned word around its address.
LEMMA LoadEffect ==
  ASSUME NEW op \in Loads, NEW a \in Address, Load(op, a)
  PROVE  /\ MAIN_MEMORY' = MAIN_MEMORY
         /\ reg' = data_read_aligned(op, a % 4, [i \in Lanes |-> MAIN_MEMORY[a - (a % 4) + i]], reg)
BY DEF Load, readWord, MemReadAddress

LEMMA StepCases ==
  ASSUME MNext
  PROVE  \E a \in Address :
            /\ last'.address = a
            /\ \/ last'.op \in Loads /\ Load(last'.op, a)
               \/ last'.op \in Stores /\ Store(last'.op, a)
BY DEF MNext, Load, Store, Bounded

\* The first instruction of a pair prepares what the second one completes.
LEMMA HalvesStep ==
  ASSUME MNext
  PROVE  Halves'
<1>1. PICK a \in Address :
         /\ last'.address = a
         /\ \/ last'.op \in Loads /\ Load(last'.op, a)
            \/ last'.op \in Stores /\ Store(last'.op, a)
  BY StepCases
<1>2. a \in Nat /\ a % 4 \in 0 .. 3 /\ a - (a % 4) \in Nat /\ a - (a % 4) + 3 <= Top
  BY Alignment DEF MemReadAddress
<1> DEFINE op == last'.op
<1>3. CASE op = "lwl"
  <2>1. MAIN_MEMORY' = MAIN_MEMORY
        /\ reg' = MergeLeft(a % 4, [i \in Lanes |-> MAIN_MEMORY[a - (a % 4) + i]], reg)
    BY <1>1, <1>3, LoadEffect DEF data_read_aligned, Loads, Stores
  <2>2. QED
    BY <1>1, <1>2, <1>3, <2>1 DEF MergeLeft, Lanes, Halves
<1>4. CASE op = "lwr"
  <2>1. MAIN_MEMORY' = MAIN_MEMORY
        /\ reg' = MergeRight(a % 4, [i \in Lanes |-> MAIN_MEMORY[a - (a % 4) + i]], reg)
    BY <1>1, <1>4, LoadEffect DEF data_read_aligned, Loads, Stores
  <2>2. QED
    BY <1>1, <1>2, <1>4, <2>1 DEF MergeRight, Lanes, Halves
<1>5. CASE op = "swl"
  <2>1. Store(op, a) /\ reg' = reg
    BY <1>1, <1>5 DEF Loads, Store
  <2>2. \A x \in Address : x >= a /\ x <= a + 3 - (a % 4) => MAIN_MEMORY'[x] = reg[x - a]
    BY <1>5, <2>1, StoreEffect DEF FirstWritten, LastWritten, LaneOf, Stores
  <2>3. ASSUME NEW i \in Lanes, i + (a % 4) <= 3
        PROVE  reg[i] = MAIN_MEMORY'[a + i]
    <3>1. a + i \in Address /\ a + i >= a /\ a + i <= a + 3 - (a % 4) /\ (a + i) - a = i
      BY <1>2, <2>3, MemoryAssumption DEF Lanes, Address
    <3>2. QED
      BY <2>2, <3>1
  <2>4. QED
    BY <1>1, <1>5, <2>1, <2>3 DEF Halves
<1>6. CASE op = "swr"
  <2>1. Store(op, a) /\ reg' = reg
    BY <1>1, <1>6 DEF Loads, Store
  <2>2. \A x \in Address : x >= a - (a % 4) /\ x <= a => MAIN_MEMORY'[x] = reg[3 + x - a]
    BY <1>6, <2>1, StoreEffect DEF FirstWritten, LastWritten, LaneOf, Stores
  <2>3. ASSUME NEW i \in Lanes, i + (a % 4) >= 3
        PROVE  reg[i] = MAIN_MEMORY'[a + i - 3]
    <3>1. a + i - 3 \in Address /\ a + i - 3 >= a - (a % 4) /\ a + i - 3 <= a
          /\ 3 + (a + i - 3) - a = i
      BY <1>2, <2>3, MemoryAssumption DEF Lanes, Address
    <3>2. QED
      BY <2>2, <3>1
  <2>4. QED
    BY <1>1, <1>6, <2>1, <2>3 DEF Halves
<1>7. CASE op \notin {"lwl", "lwr", "swl", "swr"}
  BY <1>1, <1>7 DEF Halves
<1>8. QED
  BY <1>3, <1>4, <1>5, <1>6, <1>7

THEOREM HalvesInvariant == MSpec => []Halves
<1>1. MInit => Halves
  BY MemoryAssumption DEF MInit, Halves, Address
<1>2. Halves /\ [MNext]_mvars => Halves'
  <2>1. CASE MNext
    BY <2>1, HalvesStep
  <2>2. CASE UNCHANGED mvars
    BY <2>2 DEF mvars, Halves
  <2>3. QED
    BY <2>1, <2>2
<1>3. QED
  BY <1>1, <1>2, PTL DEF MSpec

\* Two addresses that are three bytes apart.
LEMMA ThreeApart ==
  ASSUME NEW a \in Nat, NEW b \in Nat, b = a + 3
  PROVE  \/ (a % 4) = 0 /\ (b % 4) = 3
         \/ (a % 4) \in 1 .. 3 /\ (b % 4) = (a % 4) - 1
<1>1. a = 4 * (a \div 4) + (a % 4) /\ (a % 4) \in 0 .. 3 /\ a \div 4 \in Nat
  OBVIOUS
<1>2. b = 4 * (b \div 4) + (b % 4) /\ (b % 4) \in 0 .. 3 /\ b \div 4 \in Nat
  OBVIOUS
<1>3. QED
  BY <1>1, <1>2

\* What each half of an unaligned load or store does by itself.
LEMMA HalfLoad ==
  ASSUME NEW op \in {"lwl", "lwr"}, NEW a \in Address, Load(op, a), NEW i \in Lanes
  PROVE  reg'[i] = IF op = "lwl"
                   THEN IF i + (a % 4) <= 3 THEN MAIN_MEMORY[a + i] ELSE reg[i]
                   ELSE IF i + (a % 4) >= 3 THEN MAIN_MEMORY[a + i - 3] ELSE reg[i]
<1>1. a \in Nat /\ a % 4 \in 0 .. 3
  BY Alignment
<1>2. CASE op = "lwl"
  <2>1. reg' = MergeLeft(a % 4, [j \in Lanes |-> MAIN_MEMORY[a - (a % 4) + j]], reg)
    BY <1>2, LoadEffect DEF data_read_aligned, Loads
  <2>2. QED
    BY <1>1, <1>2, <2>1 DEF MergeLeft, Lanes
<1>3. CASE op = "lwr"
  <2>1. reg' = MergeRight(a % 4, [j \in Lanes |-> MAIN_MEMORY[a - (a % 4) + j]], reg)
    BY <1>3, LoadEffect DEF data_read_aligned, Loads
  <2>2. QED
    BY <1>1, <1>3, <2>1 DEF MergeRight, Lanes
<1>4. QED
  BY <1>2, <1>3

\* LWL and LWR, in either order, load the word at any address.
THEOREM UnalignedLoads == MSpec => UnalignedLoad
<1> DEFINE loaded(a) == \A i \in Lanes : reg'[i] = MAIN_MEMORY[a + i]
<1>1. ASSUME Halves, MNext, Then("lwl", "lwr", 3)
      PROVE  loaded(last.address)
  <2> DEFINE a == last.address
             b == last'.address
  <2>1. b = a + 3 /\ a \in Address /\ b \in Address /\ Load("lwr", b)
    BY <1>1, StepCases DEF Then, Halves, Stores
  <2>2. a \in Nat /\ b \in Nat
    BY <2>1, Alignment
  <2>3. \/ (a % 4) = 0 /\ (b % 4) = 3
        \/ (a % 4) \in 1 .. 3 /\ (b % 4) = (a % 4) - 1
    BY <2>1, <2>2, ThreeApart
  <2>4. \A i \in Lanes : i + (a % 4) <= 3 => reg[i] = MAIN_MEMORY[a + i]
    BY <1>1 DEF Halves, Then
  <2>5. \A i \in Lanes : reg'[i] = IF i + (b % 4) >= 3 THEN MAIN_MEMORY[b + i - 3] ELSE reg[i]
    BY <2>1, HalfLoad
  <2> HIDE DEF a, b
  <2>6. ASSUME NEW i \in Lanes  PROVE reg'[i] = MAIN_MEMORY[a + i]
    BY <2>1, <2>2, <2>3, <2>4, <2>5 DEF Lanes
  <2>7. QED
    BY <2>6 DEF a
<1>2. ASSUME Halves, MNext, Then("lwr", "lwl", -3)
      PROVE  loaded(last'.address)
  <2> DEFINE a == last'.address
             b == last.address
  <2>1. b = a + 3 /\ a \in Address /\ b \in Address /\ Load("lwl", a)
    BY <1>2, StepCases DEF Then, Halves, Stores, Address
  <2>2. a \in Nat /\ b \in Nat
    BY <2>1, Alignment
  <2>3. \/ (a % 4) = 0 /\ (b % 4) = 3
        \/ (a % 4) \in 1 .. 3 /\ (b % 4) = (a % 4) - 1
    BY <2>1, <2>2, ThreeApart
  <2>4. \A i \in Lanes : i + (b % 4) >= 3 => reg[i] = MAIN_MEMORY[b + i - 3]
    BY <1>2 DEF Halves, Then
  <2>5. \A i \in Lanes : reg'[i] = IF i + (a % 4) <= 3 THEN MAIN_MEMORY[a + i] ELSE reg[i]
    BY <2>1, HalfLoad
  <2> HIDE DEF a, b
  <2>6. ASSUME NEW i \in Lanes  PROVE reg'[i] = MAIN_MEMORY[a + i]
    BY <2>1, <2>2, <2>3, <2>4, <2>5 DEF Lanes
  <2>7. QED
    BY <2>6 DEF a
<1>3. ASSUME UNCHANGED mvars
      PROVE  ~ Then("lwl", "lwr", 3) /\ ~ Then("lwr", "lwl", -3)
  BY <1>3 DEF mvars, Then
<1>4. QED
  BY <1>1, <1>2, <1>3, HalvesInvariant, PTL DEF MSpec, UnalignedLoad

\* SWL and SWR, in either order, leave the register's word at any address.
THEOREM UnalignedStores == MSpec => UnalignedStore
<1> DEFINE stored(a) == \A i \in Lanes : MAIN_MEMORY'[a + i] = reg[i]
<1>1. ASSUME Halves, MNext, Then("swl", "swr", 3)
      PROVE  stored(last.address)
  <2> DEFINE a == last.address
             b == last'.address
  <2>1. b = a + 3 /\ a \in Address /\ b \in Address /\ Store("swr", b)
    BY <1>1, StepCases DEF Then, Halves, Loads
  <2>2. a \in Nat /\ b \in Nat /\ b <= Top
    BY <2>1, Alignment DEF Address
  <2>3. \/ (a % 4) = 0 /\ (b % 4) = 3
        \/ (a % 4) \in 1 .. 3 /\ (b % 4) = (a % 4) - 1
    BY <2>1, <2>2, ThreeApart
  <2>4. \A i \in Lanes : i + (a % 4) <= 3 => reg[i] = MAIN_MEMORY[a + i]
    BY <1>1 DEF Halves, Then
  <2>5. \A x \in Address : MAIN_MEMORY'[x] = IF x >= b - (b % 4) /\ x <= b
                                            THEN reg[3 + x - b] ELSE MAIN_MEMORY[x]
    BY <2>1, StoreEffect DEF Stores, FirstWritten, LastWritten, LaneOf
  <2> HIDE DEF a, b
  <2>6. ASSUME NEW i \in Lanes  PROVE MAIN_MEMORY'[a + i] = reg[i]
    <3>0. i \in 0 .. 3 /\ a + i \in 0 .. Top
      BY <2>1, <2>2, MemoryAssumption DEF Lanes
    <3>1. i \in 0 .. 3 /\ a + i \in Address /\ a + i <= b /\ 3 + (a + i) - b = i
      BY <2>1, <2>2, <3>0 DEF Address
    <3>2. a + i >= b - (b % 4) \/ i + (a % 4) <= 3
      BY <2>1, <2>2, <2>3, <3>1
    <3>3. QED
      BY <2>4, <2>5, <3>1, <3>2
  <2>7. QED
    BY <2>6 DEF a
<1>2. ASSUME Halves, MNext, Then("swr", "swl", -3)
      PROVE  stored(last'.address)
  <2> DEFINE a == last'.address
             b == last.address
  <2>1. b = a + 3 /\ a \in Address /\ b \in Address /\ Store("swl", a)
    BY <1>2, StepCases DEF Then, Halves, Loads, Address
  <2>2. a \in Nat /\ b \in Nat /\ b <= Top
    BY <2>1, Alignment DEF Address
  <2>3. \/ (a % 4) = 0 /\ (b % 4) = 3
        \/ (a % 4) \in 1 .. 3 /\ (b % 4) = (a % 4) - 1
    BY <2>1, <2>2, ThreeApart
  <2>4. \A i \in Lanes : i + (b % 4) >= 3 => reg[i] = MAIN_MEMORY[b + i - 3]
    BY <1>2 DEF Halves, Then
  <2>5. \A x \in Address : MAIN_MEMORY'[x] = IF x >= a /\ x <= a + 3 - (a % 4)
                                            THEN reg[x - a] ELSE MAIN_MEMORY[x]
    BY <2>1, StoreEffect DEF Stores, FirstWritten, LastWritten, LaneOf
  <2> HIDE DEF a, b
  <2>6. ASSUME NEW i \in Lanes  PROVE MAIN_MEMORY'[a + i] = reg[i]
    <3>0. i \in 0 .. 3 /\ a + i \in 0 .. Top
      BY <2>1, <2>2, MemoryAssumption DEF Lanes
    <3>1. i \in 0 .. 3 /\ a + i \in Address /\ a + i >= a /\ (a + i) - a = i
          /\ b + i - 3 = a + i
      BY <2>1, <2>2, <3>0 DEF Address
    <3>2. a + i <= a + 3 - (a % 4) \/ i + (b % 4) >= 3
      BY <2>1, <2>2, <2>3, <3>1
    <3>3. QED
      BY <2>4, <2>5, <3>1, <3>2
  <2>7. QED
    BY <2>6 DEF a
<1>3. ASSUME UNCHANGED mvars
      PROVE  ~ Then("swl", "swr", 3) /\ ~ Then("swr", "swl", -3)
  BY <1>3 DEF mvars, Then
<1>4. QED
  BY <1>1, <1>2, <1>3, HalvesInvariant, PTL DEF MSpec, UnalignedStore

\* The bytes that a store writes lie in the aligned word of its address when it
\* stands for a part of an unaligned word.
LEMMA SameWord ==
  ASSUME NEW a \in Nat, NEW x \in Nat, x >= a - (a % 4), x <= a + 3 - (a % 4)
  PROVE  x \div 4 = a \div 4
<1>1. a = 4 * (a \div 4) + (a % 4) /\ (a % 4) \in 0 .. 3 /\ a \div 4 \in Nat
  OBVIOUS
<1>2. x = 4 * (x \div 4) + (x % 4) /\ (x % 4) \in 0 .. 3 /\ x \div 4 \in Nat
  OBVIOUS
<1>3. QED
  BY <1>1, <1>2

\* A store changes no byte outside those it stands for.
THEOREM StoresCovered == MSpec => StoresOnlyCovered
<1>1. ASSUME MNext, last'.op \in Stores, NEW x \in Address \ Covered(last'.op, last'.address)
      PROVE  MAIN_MEMORY'[x] = MAIN_MEMORY[x]
  <2> DEFINE op == last'.op
             a == last'.address
  <2>1. a \in Address /\ Store(op, a)
    BY <1>1, StepCases DEF Loads, Stores
  <2>2. a \in Nat /\ a % 4 \in 0 .. 3 /\ x \in Nat
    BY <2>1, Alignment DEF Address
  <2>3. ASSUME x >= FirstWritten(op, a), x <= LastWritten(op, a)
        PROVE  x \in Covered(op, a)
    <3>1. CASE op \in {"sw", "sc", "sb", "sh"}
      BY <2>2, <2>3, <3>1 DEF Covered, Misaligned, Size, FirstWritten, LastWritten
    <3>2. CASE op \in {"swl", "swr"}
      <4>1. x >= a - (a % 4) /\ x <= a + 3 - (a % 4)
            /\ x \in IF op = "swl" THEN a .. a + 3 ELSE a - 3 .. a
        BY <2>2, <2>3, <3>2 DEF FirstWritten, LastWritten
      <4>2. x \div 4 = a \div 4
        BY <2>2, <4>1, SameWord
      <4>3. QED
        BY <3>2, <4>1, <4>2 DEF Covered, Misaligned
    <3>3. QED
      BY <1>1, <3>1, <3>2 DEF Stores
  <2>4. QED
    BY <1>1, <2>1, <2>3, StoreEffect
<1>2. ASSUME UNCHANGED mvars
      PROVE  MAIN_MEMORY' = MAIN_MEMORY
  BY <1>2 DEF mvars
<1>3. [MNext]_mvars => [last'.op \in Stores =>
            \A x \in Address \ Covered(last'.op, last'.address) :
                MAIN_MEMORY'[x] = MAIN_MEMORY[x]]_mvars
  BY <1>1
<1>4. QED
  BY <1>3, PTL DEF MSpec, StoresOnlyCovered

\* The least address of an aligned access.
LEMMA AlignedAddress ==
  ASSUME NEW a \in Nat
  PROVE  /\ a % 4 = 0 => a - (a % 4) = a
         /\ a % 2 = 0 => a % 4 \in {0, 2}
<1>1. a = 4 * (a \div 4) + (a % 4) /\ (a % 4) \in 0 .. 3 /\ a \div 4 \in Nat
  OBVIOUS
<1>2. a = 2 * (a \div 2) + (a % 2) /\ (a % 2) \in 0 .. 1 /\ a \div 2 \in Nat
  OBVIOUS
<1>3. QED
  BY <1>1, <1>2

LEMMA Fits ==
  ASSUME NEW a \in Nat, a <= Top, NEW n \in {1, 2, 4}, a % n = 0
  PROVE  a + n - 1 <= Top
<1>1. a = 4 * (a \div 4) + (a % 4) /\ (a % 4) \in 0 .. 3 /\ a \div 4 \in Nat
  OBVIOUS
<1>2. a = 2 * (a \div 2) + (a % 2) /\ (a % 2) \in 0 .. 1 /\ a \div 2 \in Nat
  OBVIOUS
<1>3. Top = 4 * (Top \div 4) + 3 /\ Top \in Nat /\ Top \div 4 \in Nat
  BY MemoryAssumption
<1>4. CASE n = 1
  BY <1>4, <1>3
<1>5. CASE n = 2
  BY <1>2, <1>3, <1>5
<1>6. CASE n = 4
  BY <1>1, <1>3, <1>6
<1>7. QED
  BY <1>4, <1>5, <1>6

\* An aligned access moves a number between the low bytes of the register and
\* memory, most significant byte first.
THEOREM AlignedNumbers == MSpec => AlignedNumber
<1> DEFINE op == last'.op
           a == last'.address
           n == Size(op)
           fill == IF op \in {"lb", "lh"} /\ Bit7(MAIN_MEMORY[a]) THEN Ones ELSE Zeros
           right == \A i \in Lanes :
                       IF i >= 4 - n
                       THEN LET x == a + i - (4 - n)
                            IN  IF op \in Loads THEN reg'[i] = MAIN_MEMORY[x]
                                ELSE MAIN_MEMORY'[x] = reg[i]
                       ELSE op \in Loads => reg'[i] = fill
<1>1. ASSUME MNext, op \notin Misaligned, a % n = 0
      PROVE  right
  <2>1. /\ a \in Address
        /\ \/ op \in Loads /\ Load(op, a)
           \/ op \in Stores /\ Store(op, a)
    BY <1>1, StepCases
  <2>2. a \in Nat /\ a % 4 \in 0 .. 3 /\ a <= Top
    BY <2>1, Alignment DEF Address
  <2>3. CASE op \in Loads
    <3>1. reg' = data_read_aligned(op, a % 4, [i \in Lanes |-> MAIN_MEMORY[a - (a % 4) + i]], reg)
      BY <2>1, <2>3, LoadEffect DEF Loads, Stores
    <3>2. CASE op \in {"lw", "ll"}
      <4>1. n = 4 /\ a - (a % 4) = a
        BY <1>1, <2>2, <3>2, AlignedAddress DEF Size
      <4>2. \A i \in Lanes : reg'[i] = MAIN_MEMORY[a + i]
        BY <3>1, <3>2, <4>1 DEF data_read_aligned
      <4>3. \A i \in Lanes : i >= 4 - n /\ a + i - (4 - n) = a + i
        BY <2>2, <4>1 DEF Lanes
      <4>4. QED
        BY <2>3, <4>2, <4>3
    <3>3. CASE op \in {"lb", "lbu"}
      <4>1. n = 1
        BY <3>3 DEF Size
      <4>2. [i \in Lanes |-> MAIN_MEMORY[a - (a % 4) + i]][a % 4] = MAIN_MEMORY[a]
        <5>1. a - (a % 4) + (a % 4) = a
          BY <2>2
        <5>2. QED
          BY <2>2, <5>1 DEF Lanes
      <4>3. \A i \in Lanes : reg'[i] = IF i = 3 THEN MAIN_MEMORY[a]
                                      ELSE Fill(op, MAIN_MEMORY[a])
        BY <3>1, <3>3, <4>2 DEF data_read_aligned
      <4>4. fill = Fill(op, MAIN_MEMORY[a])
        BY <3>3 DEF Fill
      <4>5. \A i \in Lanes : (i >= 4 - n <=> i = 3) /\ (i = 3 => a + i - (4 - n) = a)
        BY <2>2, <4>1 DEF Lanes
      <4> HIDE DEF op, a, n, fill
      <4>6. QED
        BY <2>3, <4>3, <4>4, <4>5
    <3>4. CASE op \in {"lh", "lhu"}
      <4>1. n = 2 /\ a % 4 \in {0, 2}
        BY <1>1, <2>2, <3>4, AlignedAddress DEF Size
      <4>2. \A j \in {0, 1} : [i \in Lanes |-> MAIN_MEMORY[a - (a % 4) + i]][(a % 4) + j]
                                 = MAIN_MEMORY[a + j]
        <5>1. \A j \in {0, 1} : (a % 4) + j \in Lanes /\ a - (a % 4) + ((a % 4) + j) = a + j
          BY <2>2, <4>1 DEF Lanes
        <5>2. QED
          BY <5>1
      <4> DEFINE word == [i \in Lanes |-> MAIN_MEMORY[a - (a % 4) + i]]
      <4> HIDE DEF word
      <4>3. \A i \in Lanes : reg'[i] = IF i >= 2 THEN word[(a % 4) + i - 2]
                                      ELSE Fill(op, word[a % 4])
        BY <3>1, <3>4, <4>1 DEF data_read_aligned, word
      <4>4. word[(a % 4) + 0] = MAIN_MEMORY[a + 0] /\ word[(a % 4) + 1] = MAIN_MEMORY[a + 1]
        BY <4>2 DEF word
      <4>5. \A i \in Lanes : reg'[i] = IF i >= 2 THEN MAIN_MEMORY[a + i - 2]
                                      ELSE Fill(op, MAIN_MEMORY[a])
        BY <2>2, <4>3, <4>4 DEF Lanes
      <4>6. fill = Fill(op, MAIN_MEMORY[a])
        BY <3>4 DEF Fill
      <4>7. \A i \in Lanes : (i >= 4 - n <=> i >= 2) /\ a + i - (4 - n) = a + i - 2
        BY <2>2, <4>1 DEF Lanes
      <4> HIDE DEF op, a, n, fill
      <4>8. QED
        BY <2>3, <4>5, <4>6, <4>7
    <3>5. QED
      BY <1>1, <2>3, <3>2, <3>3, <3>4 DEF Loads, Misaligned
  <2>4. CASE op \in Stores
    <3>1. /\ \A x \in Address :
               MAIN_MEMORY'[x] = IF x >= FirstWritten(op, a) /\ x <= LastWritten(op, a)
                                 THEN reg[LaneOf(op, a, x)] ELSE MAIN_MEMORY[x]
          /\ op \notin Loads
      BY <2>1, <2>4, StoreEffect DEF Loads, Stores
    <3>2. LastWritten(op, a) = a + n - 1 /\ FirstWritten(op, a) = a
          /\ n \in 1 .. 4 /\ \A x \in Nat : LaneOf(op, a, x) = (4 - n) + x - a
      <4>1. CASE op \in {"sw", "sc"}
        BY <2>2, <4>1 DEF FirstWritten, LastWritten, LaneOf, Size
      <4>2. CASE op = "sb"
        BY <2>2, <4>2 DEF FirstWritten, LastWritten, LaneOf, Size
      <4>3. CASE op = "sh"
        BY <2>2, <4>3 DEF FirstWritten, LastWritten, LaneOf, Size
      <4>4. QED
        BY <1>1, <2>4, <4>1, <4>2, <4>3 DEF Stores, Misaligned
    <3>3. a + n - 1 <= Top
      <4>1. n \in {1, 2, 4}
        BY DEF Size
      <4>2. QED
        BY <1>1, <2>2, <4>1, Fits
    <3> HIDE DEF op, a, n
    <3>4. ASSUME NEW i \in Lanes, i >= 4 - n
          PROVE  MAIN_MEMORY'[a + i - (4 - n)] = reg[i]
      <4> DEFINE x == a + i - (4 - n)
      <4>1. x \in Address /\ x >= a /\ x <= a + n - 1 /\ (4 - n) + x - a = i
        <5>1. n \in 1 .. 4 /\ i \in 0 .. 3 /\ Top \in Nat /\ i >= 4 - n
          BY <3>2, <3>4, MemoryAssumption DEF Lanes
        <5>2. x \in 0 .. Top /\ x >= a /\ x <= a + n - 1 /\ (4 - n) + x - a = i
          BY <2>2, <3>3, <5>1
        <5>3. QED
          BY <5>2 DEF Address
      <4> HIDE DEF x
      <4>2. x \in Nat
        BY <4>1 DEF Address
      <4>3. MAIN_MEMORY'[x] = reg[i]
        BY <3>1, <3>2, <4>1, <4>2
      <4>4. QED
        BY <4>3 DEF x
    <3>5. QED
      BY <3>1, <3>4 DEF op, a, n
  <2>5. QED
    BY <2>1, <2>3, <2>4
<1>2. [MNext]_mvars => [op \notin Misaligned /\ a % n = 0 => right]_mvars
  BY <1>1
<1>3. QED
  BY <1>2, PTL DEF MSpec, AlignedNumber
=============================================================================
