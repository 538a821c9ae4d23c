----------------------------- MODULE MemAccess -----------------------------
(***************************************************************************)
(* Loads and stores of every size and alignment: the lanes that MEM        *)
(* selects, the sizes that it hands to the simulator and the bytes that    *)
(* the simulator's main memory gives and takes.                            *)
(*                                                                         *)
(* A word is four bytes, byte 0 the most significant one (bits 31:24).  A  *)
(* byte is abstract but for its sign bit; reg is the register that the     *)
(* instruction names as rt, whose latest value MEM gets by forwarding.     *)
(***************************************************************************)
EXTENDS Integers, Sequences

CONSTANTS
    Top,            \* the last address of the memory, 3 modulo 4
    Byte,           \* values of a byte
    Bit7(_),    \* the bit 7 of a byte
    Zeros, Ones,    \* the bytes 8'h00 and 8'hff
    InitialMemory, InitialWord,
    WordOf(_),      \* an address as a word
    Accesses        \* bound: memory accesses in a behaviour

ASSUME MemoryAssumption ==
    /\ Top \in Nat /\ Top % 4 = 3 /\ Accesses \in Nat
    /\ {Zeros, Ones} \subseteq Byte
    /\ InitialMemory \in [0 .. Top -> Byte] /\ InitialWord \in [0 .. 3 -> Byte]
    /\ \A a \in 0 .. Top : WordOf(a) \in [0 .. 3 -> Byte]

VARIABLES
    MAIN_MEMORY,
    reg,
    last,           \* the latest access: operation and address
    count           \* accesses so far

mvars == <<MAIN_MEMORY, reg, last, count>>

Lanes == 0 .. 3
Address == 0 .. Top
Loads == {"lw", "ll", "lb", "lbu", "lh", "lhu", "lwl", "lwr"}
Stores == {"sw", "sc", "sb", "sh", "swl", "swr"}
Misaligned == {"lwl", "lwr", "swl", "swr"}

MemReadAddress(a) == a - (a % 4)
readWord(a) == [i \in Lanes |-> MAIN_MEMORY[a + i]]

\* Mutant: LH is taken for LHU.
Fill_ByteOnly(op, b) == IF op = "lb" /\ Bit7(b) THEN Ones ELSE Zeros

Fill(op, b) == IF op \in {"lb", "lh"} /\ Bit7(b) THEN Ones ELSE Zeros

\* Mutant: LWL merges one byte more than its address allows.
MergeLeft_Wide(k, data, old) ==
    [i \in Lanes |-> IF i + k <= 3 THEN data[i + k] ELSE IF i + k = 4 THEN data[3] ELSE old[i]]

MergeLeft(k, data, old) ==
    [i \in Lanes |-> IF i + k <= 3 THEN data[i + k] ELSE old[i]]

MergeRight(k, data, old) ==
    [i \in Lanes |-> IF i + k >= 3 THEN data[i + k - 3] ELSE old[i]]

\* The value written to the register; a halfword at an odd address leaves it.
data_read_aligned(op, k, data, old) ==
    CASE op \in {"lw", "ll"} -> data
      [] op \in {"lb", "lbu"} ->
            [i \in Lanes |-> IF i = 3 THEN data[k] ELSE Fill(op, data[k])]
      [] op \in {"lh", "lhu"} /\ k \in {0, 2} ->
            [i \in Lanes |-> IF i >= 2 THEN data[k + i - 2] ELSE Fill(op, data[k])]
      [] op \in {"lh", "lhu"} /\ k \notin {0, 2} -> old
      [] op = "lwl" -> MergeLeft(k, data, old)
      [] op = "lwr" -> MergeRight(k, data, old)

\* Mutant: SWR hands out the upper bytes of the word, as SWL does.
RightBytes_Upper(k, word) == [i \in 1 .. k + 1 |-> word[i - 1]]

RightBytes(k, word) == [i \in 1 .. k + 1 |-> word[3 - k + i - 1]]
LeftBytes(k, word) == [i \in 1 .. 4 - k |-> word[i - 1]]

\* The bytes of data_write_2DM that data_write_size_2DM makes count; SB and SH
\* give the lowest ones.
data_write(op, k, word) ==
    CASE op \in {"sw", "sc"} -> LeftBytes(0, word)
      [] op = "sb" -> RightBytes(0, word)
      [] op = "sh" -> RightBytes(1, word)
      [] op = "swl" -> LeftBytes(k, word)
      [] op = "swr" -> RightBytes(k, word)

\* Mutant: SWR writes from its own address up.
MemWriteAddress_Own(op, a) == a

MemWriteAddress(op, a) == IF op = "swr" THEN MemReadAddress(a) ELSE a

\* writeByte, writeHalfWord and writeWord, and size 3 as a byte and a halfword.
Written(a, bytes) ==
    [x \in Address |-> IF x \in a .. a + Len(bytes) - 1
                       THEN bytes[x - a + 1] ELSE MAIN_MEMORY[x]]

MInit == /\ MAIN_MEMORY = InitialMemory /\ reg = InitialWord
         /\ last = [op |-> "none", address |-> 0] /\ count = 0

Bounded(op, a) == /\ count < Accesses
                  /\ count' = count + 1
                  /\ last' = [op |-> op, address |-> a]

Load(op, a) ==
    /\ Bounded(op, a)
    /\ reg' = data_read_aligned(op, a % 4, readWord(MemReadAddress(a)), reg)
    /\ UNCHANGED MAIN_MEMORY

\* SC always stores, and the register gets the address (ALU_result1_IN).
Store(op, a) ==
    /\ Bounded(op, a)
    /\ LET bytes == data_write(op, a % 4, reg)
           at == MemWriteAddress(op, a)
       IN  /\ at + Len(bytes) - 1 <= Top
           /\ MAIN_MEMORY' = Written(at, bytes)
    /\ reg' = IF op = "sc" THEN WordOf(a) ELSE reg

MNext == \E a \in Address :
            \/ \E op \in Loads : Load(op, a)
            \/ \E op \in Stores : Store(op, a)

MSpec == MInit /\ [][MNext]_mvars

-----------------------------------------------------------------------------
Then(first, second, apart) ==
    /\ last.op = first /\ last'.op = second
    /\ last'.address = last.address + apart

\* LWL of the first byte and LWR of the last byte of a word, in either order,
\* load the word from any address (MEM.v:124-152).
UnalignedLoad ==
    [][ LET loaded(a) == \A i \in Lanes : reg'[i] = MAIN_MEMORY[a + i]
        IN  /\ Then("lwl", "lwr", 3) => loaded(last.address)
            /\ Then("lwr", "lwl", -3) => loaded(last'.address) ]_mvars

\* SWL of the first byte and SWR of the last byte of a word, in either order,
\* leave the register's word there (MEM.v:236-264).
UnalignedStore ==
    [][ LET stored(a) == \A i \in Lanes : MAIN_MEMORY'[a + i] = reg[i]
        IN  /\ Then("swl", "swr", 3) => stored(last.address)
            /\ Then("swr", "swl", -3) => stored(last'.address) ]_mvars

Size(op) == CASE op \in {"lb", "lbu", "sb"} -> 1
              [] op \in {"lh", "lhu", "sh"} -> 2
              [] OTHER -> 4

\* The bytes that an access stands for: what its size covers, or the part of
\* an unaligned word that lies in the aligned word of its address.
Covered(op, a) ==
    IF op \in Misaligned
    THEN {x \in IF op \in {"lwl", "swl"} THEN a .. a + 3 ELSE a - 3 .. a :
                x \div 4 = a \div 4}
    ELSE a .. a + Size(op) - 1

\* A store changes no byte outside those it stands for (sim_main.cpp:582-599,
\* sm_memory.cpp:102-119).
StoresOnlyCovered ==
    [][ last'.op \in Stores =>
            \A x \in Address \ Covered(last'.op, last'.address) :
                MAIN_MEMORY'[x] = MAIN_MEMORY[x] ]_mvars

\* An aligned access moves a number between the low bytes of the register and
\* memory, most significant byte first; a load fills the rest with zeros, or
\* with the sign if the number is signed (MEM.v:153-235).
AlignedNumber ==
    [][ LET op == last'.op
            a == last'.address
            n == Size(op)
            fill == IF op \in {"lb", "lh"} /\ Bit7(MAIN_MEMORY[a]) THEN Ones ELSE Zeros
        IN  op \notin Misaligned /\ a % n = 0 =>
                \A i \in Lanes :
                    IF i >= 4 - n
                    THEN LET x == a + i - (4 - n)
                         IN  IF op \in Loads THEN reg'[i] = MAIN_MEMORY[x]
                             ELSE MAIN_MEMORY'[x] = reg[i]
                    ELSE op \in Loads => reg'[i] = fill ]_mvars
=============================================================================
