------------------------------ MODULE LoadDelay ------------------------------
(***************************************************************************)
(* What the datapath promises to a program: instructions execute one after *)
(* another, and what one writes the next one reads, except that a word     *)
(* loaded from memory reaches the registers one instruction later, the     *)
(* load delay of MIPS I.  A store, and a load that merges with the old     *)
(* value of its register, do see the word that is still on its way.        *)
(***************************************************************************)
EXTENDS Operands

VARIABLES
    regs,       \* the registers
    pending,    \* the register write of the latest load, or NoWrite
    out         \* what the latest instruction showed outside: the operands of
                \* its test, and its address and data for the memory

lvars == <<regs, pending, out>>

NoWrite == [reg |-> Zero, value |-> 0]

Settled == [r \in Reg |-> IF r = pending.reg /\ r # Zero THEN pending.value ELSE regs[r]]

LInit ==
    /\ regs = [r \in Reg |-> 0]
    /\ pending = NoWrite
    /\ out = [test |-> None, access |-> None]

\* The result of i, whose operands are read before the pending write arrives.
Result(i) ==
    ALU(i.op, IF i.Link THEN 0 ELSE regs[i.rs],
              IF i.RegDst /\ ~i.Link THEN regs[i.rt] ELSE i.immediate)

Execute(i, word) ==
    LET old == Settled[Dest(i)]
        value == IF i.MemRead THEN Loaded(i.op, Result(i), word, old) ELSE Result(i)
    IN
    /\ out' = [test |-> IF i.Branch THEN <<regs[i.rs], regs[i.rt]>> ELSE None,
               access |-> IF Memory(i) THEN <<Result(i), old>> ELSE None]
    /\ regs' = [r \in Reg |-> IF Writes(i) /\ ~Memory(i) /\ r = Dest(i)
                              THEN value ELSE Settled[r]]
    /\ pending' = IF Writes(i) /\ Memory(i)
                  THEN [reg |-> Dest(i), value |-> value] ELSE NoWrite

\* A system call leaves its results in registers.
CallReturns(r, v) ==
    /\ pending = NoWrite
    /\ regs' = [regs EXCEPT ![r] = v]
    /\ UNCHANGED <<pending, out>>

LNext ==
    \/ \E i \in Instrs \cup {Bubble}, word \in Value : Execute(i, word)
    \/ \E r \in Reg \ {Zero}, v \in Value : CallReturns(r, v)

LSpec == LInit /\ [][LNext]_lvars
=============================================================================
