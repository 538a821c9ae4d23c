-------------------------------- MODULE Isa --------------------------------
(***************************************************************************)
(* Addresses, instruction classes and programs, shared by the              *)
(* architecture and by the pipeline.  An address counts instructions       *)
(* (32-bit byte address / 4), so PC + 4 is the next address modulo the     *)
(* size of the address space.                                              *)
(***************************************************************************)
EXTENDS Integers

CONSTANTS
    NPC,        \* size of the instruction address space (2^30 in the code)
    ResetPC,    \* 32'hBFC00000, the first address fetched
    Programs,   \* the instruction memories considered
    Targets     \* Targets[p]: where the branch or jump at p may go when taken

PC == 0 .. NPC - 1

\* The classes of instruction that the front end tells apart: branches and
\* jumps (with or without link), SYSCALL, LL/SC, and all the others.
Kinds == {"op", "br", "sys", "llsc"}

Serial == {"sys", "llsc"}

ASSUME AddressAssumption == NPC \in Nat \ {0} /\ ResetPC \in PC
ASSUME ProgramAssumption == Programs \subseteq [PC -> Kinds]
ASSUME TargetAssumption == Targets \in [PC -> SUBSET PC]

\* "no address": an empty pipeline register, a branch that is not taken.
NoPC == -1

Plus4(p) == (p + 1) % NPC
Plus8(p) == Plus4(Plus4(p))
=============================================================================
