----------------------------- MODULE ControlFlow -----------------------------
(***************************************************************************)
(* What the pipeline promises: instructions take effect one at a time, in  *)
(* the order of a MIPS I program.  Execution is described by the pair      *)
(* (pc, npc): a branch redirects the instruction AFTER its delay slot.     *)
(***************************************************************************)
EXTENDS Isa

VARIABLES
    imem,       \* the program
    pc, npc,    \* next instruction to take effect, and the one after it
    dest,       \* where the branch that has just taken effect goes, or NoPC
    serving     \* serialising instruction being served, or "none"

vars == <<imem, pc, npc, dest, serving>>

Init ==
    /\ imem \in Programs
    /\ pc = ResetPC
    /\ npc = Plus4(ResetPC)
    /\ dest = NoPC
    /\ serving = "none"

\* An instruction that is not a branch takes effect.
Straight ==
    /\ serving = "none"
    /\ imem[pc] # "br"
    /\ pc' = npc
    /\ npc' = Plus4(npc)
    /\ dest' = NoPC
    /\ serving' = IF imem[pc] \in Serial THEN imem[pc] ELSE "none"
    /\ UNCHANGED imem

\* A branch or jump takes effect: it falls through or goes to one of its
\* targets, after the delay slot.
Branch ==
    /\ serving = "none"
    /\ imem[pc] = "br"
    /\ pc' = npc
    /\ npc' \in {Plus8(pc)} \cup Targets[pc]
    /\ dest' = npc'
    /\ UNCHANGED <<imem, serving>>

\* The serialising instruction is complete: a SYSCALL has been handed to the
\* operating system, an LL or SC has been sent to the execute stage.
Served ==
    /\ serving # "none"
    /\ serving' = "none"
    /\ UNCHANGED <<imem, pc, npc, dest>>

Next == Straight \/ Branch \/ Served

\* Sequential execution, and its progress: the machine never stops.
Execution == Init /\ [][Next]_vars
Progress == WF_vars(Next)

Spec == Execution /\ Progress
=============================================================================
