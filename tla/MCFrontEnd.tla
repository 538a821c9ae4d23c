----------------------------- MODULE MCFrontEnd -----------------------------
(* Small instances of the front end: five addresses, three dummy stages. *)
EXTENDS FrontEndInv

MCPlus(p, n) == (p + n) % 5

Memories == [0 .. 4 -> Kinds]

\* The architecture leaves a branch in a delay slot undefined.
NoBranchInSlot(m) == \A p \in 0 .. 4 : m[p] = "br" => m[MCPlus(p, 1)] # "br"

NoLLSCInSlot(m) == \A p \in 0 .. 4 : m[p] = "br" => m[MCPlus(p, 1)] # "llsc"

\* Every program without a branch or an LL/SC in a delay slot.
MCPrograms == {m \in Memories : NoBranchInSlot(m) /\ NoLLSCInSlot(m)}

\* A backward target (a loop) and a forward one; never the delay slot.
MCTargets == [p \in 0 .. 4 |-> {MCPlus(p, 0), MCPlus(p, 3)}]

\* The tables may guess a target, or an address the branch never goes to.
MCGuessed == [p \in 0 .. 4 |-> {MCPlus(p, 2), MCPlus(p, 3), MCPlus(p, 4)}]
=============================================================================
