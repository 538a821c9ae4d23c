-------------------------- MODULE MCFrontEndLimits --------------------------
(* Programs outside the assumptions of FrontEndInv that the architecture     *)
(* does define: the front end does not execute them as it should.            *)
EXTENDS FrontEndProps

MCPlus(p, n) == (p + n) % 5

\* The architecture leaves a branch in a delay slot undefined.
NoBranchInSlot(m) == \A p \in 0 .. 4 : m[p] = "br" => m[MCPlus(p, 1)] # "br"

\* Programs that may have an LL/SC in a delay slot.
MCPrograms == {m \in [0 .. 4 -> Kinds] : NoBranchInSlot(m)}

\* A branch may also name its own delay slot (offset 0); the tables may have learnt it.
MCTargetsSlot == [p \in 0 .. 4 |-> {MCPlus(p, 1), MCPlus(p, 3)}]

MCTargets == [p \in 0 .. 4 |-> {MCPlus(p, 0), MCPlus(p, 3)}]
=============================================================================
