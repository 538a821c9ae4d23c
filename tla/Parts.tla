-------------------------------- MODULE Parts --------------------------------
(***************************************************************************)
(* The components that are checked on their own, under anything that the   *)
(* rest of the processor may give them: the forwarding paths, one          *)
(* instruction with its operands, the lanes of the memory stage and the    *)
(* return address stack.  A behaviour is one of a single part.             *)
(***************************************************************************)
EXTENDS MCBypass, Instructions, MCMemAccess, RASAlone

VARIABLE part

partvars == <<bvars, ivars, mvars, stack, pointer, answer, part>>

NoInstruction == [op |-> "none"]

PartsInit ==
    /\ BInit /\ MInit /\ RASInit
    /\ \/ part = "instruction" /\ IInit
       \/ /\ part \in {"bypass", "memory", "stack"}
          /\ Ready /\ instr = NoInstruction

PartsNext ==
    /\ \/ part = "bypass" /\ BNext /\ UNCHANGED <<ivars, mvars, stack, pointer, answer>>
       \/ part = "instruction" /\ INext /\ UNCHANGED <<bvars, mvars, stack, pointer, answer>>
       \/ part = "memory" /\ MNext /\ UNCHANGED <<bvars, ivars, stack, pointer, answer>>
       \/ part = "stack" /\ RASNext /\ UNCHANGED <<bvars, ivars, mvars>>
    /\ UNCHANGED part

PartsSpec == PartsInit /\ [][PartsNext]_partvars
=============================================================================
