------------------------------ MODULE RASAlone ------------------------------
(* The return address stack under any sequence of calls and returns.         *)
EXTENDS RAS, Sequences

CONSTANT Addresses  \* what is_link pushes: id_pc + 8

\* 0 is what the code takes for "empty": no call has it as its return address.
ASSUME AddressesAssumption == 0 \notin Addresses

VARIABLE answer     \* history: the prediction made at the last edge, or 0

RASInit == StackInit /\ answer = 0

RASNext ==
    \E is_link \in BOOLEAN, is_return \in BOOLEAN, data \in Addresses :
        /\ RASEdge(is_link, is_return, data)
        /\ answer' = IF hit(is_return) THEN alt_pc(is_link, is_return, data)
                                       ELSE 0

RASSpec == RASInit /\ [][RASNext]_<<stack, pointer, answer>>

-----------------------------------------------------------------------------
RASTypeOK ==
    /\ pointer \in 0 .. SIZE
    /\ stack \in [0 .. SIZE - 1 -> Addresses \cup {0}]
    /\ answer \in Addresses \cup {0}

\* Below the pointer there are only pushed addresses.
Filled == \A i \in 0 .. SIZE - 1 : i < pointer => stack[i] \in Addresses

\* The entries below the pointer, oldest first.
PendingCalls(f, n) == [i \in 1 .. n |-> f[i-1]]

Returns == INSTANCE ReturnStack
             WITH callers <- PendingCalls(stack, pointer)

\* The stack with its pointer and its shift on overflow is a bounded stack of
\* pending calls, and what it answers is the latest of them (RAS.v:51-53, 74,
\* STACK.v:33-55).
PredictsLatestCall == Returns!Spec
=============================================================================
