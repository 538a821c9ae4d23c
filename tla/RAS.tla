-------------------------------- MODULE RAS --------------------------------
(***************************************************************************)
(* RAS.v and the STACK.v it instantiates.  A call is seen in ID (is_link), *)
(* a return in the IF register (jr $31); both may happen at one edge.      *)
(***************************************************************************)
EXTENDS Integers

CONSTANT SIZE       \* entries of the stack

ASSUME SizeAssumption == SIZE \in Nat \ {0}

VARIABLES stack, pointer

StackInit ==
    /\ stack = [i \in 0 .. SIZE - 1 |-> 0]
    /\ pointer = 0

top == IF pointer > 0 THEN stack[pointer - 1] ELSE 0

\* Mutant: a push on a full stack overwrites the latest entry.
StackEdge_Overwrite(push, pop, data) ==
    /\ pointer' = CASE push /\ pointer < SIZE -> pointer + 1
                    [] ~push /\ pop /\ pointer > 0 -> pointer - 1
                    [] OTHER -> pointer
    /\ stack' = IF push
                THEN [stack EXCEPT ![IF pointer < SIZE THEN pointer ELSE SIZE - 1] = data]
                ELSE stack

\* Mutant: the pointer counts the pushes on a full stack too.
StackEdge_NoBound(push, pop, data) ==
    /\ pointer' = pointer + (IF push THEN 1 ELSE 0)
                          - (IF pop /\ pointer > 0 THEN 1 ELSE 0)
    /\ stack' = IF push /\ pointer < SIZE THEN [stack EXCEPT ![pointer] = data]
                                          ELSE stack

\* One edge of STACK: a push on a full stack drops the oldest entry.
StackEdge(push, pop, data) ==
    /\ pointer' = pointer + (IF push /\ pointer < SIZE THEN 1 ELSE 0)
                          - (IF pop /\ pointer > 0 THEN 1 ELSE 0)
    /\ stack' = CASE push /\ pointer < SIZE -> [stack EXCEPT ![pointer] = data]
                  [] push /\ pointer >= SIZE ->
                       [i \in 0 .. SIZE - 1 |-> IF i = SIZE - 1 THEN data
                                                              ELSE stack[i+1]]
                  [] ~push -> stack

\* Address 0 on top, or an empty stack, is "not available".
available == top # 0
hit(is_return) == is_return /\ available
special(is_link, is_return) == is_link /\ hit(is_return)

alt_pc(is_link, is_return, data) ==
    IF special(is_link, is_return) THEN data ELSE top

RASEdge(is_link, is_return, data) ==
    StackEdge(is_link /\ ~special(is_link, is_return),
              hit(is_return) /\ ~special(is_link, is_return),
              data)
=============================================================================
