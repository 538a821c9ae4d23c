------------------------------ MODULE Allocator ------------------------------
(***************************************************************************)
(* What the heap promises to a program: a block that malloc returns is     *)
(* aligned, lies in the heap and shares no byte with a block in use; free  *)
(* takes back the block it is given the start of, and no other byte.       *)
(*                                                                         *)
(* An address inside a block gives back the rest of the block from there   *)
(* on; free of an address in no block ends the simulation.                 *)
(***************************************************************************)
EXTENDS Integers

CONSTANTS Heap,     \* the addresses that blocks may consist of
          Address   \* what free may be given and malloc be asked for

VARIABLES
    blocks,         \* the blocks in use
    request,        \* the latest call and its argument
    answer,         \* what malloc last returned; 0 when it found nothing
    exited

avars == <<blocks, request, answer, exited>>

Span(first, size) == first .. first + size - 1
Block(first, size) == [first |-> first, size |-> size]
Bytes(b) == Span(b.first, b.size)
InUse(x) == \E b \in blocks : x \in Bytes(b)

NoRequest == [call |-> "none", argument |-> 0]
Asked(call, argument) == request' = [call |-> call, argument |-> argument]

Grant(size) ==
    \E a \in Heap :
        /\ a % 4 = 0
        /\ Span(a, size) \subseteq Heap
        /\ \A x \in Span(a, size) : ~InUse(x)
        /\ blocks' = blocks \cup {Block(a, size)}
        /\ answer' = a

Refuse == answer' = 0 /\ UNCHANGED blocks

Malloc(size) ==
    /\ ~exited
    /\ Asked("malloc", size)
    /\ Refuse \/ Grant(size)
    /\ UNCHANGED exited

\* The blocks when everything from a to the end of its block is given back.
Without(a) ==
    {b \in blocks : a \notin Bytes(b)} \cup
    {Block(b.first, a - b.first) : b \in {c \in blocks : a \in Bytes(c) /\ a # c.first}}

Free(a) ==
    /\ ~exited
    /\ Asked("free", a)
    /\ blocks' = Without(a)
    /\ exited' = (a # 0 /\ ~InUse(a))
    /\ UNCHANGED answer

AInit == /\ blocks = {} /\ request = NoRequest /\ answer = 0 /\ exited = FALSE

ANext == \/ \E size \in Address : Malloc(size)
         \/ \E a \in Address : Free(a)

ASpec == AInit /\ [][ANext]_avars
=============================================================================
