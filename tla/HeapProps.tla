------------------------------ MODULE HeapProps ------------------------------
(* What the heap emulator must guarantee. *)
EXTENDS Heap

HTypeOK ==
    /\ HEAP_END \in Address
    /\ HEAP_STATUS \in [Address -> 0 .. BLOCKNUM]
    /\ BLOCKNUM \in 1 .. MaxBlock
    /\ current_break \in Address
    /\ blocks \subseteq [first : Address, size : Nat \ {0}]
    /\ answer \in Address
    /\ exited \in BOOLEAN

\* The map says of every byte whether it is in use, and two neighbouring bytes
\* have one number exactly if they belong to one block: free, which follows
\* the numbers, can neither stop early nor run into the next block
\* (sm_heap.cpp:57-61, 101-105).
StatusMatches ==
    /\ \A x \in Address : HEAP_STATUS[x] # 0 <=> \E b \in blocks : Covers(b, x)
    /\ \A b \in blocks, c \in blocks :
          \A x \in Span(b.first, b.size), y \in Span(c.first, c.size) :
              HEAP_STATUS[x] = HEAP_STATUS[y] <=> b = c

\* The heap emulator is an allocator: blocks are aligned, inside the heap and
\* disjoint; free takes back what malloc gave, from the address it is told,
\* and ends the simulation only for an address in no block
\* (sm_heap.cpp:64-107).
A == INSTANCE Allocator WITH Heap <- HEAPSTART .. Limit - 1
Allocates == A!ASpec

\* A malloc that searches, for request'.argument bytes.
Searches == BLOCKNUM' # BLOCKNUM

\* A heap that has been given back is as good as new: with no block in use
\* malloc finds the start of the heap for every size that the heap has room
\* for, wherever HEAP_END has got to (sm_heap.cpp:69-82).
RecoversWhenEmpty ==
    [][ Searches /\ blocks = {} /\ heapEnd + request'.argument < Limit
            => answer' = HEAPSTART ]_hvars

\* The break stays between its start and the heap (sm_heap.cpp:114).
BreakOutsideHeap == current_break \in {0} \cup (BREAKSTART .. HEAPSTART - 1)

\* When malloc returns 0 there is "no more memory" (sm_heap.cpp:84): nowhere in
\* the heap is there room for an aligned block of this size.
FailsOnlyWhenFull ==
    [][ Searches /\ answer' = 0 =>
            LET size == request'.argument
            IN  \A a \in HEAPSTART .. Limit - size : ~Fits(a, size) ]_hvars
=============================================================================
