-------------------------------- MODULE Heap --------------------------------
(***************************************************************************)
(* The heap emulator of sm_heap.cpp: malloc and free on a map that gives   *)
(* the number of its block to every byte of the heap, and the break.       *)
(*                                                                         *)
(* Addresses are those of the simulated machine, 0 .. Limit - 1.  blocks,  *)
(* request and answer are history variables of the properties: what the    *)
(* program was given and has not yet given back.                           *)
(***************************************************************************)
EXTENDS Integers

CONSTANTS
    Limit,          \* size of the address space; 2^32 in the code
    HEAPSTART, BREAKSTART,
    MaxBlock        \* bound: the numbers that BLOCKNUM reaches

ASSUME HeapAssumption ==
    /\ Limit \in Nat /\ HEAPSTART \in Nat /\ BREAKSTART \in Nat /\ MaxBlock \in Nat \ {0}
    /\ 0 < BREAKSTART /\ BREAKSTART < HEAPSTART /\ HEAPSTART < Limit
    /\ HEAPSTART % 4 = 0

VARIABLES
    HEAP_END, HEAP_STATUS, BLOCKNUM, current_break,
    blocks, request, answer, exited

hvars == <<HEAP_END, HEAP_STATUS, BLOCKNUM, current_break,
           blocks, request, answer, exited>>

Address == 0 .. Limit - 1

HInit ==
    /\ HEAP_END = 0
    /\ HEAP_STATUS = [x \in Address |-> 0]
    /\ BLOCKNUM = 1
    /\ current_break = 0
    /\ blocks = {}
    /\ request = [call |-> "none", argument |-> 0]
    /\ answer = 0
    /\ exited = FALSE

Span(first, size) == first .. first + size - 1
Block(first, size) == [first |-> first, size |-> size]

Asked(call, argument) ==
    /\ ~exited
    /\ request' = [call |-> call, argument |-> argument]

\* HEAP_END once malloc has been called
heapEnd == IF HEAP_END = 0 THEN HEAPSTART ELSE HEAP_END

\* Mutant: the status of the first byte only.
Fits_First(a, size) == a % 4 = 0 /\ HEAP_STATUS[a] = 0

Fits(a, size) == a % 4 = 0 /\ \A x \in Span(a, size) : HEAP_STATUS[x] = 0

\* Mutant: the search begins behind the blocks.
Candidates_Behind(size) == {a \in heapEnd .. heapEnd + 1 : Fits(a, size)}

\* The search counts free bytes up to HEAP_END + size, so that a block starts
\* behind the highest byte in use at the latest.
Candidates(size) == {a \in HEAPSTART .. heapEnd + 1 : Fits(a, size)}

prepHeapBlock(a, size) ==
    HEAP_STATUS' = [x \in Address |-> IF x \in Span(a, size) THEN BLOCKNUM' ELSE HEAP_STATUS[x]]

Found(a, size) ==
    /\ \A c \in Candidates(size) : a <= c
    /\ prepHeapBlock(a, size)
    /\ HEAP_END' = IF a + size - 1 > heapEnd THEN a + size - 1 ELSE heapEnd
    /\ answer' = a
    /\ blocks' = blocks \cup {Block(a, size)}

NoMemory ==
    /\ HEAP_END' = heapEnd
    /\ answer' = 0
    /\ UNCHANGED <<HEAP_STATUS, blocks>>

\* HEAP_END + size past the end of the address space wraps, and the search is
\* over at once.  A search that may end on the very last address goes on at
\* address 0: that one size is left out.
mm_malloc(size) ==
    /\ Asked("malloc", size)
    /\ heapEnd + size # Limit - 1
    /\ \/ /\ size = 0
          /\ answer' = 0
          /\ UNCHANGED <<HEAP_END, HEAP_STATUS, BLOCKNUM, blocks>>
       \/ /\ size > 0 /\ BLOCKNUM < MaxBlock
          /\ BLOCKNUM' = BLOCKNUM + 1
          /\ IF heapEnd + size < Limit /\ Candidates(size) # {}
             THEN \E a \in Candidates(size) : Found(a, size)
             ELSE NoMemory
    /\ UNCHANGED <<current_break, exited>>

\* Mutant: everything that has the number of the block's last byte is left.
Cleared_Short(a) ==
    [x \in Address |-> IF /\ x \in a .. HEAP_END - 1
                          /\ \A y \in a .. x + 1 : HEAP_STATUS[y] = HEAP_STATUS[a]
                       THEN 0 ELSE HEAP_STATUS[x]]

\* From a on, as long as the number of the block goes on.
Cleared(a) ==
    [x \in Address |-> IF /\ x \in a .. HEAP_END
                          /\ \A y \in a .. x : HEAP_STATUS[y] = HEAP_STATUS[a]
                       THEN 0 ELSE HEAP_STATUS[x]]

Covers(b, a) == a \in Span(b.first, b.size)

mm_free(a) ==
    /\ Asked("free", a)
    /\ \/ /\ a = 0
          /\ UNCHANGED <<HEAP_STATUS, exited>>
       \/ /\ a # 0 /\ HEAP_STATUS[a] = 0        \* "Freeing unallocated memory"
          /\ exited' = TRUE
          /\ UNCHANGED HEAP_STATUS
       \/ /\ a # 0 /\ HEAP_STATUS[a] # 0
          /\ HEAP_STATUS' = Cleared(a)
          /\ UNCHANGED exited
    /\ blocks' = {b \in blocks : ~Covers(b, a)} \cup
                 {Block(b.first, a - b.first) :
                      b \in {c \in blocks : Covers(c, a) /\ a # c.first}}
    /\ UNCHANGED <<HEAP_END, BLOCKNUM, current_break, answer>>

\* exec.BREAKSTART and exec.HEAPSTART are ints, current_break is unsigned: a
\* comparison with an unsigned converts them back, one with int64_t does not.
Signed(x) == IF x >= Limit \div 2 THEN x - Limit ELSE x
Unsigned(x) == IF x < 0 THEN x + Limit ELSE x

\* Mutant: the new break is not compared with the start of the heap.
Break_NoLimit(base, temp) ==
    IF temp >= Signed(BREAKSTART) THEN Unsigned(temp) ELSE base

Break(base, temp) ==
    IF temp >= Signed(BREAKSTART) /\ temp < Signed(HEAPSTART) THEN Unsigned(temp) ELSE base

mm_sbrk(value) ==
    LET base == IF current_break < BREAKSTART THEN BREAKSTART ELSE current_break
    IN  /\ ~exited
        /\ current_break' = Break(base, base + value)
        /\ UNCHANGED <<HEAP_END, HEAP_STATUS, BLOCKNUM, blocks, request, answer, exited>>

HNext == \/ \E size \in Address : mm_malloc(size)
         \/ \E a \in Address : mm_free(a)
         \/ \E value \in Int : mm_sbrk(value)

HSpec == HInit /\ [][HNext]_hvars
=============================================================================
