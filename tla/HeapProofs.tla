----------------------------- MODULE HeapProofs -----------------------------
(* The heap emulator is an allocator, for any address space, any sequence of *)
(* calls and any sizes.                                                      *)
EXTENDS HeapProps, TLAPS

\* The bytes in use lie between the start of the heap and HEAP_END: what free
\* goes through, and what malloc need not search beyond.
UsedBelowEnd ==
    /\ HEAP_END \in {0} \cup (HEAPSTART .. Limit - 1)
    /\ \A x \in Address : HEAP_STATUS[x] # 0 => x \in HEAPSTART .. HEAP_END

BlocksInside ==
    \A b \in blocks : HEAPSTART <= b.first /\ b.first + b.size <= Limit

HInd == HTypeOK /\ UsedBelowEnd /\ BlocksInside /\ StatusMatches /\ BreakOutsideHeap

Byte(b, x) == b.first <= x /\ x < b.first + b.size

\* Span and Covers as inequalities.
LEMMA SpanBytes ==
  ASSUME NEW first \in Address, NEW size \in Nat
  PROVE  /\ \A x \in Int : x \in Span(first, size) <=> first <= x /\ x < first + size
         /\ Span(first, size) \subseteq Int
         /\ Block(first, size).first = first /\ Block(first, size).size = size
  BY HeapAssumption DEF Span, Block, Address

LEMMA CoversBytes ==
  ASSUME HTypeOK, NEW b \in blocks, NEW x \in Int
  PROVE  Covers(b, x) <=> Byte(b, x)
  BY HeapAssumption DEF HTypeOK, Covers, Span, Byte, Address

\* Everything starts empty (sm_heap.cpp:12-17).
LEMMA HeapInit == HInit => HInd
<1> SUFFICES ASSUME HInit PROVE HInd
  OBVIOUS
<1>1. HTypeOK
  <2>1. 0 \in Address
    BY HeapAssumption DEF Address
  <2>2. HEAP_STATUS \in [Address -> 0 .. BLOCKNUM] /\ BLOCKNUM \in 1 .. MaxBlock
    BY HeapAssumption DEF HInit
  <2>3. QED
    BY <2>1, <2>2 DEF HInit, HTypeOK
<1>2. UsedBelowEnd /\ BlocksInside /\ StatusMatches /\ BreakOutsideHeap
  BY HeapAssumption DEF HInit, UsedBelowEnd, BlocksInside, StatusMatches, BreakOutsideHeap, Address
<1> QED
  BY <1>1, <1>2 DEF HInd

\* A malloc that finds a place marks a new block there with a new number
\* (sm_heap.cpp:57-62, 73-82).
LEMMA FoundStep ==
  ASSUME HInd, NEW size \in Address, size > 0, BLOCKNUM < MaxBlock, BLOCKNUM' = BLOCKNUM + 1,
         heapEnd + size < Limit, NEW a \in Candidates(size), Found(a, size),
         UNCHANGED <<current_break, exited>>
  PROVE  HInd'
<1> DEFINE n == Block(a, size)
<1> USE HeapAssumption
<1>1. /\ heapEnd \in HEAPSTART .. Limit - 1
      /\ a \in HEAPSTART .. heapEnd + 1 /\ a + size <= Limit /\ a \in Address
      /\ \A x \in Int : a <= x /\ x < a + size => HEAP_STATUS[x] = 0
  <2>1. heapEnd \in HEAPSTART .. Limit - 1 /\ a \in HEAPSTART .. heapEnd + 1
    BY DEF HInd, UsedBelowEnd, heapEnd, Candidates
  <2>2. a \in Address /\ a + size <= Limit
    BY <2>1 DEF Address
  <2>3. QED
    BY <2>1, <2>2, SpanBytes DEF Candidates, Fits, Address
<1>2. /\ n.first = a /\ n.size = size
      /\ blocks' = blocks \cup {n}
      /\ HEAP_END' = IF a + size - 1 > heapEnd THEN a + size - 1 ELSE heapEnd
      /\ HEAP_STATUS' = [x \in Address |-> IF a <= x /\ x < a + size
                                           THEN BLOCKNUM' ELSE HEAP_STATUS[x]]
  BY <1>1, SpanBytes DEF Found, prepHeapBlock, Address
<1>3. HTypeOK'
  <2>1. n \in [first : Address, size : Nat \ {0}]
    BY <1>1 DEF Block, Address
  <2>2. HEAP_END' \in Address
    BY <1>1, <1>2 DEF Address
  <2>3. HEAP_STATUS' \in [Address -> 0 .. BLOCKNUM']
    BY <1>2 DEF HInd, HTypeOK
  <2>4. QED
    BY <1>1, <1>2, <2>1, <2>2, <2>3 DEF HInd, HTypeOK, Found, Address
<1>4. UsedBelowEnd'
  BY <1>1, <1>2 DEF HInd, UsedBelowEnd, heapEnd, Address
<1>5. BlocksInside'
  BY <1>1, <1>2 DEF HInd, BlocksInside
<1>6. \A b \in blocks : \A x \in Int :
          Byte(b, x) => /\ x \in Address /\ HEAP_STATUS[x] # 0 /\ HEAP_STATUS[x] <= BLOCKNUM
                        /\ HEAP_STATUS'[x] = HEAP_STATUS[x]
  <2> SUFFICES ASSUME NEW b \in blocks, NEW x \in Int, Byte(b, x)
               PROVE  /\ x \in Address /\ HEAP_STATUS[x] # 0 /\ HEAP_STATUS[x] <= BLOCKNUM
                      /\ HEAP_STATUS'[x] = HEAP_STATUS[x]
    OBVIOUS
  <2>1. x \in Address
    BY DEF HInd, HTypeOK, BlocksInside, Byte, Address
  <2>2. HEAP_STATUS[x] # 0 /\ HEAP_STATUS[x] \in 0 .. BLOCKNUM
    BY <2>1, CoversBytes DEF HInd, HTypeOK, StatusMatches
  <2>3. QED
    BY <1>1, <1>2, <2>1, <2>2 DEF HInd, HTypeOK
<1>7. \A x \in Address : Byte(n, x) <=> a <= x /\ x < a + size
  BY <1>2 DEF Byte
<1>8. StatusMatches'
  <2>1. ASSUME NEW x \in Address
        PROVE  HEAP_STATUS'[x] # 0 <=> \E b \in blocks' : Byte(b, x)
    <3>1. CASE Byte(n, x)
      BY <1>2, <1>7, <3>1 DEF HInd, HTypeOK
    <3>2. CASE ~Byte(n, x)
      <4>1. HEAP_STATUS'[x] = HEAP_STATUS[x]
        BY <1>2, <1>7, <3>2
      <4>2. HEAP_STATUS[x] # 0 <=> \E b \in blocks : Byte(b, x)
        BY CoversBytes DEF HInd, StatusMatches, Address
      <4>3. QED
        BY <1>2, <3>2, <4>1, <4>2
    <3>3. QED
      BY <3>1, <3>2
  <2>2. ASSUME NEW b \in blocks', NEW c \in blocks', NEW x \in Int, NEW y \in Int,
               Byte(b, x), Byte(c, y)
        PROVE  HEAP_STATUS'[x] = HEAP_STATUS'[y] <=> b = c
    <3>1. CASE b \in blocks /\ c \in blocks
      <4>1. x \in Span(b.first, b.size) /\ y \in Span(c.first, c.size)
        BY <2>2, <3>1, CoversBytes DEF HInd, Covers
      <4>2. QED
        BY <1>6, <2>2, <3>1, <4>1 DEF HInd, StatusMatches
    <3>2. CASE b \in blocks /\ c = n
      <4>1. HEAP_STATUS'[y] = BLOCKNUM + 1 /\ a \in Int /\ Byte(n, a)
        BY <1>1, <1>2, <2>2, <3>2 DEF Byte, Address
      <4>2. HEAP_STATUS'[x] # BLOCKNUM + 1
        BY <1>6, <2>2, <3>2 DEF HInd, HTypeOK
      <4>3. n \notin blocks
        BY <1>1, <1>6, <4>1 DEF Address
      <4>4. QED
        BY <3>2, <4>1, <4>2, <4>3
    <3>3. CASE c \in blocks /\ b = n
      <4>1. HEAP_STATUS'[x] = BLOCKNUM + 1 /\ a \in Int /\ Byte(n, a)
        BY <1>1, <1>2, <2>2, <3>3 DEF Byte, Address
      <4>2. HEAP_STATUS'[y] # BLOCKNUM + 1
        BY <1>6, <2>2, <3>3 DEF HInd, HTypeOK
      <4>3. n \notin blocks
        BY <1>1, <1>6, <4>1 DEF Address
      <4>4. QED
        BY <3>3, <4>1, <4>2, <4>3
    <3>4. CASE b = n /\ c = n
      BY <1>1, <1>2, <2>2, <3>4 DEF Byte, Address
    <3>5. QED
      BY <1>2, <3>1, <3>2, <3>3, <3>4
  <2>3. \A b \in blocks', x \in Int : x \in Span(b.first, b.size) <=> Byte(b, x)
    BY <1>3 DEF HTypeOK, Span, Byte, Address
  <2>4. \A b \in blocks' : Span(b.first, b.size) \subseteq Int
    BY <1>3 DEF HTypeOK, Span, Address
  <2>5. \A x \in Address : HEAP_STATUS'[x] # 0 <=> \E b \in blocks' : Covers(b, x)
    BY <2>1, <2>3 DEF Covers, Address
  <2>6. ASSUME NEW b \in blocks', NEW c \in blocks',
               NEW x \in Span(b.first, b.size), NEW y \in Span(c.first, c.size)
        PROVE  HEAP_STATUS'[x] = HEAP_STATUS'[y] <=> b = c
    <3>1. x \in Int /\ y \in Int
      BY <2>4
    <3>2. Byte(b, x) /\ Byte(c, y)
      BY <2>3, <3>1
    <3>3. QED
      BY <2>2, <3>1, <3>2
  <2>7. QED
    BY <2>5, <2>6 DEF StatusMatches
<1>9. BreakOutsideHeap'
  BY DEF HInd, BreakOutsideHeap
<1> QED
  BY <1>3, <1>4, <1>5, <1>8, <1>9 DEF HInd

\* malloc, whatever it finds (sm_heap.cpp:64-87).
LEMMA MallocStep ==
  ASSUME HInd, NEW size \in Address, mm_malloc(size)
  PROVE  HInd'
<1> USE HeapAssumption
<1>1. CASE size = 0 /\ UNCHANGED <<HEAP_END, HEAP_STATUS, BLOCKNUM, blocks>>
  <2>1. answer' \in Address
    BY <1>1 DEF mm_malloc, Address
  <2>2. HTypeOK'
    BY <1>1, <2>1 DEF mm_malloc, HInd, HTypeOK
  <2>3. UsedBelowEnd' /\ BlocksInside' /\ StatusMatches' /\ BreakOutsideHeap'
    BY <1>1 DEF mm_malloc, HInd, UsedBelowEnd, BlocksInside, StatusMatches, Covers, BreakOutsideHeap
  <2>4. QED
    BY <2>2, <2>3 DEF HInd
<1>2. CASE size > 0 /\ BLOCKNUM < MaxBlock /\ BLOCKNUM' = BLOCKNUM + 1 /\ NoMemory
  <2>1. HTypeOK'
    BY <1>2 DEF mm_malloc, NoMemory, HInd, HTypeOK, heapEnd, Address
  <2>2. UsedBelowEnd'
    BY <1>2 DEF NoMemory, HInd, UsedBelowEnd, heapEnd, Address
  <2>3. BlocksInside' /\ StatusMatches' /\ BreakOutsideHeap'
    BY <1>2 DEF mm_malloc, NoMemory, HInd, BlocksInside, StatusMatches, Covers, BreakOutsideHeap
  <2>4. QED
    BY <2>1, <2>2, <2>3 DEF HInd
<1>3. ASSUME size > 0, BLOCKNUM < MaxBlock, BLOCKNUM' = BLOCKNUM + 1, heapEnd + size < Limit,
             NEW a \in Candidates(size), Found(a, size)
      PROVE  HInd'
  <2>1. UNCHANGED <<current_break, exited>>
    BY DEF mm_malloc
  <2>2. QED
    BY <1>3, <2>1, FoundStep
<1>4. QED
  BY <1>1, <1>2, <1>3 DEF mm_malloc

\* No byte belongs to two blocks, and all bytes of a block have one number.
LEMMA OneBlock ==
  ASSUME HInd, NEW b \in blocks, NEW c \in blocks, NEW x \in Int, NEW y \in Int,
         Byte(b, x), Byte(c, y)
  PROVE  /\ x \in Address /\ y \in Address
         /\ HEAP_STATUS[x] # 0
         /\ HEAP_STATUS[x] = HEAP_STATUS[y] <=> b = c
<1>1. x \in Address /\ y \in Address
  BY HeapAssumption DEF HInd, HTypeOK, BlocksInside, Byte, Address
<1>2. x \in Span(b.first, b.size) /\ y \in Span(c.first, c.size)
  BY CoversBytes DEF HInd, Covers
<1>3. QED
  BY <1>1, <1>2 DEF HInd, StatusMatches, Covers

\* free of an address in the block c gives back the rest of c and nothing else
\* (sm_heap.cpp:97-106).
LEMMA FreedStep ==
  ASSUME HInd, NEW a \in Address, mm_free(a), a # 0, HEAP_STATUS[a] # 0
  PROVE  HInd'
<1> USE HeapAssumption
<1>1. PICK c \in blocks : Byte(c, a)
  BY CoversBytes DEF HInd, StatusMatches, Address
<1> DEFINE s == Block(c.first, a - c.first)
           Freed(x) == a <= x /\ x < c.first + c.size
           Origin(b) == IF b \in blocks THEN b ELSE c
<1>2. c.first \in Address /\ c.size \in Nat \ {0} /\ c = Block(c.first, c.size)
  BY DEF HInd, HTypeOK, Block
<1>3. \A x \in Address : Freed(x) <=> /\ x \in a .. HEAP_END
                                      /\ \A y \in a .. x : HEAP_STATUS[y] = HEAP_STATUS[a]
  <2> SUFFICES ASSUME NEW x \in Address
               PROVE  Freed(x) <=> /\ x \in a .. HEAP_END
                                   /\ \A y \in a .. x : HEAP_STATUS[y] = HEAP_STATUS[a]
    OBVIOUS
  <2>1. ASSUME Freed(x)
        PROVE  x \in a .. HEAP_END /\ \A y \in a .. x : HEAP_STATUS[y] = HEAP_STATUS[a]
    <3>1. ASSUME NEW y \in a .. x
          PROVE  HEAP_STATUS[y] = HEAP_STATUS[a] /\ HEAP_STATUS[y] # 0
      <4>1. y \in Int /\ Byte(c, y)
        BY <1>1, <1>2, <2>1 DEF Byte, Address
      <4>2. QED
        BY <1>1, <4>1, OneBlock DEF Address
    <3>2. x \in a .. x
      BY <2>1 DEF Address
    <3>3. HEAP_STATUS[x] # 0
      BY <3>1, <3>2
    <3>4. HEAP_END \in Int /\ x <= HEAP_END
      BY <3>3 DEF HInd, UsedBelowEnd, HTypeOK, Address
    <3>5. x \in a .. HEAP_END
      BY <2>1, <3>4 DEF Address
    <3>6. QED
      BY <3>1, <3>5
  <2>2. ASSUME x \in a .. HEAP_END, \A y \in a .. x : HEAP_STATUS[y] = HEAP_STATUS[a]
        PROVE  Freed(x)
    <3>1. HEAP_STATUS[x] = HEAP_STATUS[a] /\ a <= x
      BY <2>2 DEF Address
    <3>2. PICK b \in blocks : Byte(b, x)
      BY <3>1, CoversBytes DEF HInd, StatusMatches, Address
    <3>3. b = c
      BY <1>1, <3>1, <3>2, OneBlock DEF Address
    <3>4. QED
      BY <3>1, <3>2, <3>3 DEF Byte
  <2>3. QED
    BY <2>1, <2>2
<1>4. HEAP_STATUS' = [x \in Address |-> IF Freed(x) THEN 0 ELSE HEAP_STATUS[x]]
  BY <1>3 DEF mm_free, Cleared
<1>5. \A b \in blocks : Covers(b, a) <=> b = c
  <2> SUFFICES ASSUME NEW b \in blocks PROVE Covers(b, a) <=> b = c
    OBVIOUS
  <2>1. Covers(b, a) <=> Byte(b, a)
    BY CoversBytes DEF HInd, Address
  <2>2. QED
    BY <1>1, <2>1, OneBlock DEF Address
<1>6. blocks' = (blocks \ {c}) \cup (IF a # c.first THEN {s} ELSE {})
  BY <1>5 DEF mm_free
<1>7. s.first = c.first /\ s.size = a - c.first
  BY DEF Block
<1>8. a # c.first => a - c.first \in Nat \ {0} /\ a - c.first < c.size
  BY <1>1, <1>2 DEF Byte, Address
<1>9. a # c.first => s \notin blocks
  <2> SUFFICES ASSUME a # c.first, s \in blocks PROVE FALSE
    OBVIOUS
  <2>1. Byte(s, c.first) /\ Byte(c, c.first) /\ c.first \in Int
    BY <1>1, <1>2, <1>7, <1>8 DEF Byte, Address
  <2>2. s = c
    BY <2>1, OneBlock
  <2>3. QED
    BY <1>2, <1>7, <1>8, <2>2
<1>10. ASSUME NEW b \in blocks', NEW x \in Int, Byte(b, x)
       PROVE  /\ Origin(b) \in blocks /\ Byte(Origin(b), x) /\ x \in Address
              /\ HEAP_STATUS'[x] = HEAP_STATUS[x]
  <2>1. CASE b \in blocks /\ b # c
    <3>1. x \in Address /\ ~Byte(c, x)
      BY <1>10, <2>1, OneBlock
    <3>2. ~Freed(x)
      BY <1>1, <1>2, <3>1 DEF Byte, Address
    <3>3. QED
      BY <1>4, <1>10, <2>1, <3>1, <3>2
  <2>2. CASE b = s /\ a # c.first
    <3>1. Byte(c, x) /\ ~Freed(x)
      BY <1>2, <1>7, <1>8, <1>10, <2>2 DEF Byte, Address
    <3>2. x \in Address
      BY <3>1, OneBlock
    <3>3. QED
      BY <1>4, <1>9, <2>2, <3>1, <3>2
  <2>3. QED
    BY <1>6, <2>1, <2>2
<1>11. HTypeOK'
  <2>1. a # c.first => s \in [first : Address, size : Nat \ {0}]
    BY <1>2, <1>8 DEF Block
  <2>2. blocks' \subseteq [first : Address, size : Nat \ {0}]
    BY <1>6, <2>1 DEF HInd, HTypeOK
  <2>3. HEAP_STATUS' \in [Address -> 0 .. BLOCKNUM]
    BY <1>4 DEF HInd, HTypeOK
  <2>4. QED
    BY <2>2, <2>3 DEF HInd, HTypeOK, mm_free
<1>12. UsedBelowEnd'
  BY <1>4 DEF HInd, UsedBelowEnd, mm_free
<1>13. BlocksInside'
  BY <1>2, <1>6, <1>7, <1>8 DEF HInd, BlocksInside, Address
<1>14. \A b \in blocks', x \in Int : x \in Span(b.first, b.size) <=> Byte(b, x)
  BY <1>11 DEF HTypeOK, Span, Byte, Address
<1>15. StatusMatches'
  <2>1. ASSUME NEW x \in Address
        PROVE  HEAP_STATUS'[x] # 0 <=> \E b \in blocks' : Byte(b, x)
    <3>1. ASSUME NEW b \in blocks', Byte(b, x) PROVE HEAP_STATUS'[x] # 0
      BY <1>10, <3>1, OneBlock DEF Address
    <3>2. ASSUME HEAP_STATUS'[x] # 0 PROVE \E b \in blocks' : Byte(b, x)
      <4>1. ~Freed(x) /\ HEAP_STATUS[x] # 0
        BY <1>4, <3>2
      <4>2. PICK b \in blocks : Byte(b, x)
        BY <4>1, CoversBytes DEF HInd, StatusMatches, Address
      <4>3. CASE b = c
        <5>1. a # c.first /\ Byte(s, x)
          BY <1>1, <1>2, <1>7, <4>1, <4>2, <4>3 DEF Byte, Address
        <5>2. QED
          BY <1>6, <5>1
      <4>4. CASE b # c
        BY <1>6, <4>2, <4>4
      <4>5. QED
        BY <4>3, <4>4
    <3>3. QED
      BY <3>1, <3>2
  <2>2. \A x \in Address : HEAP_STATUS'[x] # 0 <=> \E b \in blocks' : Covers(b, x)
    BY <1>14, <2>1 DEF Covers, Address
  <2>3. ASSUME NEW b \in blocks', NEW d \in blocks',
               NEW x \in Span(b.first, b.size), NEW y \in Span(d.first, d.size)
        PROVE  HEAP_STATUS'[x] = HEAP_STATUS'[y] <=> b = d
    <3>1. x \in Int /\ y \in Int
      BY <1>11 DEF HTypeOK, Span, Address
    <3>2. Byte(b, x) /\ Byte(d, y)
      BY <1>14, <3>1
    <3>3. HEAP_STATUS'[x] = HEAP_STATUS'[y] <=> Origin(b) = Origin(d)
      <4>1. /\ Origin(b) \in blocks /\ Byte(Origin(b), x)
            /\ HEAP_STATUS'[x] = HEAP_STATUS[x]
        BY <1>10, <3>1, <3>2
      <4>2. /\ Origin(d) \in blocks /\ Byte(Origin(d), y)
            /\ HEAP_STATUS'[y] = HEAP_STATUS[y]
        BY <1>10, <3>1, <3>2
      <4> HIDE DEF Origin
      <4>3. QED
        BY <3>1, <4>1, <4>2, OneBlock
    <3>4. Origin(b) = Origin(d) <=> b = d
      BY <1>6, <1>9
    <3>5. QED
      BY <3>3, <3>4
  <2>4. QED
    BY <2>2, <2>3 DEF StatusMatches
<1>16. BreakOutsideHeap'
  BY DEF HInd, BreakOutsideHeap, mm_free
<1> QED
  BY <1>11, <1>12, <1>13, <1>15, <1>16 DEF HInd

\* free, whatever it is given (sm_heap.cpp:89-107).
LEMMA FreeStep ==
  ASSUME HInd, NEW a \in Address, mm_free(a)
  PROVE  HInd'
<1> USE HeapAssumption
<1>1. CASE a = 0 \/ HEAP_STATUS[a] = 0
  <2>1. HEAP_STATUS[a] = 0
    BY <1>1 DEF HInd, UsedBelowEnd, Address
  <2>2. \A b \in blocks : ~Covers(b, a)
    BY <2>1 DEF HInd, StatusMatches
  <2>3. blocks' = blocks
    BY <2>2 DEF mm_free
  <2>4. HEAP_STATUS' = HEAP_STATUS
    BY <1>1 DEF mm_free
  <2>5. exited' \in BOOLEAN
    BY DEF mm_free, HInd, HTypeOK
  <2>6. HTypeOK'
    BY <2>3, <2>4, <2>5 DEF HInd, HTypeOK, mm_free
  <2>7. UsedBelowEnd' /\ BlocksInside' /\ StatusMatches' /\ BreakOutsideHeap'
    BY <2>3, <2>4 DEF mm_free, HInd, UsedBelowEnd, BlocksInside, StatusMatches, Covers, BreakOutsideHeap
  <2>8. QED
    BY <2>6, <2>7 DEF HInd
<1>2. QED
  BY <1>1, FreedStep

\* sbrk with any value, positive or negative (sm_heap.cpp:109-117).
LEMMA SbrkStep ==
  ASSUME HInd, NEW value \in Int, mm_sbrk(value)
  PROVE  HInd'
<1> USE HeapAssumption
<1> DEFINE base == IF current_break < BREAKSTART THEN BREAKSTART ELSE current_break
           half == Limit \div 2
<1>1. half \in Nat /\ half <= Limit
  OBVIOUS
<1>2. base \in BREAKSTART .. HEAPSTART - 1 /\ base + value \in Int
  BY DEF HInd, BreakOutsideHeap
<1>3. Break(base, base + value) \in BREAKSTART .. HEAPSTART - 1
  <2> DEFINE temp == base + value
             start == Signed(BREAKSTART)
             end == Signed(HEAPSTART)
  <2>1. /\ start = IF BREAKSTART >= half THEN BREAKSTART - Limit ELSE BREAKSTART
        /\ end = IF HEAPSTART >= half THEN HEAPSTART - Limit ELSE HEAPSTART
    BY DEF Signed
  <2>2. Break(base, temp) = IF temp >= start /\ temp < end THEN Unsigned(temp) ELSE base
    BY DEF Break
  <2>3. temp \in Int /\ Unsigned(temp) = IF temp < 0 THEN temp + Limit ELSE temp
    BY <1>2 DEF Unsigned
  <2> HIDE DEF temp, start, end, half, base
  <2>4. temp >= start /\ temp < end => Unsigned(temp) \in BREAKSTART .. HEAPSTART - 1
    BY <1>1, <2>1, <2>3
  <2>5. QED
    BY <1>2, <2>2, <2>4 DEF temp
<1>4. current_break' \in BREAKSTART .. HEAPSTART - 1
  BY <1>3 DEF mm_sbrk
<1>5. HTypeOK'
  BY <1>4 DEF mm_sbrk, HInd, HTypeOK, Address
<1>6. UsedBelowEnd' /\ BlocksInside' /\ StatusMatches' /\ BreakOutsideHeap'
  BY <1>4 DEF mm_sbrk, HInd, UsedBelowEnd, BlocksInside, StatusMatches, Covers, BreakOutsideHeap
<1>7. QED
  BY <1>5, <1>6 DEF HInd

LEMMA HeapStep == HInd /\ [HNext]_hvars => HInd'
<1>1. HInd /\ HNext => HInd'
  BY MallocStep, FreeStep, SbrkStep DEF HNext
<1>2. HInd /\ UNCHANGED hvars => HInd'
  BY DEF hvars, HInd, HTypeOK, UsedBelowEnd, BlocksInside, StatusMatches, Covers, BreakOutsideHeap
<1>3. QED
  BY <1>1, <1>2

LEMMA HeapInvariant == HSpec => []HInd
  BY HeapInit, HeapStep, PTL DEF HSpec

\* The heap's tables have their types, whatever the program asks for
\* (sm_heap.cpp:4-10).
THEOREM HeapTypes == HSpec => []HTypeOK
<1>1. HInd => HTypeOK
  BY DEF HInd
<1>2. QED
  BY <1>1, HeapInvariant, PTL

\* After any sequence of calls the map tells the bytes in use from the free
\* ones, and every block from its neighbours (sm_heap.cpp:57-61, 101-105).
THEOREM NumbersTellBlocks == HSpec => []StatusMatches
<1>1. HInd => StatusMatches
  BY DEF HInd
<1>2. QED
  BY <1>1, HeapInvariant, PTL

\* No value given to sbrk moves the break into the heap (sm_heap.cpp:114).
THEOREM BreakNeverInHeap == HSpec => []BreakOutsideHeap
<1>1. HInd => BreakOutsideHeap
  BY DEF HInd
<1>2. QED
  BY <1>1, HeapInvariant, PTL

\* A malloc that searches is one that is not asked for 0 bytes.
LEMMA SearchingMalloc ==
  ASSUME HInd, HNext, Searches
  PROVE  \E size \in Address : size > 0 /\ mm_malloc(size) /\ request'.argument = size
<1>1. ASSUME NEW a \in Address, mm_free(a) PROVE FALSE
  BY <1>1 DEF mm_free, Searches
<1>2. ASSUME NEW value \in Int, mm_sbrk(value) PROVE FALSE
  BY <1>2 DEF mm_sbrk, Searches
<1>3. PICK size \in Address : mm_malloc(size)
  BY <1>1, <1>2 DEF HNext
<1>4. size > 0
  BY <1>3 DEF mm_malloc, Searches
<1>5. request'.argument = size
  BY <1>3 DEF mm_malloc, Asked
<1>6. QED
  BY <1>3, <1>4, <1>5

LEMMA RecoveringStep ==
  ASSUME HInd, HNext, Searches, blocks = {}, heapEnd + request'.argument < Limit
  PROVE  answer' = HEAPSTART
<1> USE HeapAssumption
<1>1. PICK size \in Address : size > 0 /\ mm_malloc(size) /\ request'.argument = size
  BY SearchingMalloc
<1>2. heapEnd \in HEAPSTART .. Limit - 1
  BY DEF HInd, UsedBelowEnd, heapEnd
<1>3. Fits(HEAPSTART, size)
  <2>1. \A x \in Address : HEAP_STATUS[x] = 0
    BY DEF HInd, StatusMatches
  <2>2. Span(HEAPSTART, size) \subseteq Address
    BY <1>1, <1>2 DEF Span, Address
  <2>3. QED
    BY <2>1, <2>2 DEF Fits
<1>4. HEAPSTART \in Candidates(size)
  BY <1>2, <1>3 DEF Candidates
<1>5. PICK a \in Candidates(size) : Found(a, size)
  BY <1>1, <1>4 DEF mm_malloc
<1>6. a <= HEAPSTART /\ HEAPSTART <= a /\ a \in Int /\ answer' = a
  BY <1>2, <1>4, <1>5 DEF Found, Candidates
<1>7. QED
  BY <1>6

\* A heap in which nothing is in use serves every size it has room for from its
\* start, whatever was allocated and given back before (sm_heap.cpp:69-82).
THEOREM EmptyHeapIsNew == HSpec => RecoversWhenEmpty
<1> DEFINE Recovers == Searches /\ blocks = {} /\ heapEnd + request'.argument < Limit
                           => answer' = HEAPSTART
<1>1. HInd /\ [HNext]_hvars => [Recovers]_hvars
  BY RecoveringStep
<1>2. QED
  BY <1>1, HeapInvariant, PTL DEF HSpec, RecoversWhenEmpty

\* In use, to the map and to the allocator.
LEMMA InUseByMap ==
  ASSUME HInd, NEW x \in Address
  PROVE  A!InUse(x) <=> HEAP_STATUS[x] # 0
BY DEF HInd, StatusMatches, Covers, Span, A!InUse, A!Bytes, A!Span

LEMMA MallocAllocates ==
  ASSUME HInd, NEW size \in Address, mm_malloc(size)
  PROVE  A!Malloc(size)
<1> USE HeapAssumption
<1>1. ~exited /\ A!Asked("malloc", size) /\ UNCHANGED exited
  BY DEF mm_malloc, Asked, A!Asked
<1>2. CASE answer' = 0 /\ UNCHANGED blocks
  BY <1>1, <1>2 DEF A!Malloc, A!Refuse
<1>3. ASSUME size > 0, heapEnd + size < Limit, NEW a \in Candidates(size), Found(a, size)
      PROVE  A!Malloc(size)
  <2>1. heapEnd \in HEAPSTART .. Limit - 1 /\ a \in HEAPSTART .. heapEnd + 1
    BY DEF HInd, UsedBelowEnd, heapEnd, Candidates
  <2>2. a \in HEAPSTART .. Limit - 1
    BY <1>3, <2>1 DEF Address
  <2>3. A!Span(a, size) \subseteq HEAPSTART .. Limit - 1
    BY <1>3, <2>1 DEF A!Span, Address
  <2>4. a % 4 = 0 /\ \A x \in A!Span(a, size) : HEAP_STATUS[x] = 0
    BY DEF Candidates, Fits, Span, A!Span
  <2>5. \A x \in A!Span(a, size) : ~A!InUse(x)
    BY <2>3, <2>4, InUseByMap DEF Address
  <2>6. blocks' = blocks \cup {A!Block(a, size)} /\ answer' = a
    BY <1>3 DEF Found, Block, A!Block
  <2>7. A!Grant(size)
    BY <2>2, <2>3, <2>4, <2>5, <2>6 DEF A!Grant
  <2>8. QED
    BY <1>1, <2>7 DEF A!Malloc
<1>4. QED
  BY <1>2, <1>3 DEF mm_malloc, NoMemory

LEMMA FreeAllocates ==
  ASSUME HInd, NEW a \in Address, mm_free(a)
  PROVE  A!Free(a)
<1>1. ~exited /\ A!Asked("free", a) /\ UNCHANGED answer
  BY DEF mm_free, Asked, A!Asked
<1>2. blocks' = A!Without(a)
  BY DEF mm_free, Covers, Span, Block, A!Without, A!Bytes, A!Span, A!Block
<1>3. exited \in BOOLEAN
  BY DEF HInd, HTypeOK
<1>4. exited' = (a # 0 /\ HEAP_STATUS[a] = 0)
  <2>1. CASE a = 0 \/ HEAP_STATUS[a] # 0
    <3>1. exited' = exited
      BY <2>1 DEF mm_free
    <3>2. exited' = FALSE
      BY <1>1, <1>3, <3>1
    <3>3. QED
      BY <2>1, <3>2
  <2>2. CASE a # 0 /\ HEAP_STATUS[a] = 0
    <3>1. exited' = TRUE
      BY <2>2 DEF mm_free
    <3>2. QED
      BY <2>2, <3>1
  <2>3. QED
    BY <2>1, <2>2
<1>5. exited' = (a # 0 /\ ~A!InUse(a))
  BY <1>4, InUseByMap
<1>6. QED
  BY <1>1, <1>2, <1>5 DEF A!Free

\* The heap emulator does what an allocator may do and nothing else: its map,
\* its search and its clearing never give out a byte twice, nor take back one
\* that was not freed (sm_heap.cpp:64-107).
THEOREM HeapAllocates == HSpec => Allocates
<1>1. HInit => A!AInit
  BY DEF HInit, A!AInit, A!NoRequest
<1>2. HInd /\ [HNext]_hvars => [A!ANext]_(A!avars)
  <2> SUFFICES ASSUME HInd, [HNext]_hvars PROVE [A!ANext]_(A!avars)
    OBVIOUS
  <2>1. ASSUME NEW size \in Address, mm_malloc(size) PROVE A!ANext
    BY <2>1, MallocAllocates DEF A!ANext
  <2>2. ASSUME NEW a \in Address, mm_free(a) PROVE A!ANext
    BY <2>2, FreeAllocates DEF A!ANext
  <2>3. ASSUME NEW value \in Int, mm_sbrk(value) PROVE UNCHANGED A!avars
    BY <2>3 DEF mm_sbrk, A!avars
  <2>4. CASE UNCHANGED hvars
    BY <2>4 DEF hvars, A!avars
  <2>5. QED
    BY <2>1, <2>2, <2>3, <2>4 DEF HNext
<1>3. QED
  BY <1>1, <1>2, HeapInvariant, PTL DEF HSpec, Allocates, A!ASpec
=============================================================================
