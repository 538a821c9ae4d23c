---------------------------- MODULE TablesProofs ----------------------------
(* The building blocks of the predictor's tables: the state machines of      *)
(* FSM.v are saturating counters, for any bank, and the return address stack *)
(* is a bounded stack of pending calls, for any size and any set of return   *)
(* addresses.                                                                *)
EXTENDS FSM, RASAlone, SequenceTheorems, TLAPS

-----------------------------------------------------------------------------
(* The state machines. *)

Bits == A \in [Sel -> BOOLEAN] /\ B \in [Sel -> BOOLEAN]

\* Every bit stays a bit (FSM.v:31-46).
LEMMA BitsInvariant == FSMSpec => []Bits
<1>1. FSMInit => Bits
  BY DEF FSMInit, Bits
<1>2. Bits /\ [FSMNext]_<<A, B>> => Bits'
  <2> SUFFICES ASSUME Bits, [FSMNext]_<<A, B>> PROVE Bits'
    OBVIOUS
  <2>1. CASE UNCHANGED <<A, B>>
    BY <2>1 DEF Bits
  <2>2. CASE FSMNext
    <3>1. PICK update \in BOOLEAN, up \in BOOLEAN, s \in Sel : FSMEdge(update, s, up)
      BY <2>2 DEF FSMNext
    <3>2. NextA(A[s], B[s], up) \in BOOLEAN /\ NextB(A[s], B[s], up) \in BOOLEAN
      BY DEF NextA, NextB
    <3>3. QED
      BY <3>1, <3>2 DEF FSMEdge, Bits
  <2>3. QED
    BY <2>1, <2>2
<1>3. QED
  BY <1>1, <1>2, PTL DEF FSMSpec

\* Read as a number, the two bits count up and down and stick at 3 and at 0.
LEMMA EquationsCount ==
  ASSUME NEW a \in BOOLEAN, NEW b \in BOOLEAN
  PROVE  /\ Value(a, b) \in 0 .. 3
         /\ Value(NextA(a, b, TRUE), NextB(a, b, TRUE))
              = IF Value(a, b) = 3 THEN 3 ELSE Value(a, b) + 1
         /\ Value(NextA(a, b, FALSE), NextB(a, b, FALSE))
              = IF Value(a, b) = 0 THEN 0 ELSE Value(a, b) - 1
<1>1. CASE a /\ b
  BY <1>1 DEF NextA, NextB, Bit, Value
<1>2. CASE a /\ ~b
  BY <1>2 DEF NextA, NextB, Bit, Value
<1>3. CASE ~a /\ b
  BY <1>3 DEF NextA, NextB, Bit, Value
<1>4. CASE ~a /\ ~b
  BY <1>4 DEF NextA, NextB, Bit, Value
<1>5. QED
  BY <1>1, <1>2, <1>3, <1>4

\* A bank of FSM.v implements a bank of saturating counters (FSM.v:34-46).
THEOREM FSMImplements == FSMSpec => CountsSaturating
<1> DEFINE c == [s \in Sel |-> Value(A[s], B[s])]
<1>1. FSMInit => Counter!Init
  BY DEF FSMInit, Counter!Init, Bit, Value
<1>2. Bits /\ [FSMNext]_<<A, B>> => [Counter!Next]_c
  <2> SUFFICES ASSUME Bits, [FSMNext]_<<A, B>> PROVE Counter!Next \/ c' = c
    OBVIOUS
  <2>1. CASE UNCHANGED <<A, B>>
    BY <2>1
  <2>2. CASE FSMNext
    <3>1. PICK update \in BOOLEAN, up \in BOOLEAN, s \in Sel : FSMEdge(update, s, up)
      BY <2>2 DEF FSMNext
    <3>2. CASE ~update
      BY <3>1, <3>2 DEF FSMEdge
    <3>3. CASE update
      <4>1. \A t \in Sel \ {s} : A'[t] = A[t] /\ B'[t] = B[t]
        BY <3>1, <3>3 DEF FSMEdge, Bits
      <4>2. A'[s] = NextA(A[s], B[s], up) /\ B'[s] = NextB(A[s], B[s], up)
        BY <3>1, <3>3 DEF FSMEdge, Bits
      <4>3. A[s] \in BOOLEAN /\ B[s] \in BOOLEAN
        BY DEF Bits
      <4>4. c' = [t \in Sel |-> Value(A'[t], B'[t])]
        OBVIOUS
      <4>5. CASE up
        <5>0. up = TRUE
          BY <4>5, Zenon
        <5>1. c'[s] = IF c[s] = 3 THEN 3 ELSE c[s] + 1
          <6>1. c'[s] = Value(NextA(A[s], B[s], TRUE), NextB(A[s], B[s], TRUE))
            BY <4>2, <4>4, <5>0
          <6>2. c[s] = Value(A[s], B[s])
            OBVIOUS
          <6> HIDE DEF c
          <6>3. Value(NextA(A[s], B[s], TRUE), NextB(A[s], B[s], TRUE))
                  = IF Value(A[s], B[s]) = 3 THEN 3 ELSE Value(A[s], B[s]) + 1
            BY <4>3, EquationsCount, Zenon
          <6>4. QED
            BY <6>1, <6>2, <6>3, Zenon
        <5>2. c' = [c EXCEPT ![s] = IF @ = 3 THEN 3 ELSE @ + 1]
          BY <4>1, <4>4, <5>1
        <5>3. QED
          BY <5>2 DEF Counter!Next, Counter!Up
      <4>6. CASE ~up
        <5>0. up = FALSE
          BY <4>6, Zenon
        <5>1. c'[s] = IF c[s] = 0 THEN 0 ELSE c[s] - 1
          <6>1. c'[s] = Value(NextA(A[s], B[s], FALSE), NextB(A[s], B[s], FALSE))
            BY <4>2, <4>4, <5>0
          <6>2. c[s] = Value(A[s], B[s])
            OBVIOUS
          <6> HIDE DEF c
          <6>3. Value(NextA(A[s], B[s], FALSE), NextB(A[s], B[s], FALSE))
                  = IF Value(A[s], B[s]) = 0 THEN 0 ELSE Value(A[s], B[s]) - 1
            BY <4>3, EquationsCount, Zenon
          <6>4. QED
            BY <6>1, <6>2, <6>3, Zenon
        <5>2. c' = [c EXCEPT ![s] = IF @ = 0 THEN 0 ELSE @ - 1]
          BY <4>1, <4>4, <5>1
        <5>3. QED
          BY <5>2 DEF Counter!Next, Counter!Down
      <4>7. QED
        BY <4>5, <4>6
    <3>4. QED
      BY <3>2, <3>3
  <2>3. QED
    BY <2>1, <2>2
<1>3. QED
  BY <1>1, <1>2, BitsInvariant, PTL DEF FSMSpec, CountsSaturating, Counter!Spec

-----------------------------------------------------------------------------
(* The return address stack. *)

RInd == RASTypeOK /\ Filled

\* The registers keep their types and the entries below the pointer are
\* addresses that were pushed (STACK.v:37-55).
LEMMA StackInvariant == RASSpec => []RInd
<1>1. RASInit => RInd
  BY SizeAssumption DEF RASInit, StackInit, RInd, RASTypeOK, Filled
<1>2. RInd /\ [RASNext]_<<stack, pointer, answer>> => RInd'
  <2> SUFFICES ASSUME RInd, [RASNext]_<<stack, pointer, answer>> PROVE RInd'
    OBVIOUS
  <2> USE DEF RInd, RASTypeOK, Filled
  <2>1. CASE UNCHANGED <<stack, pointer, answer>>
    BY <2>1
  <2>2. CASE RASNext
    <3>1. PICK is_link \in BOOLEAN, is_return \in BOOLEAN, data \in Addresses :
             /\ RASEdge(is_link, is_return, data)
             /\ answer' = IF hit(is_return) THEN alt_pc(is_link, is_return, data)
                                            ELSE 0
      BY <2>2 DEF RASNext
    <3>2. answer' \in Addresses \cup {0}
      BY <3>1, SizeAssumption DEF alt_pc, top
    <3>3. PICK push \in BOOLEAN, pop \in BOOLEAN :
             StackEdge(push, pop, data) /\ ~(push /\ pop)
      BY <3>1 DEF RASEdge, special, hit, available
    <3>4. CASE push
      BY <3>2, <3>3, <3>4, SizeAssumption DEF StackEdge
    <3>5. CASE ~push
      BY <3>2, <3>3, <3>5, SizeAssumption DEF StackEdge
    <3>6. QED
      BY <3>4, <3>5
  <2>3. QED
    BY <2>1, <2>2
<1>3. QED
  BY <1>1, <1>2, PTL DEF RASSpec

\* PendingCalls reads the part of the storage below the pointer as a sequence.
LEMMA PendingIsSeq ==
  ASSUME NEW S, NEW n \in 0 .. SIZE, NEW f \in [0 .. SIZE - 1 -> S]
  PROVE  /\ PendingCalls(f, n) \in Seq(S)
         /\ Len(PendingCalls(f, n)) = n
         /\ \A i \in 1 .. n : PendingCalls(f, n)[i] = f[i-1]
<1>1. PendingCalls(f, n) \in [1 .. n -> S] /\ n \in Nat
  BY SizeAssumption DEF PendingCalls
<1>2. PendingCalls(f, n) \in Seq(S)
  BY <1>1, SeqDef
<1>3. QED
  BY <1>1, <1>2, LenProperties DEF PendingCalls

\* The stack of RAS.v implements the bounded stack of pending calls (RAS.v:51-53,
\* 74, STACK.v:33-55).
THEOREM RASImplements == RASSpec => PredictsLatestCall
<1> DEFINE c == PendingCalls(stack, pointer)
<1>1. RASInit => Returns!Init
  BY DEF RASInit, StackInit, Returns!Init, PendingCalls
<1>2. RInd /\ RInd' /\ [RASNext]_<<stack, pointer, answer>>
        => [Returns!Next]_<<c, answer>>
  <2> SUFFICES ASSUME RInd, RInd', [RASNext]_<<stack, pointer, answer>>
               PROVE  Returns!Next \/ UNCHANGED <<c, answer>>
    OBVIOUS
  <2>1. CASE UNCHANGED <<stack, pointer, answer>>
    BY <2>1
  <2>2. CASE RASNext
    <3>1. PICK is_link \in BOOLEAN, is_return \in BOOLEAN, data \in Addresses :
             /\ RASEdge(is_link, is_return, data)
             /\ answer' = IF hit(is_return) THEN alt_pc(is_link, is_return, data)
                                            ELSE 0
      BY <2>2 DEF RASNext
    <3> DEFINE A0 == Addresses \cup {0}
    <3>2. pointer \in 0 .. SIZE /\ stack \in [0 .. SIZE - 1 -> A0]
          /\ pointer' \in 0 .. SIZE /\ stack' \in [0 .. SIZE - 1 -> A0]
      BY DEF RInd, RASTypeOK
    <3>c. c = PendingCalls(stack, pointer) /\ c' = PendingCalls(stack', pointer')
      BY DEF PendingCalls
    <3> HIDE DEF c, A0
    <3>3. c \in Seq(A0) /\ Len(c) = pointer /\ \A i \in 1 .. pointer : c[i] = stack[i-1]
      BY <3>2, <3>c, PendingIsSeq
    <3>4. /\ c' \in Seq(A0) /\ Len(c') = pointer'
          /\ \A i \in 1 .. pointer' : c'[i] = stack'[i-1]
      BY <3>2, <3>c, PendingIsSeq
    <3>5. available <=> pointer > 0
      BY <3>2, AddressesAssumption, SizeAssumption DEF available, top, RInd, Filled
    <3>6. c = <<>> <=> pointer = 0
      BY <3>2, <3>3, EmptySeq
    <3>7. pointer > 0 => top = c[Len(c)]
      BY <3>2, <3>3 DEF top
    <3>8. CASE ~is_link /\ ~hit(is_return)
      <4>1. UNCHANGED <<stack, pointer>> /\ answer' = 0
        BY <3>1, <3>2, <3>8 DEF RASEdge, special, StackEdge
      <4>2. c' = c
        BY <4>1 DEF c
      <4>3. QED
        BY <4>1, <4>2 DEF Returns!Next, Returns!Idle, c
    <3>9. CASE is_link /\ ~hit(is_return)
      <4>1. StackEdge(TRUE, FALSE, data) /\ answer' = 0
        BY <3>1, <3>9 DEF RASEdge, special
      <4>2. CASE pointer < SIZE
        <5>1. pointer' = pointer + 1 /\ stack' = [stack EXCEPT ![pointer] = data]
          BY <4>1, <4>2, <3>2, SizeAssumption DEF StackEdge
        <5>2. Append(c, data) \in Seq(A0) /\ Len(Append(c, data)) = pointer + 1
              /\ \A i \in 1 .. pointer + 1 :
                    Append(c, data)[i] = IF i = pointer + 1 THEN data ELSE c[i]
          BY <3>3, <3>2 DEF A0
        <5>3. \A i \in 1 .. pointer + 1 : c'[i] = Append(c, data)[i]
          BY <5>1, <5>2, <3>2, <3>3, <3>4, SizeAssumption
        <5>4. c' = Append(c, data)
          BY <5>1, <5>2, <5>3, <3>2, <3>4, SeqEqual, Zenon
        <5>5. Returns!Call(data)
          BY <5>4, <4>1, <4>2, <3>3 DEF Returns!Call, c
        <5>6. QED
          BY <5>5 DEF Returns!Next
      <4>3. CASE pointer = SIZE
        <5>1. pointer' = pointer
              /\ stack' = [i \in 0 .. SIZE - 1 |-> IF i = SIZE - 1 THEN data
                                                                ELSE stack[i+1]]
          BY <4>1, <4>3, <3>2, SizeAssumption DEF StackEdge
        <5>2. Tail(c) \in Seq(A0) /\ Len(Tail(c)) = pointer - 1
              /\ \A i \in 1 .. pointer - 1 : Tail(c)[i] = c[i+1]
          BY <4>3, <3>2, <3>3, <3>6, HeadTailProperties, SizeAssumption
        <5>3. Append(Tail(c), data) \in Seq(A0) /\ Len(Append(Tail(c), data)) = pointer
              /\ \A i \in 1 .. pointer :
                    Append(Tail(c), data)[i] = IF i = pointer THEN data ELSE c[i+1]
          BY <5>2, <3>2, <4>3, SizeAssumption DEF A0
        <5>4. \A i \in 1 .. pointer : c'[i] = Append(Tail(c), data)[i]
          BY <5>1, <5>3, <4>3, <3>2, <3>3, <3>4, SizeAssumption
        <5>5. c' = Append(Tail(c), data)
          BY <5>1, <5>3, <5>4, <3>2, <3>4, SeqEqual, Zenon
        <5>6. Returns!Call(data)
          BY <5>5, <4>1, <4>3, <3>3, <3>2 DEF Returns!Call, c
        <5>7. QED
          BY <5>6 DEF Returns!Next
      <4>4. QED
        BY <4>2, <4>3, <3>2, SizeAssumption
    <3>10. CASE ~is_link /\ hit(is_return)
      <4>1. StackEdge(FALSE, TRUE, data) /\ pointer > 0 /\ answer' = top
        BY <3>1, <3>5, <3>10 DEF RASEdge, special, alt_pc, hit
      <4>2. pointer' = pointer - 1 /\ stack' = stack
        BY <4>1, <3>2 DEF StackEdge
      <4>3. SubSeq(c, 1, Len(c) - 1) \in Seq(A0)
            /\ Len(SubSeq(c, 1, Len(c) - 1)) = pointer - 1
            /\ \A i \in 1 .. pointer - 1 : SubSeq(c, 1, Len(c) - 1)[i] = c[i]
        BY <4>1, <3>2, <3>3
      <4>4. \A i \in 1 .. pointer - 1 : c'[i] = SubSeq(c, 1, Len(c) - 1)[i]
        <5>1. \A i \in 1 .. pointer - 1 : c'[i] = stack[i-1] /\ c[i] = stack[i-1]
          BY <4>2, <3>2, <3>3, <3>4, SizeAssumption
        <5>2. QED
          BY <5>1, <4>3
      <4>5. c' = SubSeq(c, 1, Len(c) - 1)
        BY <4>2, <4>3, <4>4, <3>4, SeqEqual, Zenon
      <4>6. Returns!Return
        BY <4>1, <4>5, <3>6, <3>7, <3>2 DEF Returns!Return, c
      <4>7. QED
        BY <4>6 DEF Returns!Next
    <3>11. CASE is_link /\ hit(is_return)
      <4>1. UNCHANGED <<stack, pointer>> /\ pointer > 0 /\ answer' = data
        BY <3>1, <3>2, <3>5, <3>11 DEF RASEdge, special, alt_pc, hit, StackEdge
      <4>2. c' = c
        BY <4>1 DEF c
      <4>3. Returns!CallReturn(data)
        BY <4>1, <4>2, <3>6 DEF Returns!CallReturn, c
      <4>4. QED
        BY <4>3 DEF Returns!Next
    <3>12. QED
      BY <3>8, <3>9, <3>10, <3>11
  <2>3. QED
    BY <2>1, <2>2
<1>3. QED
  BY <1>1, <1>2, StackInvariant, PTL DEF RASSpec, PredictsLatestCall, Returns!Spec

\* The registers of the stack keep their types, whatever is pushed and popped
\* (STACK.v:37-55).
THEOREM RASTypes == RASSpec => []RASTypeOK
<1>1. RInd => RASTypeOK
  BY DEF RInd
<1>2. QED
  BY <1>1, StackInvariant, PTL
=============================================================================
