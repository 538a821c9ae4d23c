-------------------------- MODULE SimulatorProofs --------------------------
(* What the simulator guarantees to every program, whatever functions it     *)
(* calls and in whatever order its symbols are loaded.                       *)
EXTENDS SimulatorProps, HeapProofs, WellFoundedInduction, SequenceTheorems, FiniteSetTheorems

\* The system calls that each function may make: its own, or that of a stub.
LEMMA RunsOf ==
  ASSUME NEW order
  PROVE  /\ Runs(order, "__libc_malloc") = 4555
         /\ Runs(order, "__mmap") = 4090
         /\ Runs(order, "__cfree") = 4091
         /\ Runs(order, "__munmap") \in {4091, 4004}
         /\ Runs(order, "__sbrk") = 4045
         /\ Runs(order, "__libc_open") = 4005
         /\ Runs(order, "__close") = 4006
         /\ Runs(order, "__libc_read") \in {4003, 4004}
         /\ Runs(order, "__libc_write") = 4004
         /\ Runs(order, "_exit") = 4001
  BY DEF Runs, Own, Pointer, Stubs

\* What a call of malloc or mmap asks the heap for is an address.
LEMMA Asks ==
  ASSUME NEW size \in Sizes
  PROVE  /\ (IF Signed(size) < MinSize THEN MinSize ELSE size) \in Address
         /\ AtLeast((size * (1 + 0)) % Limit) \in Address
<1> USE HeapAssumption, SimulatorAssumption
<1>1. \A x \in Address : AtLeast(x) \in Address
  BY DEF AtLeast, Address
<1>2. size \in Address /\ size * (1 + 0) = size
  BY DEF Address
<1>3. size % Limit \in Address
  BY <1>2 DEF Address
<1>4. QED
  BY <1>1, <1>2, <1>3

\* A system call is a step of the heap emulator or leaves it alone.
LEMMA HeapPart ==
  ASSUME SNext
  PROVE  HNext \/ UNCHANGED hvars
<1> USE HeapAssumption, SimulatorAssumption
<1>1. ASSUME NEW size \in Sizes, Call("__libc_malloc", size, 0, 0) PROVE HNext
  <2>1. mm_malloc(IF Signed(size) < MinSize THEN MinSize ELSE size)
    BY <1>1, RunsOf DEF Call, Serve, Malloc
  <2>2. QED
    BY <2>1, Asks DEF HNext
<1>2. ASSUME NEW size \in Sizes, Call("__mmap", 0, size, 0) PROVE HNext
  <2>1. mm_malloc(AtLeast((size * (1 + 0)) % Limit))
    BY <1>2, RunsOf DEF Call, Serve, Mmap
  <2>2. QED
    BY <2>1, Asks DEF HNext
<1>3. ASSUME NEW a \in HEAPSTART .. Limit - 1,
             Call("__cfree", a, 0, 0) \/ Call("__munmap", a, 0, 0)
      PROVE  HNext \/ UNCHANGED hvars
  <2>1. mm_free(a) \/ UNCHANGED hvars
    BY <1>3, RunsOf DEF Call, Serve, Munmap, WriteToFile, NoDescriptor, Exit
  <2>2. a \in Address
    BY DEF Address
  <2>3. QED
    BY <2>1, <2>2 DEF HNext
<1>4. ASSUME NEW value \in Steps, Call("__sbrk", value, 0, 0) PROVE HNext
  <2>1. mm_sbrk(value) /\ value \in Int
    BY <1>4, RunsOf DEF Call, Serve, Brk
  <2>2. QED
    BY <2>1 DEF HNext
<1>5. CASE CallFiles \/ Call("_exit", 0, 0, 0)
  BY <1>5, RunsOf DEF CallFiles, Call, Serve, ReadFile, WriteToFile, OpenFile, CloseFile, NoDescriptor, Exit
<1>6. QED
  BY <1>1, <1>2, <1>3, <1>4, <1>5 DEF SNext, CallHeap

\* Whatever else a program does, its heap is that of sm_heap.cpp: everything
\* proved of the heap emulator holds in the simulator (sim_main.cpp:1006-1034).
THEOREM SimulatorHeap == SSpec => HSpec
<1>1. SInit => HInit
  BY DEF SInit
<1>2. [SNext]_svars => [HNext]_hvars
  BY HeapPart DEF svars, hvars
<1>3. QED
  BY <1>1, <1>2, PTL DEF SSpec, HSpec

\* The heap of every program satisfies what the heap emulator does
\* (sm_heap.cpp:57-117, sim_main.cpp:991-1034).
THEOREM ProgramsHeap ==
  SSpec => /\ []StatusMatches /\ []BreakOutsideHeap
           /\ Allocates /\ RecoversWhenEmpty
BY SimulatorHeap, NumbersTellBlocks, BreakNeverInHeap, HeapAllocates, EmptyHeapIsNew, PTL

OpenedInTable ==
    /\ opened \subseteq [fd : 3 .. FileDescriptorIndex - 1, name : Names]
    /\ \A o \in opened : FDT_filename[o.fd + 1] = o.name
    /\ \A o, p \in opened : o.fd = p.fd => o = p
    /\ \A fd \in 3 .. FileDescriptorIndex - 1 : \E o \in opened : o.fd = fd

\* A file that was opened is there, unless the host refused to create it.
OpenedPresent == \A o \in opened : o.name \in Unwritable \/ o.name \in present

\* A descriptor that has delivered its file is closed, and none is open again.
ReadOnce ==
    /\ reads \in [0 .. MaxFiles + 2 -> Nat]
    /\ \A fd \in 3 .. MaxFiles + 2 :
          /\ reads[fd] <= 1
          /\ fd >= FileDescriptorIndex => reads[fd] = 0
          /\ fd < FileDescriptorIndex /\ reads[fd] = 1 => FDT_state[fd + 1] = Closed

FInd == /\ TablesInStep /\ OpenedInTable /\ ReadOnce /\ OpenedPresent
        /\ HangsOnlyOnMissing /\ reading \in Descriptors

LEMMA FilesStart == FilesInit => FInd
<1> SUFFICES ASSUME FilesInit PROVE FInd
  OBVIOUS
<1> USE FilesAssumption DEF FilesInit
<1>1. TablesInStep
  <2>1. Standard[0] \in FileNames /\ Standard[1] \in FileNames /\ Standard[2] \in FileNames
    BY DEF FileNames
  <2>2. FDT_filename \in Seq(FileNames) /\ Len(FDT_filename) = 3
    BY <2>1
  <2>3. FDT_state \in Seq({Open, Closed}) /\ Len(FDT_state) = 3
    OBVIOUS
  <2>4. QED
    BY <2>2, <2>3 DEF TablesInStep, FileNames
<1>2. OpenedInTable /\ OpenedPresent /\ HangsOnlyOnMissing /\ reading \in Descriptors
  BY DEF OpenedInTable, OpenedPresent, HangsOnlyOnMissing, Descriptors
<1>3. ReadOnce
  BY DEF ReadOnce
<1>4. QED
  BY <1>1, <1>2, <1>3 DEF FInd

\* open gives out a descriptor that has not been given out (sim_main.cpp:955-969).
LEMMA OpenStep ==
  ASSUME FInd, ~hung, NEW name \in Names, open(name)
  PROVE  FInd'
<1> USE FilesAssumption
<1> DEFINE o == [fd |-> FileDescriptorIndex, name |-> name]
<1>1. /\ FDT_filename \in Seq(FileNames) /\ FDT_state \in Seq({Open, Closed})
      /\ FileDescriptorIndex \in 3 .. MaxFiles + 2
      /\ Len(FDT_filename) = FileDescriptorIndex /\ Len(FDT_state) = FileDescriptorIndex
      /\ name \in FileNames
  BY DEF FInd, TablesInStep, FileNames, open
<1>2. /\ FDT_filename' = Append(FDT_filename, name) /\ FDT_state' = Append(FDT_state, Open)
      /\ FileDescriptorIndex' = FileDescriptorIndex + 1
      /\ opened' = opened \cup {o} /\ reads' = reads
      /\ present \subseteq present' /\ (name \in Unwritable \/ name \in present')
  BY DEF open
<1>3. TablesInStep'
  BY <1>1, <1>2 DEF TablesInStep, FileNames
<1>4. OpenedInTable'
  <2>1. \A p \in opened : p.fd \in 3 .. FileDescriptorIndex - 1 /\ p.name \in Names
    BY DEF FInd, OpenedInTable
  <2>2. opened' \subseteq [fd : 3 .. FileDescriptorIndex' - 1, name : Names]
    BY <1>1, <1>2 DEF FInd, OpenedInTable
  <2>3. \A p \in opened' : FDT_filename'[p.fd + 1] = p.name
    BY <1>1, <1>2, <2>1 DEF FInd, OpenedInTable
  <2>4. \A p, q \in opened' : p.fd = q.fd => p = q
    BY <1>1, <1>2, <2>1 DEF FInd, OpenedInTable
  <2>5. \A fd \in 3 .. FileDescriptorIndex' - 1 : \E p \in opened' : p.fd = fd
    <3>1. \A fd \in 3 .. FileDescriptorIndex - 1 : \E p \in opened : p.fd = fd
      BY DEF FInd, OpenedInTable
    <3>2. o \in opened' /\ o.fd = FileDescriptorIndex /\ opened \subseteq opened'
      BY <1>2
    <3>3. ASSUME NEW fd \in 3 .. FileDescriptorIndex' - 1
          PROVE  \E p \in opened' : p.fd = fd
      <4>1. CASE fd = FileDescriptorIndex
        BY <3>2, <4>1
      <4>2. CASE fd # FileDescriptorIndex
        <5>1. fd \in 3 .. FileDescriptorIndex - 1
          BY <1>1, <1>2, <4>2
        <5>2. QED
          BY <3>1, <3>2, <5>1
      <4>3. QED
        BY <4>1, <4>2
    <3>4. QED
      BY <3>3
  <2>6. QED
    BY <2>2, <2>3, <2>4, <2>5 DEF OpenedInTable
<1>5. ReadOnce'
  BY <1>1, <1>2 DEF FInd, ReadOnce
<1>6. OpenedPresent'
  BY <1>2 DEF FInd, OpenedPresent
<1>7. HangsOnlyOnMissing' /\ reading' \in Descriptors'
  BY <1>1, <1>2 DEF FInd, HangsOnlyOnMissing, Descriptors, open
<1>8. QED
  BY <1>3, <1>4, <1>5, <1>6, <1>7 DEF FInd

\* close and read only close descriptors (sim_main.cpp:912, 970).
LEMMA CloseStep ==
  ASSUME FInd, ~hung, NEW fd \in Descriptors,
         FDT_state' = [FDT_state EXCEPT ![Entry(fd)] = Closed],
         UNCHANGED <<FDT_filename, FileDescriptorIndex, present, hung, opened>>,
         reading' \in {reading, fd},
         reads' = reads \/ /\ fd # 0
                           /\ reads' = [reads EXCEPT ![fd] = IF IsOpen(fd) THEN @ + 1 ELSE @]
  PROVE  FInd'
<1> USE FilesAssumption
<1>1. /\ FDT_state \in Seq({Open, Closed}) /\ Len(FDT_state) = FileDescriptorIndex
      /\ FileDescriptorIndex \in 3 .. MaxFiles + 3
      /\ fd \in 0 .. FileDescriptorIndex - 1
  BY DEF FInd, TablesInStep, Descriptors
<1>2. TablesInStep'
  BY <1>1 DEF FInd, TablesInStep, Entry
<1>3. OpenedInTable' /\ OpenedPresent' /\ HangsOnlyOnMissing' /\ reading' \in Descriptors'
  BY DEF FInd, OpenedInTable, OpenedPresent, HangsOnlyOnMissing, Descriptors
<1>4. ReadOnce'
  <2>1. reads' \in [0 .. MaxFiles + 2 -> Nat]
    BY <1>1 DEF FInd, ReadOnce
  <2>2. ASSUME NEW g \in 3 .. MaxFiles + 2
        PROVE  /\ reads'[g] <= 1
               /\ g >= FileDescriptorIndex => reads'[g] = 0
               /\ g < FileDescriptorIndex /\ reads'[g] = 1 => FDT_state'[g + 1] = Closed
    <3>1. CASE g # fd
      BY <1>1, <3>1 DEF FInd, ReadOnce, Entry
    <3>2. CASE g = fd
      <4>1. FDT_state'[g + 1] = Closed
        BY <1>1, <3>2 DEF Entry
      <4>2. reads'[g] <= 1
        BY <1>1, <3>2 DEF FInd, ReadOnce, IsOpen, Entry
      <4>3. QED
        BY <1>1, <3>2, <4>1, <4>2
    <3>3. QED
      BY <3>1, <3>2
  <2>3. QED
    BY <2>1, <2>2 DEF ReadOnce
<1>5. QED
  BY <1>2, <1>3, <1>4 DEF FInd

\* A read of a file that is not there: by OpenedPresent the descriptor is a
\* standard one or names a file that the host refused (sim_main.cpp:893-899).
LEMMA HangStep ==
  ASSUME FInd, NEW fd \in Descriptors, readMissing(fd)
  PROVE  FInd'
<1>1. /\ fd \in 0 .. FileDescriptorIndex - 1 /\ FileDescriptorIndex \in Nat
      /\ fd # 0 /\ NameOf(fd) \notin present
      /\ reading' = fd /\ NameOf(fd)' = NameOf(fd) /\ present' = present
  BY DEF FInd, TablesInStep, Descriptors, readMissing, NameOf
<1>2. ASSUME fd \notin {1, 2}
      PROVE  \E o \in opened : o.fd = fd /\ o.name \in Unwritable
  <2>1. PICK o \in opened : o.fd = fd
    BY <1>1, <1>2 DEF FInd, OpenedInTable
  <2>2. o.name = NameOf(fd)
    BY <2>1 DEF FInd, OpenedInTable, NameOf, Entry
  <2>3. QED
    BY <1>1, <2>1, <2>2 DEF FInd, OpenedPresent
<1>3. HangsOnlyOnMissing'
  BY <1>1, <1>2 DEF HangsOnlyOnMissing, NameOf, Entry, readMissing
<1>4. TablesInStep' /\ OpenedInTable' /\ ReadOnce' /\ OpenedPresent' /\ reading' \in Descriptors'
  BY DEF FInd, TablesInStep, OpenedInTable, ReadOnce, OpenedPresent, Descriptors, readMissing
<1>5. QED
  BY <1>3, <1>4 DEF FInd

\* The other calls may add a file, which is not one that the simulator hangs
\* in, and change no table.
LEMMA TablesUnchanged ==
  ASSUME FInd, UNCHANGED <<FDT_filename, FDT_state, FileDescriptorIndex, hung, opened, reads, reading>>,
         present \subseteq present', hung => present' = present
  PROVE  FInd'
BY DEF FInd, TablesInStep, OpenedInTable, ReadOnce, OpenedPresent, HangsOnlyOnMissing, Descriptors, NameOf, Entry

LEMMA ReadStep ==
  ASSUME FInd, ~hung, NEW fd \in Descriptors, ReadFile(fd)
  PROVE  FInd'
<1>1. ASSUME NEW text \in Texts, fd = 0, readStdin(text) PROVE FInd'
  BY <1>1, CloseStep DEF readStdin
<1>2. CASE readMissing(fd)
  BY <1>2, HangStep
<1>3. CASE readFile(fd)
  BY <1>3, CloseStep DEF readFile
<1>4. QED
  BY <1>1, <1>2, <1>3 DEF ReadFile

LEMMA WriteStep ==
  ASSUME FInd, ~hung, NEW fd, NEW text, NEW length, WriteToFile(fd, text, length)
  PROVE  FInd'
<1>1. CASE writeConsole(fd, text, length)
  BY <1>1, TablesUnchanged DEF writeConsole
<1>2. CASE writeFile(fd, text, length)
  BY <1>2, TablesUnchanged DEF writeFile
<1>3. QED
  BY <1>1, <1>2 DEF WriteToFile

\* A system call keeps the tables of descriptors in step.
LEMMA FilesPart ==
  ASSUME FInd, SNext
  PROVE  FInd'
<1>1. ASSUME UNCHANGED files PROVE FInd'
  BY <1>1, TablesUnchanged DEF files
<1>2. CASE CallHeap
  <2>1. ASSUME NEW a, Call("__munmap", a, 0, 0) PROVE FInd'
    <3>1. UNCHANGED files \/ WriteToFile(a, 0, 0)
      BY <2>1, RunsOf DEF Call, Serve, Munmap, NoDescriptor, Exit
    <3>2. QED
      BY <1>1, <2>1, <3>1, WriteStep DEF Call
  <2>2. ASSUME ~\E a \in HEAPSTART .. Limit - 1 : Call("__munmap", a, 0, 0)
        PROVE  UNCHANGED files
    BY <1>2, <2>2, RunsOf DEF CallHeap, Call, Serve, Malloc, Mmap, Munmap, Brk
  <2>3. QED
    BY <1>1, <2>1, <2>2
<1>3. CASE CallFiles
  <2>1. ASSUME NEW name \in Names, Call("__libc_open", name, 0, 0) PROVE FInd'
    <3>1. open(name)
      BY <2>1, RunsOf DEF Call, Serve, OpenFile
    <3>2. QED
      BY <2>1, <3>1, OpenStep DEF Call
  <2>2. ASSUME NEW fd \in Descriptors, Call("__close", fd, 0, 0) PROVE FInd'
    <3>1. close(fd)
      BY <2>2, RunsOf DEF Call, Serve, CloseFile
    <3>2. QED
      BY <2>2, <3>1, CloseStep DEF close, Call
  <2>3. ASSUME NEW fd \in Descriptors, NEW text, NEW length,
               Call("__libc_read", fd, text, length) \/ Call("__libc_write", fd, text, length)
        PROVE  FInd'
    <3>1. UNCHANGED files \/ ReadFile(fd) \/ WriteToFile(fd, text, length)
      BY <2>3, RunsOf DEF Call, Serve, NoDescriptor, Exit
    <3>2. QED
      BY <1>1, <2>3, <3>1, ReadStep, WriteStep DEF Call
  <2>4. QED
    BY <1>3, <2>1, <2>2, <2>3 DEF CallFiles
<1>4. CASE Call("_exit", 0, 0, 0)
  BY <1>1, <1>4, RunsOf DEF Call, Serve, Exit
<1>5. QED
  BY <1>2, <1>3, <1>4 DEF SNext

LEMMA FilesInvariant == SSpec => []FInd
<1>1. SInit => FInd
  BY FilesStart DEF SInit
<1>2. FInd /\ [SNext]_svars => FInd'
  <2>1. FInd /\ SNext => FInd'
    BY FilesPart
  <2>2. FInd /\ UNCHANGED svars => FInd'
    BY TablesUnchanged DEF svars, files
  <2>3. QED
    BY <2>1, <2>2
<1>3. QED
  BY <1>1, <1>2, PTL DEF SSpec

\* Whatever is opened, closed, read and written, and in whatever order the
\* symbols are loaded, a descriptor names the file it was given out for
\* (sim_main.cpp:961-964).
THEOREM DescriptorsKeepTheirFile == SSpec => []DescriptorsNameTheirFile
<1>1. FInd => DescriptorsNameTheirFile
  BY FilesAssumption DEF FInd, TablesInStep, OpenedInTable, DescriptorsNameTheirFile, Descriptors, NameOf, Entry
<1>2. QED
  BY <1>1, FilesInvariant, PTL

\* A descriptor delivers its file at most once, so that a loop around read ends
\* (sim_main.cpp:910-913).
THEOREM ReadingEnds == SSpec => []ReadsEnd
<1>1. FInd => ReadsEnd
  BY FilesAssumption DEF FInd, TablesInStep, OpenedInTable, ReadOnce, ReadsEnd
<1>2. QED
  BY <1>1, FilesInvariant, PTL

\* If the simulator hangs, it reads its own output or a descriptor whose file
\* the host refused to create, and that file is not there: never a file that
\* open or write has created (sim_main.cpp:894-898, 966).
THEOREM HangsAreExplained == SSpec => []HangsOnlyOnMissing
<1>1. FInd => HangsOnlyOnMissing
  BY DEF FInd
<1>2. QED
  BY <1>1, FilesInvariant, PTL
-----------------------------------------------------------------------------
(* First and last positions in a sequence. *)

LEMMA LeastExists ==
  ASSUME NEW S \in SUBSET Nat, S # {}
  PROVE  \E m \in S : \A j \in S : m <= j
<1> DEFINE R == OpToRel(<, Nat)
<1>1. IsWellFoundedOn(R, Nat)
  BY NatLessThanWellFounded
<1>2. PICK m \in S : \A j \in S : <<j, m>> \notin R
  BY <1>1, WFMin
<1>3. \A j \in S : ~(j < m)
  BY <1>2 DEF OpToRel
<1>4. QED
  BY <1>3

LEMMA MinIsLeast ==
  ASSUME NEW n \in Nat, NEW S \in SUBSET (1 .. n), S # {}
  PROVE  Min(S) \in S /\ \A j \in S : Min(S) <= j
<1>1. \E m \in S : \A j \in S : m <= j
  BY LeastExists
<1>2. QED
  BY <1>1 DEF Min

LEMMA MaxIsGreatest ==
  ASSUME NEW n \in Nat, NEW S \in SUBSET (1 .. n), S # {}
  PROVE  Max(S) \in S /\ \A j \in S : Max(S) >= j
<1> DEFINE T == {n - i : i \in S}
<1>1. PICK m \in T : \A j \in T : m <= j
  <2>1. \A i \in S : n - i \in Nat
    OBVIOUS
  <2>2. T \in SUBSET Nat /\ T # {}
    BY <2>1
  <2> HIDE DEF T
  <2>3. QED
    BY <2>2, LeastExists
<1>2. PICK i \in S : m = n - i
  BY <1>1
<1>3. \A j \in S : i >= j
  BY <1>1, <1>2
<1>4. QED
  BY <1>3 DEF Max

\* With the symbols of a program in any order, each at most once, the library's
\* functions make the system calls of their names if __libc_write comes last of
\* the three that share a variable.
LEMMA OwnIfWriteLast ==
  ASSUME symbols \in Seq(Library), IsInjective(symbols)
  PROVE  RunsOwnIfWriteLast
<1> SUFFICES ASSUME Position("__libc_write") > Position("__munmap"),
                    Position("__libc_write") > Position("__libc_read"),
                    NEW i \in 1 .. Len(symbols)
             PROVE  Runs(symbols, symbols[i]) = Own(symbols[i])
  BY DEF RunsOwnIfWriteLast
<1> DEFINE At(f) == {k \in 1 .. Len(symbols) : symbols[k] = f}
           Shared == {k \in 1 .. Len(symbols) : Pointer(symbols[k]) = "LIBC_WRITE_ADDRESS"}
<1>1. Len(symbols) \in Nat /\ symbols[i] \in Library
  OBVIOUS
<1>2. \A f : Position(f) = IF At(f) # {} THEN Min(At(f)) ELSE 0
  BY DEF Position, SelectInSeq
<1>3. \A j \in 1 .. Len(symbols) : Position(symbols[j]) = j
  <2>1. TAKE j \in 1 .. Len(symbols)
  <2>2. At(symbols[j]) = {j}
    BY DEF IsInjective
  <2>3. Min({j}) = j
    BY DEF Min
  <2>4. QED
    BY <1>2, <2>2, <2>3
<1>4. At("__libc_write") # {}
  <2>1. \A f : Position(f) = 0 \/ Position(f) \in 1 .. Len(symbols)
    BY <1>1, <1>2, MinIsLeast
  <2>2. Position("__libc_write") # 0
    BY <2>1
  <2>3. QED
    BY <1>2, <2>2
<1>5. PICK w \in 1 .. Len(symbols) : symbols[w] = "__libc_write"
  BY <1>4
<1>6. CASE Pointer(symbols[i]) = "LIBC_WRITE_ADDRESS"
  <2>1. Holds(symbols, "LIBC_WRITE_ADDRESS") = Max(Shared)
    <3>1. w \in Shared
      BY <1>5 DEF Pointer
    <3>2. QED
      BY <3>1 DEF Holds, SelectLastInSeq
  <2>2. Max(Shared) \in Shared /\ Max(Shared) >= w
    <3>1. w \in Shared
      BY <1>5 DEF Pointer
    <3>2. QED
      BY <1>1, <3>1, MaxIsGreatest
  <2>3. symbols[Max(Shared)] \notin {"__munmap", "__libc_read"}
    <3>1. Position("__libc_write") = w
      BY <1>3, <1>5
    <3>2. Position(symbols[Max(Shared)]) = Max(Shared)
      BY <1>3, <2>2
    <3>3. QED
      BY <1>1, <2>2, <3>1, <3>2
  <2>4. symbols[i] \in {"__libc_write", "__munmap", "__libc_read"}
    BY <1>1, <1>6 DEF Pointer, Library
  <2>5. CASE symbols[i] = "__libc_write"
    BY <2>5 DEF Runs, Own, Pointer, Stubs
  <2>6. CASE symbols[i] \in {"__munmap", "__libc_read"}
    BY <1>6, <2>1, <2>3, <2>6 DEF Runs
  <2>7. QED
    BY <2>4, <2>5, <2>6
<1>7. CASE Pointer(symbols[i]) # "LIBC_WRITE_ADDRESS"
  BY <1>1, <1>7 DEF Runs, Own, Pointer, Stubs, Library
<1>8. QED
  BY <1>6, <1>7

\* Whatever functions a program has and however its symbols are ordered,
\* __libc_write behind __munmap and __libc_read is all it takes
\* (sm_elfload.cpp:87-97, elf_reader.cpp:150-157).
THEOREM WriteLastSuffices == SSpec => []RunsOwnIfWriteLast
<1> DEFINE Loaded == symbols \in Seq(Library) /\ IsInjective(symbols)
<1>1. SInit => Loaded
  BY ProgramsAssumption DEF SInit
<1>2. Loaded /\ [SNext]_svars => Loaded'
  BY DEF SNext, svars
<1>3. Loaded => RunsOwnIfWriteLast
  BY OwnIfWriteLast
<1> HIDE DEF Loaded
<1>4. QED
  BY <1>1, <1>2, <1>3, PTL DEF SSpec

-----------------------------------------------------------------------------
(* Types: what read and write answer is a number. *)

LEMMA LinesIsSeq ==
  ASSUME NEW S, NEW bytes \in Seq(S)
  PROVE  \E T : Lines(bytes) \in Seq(T)
<1> DEFINE kept == {i \in DOMAIN bytes : bytes[i] # NewLine}
           n == Cardinality(kept)
<1>1. n \in Nat
  <2>1. IsFiniteSet(1 .. Len(bytes))
    BY FS_Interval
  <2>2. kept \in SUBSET (1 .. Len(bytes))
    OBVIOUS
  <2>3. QED
    BY <2>1, <2>2, FS_Subset, FS_CardinalityType
<1> DEFINE f == Lines(bytes)
           T == {f[k] : k \in 1 .. n}
<1>2. f \in [1 .. n -> T]
  BY DEF Lines
<1> HIDE DEF f, T, n
<1>3. f \in Seq(T)
  BY <1>1, <1>2, SeqDef
<1>4. QED
  BY <1>3 DEF f

LEMMA InputIsSeq ==
  ASSUME NEW S, NEW bytes \in Seq(S)
  PROVE  Len(Input(bytes)) \in Nat
<1>1. PICK T : Lines(bytes) \in Seq(T)
  BY LinesIsSeq
<1> DEFINE joined == Lines(bytes)
           U == T \cup {NewLine}
           broken == IF Len(joined) > LineLength
                     THEN InsertAt(joined, LineLength + 1, NewLine) ELSE joined
<1>2. joined \in Seq(U)
  BY <1>1
<1>3. ASSUME Len(joined) > LineLength
      PROVE  InsertAt(joined, LineLength + 1, NewLine) \in Seq(U)
  <2> DEFINE left == SubSeq(joined, 1, LineLength)
             right == SubSeq(joined, LineLength + 1, Len(joined))
  <2>1. left \in Seq(U) /\ right \in Seq(U) /\ <<NewLine>> \in Seq(U)
    BY <1>2, <1>3, FilesAssumption
  <2>2. InsertAt(joined, LineLength + 1, NewLine) = (left \o <<NewLine>>) \o right
    <3>1. (LineLength + 1) - 1 = LineLength
      BY FilesAssumption
    <3>2. QED
      BY <3>1 DEF InsertAt
  <2> HIDE DEF left, right, joined, U
  <2>3. left \o <<NewLine>> \in Seq(U)
    BY <2>1
  <2>4. (left \o <<NewLine>>) \o right \in Seq(U)
    BY <2>1, <2>3
  <2>5. QED
    BY <2>2, <2>4, Zenon
<1>4. broken \in Seq(U)
  BY <1>2, <1>3
<1>5. Input(bytes) = Append(broken, NewLine)
  BY DEF Input
<1> HIDE DEF broken, U
<1>6. Append(broken, NewLine) \in Seq(U \cup {NewLine})
  BY <1>4
<1>7. QED
  BY <1>5, <1>6

\* A text ends with NUL, so that the loops that look for it come to an end.
LEMMA TextEnds ==
  ASSUME NEW text \in Texts
  PROVE  /\ text \in Seq(Bytes)
         /\ Strlen(text) \in Nat
         /\ Word(text) \in Seq(Bytes)
<1>1. text \in Seq(Bytes) /\ Len(text) \in 1 .. Len(text) /\ text[Len(text)] = NUL
  BY FilesAssumption DEF Last
<1> DEFINE Nuls == {i \in 1 .. Len(text) : text[i] = NUL}
           Ends == {i \in 1 .. Len(text) : text[i] \in {NUL, NewLine}}
<1>2. Min(Nuls) \in 1 .. Len(text) /\ Min(Ends) \in 1 .. Len(text)
  <2>1. Len(text) \in Nuls /\ Len(text) \in Ends
    BY <1>1
  <2>2. Nuls \in SUBSET (1 .. Len(text)) /\ Ends \in SUBSET (1 .. Len(text)) /\ Len(text) \in Nat
    BY <1>1
  <2> HIDE DEF Nuls, Ends
  <2>3. QED
    BY <2>1, <2>2, MinIsLeast
<1>3. Nuls # {} /\ Ends # {}
  BY <1>1
<1>4. Strlen(text) = Min(Nuls) - 1
  BY <1>3 DEF Strlen, SelectInSeq
<1>5. Word(text) = SubSeq(text, 1, Min(Ends) - 1)
  BY <1>3 DEF Word, SelectInSeq
<1> HIDE DEF Nuls, Ends
<1>6. QED
  BY <1>1, <1>2, <1>4, <1>5

DataTypeOK ==
    /\ disk \in [FileNames -> Seq(Bytes)] /\ result \in Nat
    /\ hung \in BOOLEAN /\ over \in BOOLEAN

LEMMA DataUnchanged ==
  ASSUME DataTypeOK, UNCHANGED <<disk, result, hung>>, over' \in BOOLEAN
  PROVE  DataTypeOK'
BY DEF DataTypeOK

LEMMA DataOpen ==
  ASSUME FInd, DataTypeOK, NEW name \in Names, open(name), over' = over
  PROVE  DataTypeOK'
<1>1. name \in FileNames /\ result' \in Nat
  BY DEF FInd, TablesInStep, open, FileNames
<1>2. <<>> \in Seq(Bytes)
  OBVIOUS
<1>3. disk' \in [FileNames -> Seq(Bytes)]
  BY <1>1, <1>2 DEF DataTypeOK, open
<1>4. QED
  BY <1>1, <1>3 DEF DataTypeOK, open

LEMMA DataRead ==
  ASSUME FInd, DataTypeOK, NEW fd \in Descriptors, ReadFile(fd)
  PROVE  DataTypeOK'
<1>1. ASSUME NEW text \in Texts, readStdin(text) PROVE DataTypeOK'
  <2>1. result' \in Nat
    BY <1>1, TextEnds, InputIsSeq DEF readStdin
  <2>2. QED
    BY <1>1, <2>1 DEF readStdin, ReadFile, DataTypeOK
<1>2. CASE readMissing(fd)
  BY <1>2 DEF readMissing, ReadFile, DataTypeOK
<1>3. CASE readFile(fd)
  <2>1. NameOf(fd) \in FileNames
    BY DEF FInd, TablesInStep, NameOf, Entry, Descriptors
  <2>2. Len(Input(disk[NameOf(fd)])) \in Nat
    BY <2>1, InputIsSeq DEF DataTypeOK
  <2>3. result' \in Nat
    BY <1>3, <2>2 DEF readFile
  <2>4. QED
    BY <1>3, <2>3 DEF readFile, ReadFile, DataTypeOK
<1>4. QED
  BY <1>1, <1>2, <1>3 DEF ReadFile

LEMMA DataWrite ==
  ASSUME FInd, DataTypeOK, NEW fd \in Descriptors,
         NEW text \in Texts, NEW length \in 0 .. Len(text), WriteToFile(fd, text, length)
  PROVE  DataTypeOK'
<1>1. text \in Seq(Bytes) /\ length \in Nat /\ Strlen(text) \in Nat
  BY TextEnds
<1>2. CASE writeConsole(fd, text, length)
  <2>1. result' \in Nat
    BY <1>1, <1>2 DEF writeConsole, Printed
  <2>2. QED
    BY <1>2, <2>1 DEF writeConsole, WriteToFile, DataTypeOK
<1>3. CASE writeFile(fd, text, length)
  <2>1. NameOf(fd) \in FileNames
    BY DEF FInd, TablesInStep, NameOf, Entry, Descriptors
  <2>2. SubSeq(text, 1, length) \in Seq(Bytes)
    BY <1>1
  <2>3. disk[NameOf(fd)] \o SubSeq(text, 1, length) \in Seq(Bytes)
    BY <2>1, <2>2 DEF DataTypeOK
  <2>4. disk' \in [FileNames -> Seq(Bytes)]
    BY <1>3, <2>1, <2>3 DEF writeFile, DataTypeOK
  <2>5. QED
    BY <1>1, <1>3, <2>4 DEF writeFile, WriteToFile, DataTypeOK
<1>4. QED
  BY <1>2, <1>3 DEF WriteToFile

LEMMA DataStep ==
  ASSUME FInd, DataTypeOK, SNext
  PROVE  DataTypeOK'
<1>1. ASSUME UNCHANGED files, over' = over \/ over' = TRUE PROVE DataTypeOK'
  BY <1>1, DataUnchanged DEF files, DataTypeOK
<1>2. CASE CallHeap
  \* munmap with the stub of write finds no descriptor at a heap address
  <2>1. ASSUME NEW a \in HEAPSTART .. Limit - 1, Call("__munmap", a, 0, 0)
        PROVE  UNCHANGED files /\ (over' = over \/ over' = TRUE)
    <3>1. a \notin Descriptors
      BY HeapAssumption, FilesAssumption, SimulatorAssumption DEF FInd, TablesInStep, Descriptors
    <3>2. QED
      BY <2>1, <3>1, RunsOf DEF Call, Serve, Munmap, NoDescriptor, Exit
  <2>2. ASSUME ~\E a \in HEAPSTART .. Limit - 1 : Call("__munmap", a, 0, 0)
        PROVE  UNCHANGED files /\ over' = over
    BY <1>2, <2>2, RunsOf DEF CallHeap, Call, Serve, Malloc, Mmap, Munmap, Brk
  <2>3. QED
    BY <1>1, <2>1, <2>2
<1>3. CASE CallFiles
  <2>1. ASSUME NEW name \in Names, Call("__libc_open", name, 0, 0) PROVE DataTypeOK'
    <3>1. open(name) /\ over' = over
      BY <2>1, RunsOf DEF Call, Serve, OpenFile
    <3>2. QED
      BY <3>1, DataOpen
  <2>2. ASSUME NEW fd \in Descriptors, Call("__close", fd, 0, 0) PROVE DataTypeOK'
    <3>1. close(fd) /\ over' = over
      BY <2>2, RunsOf DEF Call, Serve, CloseFile
    <3>2. QED
      BY <3>1 DEF close, DataTypeOK
  <2>3. ASSUME NEW fd \in Descriptors, NEW text \in Texts, NEW length \in 0 .. Len(text),
               Call("__libc_read", fd, text, length) \/ Call("__libc_write", fd, text, length)
        PROVE  DataTypeOK'
    <3>1. \/ UNCHANGED files /\ over' = TRUE
          \/ ReadFile(fd)
          \/ WriteToFile(fd, text, length)
      BY <2>3, RunsOf DEF Call, Serve, NoDescriptor, Exit
    <3>2. QED
      BY <1>1, <3>1, DataRead, DataWrite
  <2>4. QED
    BY <1>3, <2>1, <2>2, <2>3 DEF CallFiles
<1>4. CASE Call("_exit", 0, 0, 0)
  <2>1. UNCHANGED files /\ over' = TRUE
    BY <1>4, RunsOf DEF Call, Serve, Exit
  <2>2. QED
    BY <1>1, <2>1
<1>5. QED
  BY <1>2, <1>3, <1>4 DEF SNext

\* The tables, the heap and the answers keep their types in every program
\* (sim_main.cpp:851-1034).
THEOREM SimulatorTypes == SSpec => []STypeOK
<1>1. SInit => DataTypeOK
  <2>1. <<>> \in Seq(Bytes)
    OBVIOUS
  <2>2. FilesInit => /\ disk \in [FileNames -> Seq(Bytes)]
                     /\ result \in Nat /\ hung = FALSE
    BY <2>1 DEF FilesInit
  <2>3. QED
    BY <2>2 DEF SInit, DataTypeOK
<1>2. FInd /\ DataTypeOK /\ [SNext]_svars => DataTypeOK'
  <2>1. DataTypeOK /\ UNCHANGED svars => DataTypeOK'
    BY DEF DataTypeOK, svars, files
  <2>2. QED
    BY <2>1, DataStep
<1>3. SSpec => []DataTypeOK
  BY <1>1, <1>2, FilesInvariant, PTL DEF SSpec
<1>4. HTypeOK /\ FInd /\ DataTypeOK => STypeOK
  BY DEF FInd, DataTypeOK, STypeOK
<1>5. QED
  BY <1>3, <1>4, FilesInvariant, SimulatorHeap, HeapTypes, PTL
=============================================================================
