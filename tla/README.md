# Verification of the branch-predictor MIPS pipeline

The repository is a pipelined MIPS I processor in Verilog (`src/verilog`),
turned into C++ by Verilator and driven by a simulator (`src/sim_main`) that
supplies memory, system calls and a heap.  Its subject is a hybrid branch
predictor.  Its difficulty is distance: a branch is predicted when it leaves IF
and judged by ID seven dummy stages later, while stalls, flushes and further
predictions of the same branch happen in between.

This directory holds TLA+ modules of the processor, TLC configurations that
check them on small instances, and proofs, checked by TLAPS, that the central
properties hold for every program, every table size and every delay from 3 on,
that decisions, arithmetic and memory accesses are those of MIPS for words and
memories of every size, and that the simulator's heap and file descriptors do
what a program expects.  Every invariant and action property that a run checks
is also proved.

## 1. Inventory

| Part | State | Operations | Talks to |
|---|---|---|---|
| Fetch `IF.v`, stages `dummy.v`, `dummy1-6.v` | `Instr_PC_Plus4`, one instruction and address per stage | fetch, hold on STALL, clear on FLUSH | redirect logic (`take`, `alt_pc`), ID (`WANT_FREEZE`) |
| Redirect logic `BRANCH_PREDICTOR.v` | `take`, `flush`, `alt_pc`, `past_pcs` | remember where fetch went, compare when ID decides, redirect and flush | tables (guess), ID (`is_taken`, `alt_address`) |
| Freeze machine in `ID.v` | `syscall_bubble_counter`, `INHIBIT_FREEZE`, `SYS` | drain the pipeline for SYSCALL, LL, SC | simulator (`SYS`) |
| Branch decision: `ID.v`, `compare.v`, `NextInstructionCalculator.v` | none | outcome, destination, link value | redirect logic, bypass |
| Counters `FSM.v` | two bit vectors | count up or down, saturating | GBP, LBP, META |
| Direction tables `GBP.v`, `LBP.v`, `META.v` | histories, counters, delay lines of `DELAY` entries each | predict at IF, learn at ID | redirect logic |
| Target table `BTB.v` | two ways per set, lru bit, delay line | look up at IF, enter at ID | redirect logic |
| Return stack `RAS.v`, `STACK.v` | stack, pointer | push at ID, pop at IF | redirect logic |
| Datapath: `ID.v`, `EXE.v`, `MEM.v`, `RegFile.v`, `RegValue1-3.v` | registers and three rows of stage registers | read, forward, execute, access memory, write back | simulator (memory, registers) |
| Arithmetic `ALU.v`, decoding `Decoder.v` | HI, LO | one operation per instruction | datapath |
| Memory stage `MEM.v`, main memory `sm_memory.cpp`, loop of `sim_main.cpp` | bytes | lanes and sizes of loads and stores | datapath |
| System calls `sim_main.cpp` | `FDT_filename`, `FDT_state`, `FileDescriptorIndex`, host files, counters | one call for each edge with `SYS` up: files, memory, exit, host queries | registers, memory, heap emulator |
| Heap emulator `sm_heap.cpp` | `HEAP_STATUS` of each byte, `HEAP_END`, `BLOCKNUM`, break | malloc, free, sbrk | system calls |
| Redirection `sm_elfload.cpp`, `sm_syscalls.cpp`, `elf/elf_reader.cpp` | an address per library function | note symbols, write stubs over functions | memory, system calls |
| Loaders `sm_txtload.cpp`, `sm_elfload.cpp`, `elf/` | none | fill memory | simulator |

The processor has one clock.  Every `always @(posedge CLK)` block reads the
values before the edge, so one step of a model is one edge and the blocks are
conjuncts.  The only concurrency is that of the pipeline itself: up to eleven
instructions are under way at once, and each register has its own rule for
stalls and flushes.  The hard behaviours are

* a flush during a stall (a SYSCALL in the delay slot of a mispredicted branch),
* delay lines that shift when others hold, so that a branch is judged or
  trained by another one's entry,
* the same branch predicted again before its earlier instance is decided,
* results that overtake each other on the forwarding paths, and loads, whose
  result does not exist yet when the next instruction asks for it,
* a system call that writes registers behind the pipeline's back,
* long sequences of calls on tables that only grow: the map of the heap, the
  block numbers, the descriptors.

`PROJECT.json` lists the hazards at their lines with the properties aimed at
them.

## 2. Modules

    Isa ── ControlFlow (abstract)          Operands ── LoadDelay (abstract)
     └── FrontEnd ── FrontEndProps ── FrontEndInv      └── Bypass ── BypassProofs
            │             └─ FrontEndProofs                 └─ MCBypass
            └── Predictor ── PredictorProps ── PredictorProofs
                  └─ GBP, LBP, META (SaturatingCounter <- FSM), BTB, RAS, Lines
    FSM, RASAlone (ReturnStack: abstract) ── TablesProofs
    BranchDecision, ALU ── Instructions ── InstructionsProofs
    MemAccess ── MCMemAccess, MemAccessProofs
    Parts = MCBypass, Instructions, MCMemAccess, RASAlone side by side

    Heap ── HeapProps (Allocator: abstract) ── HeapProofs
      └─ Files, Redirects ── Simulator ── SimulatorProps ── SimulatorProofs
                                               └─ MCSimulator

**Isa, ControlFlow.** Addresses count instructions (byte address / 4, modulo
`NPC`); an instruction is one of the four classes that the front end tells
apart.  `ControlFlow` is the architecture: a pair (pc, npc), so that a branch
redirects the instruction after its delay slot, and SYSCALL or LL/SC served
before the next instruction.

**FrontEnd.** `st[DELAY]` is IF's output register, `st[0]` what ID reads, with
`NoPC` for a cleared register.  `IFEdge`, `StageEdge`, `PredictorEdge`,
`FreezeEdge`, `OutputEdge` are the always blocks of IF, the dummies,
BRANCH_PREDICTOR and the two parts of ID's; `Edge` is their conjunction.  The
guess of the tables and the outcome of a branch are nondeterministic.
`dest` and `serial` are history variables of the properties.

**Predictor and its tables.** `Predictor` replaces the guess by what the five
tables answer (`TableGuess`) and adds their updates (`TablesEdge`).  `asked`,
`decided`, `localDecided` and `overlapped` are history variables: what the tables
read for each instruction, what the path decided, in all and for each entry of
LBP, and which of these entries a branch was decided from while another one had
already read it.  `SaturatingCounter` and `ReturnStack` are abstract
specifications of the counters and of the return stack; `RASAlone` drives the
stack with every sequence of calls and returns.

**Bypass.** `idexe`, `exemem`, `memwb` are the registers between ID, EXE, MEM
and write-back; `ReadInID`, `A1`, `B1`, `StoreData`, `MemoryData` are the
selectors, seven instances of `RegValue1-3`; `BEdge` is an edge with any
instruction or bubble from ID and any word from memory; `SystemCall` is the
simulator storing results while SYS is up.  What ALU and MEM compute is a
parameter.  `LoadDelay` is the abstract machine: one instruction after another,
loaded words arriving one instruction late, as MIPS I has it.

**BranchDecision, ALU, Instructions.** The combinational parts as operators,
each beside a reference on signed numbers; `Instructions` takes one instruction
with any operands and computes it.  `FromBits` is the word with given bits; the
arithmetic shift of ALU.v, which writes its sign bits one by one, is stated
with it.

**MemAccess.** The lanes of MEM with the simulator's read and write; a byte is
abstract but for its sign.

**Parts.** These components share no state; one run checks them side by side,
each behaviour being one of a single part.

**Heap, Allocator.** `HEAP_STATUS` gives each address its block number, 0 for
free.  `mm_malloc` picks the least of the `Candidates`, which is where the
code's count of free bytes first suffices; `mm_free` clears from its address on
as long as the number goes on; `mm_sbrk` compares signed limits with the sum as
the C++ types do.  `Limit` is the size of the address space.  `Allocator` says
what a program is promised, in terms of the blocks in use.

**Files.** The cases of open, read, write and close.  A file is a sequence of
bytes; `Input` is what read makes of it (lines joined, a break after
`LineLength` bytes, a break for the NUL), `Printed` what a console write prints
of a text.  The files the host refuses are `Unwritable`; reading a file that is
not there sets `hung`, and `reading` is the descriptor of the latest read.

**Redirects, Simulator.** A program is the functions it calls and the order of
its symbols.  `Runs` is the system call that a function makes: that of the stub
written at its address if it is the last symbol that went to its variable, or
the library's own.  `Serve` is the switch on `syscallIndex`; `Call` one call of
a library function.  A call is atomic: `FrontEnd` shows that EXE and MEM are
empty while SYS is up (`SyscallDrained`), and `Bypass` that registers written
then are seen by what follows.

### Properties

| Property | Says |
|---|---|
| `Implements` | ID takes over exactly the instructions of the program's path, each once, in order, whatever was guessed; SYSCALL and LL/SC are served first. Refinement of `ControlFlow`. |
| `BranchObeyed`, `PredictionAligned` | After a delay slot fetch goes where the branch decided; each branch is compared with the path really fetched after it. |
| `SyscallDrained`, `SerialServed` | SYS rises only when EXE and MEM are empty; a SYSCALL raises it, LL and SC do not and reach EXE. |
| `KeepsGoing` | No freeze or flush lasts: instructions keep being executed. |
| `GuessesOnly` | The tables answer for branches only, with an address the branch has gone to or a call returns to. Refinement of `FrontEnd`. |
| `TrainsWhatPredicted`, `GlobalHistoryExact`, `MetaRewardsTheRight` | Tables learn for the branch that was predicted, from outcomes on the path only, in the direction of the predictor that was right. |
| `LocalHistoryExact` | LBP's history of an entry holds the outcomes of its branches on the path, each once and in order, until two of them overlap in the pipeline. |
| `LearnsHabit`, `LearnsFixed` | Branches that settle on one outcome each are eventually no longer mispredicted (with an entry of their own or one shared by branches of the same habit). |
| `PredictsLatestCall` | The stack with its shift on overflow is a bounded stack of pending calls. |
| `ForwardsFaithfully`, `ZeroStaysZero` | Results, tests, addresses and stores are those of sequential execution with one load delay; $0 never picks up a result. |
| `DecidesLikeMIPS`, `ComputesLikeMIPS` | Decisions and results are those of the architecture, outside named cases; LO of MULT is right in these too. |
| `UnalignedLoad`, `UnalignedStore`, `StoresOnlyCovered`, `AlignedNumber` | The LWL/LWR and SWL/SWR pairs move whole words; stores touch no other byte; numbers keep size and sign. |
| `Allocates` | Blocks are aligned, inside the heap and disjoint; free takes back what was given from its address on, and ends the simulation only outside every block. Refinement of `Allocator`. |
| `StatusMatches`, `RecoversWhenEmpty` | The numbers in the map tell blocks from free bytes and from each other; with no block in use malloc starts again at the start of the heap. |
| `BreakOutsideHeap` | No argument of sbrk moves the break into the heap, or below its start. |
| `DescriptorsNameTheirFile`, `ReadsEnd`, `HangsOnlyOnMissing` | A descriptor keeps its file and delivers it once; when the simulator hangs, it reads its own output or a descriptor whose file the host refused to create. |
| `RunsOwnIfWriteLast` | Each library function makes the system call of its name when `__libc_write` is the last of the three symbols that share a variable, the order in the test programs. |

## 3. Runs

| Run | Instance | Shows |
|---|---|---|
| `frontend` | 5 addresses, DELAY 3, every program without a branch or LL/SC in a delay slot, backward and forward targets, right and wrong guesses | the front-end properties |
| `llsc_slot` (violation) | the same with LL/SC in delay slots | see finding 1 |
| `slot_target` (violation) | the same with branches to their own delay slot | see finding 2 |
| `loop` | 3 addresses, loop of one branch, with and without SYSCALL, free outcomes until it settles, local histories of 2 bits | training, local histories with and without overlap, learning with several predictions of one branch in flight |
| `targets` | 7 addresses, two calls of one function, a jump with two targets, stack of 2, two BTB sets | BTB and RAS answer within what `FrontEnd` allows |
| `fixed` | every program of 5 addresses, fixed outcomes, the same for all branches of an entry, global history of 3 bits | the global history is that of the path, learning with shared entries, META moves as it should |
| `parts` | forwarding: $0 and one more register, two values, nine kinds of instruction, bubbles, system calls; memory: two words of distinct bytes, any three accesses; instructions: 3-bit registers and addresses, 4-bit ALU words, every operand; stack: 3 entries, 4 return addresses | forwarding, loads and stores of every alignment, decisions and arithmetic, the return stack beyond overflow |
| `link_branch`, `slt` (violations) | the instructions alone | findings 3 and 4 |
| `simulator` | heap of 22 addresses, sizes 5 and 8 and three blocks; two files, one of which the host refuses, two opens, files of three bytes; every order of the shared symbols | the heap, the break, the descriptors and the redirection |
| `heap_full`, `redirects` (violations) | the same | findings 5 and 6 |

**Why these bounds.**  `DELAY = 3` is the least delay for which the design
works (see `DelayAssumption`: the freeze must end before the flushed stages are
full again); it keeps four instructions between fetch and decision, enough for a
branch, its slot, a wrong path and a second instance of the branch.  The proofs
cover the code's 7.  Five addresses leave room for a branch, its slot, both
continuations and a SYSCALL in any arrangement, and the programs are
exhaustive.  In tables of one or two entries most pairs of branches collide,
which larger tables would only make rarer.  Forwarding compares register
numbers, so two registers ($0 and another) with both equal and different
numbers, and two values that differ, exercise each comparison; the third stage
back is the register file.  In the memory of `parts` all bytes differ, so one initial state
shows where each byte goes, and three accesses cover a pair and what precedes
it; `Accesses` bounds the behaviour and deadlock is then not an error.
An instruction alone stops after one step for the same reason.  3- and 4-bit
words contain every combination of sign, zero, extreme value and wrap-around.

In `simulator` one of the two sizes served is a multiple of 4 and the other is
not, and a third request is negative as an int: malloc makes it the least size,
and mmap, which takes it for what it is, fails;
three blocks leave a hole between two others and fill the 22 addresses, so that
first fit, alignment, reuse and the end of the heap all happen.  Any address of
the heap is given to free.  `BREAKSTART` and `HEAPSTART` lie in the upper half
of the address space, where both are negative as ints, as `HEAPSTART` is in the
code.  So placed the break does not move at all (section 5), whatever step is
asked for, up to the least and the greatest int; the proof of `BreakNeverInHeap`
covers the positions in which it does.  Two descriptors
besides the standard ones show a confusion of names, and a file of three bytes
is longer than `LineLength = 1`.  `MaxBlock`, `MaxFiles` and `MaxBytes` bound
these behaviours, and a simulation may end (exit, free of no block, a hang), so
deadlock is not an error.

**Fairness** is weak fairness of the clock edge, for `KeepsGoing`,
`LearnsHabit` and `LearnsFixed`: the main loop of `sim_main.cpp` toggles CLK
for as long as the simulation runs.  Nothing else is assumed; in `LearnsHabit`
the habit of the branch is the premise of the property.

## 4. Proofs

| Theorem | States |
|---|---|
| `FrontEndProofs!TypeCorrect`, `BranchCorrect`, `AlignmentCorrect`, `DrainCorrect`, `SerialCorrect` | the invariants of the run `frontend` |
| `FrontEndProofs!Refinement` | `FSafe => Implements` |
| `PredictorProofs!TablesGuess`, `PredictorImplements` | the predictor with its tables is a `FrontEnd`, hence implements `ControlFlow` |
| `PredictorProofs!TrainingCorrect`, `HistoryExact`, `LocalHistoriesExact`, `MetaRewards`, `PredictorTypes` | `TrainsWhatPredicted`, `GlobalHistoryExact`, `LocalHistoryExact`, `MetaRewardsTheRight`, `PTypeOK` |
| `TablesProofs!RASImplements`, `RASTypes`, `FSMImplements` | the stack and the counters implement their abstractions, for any size |
| `BypassProofs!ZeroIsZero`, `BypassImplements` | `ZeroStaysZero`; the datapath implements `LoadDelay` |
| `InstructionsProofs!DecisionsRight`, `CalculationsRight` | `DecidesLikeMIPS`, `ComputesLikeMIPS` for words, offsets and addresses of every width |
| `InstructionsProofs!LinkBranchesIgnoreRegister` | finding 3 for every width and every register value |
| `MemAccessProofs!UnalignedLoads`, `UnalignedStores`, `StoresCovered`, `AlignedNumbers` | the four properties of the memory stage for any memory, bytes and sequence of accesses; `HalvesInvariant` is the invariant of the first two |
| `HeapProofs!HeapAllocates` | the heap emulator implements `Allocator` |
| `HeapProofs!HeapTypes`, `NumbersTellBlocks`, `BreakNeverInHeap`, `EmptyHeapIsNew` | `HTypeOK`, `StatusMatches`, `BreakOutsideHeap`, `RecoversWhenEmpty` |
| `SimulatorProofs!SimulatorHeap`, `ProgramsHeap` | `SSpec => HSpec`: all of this for the heap of every program |
| `SimulatorProofs!DescriptorsKeepTheirFile`, `ReadingEnds`, `HangsAreExplained` | `DescriptorsNameTheirFile`, `ReadsEnd`, `HangsOnlyOnMissing` |
| `SimulatorProofs!WriteLastSuffices`, `SimulatorTypes` | `RunsOwnIfWriteLast` for any symbol table; `STypeOK` |

*The front end.*  None of the properties is inductive: whether fetch follows
the branch depends on what is in each stage.  `FInd` (module `FrontEndInv`)
adds that stages behind a filled one are filled (`NoGap`), that neighbours hold
consecutive addresses except after a delay slot (`Sequential`,
`HeadSequential`), where the path after a slot is what `past_pcs` says
(`PredictionAligned`), what a flush leaves (`FlushTakes`), and for each value
of the bubble counter what ID, EXE and MEM hold (`Window`, `Draining`).  The
step is split by what the edge does to the stages: hold (stall), clear (flush)
or move (flow).  The refinement maps (pc, npc) to the oldest live stage and its
successor; in each case the step is one instruction of `ControlFlow` or a
stutter.

*The predictor.*  `PInd` says that the delay lines and the stages speak of the
same instruction, that entries of BTB are branches with targets they have, and
that entries of STACK are return addresses.  It makes `TableGuess` one of the
guesses of `FrontEnd` (`GuessLegal`), so everything proved there carries over.
`LocalHistoriesExact` adds that every branch under way has read its entry as it
is now (`LocalReads`), except while a flush is about to clear it, in which case
ID holds no branch (`FlushTakes`).  `MetaRewards` needs in addition that the counters are pairs of bits (`TInd`).

*The datapath.*  `BInd` says that the row `idexe` holds an instruction as
issued from the *current* registers, those one would see if all finished
results were written back (or a bubble).  Forwarding again what ID has already
forwarded changes nothing (`ForwardingIsIdempotent`), except for a loaded word;
that is the load delay.  The mapping sends `regs` to the current registers and
`pending` to the load in EXE/MEM.

*The heap.*  `HInd` adds to the properties that blocks lie inside the heap and
that no byte in use lies beyond `HEAP_END` (`UsedBelowEnd`), up to which free
goes.  For malloc, the new block is free where it is put and its number is
larger than any in the map, so `StatusMatches` survives (`FoundStep`).  For
free, the bytes that the loop clears are those from its address to the end of
the block that covers it, by `StatusMatches` in both directions
(`FreedStep`, step `<1>3`).  The refinement leaves the map out: a byte is in use
to the allocator exactly if its number is not 0 (`InUseByMap`).

*The simulator.*  `RunsOf` lists the system calls that each function may make,
whatever the order of the symbols; each call is then a step of `Heap` or leaves
it alone, and keeps `FInd`: vectors and counter in step, descriptors given out
below the counter, and read ones closed.

`RunsOwnIfWriteLast` is a fact of the symbol table alone: a variable holds the
last symbol that goes to it (`MaxIsGreatest`), each variable but
`LIBC_WRITE_ADDRESS` has one function, and the last of the three that share it
is `__libc_write`.  `STypeOK` needs that what read makes of a file, the lines
joined and cut, is again a sequence of bytes.

*Unaligned accesses.*  The pairs take two accesses, so the theorem about the
second needs to know what the first left.  `Halves` says it: after LWL or SWL
the register and the memory agree on the bytes from the address to the end of
its word, after LWR or SWR on those from the start of the word to the address.
The second access supplies the other bytes and, by `StoreEffect`, which tells for
each store the bytes it writes and the lanes they come from, leaves these alone.

*Arithmetic.*  An instruction takes one step, so the invariant only says that
`out` is what the operators compute (`OutInvariant`); the work is in these.  The
prover knows nothing of powers, and there is no induction over data; both are
replaced by finite sets.  2^n is the number of subsets of 1..n, which gives
2^(n+1) = 2 * 2^n (`PowerStep`), and induction is the least element of a set of
numbers (`LeastExists`).  From these follow 2^(m+n) = 2^m * 2^n, that a word has
one bit above its lower half, that its bits determine it, hence that `FromBits`
of the bits an arithmetic shift writes is the quotient rounded down (the witness
is the shifted word with its sign bits added), and that Verilog's quotient and
remainder, which round towards 0, satisfy the definition of division for every
combination of signs.  Except for the least number by -1 the quotient fits in a
word, which is why that case is among `Exceptional`.

**Assumptions.**  On programs: no branch and no LL/SC in a delay slot
(`SlotAssumption`; the first is undefined in MIPS, the second is finding 1), no
branch to its own delay slot (`OwnSlotAssumption`, finding 2), what Decoder's
table says of the signals (`InstrsAssumption`).  On parameters: `DELAY >= 3`,
tables with at least one entry.  `LearntAssumption` ties the guesses that
`FrontEnd` allows to the program's targets and calls.  `HeapAssumption`: the
break starts below the heap and the heap on a multiple of 4, as 0xC0000000 is;
`SimulatorAssumption`: there are fewer descriptors than addresses below the heap;
`ProgramsAssumption`: a program names functions of the
table in sm_elfload.cpp, `FilesAssumption`: texts end with NUL.  `MemoryAssumption`:
the memory consists of whole words of bytes.  `MetaRewards` asks for a global
history of at least one bit.  `WidthAssumption` and `ShiftAssumption` allow every
width of words, offsets and shift amounts (words are 2^S bits with S > 0).  TLC
evaluates each named assumption in the runs.

**Only model-checked:** `KeepsGoing`, `LearnsHabit` and `LearnsFixed`.  They are
liveness properties under fairness, whose proof needs ENABLED, which is beyond
the prover.  That what `FSM.v` computes of its two bits is the counter that
`LearnsHabit` rests on is proved (`FSMImplements`).

## 5. Findings

1. *LL/SC in the delay slot of a mispredicted branch* (`llsc_slot`, `ID.v:351`):
   the flush replaces it while ID counts, SYS is raised for it, and it is never
   sent to EXE.
2. *A taken branch to its own delay slot* (`slot_target`,
   `BRANCH_PREDICTOR.v:53`): PC + 4 also stands for "not taken", so the branch
   is taken for correctly predicted and fetch goes on after the slot.
3. *BLTZAL and BGEZAL* (`link_branch`, `ID.v:265`): the operand 0 that the link
   value needs is also what `compare` tests; BLTZAL is never taken, BGEZAL
   always.
4. *SLT and SLTI of a negative and a non-negative number* (`slt`, `ALU.v:80`):
   the bits below the sign are compared although the signs differ, and -1 < 0
   gives 0.  By the proof (`SltRight`) the result is wrong exactly if the bits
   below the sign of the negative number are the larger ones.
5. *malloc fails with memory free* (`heap_full`, `sm_heap.cpp:71`): the search
   ends at `HEAP_END + size`, but a block may begin on a multiple of 4 only.
   After a block whose size is no multiple of 4, a block behind it never fits
   in the range searched, and every malloc that finds no hole answers 0.
6. *Three functions share a variable* (`redirects`, `sm_elfload.cpp:94`, `96`):
   `__munmap` and `__libc_read` store their address in `LIBC_WRITE_ADDRESS`, and
   the last of the symbols gets write's stub.  In the programs under `tests/`
   (`hello`, `sort`, `file`, `noio`, `ical`) `__libc_write` comes last, so they
   run correctly.

Behaviour that no line of the repository contradicts, noted but not a run:

* LBP writes back the history it read at prediction; of two overlapping
  instances of a branch the second erases the outcome of the first
  (`LBP.v:69`).  `LocalHistoryExact` says that this is the only way to lose one.
* Two branches with opposite habits that share entries of LBP and META may
  mispredict each other for ever (with two entries and a global history of one
  bit, for instance branches at 1 and 3 of a program of five addresses); so
  `fixed` gives those of an entry one habit.
* A branch can occupy both ways of its BTB set, because IF and ID both write
  the lru bit; the first way then answers, possibly with an older target.
* SLLV shifts by the whole register, SRLV and SRAV by five bits; MULT is
  MULTU, so HI is wrong for negative operands.  These two, the quotient of the
  least number by -1 and SLT are what `Exceptional` excludes in
  `Instructions`.
* SC stores always and leaves its address, not a flag, in its register.
* The forwarding in EXE repeats what ID has done for all but loaded words.
* `exec.HEAPSTART` is an int and negative, as the loader sets it to 0xC0000000,
  and `temp_break` is an `int64_t`: the start of the break (0x80000000) plus any
  int is not negative, so the comparison at `sm_heap.cpp:114` never holds and the
  break never moves, wherever the program lies.
* malloc keeps its size as an int (`sim_main.cpp:1028`): a request of 2^31 bytes or
  more is negative and is answered with 32 bytes.  `Allocates` speaks of the size
  after this conversion.  mmap keeps it unsigned.
* open truncates every file, also one that is opened for reading
  (`sim_main.cpp:966`); write appends by name to a closed descriptor too; read
  overwrites the buffer even when it returns 0; a console write of length 0
  prints up to the next NUL.
* No system call writes the error flag of the MIPS convention in $7.

## 6. Abstractions

* Instructions are classes in `FrontEnd` and records of signals in `Bypass`;
  the encoding is not modelled.  Floating-point rows of the Decoder are left
  out.
* `always @(data_read_fDM)` in MEM, and the ALU clocked on the falling edge,
  are what the Verilator build makes of them: functions of the values in the
  stage registers within the cycle.
* HI and LO are inputs and outputs of `ALU`; only EXE reads and writes them, one
  instruction at a time, so they need no forwarding.
* RESET is the initial state.  A second reset, and `IF.v:48` (reset during a
  redirect), are not modelled.
* `past_decisions`, the statistics counters of BRANCH_PREDICTOR and
  `instr_histories` of GBP are written and never read; they are left out.

* In `Heap` one size is left out, that for which the search would end on the very
  last address and go on at address 0.
* open also sets `duration` to the current cycle (`sim_main.cpp:968`), which brings
  up the single-step prompt; the prompt waits for the user, who may also end the
  simulation there, and changes nothing else that is modelled.
* BEQL, BLEZL, BNEL and the branches on floating-point conditions are not
  among the branches of `Instructions`.
* A descriptor or address beyond its table is where the model ends the
  simulation (`NoDescriptor`); what C++ does there is undefined.
* What a program writes and reads are a few texts; names of files stand for the
  bytes of their names in memory.

**Not modelled:**

* system calls answered by the host (process and user numbers, limits, times,
  kill) and `stat`, `fstat`, `uname`, which copy host structures into memory:
  no state of the simulator depends on them;
* the parsing of text and ELF files: host I/O without state;
* the counters of instructions and accesses, tracing and logging;
* block transfers for caches: the signals are tied off in `MIPS.v`;
* the floating-point rows of the Decoder, which nothing executes;
* Verilator 3.876, vendored under `src/verilator-3.876`: third-party code, and
  nearly all of the C and C++ in the repository, so that the share of C and C++
  lines modelled here is small; the program itself is the Verilog and
  `src/sim_main`.

## 7. Plan

Done: front end, predictor, datapath, memory access, instructions, heap,
descriptors and redirection, with the proofs above.  What is left, in this
order:

1. `Pipeline`: `FrontEnd`, `Bypass` and `Simulator` composed, the outcome of a
   branch computed from the operands that `Bypass` reads, and each SYSCALL
   served exactly once.
2. How often the return stack is right: calls far enough apart are predicted,
   whatever wrong paths popped.
