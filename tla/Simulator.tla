------------------------------ MODULE Simulator ------------------------------
(***************************************************************************)
(* The simulator as a program sees it: library functions, redirected or    *)
(* not, make system calls, and sim_main.cpp serves them from its heap, its *)
(* break and its table of descriptors.                                     *)
(*                                                                         *)
(* A call is one step: SYS is up for one period, in which the registers    *)
(* hold the arguments and nothing else runs (FrontEnd, SyscallDrained).    *)
(***************************************************************************)
EXTENDS Heap, Files, Redirects

CONSTANTS
    Programs,       \* what is loaded: the functions that a program calls, and
                    \* the order of the functions in its symbol table
    Sizes,          \* what malloc and mmap are asked for
    Steps,          \* what sbrk is asked for
    MinSize         \* 32 in the code: the least block for a program

\* Descriptors are far smaller than addresses of the heap.
ASSUME SimulatorAssumption == /\ MinSize \in Address \ {0}
                              /\ Sizes \subseteq Address /\ Steps \subseteq Int
                              /\ MaxFiles + 3 <= HEAPSTART

\* The symbol table of a linked program has each function at most once.
ASSUME ProgramsAssumption ==
    \A p \in Programs : /\ p.program \subseteq Library
                       /\ p.symbols \in Seq(Library) /\ IsInjective(p.symbols)

VARIABLES
    program,        \* the functions that this program calls
    symbols,        \* the order of their symbols
    over            \* the simulation has ended

svars == <<hvars, files, program, symbols, over>>

SInit ==
    /\ HInit /\ FilesInit
    /\ \E loaded \in Programs :
          program = loaded.program /\ symbols = loaded.symbols
    /\ over = FALSE

AtLeast(size) == IF size < MinSize THEN MinSize ELSE size

\* The cases of the switch on syscallIndex; r4, r5 and r6 are the registers of
\* the arguments.  malloc keeps its size as an int, mmap as an unsigned.
Mmap(r4, r5) == mm_malloc(AtLeast((r5 * (1 + r4)) % Limit)) /\ UNCHANGED <<files, over>>
Malloc(r4) == mm_malloc(IF Signed(r4) < MinSize THEN MinSize ELSE r4) /\ UNCHANGED <<files, over>>
Munmap(r4) == mm_free(r4) /\ UNCHANGED <<files, over>>
Brk(r4) == mm_sbrk(r4) /\ UNCHANGED <<files, over>>
OpenFile(r4) == open(r4) /\ UNCHANGED <<hvars, over>>
CloseFile(r4) == close(r4) /\ UNCHANGED <<hvars, over>>

ReadFile(r4) ==
    /\ \/ \E text \in Texts : r4 = 0 /\ readStdin(text)
       \/ readMissing(r4)
       \/ readFile(r4)
    /\ UNCHANGED <<hvars, over>>

WriteToFile(r4, r5, r6) ==
    /\ writeConsole(r4, r5, r6) \/ writeFile(r4, r5, r6)
    /\ UNCHANGED <<hvars, over>>

\* The end of the simulation.
Exit == over' = TRUE /\ UNCHANGED <<hvars, files>>

\* FDT_filename[r4] without a bound: what follows is not modelled.
NoDescriptor(r4) == r4 \notin Descriptors /\ Exit

Serve(syscallIndex, r4, r5, r6) ==
    \/ syscallIndex = 4001 /\ Exit
    \/ syscallIndex = 4003 /\ r4 \in Descriptors /\ ReadFile(r4)
    \/ syscallIndex = 4004 /\ r4 \in Descriptors /\ WriteToFile(r4, r5, r6)
    \/ syscallIndex \in {4003, 4004} /\ NoDescriptor(r4)
    \/ syscallIndex = 4005 /\ OpenFile(r4)
    \/ syscallIndex = 4006 /\ CloseFile(r4)
    \/ syscallIndex = 4045 /\ Brk(r4)
    \/ syscallIndex = 4090 /\ Mmap(r4, r5)
    \/ syscallIndex = 4091 /\ Munmap(r4)
    \/ syscallIndex = 4555 /\ Malloc(r4)

\* The program jumps to the function: the stub there, or the library's code.
Call(function, r4, r5, r6) ==
    /\ ~over /\ ~exited /\ ~hung
    /\ function \in program
    /\ Serve(Runs(symbols, function), r4, r5, r6)

CallHeap ==
    \/ \E size \in Sizes : \/ Call("__libc_malloc", size, 0, 0)
                           \/ Call("__mmap", 0, size, 0)
    \/ \E a \in HEAPSTART .. Limit - 1 : \/ Call("__cfree", a, 0, 0)
                                       \/ Call("__munmap", a, 0, 0)
    \/ \E value \in Steps : Call("__sbrk", value, 0, 0)

CallFiles ==
    \/ \E name \in Names : Call("__libc_open", name, 0, 0)
    \/ \E fd \in Descriptors :
          \/ Call("__close", fd, 0, 0)
          \/ \E text \in Texts : \E length \in 0 .. Len(text) :
                \/ Call("__libc_read", fd, text, length)
                \/ Call("__libc_write", fd, text, length)

SNext == /\ CallHeap \/ CallFiles \/ Call("_exit", 0, 0, 0)
         /\ UNCHANGED <<program, symbols>>

SSpec == SInit /\ [][SNext]_svars
=============================================================================
