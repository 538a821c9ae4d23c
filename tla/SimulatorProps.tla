--------------------------- MODULE SimulatorProps ---------------------------
(* What the simulator's system calls must guarantee to a program.            *)
EXTENDS Simulator, HeapProps

\* The two vectors and the counter are in step.
TablesInStep ==
    /\ FDT_filename \in Seq(FileNames)
    /\ FDT_state \in Seq({Open, Closed})
    /\ FileDescriptorIndex \in 3 .. MaxFiles + 3
    /\ Len(FDT_filename) = FileDescriptorIndex /\ Len(FDT_state) = FileDescriptorIndex

STypeOK ==
    /\ HTypeOK /\ TablesInStep
    /\ disk \in [FileNames -> Seq(Bytes)]
    /\ result \in Nat
    /\ over \in BOOLEAN /\ hung \in BOOLEAN /\ reading \in Descriptors

\* The descriptor that open returns is a new one and names the file that was
\* opened, from then on: the counter and the two vectors stay in step through
\* every sequence of opens, closes and reads (sim_main.cpp:961-964).
DescriptorsNameTheirFile ==
    /\ \A o \in opened : o.fd \in Descriptors /\ NameOf(o.fd) = o.name
    /\ \A o, p \in opened : o.fd = p.fd => o = p

\* A program that reads until there is no more comes to an end: a descriptor
\* delivers its file at most once, whatever is written, opened and closed
\* meanwhile (sim_main.cpp:910-913).
ReadsEnd == \A o \in opened : reads[o.fd] <= 1

\* When the simulator hangs, it is in a read whose file is not there: the
\* program reads from its own output, or from a descriptor that was given out
\* for a file which the host refused to create (sim_main.cpp:894-898, 966).
HangsOnlyOnMissing ==
    hung => /\ NameOf(reading) \notin present
            /\ \/ reading \in {1, 2}
               \/ \E o \in opened : o.fd = reading /\ o.name \in Unwritable

\* The order of a program's symbols decides what its library functions do.
\* With __libc_write behind __munmap and __libc_read, as in the programs under
\* tests/, each function makes the system call of its name
\* (sm_elfload.cpp:87-97, elf_reader.cpp:152-157).
Position(f) == SelectInSeq(symbols, LAMBDA g : g = f)
RunsOwnIfWriteLast ==
    Position("__libc_write") > Position("__munmap")
    /\ Position("__libc_write") > Position("__libc_read")
        => \A i \in 1 .. Len(symbols) : Runs(symbols, symbols[i]) = Own(symbols[i])

\* Each function makes the system call of its name, as the list of names and
\* addresses in sm_elfload.cpp:63-80 has it.
RunsOwn == \A i \in 1 .. Len(symbols) : Runs(symbols, symbols[i]) = Own(symbols[i])
=============================================================================
