-------------------------------- MODULE Files --------------------------------
(***************************************************************************)
(* The file system calls that sim_main.cpp serves while SYS is up: open,   *)
(* read, write and close on a table of descriptors.                        *)
(*                                                                         *)
(* A file is the sequence of its bytes; NUL ends a text in memory.  disk   *)
(* is the host's directory; what is printed leaves the model.  moved,      *)
(* opened, reads and reading are history variables.                        *)
(***************************************************************************)
EXTENDS Integers, Sequences, SequencesExt

CONSTANTS
    Names,          \* files a program may open
    Unwritable,     \* those that the host cannot create
    Standard,       \* the names in FDT_filename[0 .. 2]: stdin, stdout, stderr
    NUL, NewLine,
    Texts,          \* what a program writes, and what is typed
    LineLength,     \* 70 in the code
    MaxFiles,       \* bound: calls of open in a behaviour
    MaxBytes        \* bound: bytes in a file

Bytes == UNION {Range(t) : t \in Texts}
FileNames == Names \cup {Standard[i] : i \in 0 .. 2}

ASSUME FilesAssumption ==
    /\ Unwritable \subseteq Names
    /\ LineLength \in Nat \ {0} /\ MaxFiles \in Nat /\ MaxBytes \in Nat
    /\ Texts \subseteq Seq(Bytes)
    /\ \A t \in Texts : t # <<>> /\ Last(t) = NUL

VARIABLES
    FDT_filename, FDT_state, FileDescriptorIndex,
    disk,           \* the bytes of each file
    present,        \* the files that there are
    result,         \* register $2 after the call
    moved,          \* the bytes that the latest read or write moved
    hung,           \* the simulator reads a missing file for ever
    opened,         \* history: the descriptors given out, with their names
    reads,          \* history: for each of them, how often read found data
    reading         \* history: the descriptor of the latest read

files == <<FDT_filename, FDT_state, FileDescriptorIndex, disk, present, result,
           moved, hung, opened, reads, reading>>

Open == 1
Closed == 0

\* FDT_filename[fd] and FDT_state[fd]
Entry(fd) == fd + 1
Descriptors == 0 .. Len(FDT_filename) - 1
NameOf(fd) == FDT_filename[Entry(fd)]
IsOpen(fd) == FDT_state[Entry(fd)] # Closed

FilesInit ==
    /\ FDT_filename = <<Standard[0], Standard[1], Standard[2]>>
    /\ FDT_state = <<Closed, Closed, Closed>>
    /\ FileDescriptorIndex = 3
    /\ disk = [n \in FileNames |-> <<>>]
    /\ present = {}
    /\ result = 0
    /\ moved = <<>>
    /\ hung = FALSE
    /\ opened = {}
    /\ reads = [fd \in 0 .. MaxFiles + 2 |-> 0]
    /\ reading = 0

\* Mutant: the file is opened for update, which creates none.
open_NoCreate(name) ==
    /\ FileDescriptorIndex < MaxFiles + 3
    /\ FDT_filename' = Append(FDT_filename, name)
    /\ FDT_state' = Append(FDT_state, Open)
    /\ result' = FileDescriptorIndex
    /\ FileDescriptorIndex' = FileDescriptorIndex + 1
    /\ opened' = opened \cup {[fd |-> FileDescriptorIndex, name |-> name]}
    /\ UNCHANGED <<disk, present, moved, hung, reads, reading>>

\* Mutant: a file that cannot be created gets a name and no state.
open_NameOnly(name) ==
    /\ FileDescriptorIndex < MaxFiles + 3
    /\ FDT_filename' = Append(FDT_filename, name)
    /\ FDT_state' = IF name \in Unwritable THEN FDT_state ELSE Append(FDT_state, Open)
    /\ result' = FileDescriptorIndex
    /\ FileDescriptorIndex' = FileDescriptorIndex + 1
    /\ disk' = IF name \in Unwritable THEN disk ELSE [disk EXCEPT ![name] = <<>>]
    /\ present' = present \cup ({name} \ Unwritable)
    /\ opened' = opened \cup {[fd |-> FileDescriptorIndex, name |-> name]}
    /\ UNCHANGED <<moved, hung, reads, reading>>

\* Opening truncates the file, whatever it is opened for.  That the simulator
\* then stops at its prompt (duration) is left out.
open(name) ==
    /\ FileDescriptorIndex < MaxFiles + 3
    /\ FDT_filename' = Append(FDT_filename, name)
    /\ FDT_state' = Append(FDT_state, Open)
    /\ result' = FileDescriptorIndex
    /\ FileDescriptorIndex' = FileDescriptorIndex + 1
    /\ disk' = IF name \in Unwritable THEN disk ELSE [disk EXCEPT ![name] = <<>>]
    /\ present' = present \cup ({name} \ Unwritable)
    /\ opened' = opened \cup {[fd |-> FileDescriptorIndex, name |-> name]}
    /\ UNCHANGED <<moved, hung, reads, reading>>

\* Mutant: the descriptor closed last may be given out again.
close_Reuse(fd) ==
    /\ FDT_state' = [FDT_state EXCEPT ![Entry(fd)] = Closed]
    /\ FileDescriptorIndex' = IF fd = FileDescriptorIndex - 1 /\ fd > 2 THEN fd
                              ELSE FileDescriptorIndex
    /\ result' = 0
    /\ UNCHANGED <<FDT_filename, disk, present, moved, hung,
                   opened, reads, reading>>

close(fd) ==
    /\ FDT_state' = [FDT_state EXCEPT ![Entry(fd)] = Closed]
    /\ result' = 0
    /\ UNCHANGED <<FDT_filename, FileDescriptorIndex, disk, present, moved,
                   hung, opened, reads, reading>>

\* The bytes of a text before the first NUL.
Strlen(text) == SelectInSeq(text, LAMBDA b : b = NUL) - 1
Word(text) == SubSeq(text, 1, SelectInSeq(text, LAMBDA b : b \in {NUL, NewLine}) - 1)

\* The bytes between the line breaks, in order.
Lines(bytes) ==
    LET kept == {i \in DOMAIN bytes : bytes[i] # NewLine}
        nth(k) == CHOOSE i \in kept : Cardinality({j \in kept : j <= i}) = k
    IN  [k \in 1 .. Cardinality(kept) |-> bytes[nth(k)]]

\* What read stores: the lines joined, a line break after LineLength bytes,
\* and a line break over the NUL that ends them.
Input(bytes) ==
    LET joined == Lines(bytes)
    IN  Append(IF Len(joined) > LineLength
               THEN InsertAt(joined, LineLength + 1, NewLine) ELSE joined, NewLine)

\* From the console: one word, whatever the state of descriptor 0.
readStdin(text) ==
    /\ reading' = 0
    /\ moved' = Input(Word(text))
    /\ result' = Len(moved')
    /\ FDT_state' = [FDT_state EXCEPT ![Entry(0)] = Closed]
    /\ UNCHANGED <<FDT_filename, FileDescriptorIndex, disk, present, hung, opened, reads>>

\* getline on a file that is not there never reaches its end.
readMissing(fd) ==
    /\ fd # 0 /\ NameOf(fd) \notin present
    /\ reading' = fd
    /\ hung' = TRUE
    /\ UNCHANGED <<FDT_filename, FDT_state, FileDescriptorIndex, disk, present,
                   result, moved, opened, reads>>

\* Mutant: read leaves the descriptor open.
readFile_Again(fd) ==
    /\ fd # 0 /\ NameOf(fd) \in present
    /\ reading' = fd
    /\ moved' = Input(disk[NameOf(fd)])
    /\ result' = IF IsOpen(fd) THEN Len(moved') ELSE 0
    /\ reads' = [reads EXCEPT ![fd] = IF IsOpen(fd) THEN @ + 1 ELSE @]
    /\ UNCHANGED <<FDT_filename, FDT_state, FileDescriptorIndex, disk, present, hung, opened>>

\* The whole file at once, whatever length the program asks for.  A closed
\* descriptor gives no bytes, but the memory is overwritten all the same.
readFile(fd) ==
    /\ fd # 0 /\ NameOf(fd) \in present
    /\ reading' = fd
    /\ moved' = Input(disk[NameOf(fd)])
    /\ result' = IF IsOpen(fd) THEN Len(moved') ELSE 0
    /\ FDT_state' = [FDT_state EXCEPT ![Entry(fd)] = Closed]
    /\ reads' = [reads EXCEPT ![fd] = IF IsOpen(fd) THEN @ + 1 ELSE @]
    /\ UNCHANGED <<FDT_filename, FileDescriptorIndex, disk, present, hung, opened>>

\* The loop of a console write: up to NUL, or until length has been counted
\* down to 0, which it cannot be from 0.
Printed(text, length) ==
    IF 0 < length /\ length < Strlen(text) THEN length ELSE Strlen(text)

writeConsole(fd, text, length) ==
    LET n == Printed(text, length)
    IN  /\ fd \in {1, 2}
        /\ moved' = SubSeq(text, 1, n)
        /\ result' = n
        /\ UNCHANGED <<FDT_filename, FDT_state, FileDescriptorIndex, disk, present,
                       hung, opened, reads, reading>>

\* Appended by name, open or not; the answer is the same if that fails.
writeFile(fd, text, length) ==
    LET old == disk[NameOf(fd)]
    IN  /\ fd \notin {1, 2}
        /\ length <= Len(text) /\ Len(old) + length <= MaxBytes
        /\ moved' = SubSeq(text, 1, length)
        /\ disk' = IF NameOf(fd) \in Unwritable THEN disk
                   ELSE [disk EXCEPT ![NameOf(fd)] = old \o moved']
        /\ present' = present \cup ({NameOf(fd)} \ Unwritable)
        /\ result' = length
        /\ UNCHANGED <<FDT_filename, FDT_state, FileDescriptorIndex,
                       hung, opened, reads, reading>>
=============================================================================
