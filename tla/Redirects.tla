------------------------------ MODULE Redirects ------------------------------
(***************************************************************************)
(* How the loader redirects functions of the C library to system calls:    *)
(* each symbol of the program stores its address in one of the variables   *)
(* of sm_syscalls.cpp, and a stub is then written over the code at each of *)
(* these addresses.                                                        *)
(*                                                                         *)
(* A function stands for its address.  Code that is not overwritten is the *)
(* library's own, which makes the system call of its name.                 *)
(***************************************************************************)
EXTENDS Integers, Sequences, SequencesExt

\* Functions of the C library that make a system call.  The loader takes the
\* addresses of those that have a variable (Pointer).
Library == {"__libc_malloc", "__cfree", "__mmap", "__munmap", "__libc_open",
            "__libc_read", "__libc_write", "__close", "_exit", "__sbrk"}

\* The system call that the library's own code makes.
Own(function) ==
    CASE function = "__libc_malloc" -> 4555
      [] function = "__cfree" -> 4091
      [] function = "__mmap" -> 4090
      [] function = "__munmap" -> 4091
      [] function = "__libc_open" -> 4005
      [] function = "__libc_read" -> 4003
      [] function = "__libc_write" -> 4004
      [] function = "__close" -> 4006
      [] function = "_exit" -> 4001
      [] function = "__sbrk" -> 4045

\* Mutant: __cfree stores its address for __mmap.
Pointer_FreeIsMmap(function) ==
    CASE function = "__libc_malloc" -> "LIBC_MALLOC_ADDRESS"
      [] function \in {"__cfree", "__mmap"} -> "MMAP_ADDRESS"
      [] function = "__libc_open" -> "LIBC_OPEN_ADDRESS"
      [] function \in {"__libc_write", "__munmap", "__libc_read"} -> "LIBC_WRITE_ADDRESS"
      [] OTHER -> "none"

\* function_pointers: the variable that a symbol's address goes to.
Pointer(function) ==
    CASE function = "__libc_malloc" -> "LIBC_MALLOC_ADDRESS"
      [] function = "__cfree" -> "CFREE_ADDRESS"
      [] function = "__mmap" -> "MMAP_ADDRESS"
      [] function = "__libc_open" -> "LIBC_OPEN_ADDRESS"
      [] function \in {"__libc_write", "__munmap", "__libc_read"} -> "LIBC_WRITE_ADDRESS"
      [] OTHER -> "none"

\* The stubs of fill_syscall_redirects.
Stubs == [CFREE_ADDRESS |-> 4091, EXIT_ADDRESS |-> 4001, LIBC_MALLOC_ADDRESS |-> 4555,
          LIBC_OPEN_ADDRESS |-> 4005, LIBC_READ_ADDRESS |-> 4003,
          LIBC_WRITE_ADDRESS |-> 4004, MMAP_ADDRESS |-> 4090, MUNMAP_ADDRESS |-> 4091]

\* The address in a variable after all symbols have been read: that of the
\* last symbol that goes there.
Holds(symbols, variable) ==
    SelectLastInSeq(symbols, LAMBDA f : Pointer(f) = variable)

\* The system call that a function of the program makes.
Runs(symbols, function) ==
    LET k == Holds(symbols, Pointer(function))
    IN  IF Pointer(function) # "none" /\ k # 0 /\ symbols[k] = function
        THEN Stubs[Pointer(function)]
        ELSE Own(function)
=============================================================================
