---------------------------- MODULE MCSimulator ----------------------------
(* Programs that manage memory, and programs that use files.                 *)
EXTENDS SimulatorProps

MCStandard == [i \in 0 .. 2 |-> <<"stdin", "stdout", "stderr">>[i + 1]]
MCTexts == {<<"a", "nl", "a", "nul">>}

\* Small steps of the break both ways, and the least and the greatest int.
MCSteps == {4, -4, -(Limit \div 2), Limit \div 2 - 1}

MemoryProgram == {"__libc_malloc", "__mmap", "__cfree", "__munmap", "__sbrk"}
FileProgram == {"__libc_open", "__libc_read", "__libc_write", "__close", "_exit"}

\* A symbol of the three that share a variable is redirected as a write if it
\* comes last; and every order of all symbols is loaded, by a program that makes
\* no call.
WriteLast == <<"__munmap", "__libc_read", "__libc_write">>
ReadLast == <<"__libc_write", "__munmap", "__libc_read">>
MunmapLast == <<"__libc_read", "__libc_write", "__munmap">>
Others == {"__cfree", "__mmap"}
Rest == <<"__libc_malloc", "__libc_open">>
Ordered(shared) == Rest \o SetToSeq(Others) \o shared
MCPrograms ==
         [program : {MemoryProgram}, symbols : {Ordered(WriteLast)}]
    \cup [program : {{"__mmap", "__munmap"}}, symbols : {Ordered(MunmapLast)}]
    \cup [program : {FileProgram}, symbols : {Ordered(WriteLast), Ordered(ReadLast)}]
    \cup [program : {{}},
          symbols : {Rest \o s : s \in SetToSeqs(
                        Others \cup {"__libc_write", "__munmap", "__libc_read"})}]
=============================================================================
