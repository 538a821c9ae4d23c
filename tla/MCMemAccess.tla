---------------------------- MODULE MCMemAccess ----------------------------
(* Two words of memory and a register, every byte different, so that one     *)
(* initial state tells where each byte goes.  The lanes of the two words     *)
(* have opposite signs.                                                      *)
EXTENDS MemAccess

MCTop == 7
MCByte == 0 .. 30
MCBit7(b) == b \in {0, 2, 5, 7, 10, 13, 30}
MCMemory == [x \in 0 .. MCTop |-> x]
MCWord == [i \in 0 .. 3 |-> 10 + i]
MCWordOf(a) == [i \in 0 .. 3 |-> IF i = 3 THEN 20 + a ELSE 29]
=============================================================================
