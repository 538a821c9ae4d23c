----------------------------- MODULE ReturnStack -----------------------------
(***************************************************************************)
(* What a return address stack promises: a return is predicted to go back  *)
(* to the most recent call not yet returned from; when the calls are more  *)
(* than it can hold it forgets the oldest.                                 *)
(***************************************************************************)
EXTENDS Integers, Sequences

CONSTANTS
    SIZE,       \* entries; 32 in the code
    Addresses   \* return addresses

VARIABLES
    callers,    \* return addresses of the pending calls, latest last
    answer      \* prediction made at the last edge, or 0

Init == callers = <<>> /\ answer = 0

Idle == answer' = 0 /\ UNCHANGED callers

Call(a) ==
    /\ callers' = IF Len(callers) < SIZE THEN Append(callers, a)
                                         ELSE Append(Tail(callers), a)
    /\ answer' = 0

Return ==
    /\ callers # <<>>
    /\ answer' = callers[Len(callers)]
    /\ callers' = SubSeq(callers, 1, Len(callers) - 1)

\* A return is fetched at the edge at which a call is decoded: it returns from
\* that call, and the stack is left alone.
CallReturn(a) ==
    /\ callers # <<>>
    /\ answer' = a
    /\ UNCHANGED callers

Next == \/ Idle
        \/ Return
        \/ \E a \in Addresses : Call(a) \/ CallReturn(a)

Spec == Init /\ [][Next]_<<callers, answer>>
=============================================================================
