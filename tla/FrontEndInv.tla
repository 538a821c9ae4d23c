----------------------------- MODULE FrontEndInv -----------------------------
(***************************************************************************)
(* The programs for which the front end keeps its promise, and the         *)
(* inductive invariant that shows it.                                      *)
(***************************************************************************)
EXTENDS FrontEndProps

\* No branch in a delay slot (the architecture leaves it undefined) and no
\* LL/SC in one (the front end loses it, see llsc_slot.cfg).
ASSUME SlotAssumption ==
    \A m \in Programs, p \in PC :
       m[p] = "br" => m[Plus4(p)] \notin {"br", "llsc"}

\* No branch goes to its own delay slot, nor is it predicted to (see
\* slot_target.cfg).
ASSUME OwnSlotAssumption ==
    \A p \in PC : Plus4(p) \notin Targets[p] \cup Guessed[p]

\* Behind a filled stage every stage is filled: bubbles are only in front.
NoGap ==
    ~flush => \A k \in 0 .. DELAY - 1 : st[k] # NoPC => st[k+1] # NoPC

\* Along the filled stages addresses are consecutive, except after a delay
\* slot, which PredictionAligned takes care of.
Sequential ==
    ~flush => \A k \in 1 .. DELAY :
       st[k] # NoPC => IF Class(k-1) = "br"
                         THEN st[k] = Plus4(st[k-1])
                         ELSE After(k) = Plus4(st[k])

\* The instruction in ID: a delay slot right after its branch was decided, or
\* an instruction followed by the next address.
HeadSequential ==
    /\ ~flush /\ sbc = 0 /\ dest = NoPC /\ st[0] # NoPC => After(0) = Plus4(st[0])
    /\ dest # NoPC => /\ st[0] # NoPC
                      /\ sbc = 0
                      /\ Class(0) \notin {"br", "llsc"}
                      /\ After(0) = dest

\* A flush redirects fetch; only a delay slot can be in ID then.
FlushTakes ==
    flush => /\ take
             /\ Class(0) \notin {"br", "llsc"}
             /\ st[0] # NoPC => sbc = 0
             /\ st[0] = NoPC => sbc = 4 /\ \A k \in 0 .. DELAY - 1 : st[k] = NoPC

\* While ID counts, it either holds the instruction it serialises, or that
\* instruction was a SYSCALL in the delay slot of a mispredicted branch: the
\* flush has emptied the stages, and they fill again one per edge.
Window ==
    /\ sbc = 0 <=> serial = "none"
    /\ sbc > 0 => \/ Class(0) = serial /\ ~flush
                  \/ /\ serial = "sys"
                     /\ sbc < 4 => ~flush
                     /\ sbc = 4 => flush
                     /\ \A k \in 0 .. DELAY : k < DELAY + sbc - 3 /\ k < DELAY => st[k] = NoPC

\* The count drains the back end and ends with SYS for a SYSCALL only.
Draining ==
    /\ inhibit <=> sbc = 1
    /\ sys <=> sbc = 1 /\ serial = "sys"
    /\ sbc \in 2 .. 4 => idOut = "nop"
    /\ sbc \in 1 .. 3 => exeOut = "nop"
    /\ sbc \in 1 .. 2 => memOut = "nop"
    /\ sbc = 1 => \/ idOut = serial
                  \/ serial = "sys" /\ idOut = "nop"

FInd ==
    /\ FTypeOK
    /\ NoGap
    /\ Sequential
    /\ HeadSequential
    /\ PredictionAligned
    /\ FlushTakes
    /\ Window
    /\ Draining
=============================================================================
