--------------------------- MODULE FrontEndProps ---------------------------
(***************************************************************************)
(* What the front end must guarantee, under the programs for which the     *)
(* architecture defines a result.                                          *)
(***************************************************************************)
EXTENDS FrontEnd

\* Registers hold values of their width; past_pcs holds addresses.
FTypeOK ==
    /\ imem \in Programs
    /\ plus4 \in PC /\ altpc \in PC
    /\ st \in [Stages -> PC \cup {NoPC}]
    /\ past \in [0 .. DELAY - 1 -> PC]
    /\ take \in BOOLEAN /\ flush \in BOOLEAN
    /\ sbc \in 0 .. 4 /\ inhibit \in BOOLEAN /\ sys \in BOOLEAN
    /\ idOut \in Classes /\ exeOut \in Classes /\ memOut \in Classes
    /\ dest \in PC \cup {NoPC}
    /\ serial \in Serial \cup {"none"}

-----------------------------------------------------------------------------
(* The instructions still to take effect, read off the registers. *)

\* Stages whose instruction is on the path and that ID has not taken over:
\* during a flush everything behind ID is about to be cleared.
Live == {k \in Stages : /\ st[k] # NoPC
                        /\ flush => k = 0
                        /\ k = 0 => sbc = 0}

Oldest == CHOOSE k \in Live : \A j \in Live : k <= j

\* The address that follows the one in stage k.
After(k) == IF k = DELAY \/ flush THEN Instr_address_2IM ELSE st[k+1]

nextPC == IF Live = {} THEN Instr_address_2IM ELSE st[Oldest]
nextNPC == IF Live = {} THEN Plus4(Instr_address_2IM) ELSE After(Oldest)

\* The serialising instruction being served, as the rest of the machine sees
\* it: during the count it is the one in ID, when the count reaches 1 only SYS
\* tells.
servedKind == CASE sbc \in 2 .. 4       -> serial
                [] sbc \notin 2..4 /\ sys  -> "sys"
                [] sbc \notin 2..4 /\ ~sys -> "none"

Arch == INSTANCE ControlFlow WITH pc <- nextPC, npc <- nextNPC,
                                  serving <- servedKind

\* The front end implements sequential execution: whatever the tables guess,
\* ID takes over exactly the instructions of the program's path, each once and
\* in order, and serves each SYSCALL before it takes the next instruction
\* (BRANCH_PREDICTOR.v:51-79, dummy*.v, ID.v:339-404).
Implements == Arch!Execution

\* It never stops: a freeze ends, a flush ends, and the stages it emptied fill
\* again (ID.v:290, 343-368).
KeepsGoing == Arch!Progress

\* The instruction executed after the delay slot of a branch is the one the
\* branch decided on: "whether we jump/branch or not" (compare.v:13) and "Where
\* we need to jump to" (NextInstructionCalculator.v:32).
BranchObeyed == dest # NoPC => nextNPC = dest

\* past_pcs travels in step with the dummy stages: for every branch behind ID
\* on the path the entry that will judge it says where fetch really went after
\* its delay slot, so mispred compares against the fetched path.
PredictionAligned ==
    \A k \in 0 .. DELAY - 1 :
       ~flush /\ Class(k) = "br" =>
          After(k+1) = IF past[k] = Plus4(st[k]) THEN Plus8(st[k])
                                                 ELSE past[k]

\* When SYS is up the simulator reads and writes registers and memory: by then
\* every older instruction has left the output registers and been written back,
\* and only the SYSCALL itself may be in flight (ID.v:343-404).
SyscallDrained ==
    sys => idOut \in {"nop", "sys"} /\ exeOut = "nop" /\ memOut = "nop"

\* At the end of the count a SYSCALL has raised SYS, and an LL or SC has been
\* sent to EXE without raising it: "We do a flush on LL/SC, but don't need to
\* tell sim_main" (ID.v:351).
SerialServed ==
    /\ sys => sbc = 1
    /\ sbc = 1 => /\ sys <=> serial = "sys"
                  /\ serial = "llsc" => idOut = "llsc"
=============================================================================
