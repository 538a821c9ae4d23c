------------------------------ MODULE MCBypass ------------------------------
(* A small datapath: one register besides $0, two values, one instruction    *)
(* of each kind that the forwarding paths tell apart.                        *)
EXTENDS Bypass

MCOps == {"add", "lw", "lwl"}
MCALU(op, a, b) == (a + b) % 2
MCLoaded(op, address, word, old) ==
    IF op = "lwl" THEN (old + word) % 2 ELSE word

Signals(RegDst, Branch, MemRead, MemWrite, RegWrite, Link) ==
    [RegDst |-> RegDst, Branch |-> Branch, MemRead |-> MemRead, MemWrite |-> MemWrite,
     RegWrite |-> RegWrite, Link |-> Link]

Form(op, rs, rt, rd, imm, signals) ==
    [f \in {"op", "rs", "rt", "rd", "immediate"} \cup DOMAIN signals |->
        CASE f = "op" -> op [] f = "rs" -> rs [] f = "rt" -> rt [] f = "rd" -> rd
          [] f = "immediate" -> imm [] OTHER -> signals[f]]

\* Their signals in Decoder's table:        RegDst Branch MemRead MemWrite RegWrite Link
MCInstrs ==
    LET addu   == Signals(TRUE, FALSE, FALSE, FALSE, TRUE, FALSE)
        addiu  == Signals(FALSE, FALSE, FALSE, FALSE, TRUE, FALSE)
        beq    == Signals(TRUE, TRUE, FALSE, FALSE, FALSE, FALSE)
        jal    == Signals(FALSE, TRUE, FALSE, FALSE, TRUE, TRUE)
        jalr   == Signals(TRUE, TRUE, FALSE, FALSE, TRUE, TRUE)
        load   == Signals(FALSE, FALSE, TRUE, FALSE, TRUE, FALSE)
        sw     == Signals(FALSE, FALSE, FALSE, TRUE, FALSE, FALSE)
        sc     == Signals(FALSE, FALSE, FALSE, TRUE, TRUE, FALSE)
    IN  {Form("add", rs, rt, rd, 0, addu) : rs \in Reg, rt \in Reg, rd \in Reg}
   \cup {Form("add", Zero, rt, Zero, 1, addiu) : rt \in Reg}
   \cup {Form("add", 1, rt, Zero, 0, beq) : rt \in Reg}
   \cup {Form("add", Zero, Zero, Zero, 1, jal)}
   \cup {Form("add", 1, Zero, rd, 1, jalr) : rd \in Reg}
   \cup {Form("lw", rs, rt, Zero, 1, load) : rs \in Reg, rt \in Reg}
   \cup {Form("lwl", Zero, 1, Zero, 1, load)}
   \cup {Form("lw", Zero, rt, Zero, 1, sw) : rt \in Reg}
   \cup {Form("lw", Zero, 1, Zero, 1, sc)}
=============================================================================
