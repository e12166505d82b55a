----------------------------- MODULE StarSys2MC -----------------------------
(* Every firmware of five words over a few instructions each, mirrored in the *)
(* three places the firmware is seen at.  Slices of four cycles end between   *)
(* a branch, its slot and its target in every way.                            *)
EXTENDS StarSys2

Lui(a) == [op |-> "lui", imm |-> a]
Add == [op |-> "add", imm |-> 1]
Bne(n) == [op |-> "bne", offset |-> n]
Other(o) == [op |-> o]

MCWords == {Nop, Other("special")}
First == {Lui(767 * 8), Lui(639 * 8), Lui(64 * 8), Lui(0), [op |-> "mfc0", from |-> "prid"]}
Second == {Add, Bne(1), Bne(2), Other("tlbwi"), [op |-> "mtc0", to |-> "config"]}
Third == {Other("sync"), Other("jalr"), Other("tlbwi"), [op |-> "sw", value |-> 1], [op |-> "slti", imm |-> 1]}
Fourth == {Bne(2), Other("jr"), Other("special"), [op |-> "sd", value |-> 1], Other("illegal")}
Fifth == {Add, Other("special"), Bne(1), Nop}

MCFirmwares ==
  { [a \in 0 .. 7 |-> IF a < 5 THEN <<i, j, k, l, m>>[a + 1] ELSE Nop] :
      i \in First, j \in Second, k \in Third, l \in Fourth, m \in Fifth }
=============================================================================
