------------------------------- MODULE I8086 -------------------------------
(* The steps of an 8086 that a boot sector counts on, in real mode: a physical *)
(* address is sixteen times the segment plus the offset, and rep movsw moves   *)
(* cx words upwards.                                                           *)
EXTENDS Integers, Bitwise

CONSTANTS Paragraph, Wide

VARIABLES memory, segs, ip, regs

Physical(s, o) == (segs[s] * Paragraph + (o % Wide)) % (Paragraph * Wide)
Register(id) == <<"ax", "cx", "dx", "bx", "sp", "bp", "si", "di">>[id + 1]

Lengths == [cli |-> 1, cld |-> 1, jmp |-> 2, xor |-> 2, movseg |-> 2, mov16 |-> 2, rep |-> 2,
            movimm |-> 3, jmpfar |-> 5]

\* The instruction and the operands that follow it are there as they were assembled.
Intact(i) ==
  \A k \in 1 .. Lengths[i.op] - 1 : memory[Physical("cs", ip + k)] = [op |-> "operand", of |-> i, k |-> k]

\* Memory after rep movsw of n words, read and written one after the other: a copy to
\* higher addresses that runs into its source, by two bytes or more, repeats it.
Repeated(n) ==
  LET src == Physical("ds", regs["si"])
      dst == Physical("es", regs["di"])
      From(k) == src + IF dst > src THEN (k % (dst - src)) ELSE k
  IN  [a \in DOMAIN memory |-> IF a \in dst .. dst + 2 * n - 1 THEN memory[From(a - dst)] ELSE memory[a]]

Next ==
  LET i == memory[Physical("cs", ip)]
      count == regs["cx"]
      moved == [regs EXCEPT !["cx"] = 0, !["si"] = (@ + 2 * count) % Wide, !["di"] = (@ + 2 * count) % Wide]
  IN  /\ ip' = (IF i.op = "jmpfar" THEN i.ip
                ELSE ip + Lengths[i.op] + IF i.op = "jmp" THEN i.rel ELSE 0) % Wide
      /\ segs' = CASE i.op = "jmpfar" -> [segs EXCEPT !["cs"] = i.cs]
                   [] i.op = "movseg" -> [segs EXCEPT ![i.seg] = regs[Register(i.rm)]]
                   [] OTHER -> segs
      /\ regs' = CASE i.op = "xor" -> [regs EXCEPT ![Register(i.rm)] = @ ^^ regs[Register(i.reg)]]
                   [] i.op = "movimm" -> [regs EXCEPT ![Register(i.reg)] = i.imm]
                   [] i.op = "mov16" -> [regs EXCEPT ![Register(i.rm)] = regs[Register(i.reg)]]
                   [] i.op = "rep" -> moved
                   [] OTHER -> regs
      /\ memory' = IF i.op = "rep" THEN Repeated(count) ELSE memory
=============================================================================
