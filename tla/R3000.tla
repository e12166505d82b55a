------------------------------- MODULE R3000 -------------------------------
(* The steps a program counts on from an R3000 core: it runs the word at pc, *)
(* a taken branch goes to its target after the instruction that follows it,  *)
(* and a loaded value is in its register after the instruction that follows  *)
(* the load.                                                                 *)
EXTENDS Integers

CONSTANTS Regs, Modulus, Nothing

VARIABLES rom, pc, npc, regs, load, ram, isolated

Nop == [op |-> "nop"]
Word(a) == IF a \in DOMAIN rom THEN rom[a] ELSE Nop

\* A register after instruction i: what i writes to it, which stands against the load of
\* the instruction before; or that load.
Result(i, r) ==
  IF i.op = "add" /\ i.reg = r THEN (regs[r] + i.imm) % Modulus
  ELSE IF load # Nothing /\ load.reg = r THEN load.value
  ELSE regs[r]

Taken(i) == i.op = "j" \/ (i.op = "bne" /\ regs[i.reg] # regs[i.other])
Target(i) == IF i.op = "j" THEN i.target ELSE pc + 1 + i.offset

Next ==
  LET i == Word(pc)
  IN  /\ pc' = npc
      /\ npc' = IF Taken(i) THEN Target(i) ELSE npc + 1
      /\ regs' = [r \in Regs |-> IF r = 0 \/ i.op = "halt" THEN regs[r] ELSE Result(i, r)]
      /\ load' = IF i.op = "lw" /\ ~isolated THEN [reg |-> i.reg, value |-> ram]
                 ELSE IF i.op = "halt" THEN load ELSE Nothing
      /\ ram' = IF i.op = "sw" /\ ~isolated THEN regs[i.reg] ELSE ram
      /\ isolated' = IF i.op = "mtc" THEN i.isolate ELSE isolated
      /\ UNCHANGED rom
=============================================================================
