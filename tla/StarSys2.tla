------------------------------ MODULE StarSys2 ------------------------------
(***************************************************************************)
(* The PlayStation 2 of src/src/starsys2: cycles_step_devs shares out the  *)
(* cycles of a step between EE, IOP and DMAC, ee_run interprets the        *)
(* firmware, and the bridge decodes physical addresses.                    *)
(*                                                                         *)
(* Addresses count words and Span words stand for 4 MB, the size of the    *)
(* firmware and the grain of every segment the code distinguishes.  Of the *)
(* EE's registers 0 and one other take part.  Instructions are records:    *)
(* "lui" and "add" stand for those that compute the register.  Programs do *)
(* not reach the scratchpad and store no further than the memory.  What is *)
(* counted, and the IOP's pc, stay below their widths in the steps main    *)
(* takes.                                                                  *)
(***************************************************************************)
EXTENDS Integers, Sequences

CONSTANTS
  Firmwares,  \* the contents the firmware may have, on 0 .. Span - 1
  Words,      \* the words a store may make of one it hits
  Span,       \* the words that stand for 4 MB
  Slice,      \* the cycles a step adds (16 in the code), a multiple of 4
  Steps,      \* bound: the steps main takes (101 in the code)
  Prid        \* the revision cop0 answers (0x59 in the code)

Modulus == 1024 * Span         \* 2^32
Addresses == 0 .. Modulus - 1

\* What an instruction's fields hold: the offset of a branch has 16 bits, less than the
\* 2^20 words of 4 MB.
Decoded(i) ==
  /\ i.op = "lui" => i.imm \in Addresses
  /\ i.op = "add" => i.imm \in Int
  /\ i.op = "bne" => i.offset \in 0 .. Span - 1

\* A firmware, or what has become of it.
Loaded(m) == DOMAIN m = 0 .. Span - 1 /\ \A a \in 0 .. Span - 1 : Decoded(m[a])

ASSUME SizeAssumption ==
  Span \in Nat \ {0} /\ Slice \in Nat /\ Slice % 4 = 0 /\ Steps \in Nat /\ Prid \in Addresses
ASSUME FirmwareAssumption == (\A m \in Firmwares : Loaded(m)) /\ (\A i \in Words : Decoded(i))

VARIABLES
  memory,                         \* the first 4 MB of ee_memory, the firmware
  pc, next_pc, reg, cop0,         \* the EE
  isinint,                        \* the EE has stopped
  ee_cycles, iop_cycles, count,   \* what cycles_t counts; the DMAC's is as the EE's
  last_executed,
  iop_pc,
  d_ctrl, unkpaddr,               \* the DMAC's control word and the values recorded
  running, todo,                  \* the device in its step function, and those to come
  steps,                          \* steps begun
  ended                           \* the process has quit

ee == <<memory, pc, next_pc, reg, cop0, isinint, d_ctrl, unkpaddr>>
vars == <<ee, ee_cycles, iop_cycles, count, last_executed, iop_pc, running, todo, steps, ended>>

Nop == [op |-> "nop"]
Low == 128 * Span              \* 0x20000000
Boot == 767 * Span             \* 0xBFC00000
DmacCtrl == 64 * Span          \* 0x1000E000 in its page, for which the 4 MB stand

\* main: sony_create, sony_reset_cpus and the default affinity.
Init ==
  /\ memory \in Firmwares
  /\ pc = Boot /\ next_pc = Boot + 1 /\ reg = 0 /\ cop0 = [config |-> 0, other |-> 0]
  /\ isinint = FALSE /\ iop_pc = Boot /\ d_ctrl = 0 /\ unkpaddr = <<>>
  /\ ee_cycles = 0 /\ iop_cycles = 0 /\ count = 0 /\ last_executed = "ee"
  /\ running = "none" /\ todo = <<>> /\ steps = 0 /\ ended = FALSE

----------------------------------------------------------------------------
(* Addresses *)

\* ee_solve_vaddr: kuseg, kseg1 and the cached mirror of the firmware lose their segment.
Physical(a) ==
  LET unit == a \div Span
  IN  IF unit < 512 \/ unit \in 639 .. 767 THEN a % Low ELSE a

IsDmac(p) == p \div Span = 64
IsFirmware(p) == p \div Span = 127

\* bridge_read: only the firmware reads as something; what the DMAC answers is dropped.
Read(a) == IF IsFirmware(Physical(a)) THEN memory[a % Span] ELSE Nop

\* dmac_write32: every value is recorded, once.
Recorded(u, v) == IF \E i \in DOMAIN u : u[i] = v THEN u ELSE Append(u, v)

\* bridge_write of each <<address, value>> in turn.  Memory takes one byte of the value:
\* a word of the firmware becomes another one.
Stored(writes) ==
  LET places == [i \in DOMAIN writes |-> Physical(writes[i][1])]
      dma == {i \in DOMAIN writes : IsDmac(places[i])}
      hit == {places[i] : i \in DOMAIN writes \ dma} \cap DOMAIN memory
  IN  /\ \E w \in [hit -> Words] :
           memory' = [a \in DOMAIN memory |-> IF a \in hit THEN w[a] ELSE memory[a]]
      /\ d_ctrl' = IF \E i \in dma : places[i] = DmacCtrl
                   THEN writes[CHOOSE i \in dma : places[i] = DmacCtrl][2] ELSE d_ctrl
      /\ unkpaddr' = LET one == IF 1 \in dma THEN Recorded(unkpaddr, writes[1][2]) ELSE unkpaddr
                     IN  IF 2 \in dma THEN Recorded(one, writes[2][2]) ELSE one

----------------------------------------------------------------------------
(* ee_run *)

After(a) == (a + 1) % Modulus

\* Mutant: the delay slot is forgotten.
SetPcNoSlot(next, slot) ==
  /\ pc' = IF next # 0 THEN next ELSE After(pc)
  /\ next_pc' = After(pc')

\* setpc after an instruction that left next_pc and delay_slot at these values; next_pc
\* = 0 counts as not set.
SetPc(next, slot) ==
  /\ pc' = IF slot # 0 THEN slot ELSE IF next # 0 THEN next ELSE After(pc)
  /\ next_pc' = IF slot # 0 THEN next ELSE After(pc')

\* One turn of the loop of ee_run.
Turn(i) ==
  /\ running = "ee" /\ ~isinint /\ ee_cycles > 0 /\ ~ended
  /\ i = Read(pc)
  /\ UNCHANGED <<iop_cycles, count, last_executed, iop_pc, running, todo, steps>>

Value(i) ==
  CASE i.op = "lui" -> i.imm
    [] i.op = "add" -> (reg + i.imm) % Modulus
    [] i.op = "slti" -> IF reg # i.imm THEN 1 ELSE 0
    [] i.op = "mfc0" -> IF i.from = "prid" THEN Prid ELSE IF i.from = "config" THEN 0 ELSE cop0.other

\* lui, ori, addi, addiu, slti and mfc0; mfc0 of Config reads the array mtc0 does not write.
Compute(i) ==
  /\ Turn(i) /\ i.op \in {"lui", "add", "slti", "mfc0"}
  /\ reg' = Value(i)
  /\ SetPc(next_pc, 0) /\ ee_cycles' = ee_cycles - 1
  /\ UNCHANGED <<memory, cop0, isinint, d_ctrl, unkpaddr, ended>>

\* nop, and tlbwi, which ee_run steps over.
Skip(i) ==
  /\ Turn(i) /\ i.op \in {"nop", "tlbwi"}
  /\ SetPc(next_pc, 0) /\ ee_cycles' = ee_cycles - 1
  /\ UNCHANGED <<memory, reg, cop0, isinint, d_ctrl, unkpaddr, ended>>

Target(i) == (pc + 1 + i.offset) % Modulus

\* bne against register 0, with setbranch; the offset comes from an unsigned field.
Branch(i) ==
  /\ Turn(i) /\ i.op = "bne"
  /\ \/ reg # 0 /\ SetPc(Target(i), After(pc))
     \/ reg = 0 /\ SetPc(next_pc, 0)
  /\ ee_cycles' = ee_cycles - 1
  /\ UNCHANGED <<memory, reg, cop0, isinint, d_ctrl, unkpaddr, ended>>

\* jr and jalr set next_pc only: the word after them is not executed.  jalr links first,
\* into the one register there is, and so jumps to its own link.
JumpRegister(i) ==
  /\ Turn(i) /\ i.op \in {"jr", "jalr"}
  /\ reg' = IF i.op = "jalr" THEN After(After(pc)) ELSE reg
  /\ SetPc(reg', 0) /\ ee_cycles' = ee_cycles - 1
  /\ UNCHANGED <<memory, cop0, isinint, d_ctrl, unkpaddr, ended>>

\* ee_skip_cycles leaves the one cycle the loop is about to take.
SkipCycles == IF ee_cycles > 1 THEN 1 ELSE ee_cycles

Sync(i) ==
  /\ Turn(i) /\ i.op = "sync"
  /\ SetPc(next_pc, 0) /\ ee_cycles' = SkipCycles - 1
  /\ UNCHANGED <<memory, reg, cop0, isinint, d_ctrl, unkpaddr, ended>>

\* special_list of a function it does not know.
Special(i) ==
  /\ Turn(i) /\ i.op = "special"
  /\ isinint' = TRUE
  /\ SetPc(next_pc, 0) /\ ee_cycles' = ee_cycles - 1
  /\ UNCHANGED <<memory, reg, cop0, d_ctrl, unkpaddr, ended>>

\* sw and sd of register 0 or the other one, to the address in the other one.
Store(i) ==
  /\ Turn(i) /\ i.op \in {"sw", "sd"}
  /\ Stored(IF i.op = "sw" THEN <<<<reg, i.value>>>> ELSE <<<<reg, 0>>, <<After(reg), i.value>>>>)
  /\ SetPc(next_pc, 0) /\ ee_cycles' = ee_cycles - 1
  /\ UNCHANGED <<reg, cop0, isinint, ended>>

MoveToCop0(i) ==
  /\ Turn(i) /\ i.op = "mtc0"
  /\ cop0' = [cop0 EXCEPT ![i.to] = reg]
  /\ SetPc(next_pc, 0) /\ ee_cycles' = ee_cycles - 1
  /\ UNCHANGED <<memory, reg, isinint, d_ctrl, unkpaddr, ended>>

\* ee_sigill
Illegal(i) ==
  /\ Turn(i) /\ i.op = "illegal"
  /\ ended' = TRUE
  /\ UNCHANGED <<ee, ee_cycles>>

Execute(i) ==
  \/ Compute(i) \/ Skip(i) \/ Branch(i) \/ JumpRegister(i) \/ Sync(i)
  \/ Special(i) \/ Store(i) \/ MoveToCop0(i) \/ Illegal(i)

----------------------------------------------------------------------------
(* cycles_step_devs *)

\* Mutant: the IOP's share is that of all cycles so far.
IopShareOfAll == (count + ee_cycles + Slice) \div 4

IopShare == (ee_cycles + Slice) \div 4

\* The beginning of a step, up to the loop over the affinity.
Begin ==
  /\ running = "none" /\ todo = <<>> /\ steps < Steps /\ ~ended
  /\ ee_cycles' = ee_cycles + Slice
  /\ iop_cycles' = IopShare
  /\ count' = count + ee_cycles'
  /\ todo' = <<"ee", "iop", "dmac", "draw">>
  /\ steps' = steps + 1
  /\ UNCHANGED <<ee, last_executed, iop_pc, running, ended>>

\* ee_run: an interrupt is over when the EE is at the boot address.
StillInInterrupt == isinint /\ pc # Boot

\* cycles_step_device calls the device.
Call ==
  /\ running = "none" /\ todo # <<>> /\ Head(todo) # "draw" /\ ~ended
  /\ running' = Head(todo) /\ todo' = Tail(todo)
  /\ isinint' = IF Head(todo) = "ee" THEN StillInInterrupt ELSE isinint
  /\ UNCHANGED <<memory, pc, next_pc, reg, cop0, d_ctrl, unkpaddr, ee_cycles, iop_cycles, count,
                 last_executed, iop_pc, steps, ended>>

Return == running' = "none" /\ last_executed' = running

\* Mutant: the EE gives up only when its cycles are spent.
EeReturnsSpent ==
  /\ running = "ee" /\ ee_cycles = 0 /\ ~ended
  /\ Return
  /\ UNCHANGED <<ee, ee_cycles, iop_cycles, count, iop_pc, todo, steps, ended>>

EeReturns ==
  /\ running = "ee" /\ (isinint \/ ee_cycles = 0) /\ ~ended
  /\ Return
  /\ UNCHANGED <<ee, ee_cycles, iop_cycles, count, iop_pc, todo, steps, ended>>

\* mips_run reads a word per cycle and does nothing with it.
IopRuns ==
  /\ running = "iop" /\ ~ended
  /\ iop_pc' = iop_pc + iop_cycles /\ iop_cycles' = 0
  /\ Return
  /\ UNCHANGED <<ee, ee_cycles, count, todo, steps, ended>>

\* dmac_run: nothing while it is off, and "DMAC is required" once it is on.
DmacRuns ==
  /\ running = "dmac" /\ ~ended
  /\ ended' = (d_ctrl % 2 = 1)
  /\ Return
  /\ UNCHANGED <<ee, ee_cycles, iop_cycles, count, iop_pc, todo, steps>>

Once(device, out) == IF device \in out THEN <<device>> ELSE <<>>

\* The draws at the end of a step: fb_rand() % n is other than 0 only if n > 1, and the
\* EE is drawn only if the DMAC was not the last to run.
Draw ==
  /\ running = "none" /\ todo = <<"draw">> /\ ~ended
  /\ \E out \in SUBSET {"ee", "iop", "dmac"} :
       /\ "ee" \in out => count \div Slice > 1 /\ last_executed # "dmac"
       /\ "iop" \in out => count \div (Slice \div 4) > 1
       /\ "dmac" \in out => count \div Slice > 1
       /\ todo' = Once("ee", out) \o Once("iop", out) \o Once("dmac", out)
  /\ UNCHANGED <<ee, ee_cycles, iop_cycles, count, last_executed, iop_pc, running, steps, ended>>

\* A step of the schedule once it has begun.
InStep == Call \/ Execute(Read(pc)) \/ EeReturns \/ IopRuns \/ DmacRuns \/ Draw

Next == Begin \/ InStep

Spec == Init /\ [][Next]_vars /\ WF_vars(InStep)

----------------------------------------------------------------------------
(* Properties *)

\* The IOP has taken a quarter of the EE's cycles, each step's rounded down.
QuarterRounded == count - 4 * (iop_pc - Boot) \in 0 .. 3 * steps

\* Whatever the EE does in its slice (syncs, stops with cycles left) and whatever the
\* draws at the end of a step give, the IOP has taken a quarter of the cycles the EE was
\* given, as cycles_get_affinity_desc says, each step's rounded down; and an EE that runs
\* carries no cycles over, so that then the quarter is exact.
IopQuarter ==
  running = "none" /\ todo = <<>> /\ ~ended =>
    /\ QuarterRounded
    /\ ~isinint => ee_cycles = 0 /\ count = Slice * steps /\ 4 * (iop_pc - Boot) = count

\* A taken branch is followed by the word after it, once, and then by its target: also
\* when a slice ends between the two, the slot is stepped over as tlbwi is, or an
\* unknown instruction stops the EE in it.  (Branches in slots and jumps, which this EE
\* takes at once, are left out.)
BranchDelay ==
  [][running = "ee" /\ ee_cycles' < ee_cycles /\ Read(pc).op \notin {"jr", "jalr"}
       /\ (next_pc # After(pc) => Read(pc).op # "bne") =>
       /\ pc' = next_pc
       /\ next_pc' = IF Read(pc).op = "bne" /\ reg # 0 THEN Target(Read(pc)) ELSE After(next_pc)]_vars

\* A step of the schedule ends, also when the EE stops with cycles left.
StepEnds == (running # "none" \/ todo # <<>>) ~> (ended \/ (running = "none" /\ todo = <<>>))
=============================================================================
