------------------------------- MODULE Pc8086 -------------------------------
(***************************************************************************)
(* The PC of src/src/redos: dospc_reset loads a boot sector and            *)
(* dospc_continue interprets it, up to an instruction pc8086_run does not  *)
(* know.                                                                   *)
(*                                                                         *)
(* A cell of memory is a byte: the first one of an instruction is the      *)
(* instruction, a record, and each of the others an operand of it; any     *)
(* other byte, and an operand that is executed, is an instruction not      *)
(* known.  Left out are registers above those of regs86 where that array   *)
(* is indexed, and programs that reach past the end of the memory.  Of the *)
(* flags only that of the direction is ever read, which no instruction can *)
(* set: cld, like cli, ors a zero in, and rep always copies upwards.       *)
(***************************************************************************)
EXTENDS Integers, Bitwise

CONSTANTS
  Sectors,    \* the boot sectors: functions from 0 .. n to cells
  Forms,      \* the instructions a byte may turn out to be with other operands
  Boot,       \* where the sector is loaded (0x7C00)
  Paragraph,  \* the bytes a segment counts (16), a power of two
  Wide        \* the values of a register (2^16)

VARIABLES
  memory,  \* pc_memory
  segs,    \* es, cs, ss and ds
  ip,
  regs,    \* the registers, by name
  int_,    \* an instruction was not known
  ended    \* the process has quit

vars == <<memory, segs, ip, regs, int_, ended>>

Other == [op |-> "other"]
Operand(i, k) == [op |-> "operand", of |-> i, k |-> k]

Length(i) ==
  CASE i.op \in {"cli", "cld"} -> 1
    [] i.op \in {"jmp", "xor", "movseg", "mov16", "rep"} -> 2
    [] i.op \in {"movimm", "store"} -> 3
    [] i.op = "jmpfar" -> 5
    [] OTHER -> 1

\* The two orders of the registers: of pc_cpu_getreg, and of the array regs86.
GetReg(id) == <<"ax", "cx", "dx", "bx", "sp", "bp", "si", "di">>[id + 1]
Regs86(id) == <<"ax", "bx", "cx", "dx">>[id + 1]

\* dospc_create, dospc_reset and pc8086_reset
Init ==
  /\ \E s \in Sectors :
       memory = [a \in 0 .. Wide * Paragraph - 1 |->
                  IF a - Boot \in DOMAIN s THEN s[a - Boot] ELSE Other]
  /\ segs = [s \in {"es", "cs", "ss", "ds"} |-> 0] /\ ip = Boot
  /\ regs = [r \in {"ax", "bx", "cx", "dx", "sp", "bp", "si", "di"} |-> 0]
  /\ int_ = FALSE /\ ended = FALSE

----------------------------------------------------------------------------
(* Fetching *)

\* Mutant: the segment is not shifted.
JoinedUnshifted(k) == segs.cs | (ip + k)

\* m[cs << 4 | ip + k]: segment and offset are joined bit by bit.
Joined(k) == (segs.cs * Paragraph) | (ip + k)

\* The addresses the k-th operand byte is read from: jmp, alone, adds.
PlaceOf(i, k) ==
  IF i.op = "jmp" THEN segs.cs * Paragraph + ip + 1
  ELSE IF k >= 3 THEN Joined(3) + k - 3
  ELSE Joined(1) + k - 1

\* The instruction as its operands make it: those of its own, if that is what is read.
Decoded ==
  LET i == memory[Joined(0)]
  IN  IF \A k \in 1 .. Length(i) - 1 : memory[PlaceOf(i, k)] = Operand(i, k)
        THEN {i} ELSE { j \in Forms : j.op = i.op }

Step(i) == ~int_ /\ ~ended /\ i \in Decoded
Advance(n) == ip' = (ip + n) % Wide

----------------------------------------------------------------------------
(* Instructions *)

\* jmp
Jump(i) ==
  /\ Step(i) /\ i.op = "jmp"
  /\ Advance(2 + i.rel)
  /\ UNCHANGED <<memory, segs, regs, int_, ended>>

\* cli and cld
ClearFlag(i) ==
  /\ Step(i) /\ i.op \in {"cli", "cld"}
  /\ Advance(1)
  /\ UNCHANGED <<memory, segs, regs, int_, ended>>

\* xor, which quits on its memory form
ExclusiveOr(i) ==
  /\ Step(i) /\ i.op = "xor"
  /\ IF i.mem
       THEN ended' = TRUE /\ UNCHANGED <<ip, regs>>
       ELSE /\ regs' = [regs EXCEPT ![Regs86(i.rm)] = @ ^^ regs[Regs86(i.reg)]]
            /\ Advance(2) /\ UNCHANGED ended
  /\ UNCHANGED <<memory, segs, int_>>

\* mov, to a segment register: on its memory form it returns and is fetched again.
MoveToSegment(i) ==
  /\ Step(i) /\ i.op = "movseg"
  /\ IF i.mem THEN UNCHANGED <<segs, ip>>
     ELSE segs' = [segs EXCEPT ![i.seg] = regs[Regs86(i.rm)]] /\ Advance(2)
  /\ UNCHANGED <<memory, regs, int_, ended>>

\* mov16 between registers
Move(i) ==
  /\ Step(i) /\ i.op = "mov16"
  /\ regs' = [regs EXCEPT ![GetReg(i.reg)] = regs[GetReg(i.rm)]]
  /\ Advance(2)
  /\ UNCHANGED <<memory, segs, int_, ended>>

\* mov16 to memory: a byte, at the address the two operand bytes spell.
Store(i) ==
  /\ Step(i) /\ i.op = "store"
  /\ memory' = [memory EXCEPT ![i.addr] = Other]
  /\ Advance(3)
  /\ UNCHANGED <<segs, regs, int_, ended>>

\* movimm
MoveImmediate(i) ==
  /\ Step(i) /\ i.op = "movimm"
  /\ regs' = [regs EXCEPT ![GetReg(i.reg)] = i.imm]
  /\ Advance(3)
  /\ UNCHANGED <<memory, segs, int_, ended>>

\* func - 0xA4 + 1, of movsw
Size == 2

\* movbytes n times over: from ds:si to es:di, each byte read after the writes before it.
Copied(n) ==
  LET Place(s, r, b) == segs[s] * Paragraph + ((regs[r] + b - (b % Size)) % Wide) + (b % Size)
      m[b \in 0 .. Size * n] ==
        IF b = 0 THEN memory
        ELSE LET before == m[b - 1]
             IN  [before EXCEPT ![Place("es", "di", b - 1)] = before[Place("ds", "si", b - 1)]]
  IN  m[Size * n]

\* rep: the count runs out, whether or not the instruction repeated is movsw.
Repeat(i) ==
  /\ Step(i) /\ i.op = "rep"
  /\ IF i.movs
       THEN /\ memory' = Copied(regs["cx"])
            /\ regs' = [regs EXCEPT !["cx"] = 0, !["si"] = (@ + Size * regs["cx"]) % Wide,
                                    !["di"] = (@ + Size * regs["cx"]) % Wide]
       ELSE regs' = [regs EXCEPT !["cx"] = 0] /\ UNCHANGED memory
  /\ Advance(2)
  /\ UNCHANGED <<segs, int_, ended>>

\* jmpfar
JumpFar(i) ==
  /\ Step(i) /\ i.op = "jmpfar"
  /\ ip' = i.ip /\ segs' = [segs EXCEPT !["cs"] = i.cs]
  /\ UNCHANGED <<memory, regs, int_, ended>>

\* The default of pc8086_run
Unknown(i) ==
  /\ Step(i) /\ i.op \in {"other", "operand"}
  /\ int_' = TRUE
  /\ UNCHANGED <<memory, segs, ip, regs, ended>>

\* pc8086_run
Execute(i) ==
  \/ Jump(i) \/ ClearFlag(i) \/ ExclusiveOr(i) \/ MoveToSegment(i) \/ Move(i) \/ Store(i)
  \/ MoveImmediate(i) \/ Repeat(i) \/ JumpFar(i) \/ Unknown(i)

\* dospc_continue
Next == \E i \in Decoded : Execute(i)

Spec == Init /\ [][Next]_vars

----------------------------------------------------------------------------
(* Properties *)

\* The segment shares no bit with the offsets of an instruction at ip, which does not
\* wrap round: joining them is adding them.
Apart(i) ==
  /\ ip + Length(i) <= Wide
  /\ \A k \in 0 .. Length(i) - 1 : (segs.cs * Paragraph) & (ip + k) = 0

\* The instruction is known and means the same here and on an 8086: not the memory forms, a
\* register that both orders call the same where regs86 is used, no move from register to
\* register other than to itself (0x89 is taken the wrong way round), of rep only movsw,
\* and not to the byte after its source, which an 8086 reads before it writes, nor past
\* the end of a segment.
SameMeaning(i) ==
  CASE i.op = "xor" -> ~i.mem /\ i.rm = 0 /\ i.reg = 0
    [] i.op = "movseg" -> ~i.mem /\ i.rm = 0
    [] i.op = "mov16" -> i.reg = i.rm
    [] i.op = "rep" -> /\ i.movs
                       /\ segs.es * Paragraph + regs["di"] # segs.ds * Paragraph + regs["si"] + 1
                       /\ \A r \in {"si", "di"} : regs[r] + 2 * regs["cx"] <= Wide
    [] OTHER -> i.op \notin {"store", "other", "operand"}

Core == INSTANCE I8086

\* Where the segment and the offset share no bit, every step on an instruction that has
\* not been overwritten in part is a step of an 8086: the
\* instruction is the one at the physical address with the operands that follow it, also
\* in a copy the program has made of itself and jumped to, and a repeated move takes
\* whole words, counts down and leaves si and di behind the last.
RunsAs8086 ==
  [][\A i \in {memory[Core!Physical("cs", ip)]} :
       SameMeaning(i) /\ Apart(i) /\ Core!Intact(i) => Core!Next]_vars
=============================================================================
