------------------------------- MODULE NextPS -------------------------------
(***************************************************************************)
(* The processor of src/src/nextps: cpu_run fetches through the           *)
(* instruction cache and executes one instruction, with the delay slots of *)
(* branches and of loads.                                                  *)
(*                                                                         *)
(* Addresses count words, and the BIOS begins at Bios, a multiple of the   *)
(* line size.  Instructions are records: "add" stands for the instructions *)
(* that compute a register (op_lui, op_ori, op_addiu, op_addi, op_sltu),   *)
(* modulo Modulus; "lw" and "sw" reach one word of RAM, and with the cache *)
(* isolated "sw" clears a cache line, or what lies behind the cache; "mtc" *)
(* sets or clears the isolate bit of the status register; "halt" is the    *)
(* store halfword that sets maskint.                                       *)
(***************************************************************************)
EXTENDS Integers

CONSTANTS
  Programs,   \* the contents the BIOS may have, from Bios on
  Bios,       \* the address of its first word
  LineWords,  \* the words in a cache line (4 in the code)
  Lines,      \* the number of cache lines (256 in the code)
  Behind,     \* the lines that would fit into cop0's registers behind them (13)
  Reach,      \* how many words forward or back a branch goes (2^13)
  Regs,       \* the registers, 0 among them
  Modulus,    \* 2^32 in the code
  RamWord,    \* what the RAM holds at first
  Nothing,    \* no load
  End         \* bound: only addresses from Bios to before End are executed

Values == 0 .. Modulus - 1

Instructions ==
  [op : {"nop", "halt"}] \cup [op : {"mtc"}, isolate : BOOLEAN]
  \cup [op : {"j"}, target : Nat] \cup [op : {"bne"}, reg : Regs, other : Regs, offset : Int]
  \cup [op : {"add"}, reg : Regs, imm : Int]
  \cup [op : {"lw"}, reg : Regs] \cup [op : {"sw"}, reg : Regs, line : 0 .. Lines + Behind - 1]

ASSUME SizeAssumption ==
  /\ {LineWords, Lines, Reach} \subseteq Nat \ {0} /\ Behind \in Nat
  /\ Bios \in Nat \ {0} /\ Modulus \in Nat \ {0, 1}
  /\ End \in Nat /\ Bios % LineWords = 0 /\ 0 \in Regs /\ Regs \subseteq Nat

ASSUME ProgramAssumption ==
  /\ \A p \in Programs : \A a \in DOMAIN p : p[a] \in Instructions
  /\ RamWord \in Values /\ Nothing \notin [reg : Regs, value : Values]

VARIABLES
  rom,         \* the BIOS
  pc,          \* the address of the next instruction, or of the one after the slot
  delay_slot,  \* the address of the branch delay slot to execute first, 0 for none
  regs,        \* the registers
  load_slot,   \* the load to come: register, value and timer
  lines,       \* the instruction cache
  isolated,    \* the isolate bit of cop0's status register
  maskint,     \* whether the core has stopped
  ram,         \* the word of RAM
  filled       \* the word index from which each line was filled last

vars == <<rom, pc, delay_slot, regs, load_slot, lines, isolated, maskint, ram, filled>>

Nop == [op |-> "nop"]
NoLoad == [reg |-> 0, value |-> 0, timer |-> 0]

\* bus_read of the BIOS; other addresses read as 0, which is a nop.
Word(a) == IF a \in DOMAIN rom THEN rom[a] ELSE Nop

\* cpu_reset, cop0_reset and cache_reset
Init ==
  /\ rom \in Programs
  /\ pc = Bios /\ delay_slot = 0
  /\ regs = [r \in Regs |-> IF r = 0 THEN 0 ELSE 1]
  /\ load_slot = NoLoad /\ isolated = FALSE /\ maskint = FALSE
  /\ lines = [l \in 0 .. Lines - 1 |->
               [valid |-> FALSE, tag |-> 0, inst |-> [w \in 0 .. LineWords - 1 |-> Nop]]]
  /\ ram = RamWord /\ filled = [l \in 0 .. Lines - 1 |-> 0]

----------------------------------------------------------------------------
(* The instruction cache *)

LineOf(a) == (a \div LineWords) % Lines
TagOf(a) == a \div (LineWords * Lines)
WordOf(a) == a % LineWords

CacheHit(a) == lines[LineOf(a)].valid /\ lines[LineOf(a)].tag = TagOf(a)

\* cache_set: the words from the one fetched on; those before it stay as they were.
Refilled(a) ==
  [lines EXCEPT ![LineOf(a)] =
    [valid |-> TRUE, tag |-> TagOf(a),
     inst |-> [w \in 0 .. LineWords - 1 |->
                IF w < WordOf(a) THEN @.inst[w] ELSE Word(a - WordOf(a) + w)]]]

\* cpu_fetch at address a
Fetched(a) == IF CacheHit(a) THEN lines[LineOf(a)].inst[WordOf(a)] ELSE Word(a)
CacheAfter(a) == IF CacheHit(a) THEN lines ELSE Refilled(a)
FilledAfter(a) == IF CacheHit(a) THEN filled ELSE [filled EXCEPT ![LineOf(a)] = WordOf(a)]

----------------------------------------------------------------------------
(* cpu_run *)

\* cpu_getpc: the slot of a taken branch first.
FetchPc == IF delay_slot # 0 THEN delay_slot ELSE pc
PcAfterFetch == IF delay_slot # 0 THEN pc ELSE pc + 1

\* The load slot before the instruction executes: a load whose timer has run out is
\* written back, if it is one of a non-zero value to a register other than 0.
Due == load_slot.timer = 0 /\ load_slot.reg # 0 /\ load_slot.value # 0
Ready == IF Due THEN [regs EXCEPT ![load_slot.reg] = load_slot.value] ELSE regs
SlotAfter ==
  IF Due THEN NoLoad
  ELSE [load_slot EXCEPT !.timer = IF @ > 0 THEN @ - 1 ELSE 0]

Written(r, v) == IF r = 0 THEN Ready ELSE [Ready EXCEPT ![r] = v]

\* What every instruction does: fetch it, and let the load before the last one land.
Cycle(i) ==
  /\ ~maskint /\ FetchPc \in Bios .. End - 1
  /\ i = Fetched(FetchPc)
  /\ filled' = FilledAfter(FetchPc)
  /\ UNCHANGED rom

\* cpu_setbranch
Branch(target) == delay_slot' = PcAfterFetch /\ pc' = target
Proceed == delay_slot' = 0 /\ pc' = PcAfterFetch

\* Mutant: the target comes at once.
JumpAtOnce(i) ==
  /\ Cycle(i) /\ i.op = "j"
  /\ delay_slot' = 0 /\ pc' = i.target
  /\ regs' = Ready /\ load_slot' = SlotAfter /\ lines' = CacheAfter(FetchPc)
  /\ UNCHANGED <<isolated, maskint, ram>>

Jump(i) ==
  /\ Cycle(i) /\ i.op = "j"
  /\ Branch(i.target)
  /\ regs' = Ready /\ load_slot' = SlotAfter /\ lines' = CacheAfter(FetchPc)
  /\ UNCHANGED <<isolated, maskint, ram>>

\* op_bne casts the offset, in bytes, to 16 bits.
Cast(offset) == ((offset + Reach) % (2 * Reach)) - Reach

\* op_bne counts from cpu->pc: in the slot of a taken branch, from that one's target.
BranchNotEqual(i) ==
  /\ Cycle(i) /\ i.op = "bne"
  /\ \/ Ready[i.reg] # Ready[i.other] /\ Branch(PcAfterFetch + Cast(i.offset))
     \/ Ready[i.reg] = Ready[i.other] /\ Proceed
  /\ regs' = Ready /\ load_slot' = SlotAfter /\ lines' = CacheAfter(FetchPc)
  /\ UNCHANGED <<isolated, maskint, ram>>

Compute(i) ==
  /\ Cycle(i) /\ i.op = "add"
  /\ regs' = Written(i.reg, (Ready[i.reg] + i.imm) % Modulus)
  /\ Proceed /\ load_slot' = SlotAfter /\ lines' = CacheAfter(FetchPc)
  /\ UNCHANGED <<isolated, maskint, ram>>

\* op_lw does nothing with the cache isolated.
LoadWord(i) ==
  /\ Cycle(i) /\ i.op = "lw"
  /\ load_slot' = IF isolated THEN SlotAfter
                  ELSE [reg |-> i.reg, value |-> ram, timer |-> SlotAfter.timer + 1]
  /\ Proceed /\ regs' = Ready /\ lines' = CacheAfter(FetchPc)
  /\ UNCHANGED <<isolated, maskint, ram>>

\* Mutant: a line that is written over while isolated stays valid.
StoreWordKeepsLine(i) ==
  /\ Cycle(i) /\ i.op = "sw"
  /\ IF isolated
     THEN /\ lines' = [CacheAfter(FetchPc) EXCEPT ![i.line].inst = [w \in DOMAIN @ |-> Nop]]
          /\ UNCHANGED ram
     ELSE ram' = Ready[i.reg] /\ lines' = CacheAfter(FetchPc)
  /\ Proceed /\ regs' = Ready /\ load_slot' = SlotAfter
  /\ UNCHANGED <<isolated, maskint>>

\* op_sw: with the cache isolated, cache_set2 fills a line with the value, for which
\* the nops stand, and clears its tag.  It masks no address: from the end of the cache on
\* it writes over cop0's registers, the status register among them.
StoreWord(i) ==
  /\ Cycle(i) /\ i.op = "sw"
  /\ \/ /\ isolated /\ i.line < Lines
        /\ lines' = [CacheAfter(FetchPc) EXCEPT
                      ![i.line] = [valid |-> FALSE, tag |-> 0, inst |-> [w \in DOMAIN @.inst |-> Nop]]]
        /\ UNCHANGED <<isolated, ram>>
     \/ /\ isolated /\ i.line >= Lines
        /\ isolated' \in BOOLEAN
        /\ lines' = CacheAfter(FetchPc)
        /\ UNCHANGED ram
     \/ /\ ~isolated
        /\ ram' = Ready[i.reg]
        /\ lines' = CacheAfter(FetchPc)
        /\ UNCHANGED isolated
  /\ Proceed /\ regs' = Ready /\ load_slot' = SlotAfter
  /\ UNCHANGED maskint

MoveToCop0(i) ==
  /\ Cycle(i) /\ i.op = "mtc"
  /\ isolated' = i.isolate
  /\ Proceed /\ regs' = Ready /\ load_slot' = SlotAfter /\ lines' = CacheAfter(FetchPc)
  /\ UNCHANGED <<maskint, ram>>

Idle(i) ==
  /\ Cycle(i) /\ i.op = "nop"
  /\ Proceed /\ regs' = Ready /\ load_slot' = SlotAfter /\ lines' = CacheAfter(FetchPc)
  /\ UNCHANGED <<isolated, maskint, ram>>

\* The store halfword: cpu_run returns before the load slot moves on.
Halt(i) ==
  /\ Cycle(i) /\ i.op = "halt"
  /\ maskint' = TRUE
  /\ Proceed /\ lines' = CacheAfter(FetchPc)
  /\ UNCHANGED <<regs, load_slot, isolated, ram>>

Execute(i) ==
  \/ Jump(i) \/ BranchNotEqual(i) \/ Compute(i) \/ LoadWord(i)
  \/ StoreWord(i) \/ MoveToCop0(i) \/ Idle(i) \/ Halt(i)

\* nextps_stepframe runs the core until maskint is set.
Next == Execute(Fetched(FetchPc))

Spec == Init /\ [][Next]_vars

----------------------------------------------------------------------------
(* Properties *)

TypeOK ==
  /\ pc \in Int /\ delay_slot \in Int
  /\ regs \in [Regs -> Values] /\ regs[0] = 0
  /\ load_slot.reg \in Regs /\ load_slot.timer \in {0, 1}
  /\ isolated \in BOOLEAN /\ maskint \in BOOLEAN
  /\ DOMAIN lines = 0 .. Lines - 1 /\ \A l \in DOMAIN lines : filled[l] \in 0 .. LineWords - 1

\* Every variable has its type, register 0 is never written, and whatever the order in
\* which a program enters and leaves its lines, a valid line holds the memory's words from
\* the word on at which it was last entered.
LineHoldsMemory ==
  /\ TypeOK
  /\ \A l \in DOMAIN lines, w \in 0 .. LineWords - 1 :
       lines[l].valid /\ w >= filled[l] =>
         lines[l].inst[w] = Word((lines[l].tag * Lines + l) * LineWords + w)

\* The next instruction does not lie before the word at which its line was entered,
\* and is not a bne in the slot of a taken branch, of which the R3000 leaves the target
\* open; a bne's offset survives the cast to 16 bits; an isolated store does not go
\* behind the cache; and what follows the instruction is not at 0, which marks no slot.
WellPlaced ==
  LET i == Fetched(FetchPc)
  IN  /\ CacheHit(FetchPc) => WordOf(FetchPc) >= filled[LineOf(FetchPc)]
      /\ i.op = "bne" => delay_slot = 0 /\ i.offset \in -Reach .. Reach - 1
      /\ i.op = "sw" /\ isolated => i.line < Lines
      /\ PcAfterFetch # 0

\* The load slot keeps its load, and an R3000 would: its value is not 0, and the
\* instruction after it neither is another load nor writes the register it loads.
LoadLands ==
  LET i == Fetched(FetchPc)
  IN  load_slot.timer > 0 =>
        load_slot.value # 0 /\ i.op # "lw" /\ (i.op = "add" => i.reg # load_slot.reg)

\* The core of which this one is an emulator: the branch delay slot is the next
\* address, and a load whose timer has run out is in its register already.
Core == INSTANCE R3000 WITH
          pc <- FetchPc, npc <- PcAfterFetch, regs <- Ready,
          load <- IF load_slot.timer > 0 THEN [reg |-> load_slot.reg, value |-> load_slot.value]
                  ELSE Nothing

\* Every step is a step of an R3000: words come from the memory, though a line in the
\* cache, the instruction after a taken branch runs once and before the target, also
\* when it is a jump itself, and a load lands after one instruction.
RunsAsR3000 == [][WellPlaced /\ LoadLands => Core!Next]_vars
=============================================================================
