--------------------------- MODULE ProcessorProofs ---------------------------
(***************************************************************************)
(* For every size of the cache and every program a valid line of nextps'   *)
(* instruction cache holds the memory's words, and every step is one of an *)
(* R3000.  What the recompiler holds can be reached, for any number of     *)
(* cores and blocks; and the linked list, which its cores are kept in, is  *)
(* a sequence of any items, of any length.                                 *)
(***************************************************************************)
EXTENDS NextPS, List, Recompiler, NumberFacts, SequenceTheorems, FiniteSetTheorems, SequencesExt

----------------------------------------------------------------------------
(* Arithmetic *)

\* An address is its tag, its line and its word, as cache_hit and cache_set take it apart.
LEMMA AddressSplits ==
  ASSUME NEW a \in Nat
  PROVE  /\ WordOf(a) \in 0 .. LineWords - 1
         /\ LineOf(a) \in 0 .. Lines - 1
         /\ TagOf(a) \in Nat
         /\ (TagOf(a) * Lines + LineOf(a)) * LineWords + WordOf(a) = a
<1> DEFINE q == a \div LineWords
           w == a % LineWords
           t == q \div Lines
           l == q % Lines
           n == LineWords * Lines
           r == l * LineWords + w
<1>1. LineWords \in Nat \ {0} /\ Lines \in Nat \ {0}
  BY SizeAssumption
<1>2. q \in Nat /\ w \in 0 .. LineWords - 1 /\ a = q * LineWords + w
  BY <1>1, Division
<1>3. t \in Nat /\ l \in 0 .. Lines - 1 /\ q = t * Lines + l
  BY <1>1, <1>2, Division
<1>4. LineOf(a) = l /\ WordOf(a) = w
  BY DEF LineOf, WordOf
<1>5. a = (t * Lines + l) * LineWords + w
  BY <1>2, <1>3
<1> HIDE DEF q, w, t, l
<1>6. n \in Nat \ {0} /\ r \in 0 .. n - 1
  <2>1. l * LineWords \in Nat /\ (l + 1) * LineWords <= Lines * LineWords
    BY <1>1, <1>3, Products
  <2>2. (l + 1) * LineWords = l * LineWords + LineWords
    BY <1>1, <1>3
  <2>3. Lines * LineWords = LineWords * Lines
    BY <1>1
  <2> QED BY <1>1, <1>2, <2>1, <2>2, <2>3
<1>7. a = t * n + r
  BY <1>1, <1>2, <1>3, <1>5
<1>8. TagOf(a) = t
  <2>1. (t * n + r) \div n = t
    BY <1>3, <1>6, QuotientIsUnique
  <2>2. TagOf(a) = a \div n
    BY DEF TagOf
  <2> HIDE DEF n, r
  <2> QED BY <1>7, <2>1, <2>2
<1> QED BY <1>2, <1>3, <1>4, <1>5, <1>8

----------------------------------------------------------------------------
(* The invariant *)

CacheLine == [valid : BOOLEAN, tag : Nat, inst : [0 .. LineWords - 1 -> Instructions]]
LoadSlot == [reg : Regs, value : Values, timer : {0, 1}]

\* What the proof needs of the variables' types beyond TypeOK.
TypeInv ==
  /\ rom \in Programs
  /\ load_slot \in LoadSlot
  /\ lines \in [0 .. Lines - 1 -> CacheLine]
  /\ filled \in [0 .. Lines - 1 -> 0 .. LineWords - 1]
  /\ ram \in Values

IInv == TypeInv /\ LineHoldsMemory

\* The second half of LineHoldsMemory, of any cache.
HoldsMemory(cache, from) ==
  \A l \in 0 .. Lines - 1, w \in 0 .. LineWords - 1 :
    cache[l].valid /\ w >= from[l] =>
      cache[l].inst[w] = Word((cache[l].tag * Lines + l) * LineWords + w)

\* The word at an address, and the one fetched from it, are instructions.
LEMMA FetchedIsAnInstruction ==
  ASSUME IInv
  PROVE  /\ \A a : Word(a) \in Instructions
         /\ \A a \in Nat : Fetched(a) \in Instructions
<1>1. \A a : Word(a) \in Instructions
  <2>1. Nop \in Instructions
    BY DEF Nop, Instructions
  <2> QED BY <2>1, ProgramAssumption DEF Word, IInv, TypeInv
<1>2. \A a \in Nat : Fetched(a) \in Instructions
  BY <1>1, AddressSplits DEF Fetched, IInv, TypeInv, CacheLine
<1> QED BY <1>1, <1>2

\* A fetch leaves a cache that holds the memory's words.
LEMMA FetchKeepsCache ==
  ASSUME IInv, NEW a \in Nat
  PROVE  /\ CacheAfter(a) \in [0 .. Lines - 1 -> CacheLine]
         /\ FilledAfter(a) \in [0 .. Lines - 1 -> 0 .. LineWords - 1]
         /\ HoldsMemory(CacheAfter(a), FilledAfter(a))
<1>1. /\ lines \in [0 .. Lines - 1 -> CacheLine]
      /\ filled \in [0 .. Lines - 1 -> 0 .. LineWords - 1]
      /\ HoldsMemory(lines, filled)
  BY DEF IInv, TypeInv, LineHoldsMemory, HoldsMemory
<1>2. CASE CacheHit(a)
  BY <1>1, <1>2 DEF CacheAfter, FilledAfter
<1>3. CASE ~CacheHit(a)
  <2> DEFINE line == LineOf(a)
             inst == [w \in 0 .. LineWords - 1 |->
                        IF w < WordOf(a) THEN lines[line].inst[w] ELSE Word(a - WordOf(a) + w)]
             new == [valid |-> TRUE, tag |-> TagOf(a), inst |-> inst]
  <2>1. /\ line \in 0 .. Lines - 1 /\ TagOf(a) \in Nat /\ WordOf(a) \in 0 .. LineWords - 1
        /\ (TagOf(a) * Lines + line) * LineWords + WordOf(a) = a
    BY AddressSplits
  <2>2. CacheAfter(a) = [lines EXCEPT ![line] = new]
    BY <1>3 DEF CacheAfter, Refilled
  <2>3. FilledAfter(a) = [filled EXCEPT ![line] = WordOf(a)]
    BY <1>3 DEF FilledAfter
  <2>4. lines[line].inst \in [0 .. LineWords - 1 -> Instructions]
    BY <1>1, <2>1 DEF CacheLine
  <2>5. inst \in [0 .. LineWords - 1 -> Instructions]
    BY <2>4, FetchedIsAnInstruction
  <2>6. new \in CacheLine
    BY <2>1, <2>5 DEF CacheLine
  <2>7. ASSUME NEW w \in 0 .. LineWords - 1, w >= WordOf(a)
        PROVE  inst[w] = Word((TagOf(a) * Lines + line) * LineWords + w)
    <3>1. LineWords \in Nat /\ Lines \in Nat
      BY SizeAssumption
    <3>2. (TagOf(a) * Lines + line) * LineWords \in Nat
      BY <2>1, <3>1, Products
    <3>3. (TagOf(a) * Lines + line) * LineWords + w = a - WordOf(a) + w
      BY <2>1, <3>1, <3>2
    <3>4. inst[w] = Word(a - WordOf(a) + w)
      BY <2>1, <2>7
    <3> QED BY <3>3, <3>4
  <2>8. \A w \in 0 .. LineWords - 1 : w >= WordOf(a) =>
          new.inst[w] = Word((new.tag * Lines + line) * LineWords + w)
    BY <2>7
  <2> HIDE DEF new, inst, line
  <2>9. HoldsMemory(CacheAfter(a), FilledAfter(a))
    <3> SUFFICES ASSUME NEW l \in 0 .. Lines - 1, NEW w \in 0 .. LineWords - 1,
                        CacheAfter(a)[l].valid, w >= FilledAfter(a)[l]
                 PROVE  CacheAfter(a)[l].inst[w] =
                          Word((CacheAfter(a)[l].tag * Lines + l) * LineWords + w)
      BY DEF HoldsMemory
    <3>1. CASE l = line
      <4>1. CacheAfter(a)[l] = new /\ FilledAfter(a)[l] = WordOf(a)
        BY <1>1, <2>1, <2>2, <2>3, <3>1
      <4> QED BY <2>8, <3>1, <4>1
    <3>2. CASE l # line
      <4>1. CacheAfter(a)[l] = lines[l] /\ FilledAfter(a)[l] = filled[l]
        BY <1>1, <2>1, <2>2, <2>3, <3>2
      <4> QED BY <1>1, <4>1 DEF HoldsMemory
    <3> QED BY <3>1, <3>2
  <2> QED BY <1>1, <2>1, <2>2, <2>3, <2>6, <2>9
<1> QED BY <1>2, <1>3

\* The registers after a load that is due, and the load slot one cycle later.
LEMMA ReadyRegisters ==
  ASSUME IInv
  PROVE  /\ Ready \in [Regs -> Values] /\ Ready[0] = 0
         /\ SlotAfter \in LoadSlot /\ SlotAfter.timer = 0
<1>1. /\ regs \in [Regs -> Values] /\ regs[0] = 0 /\ 0 \in Regs
      /\ load_slot \in LoadSlot
  BY SizeAssumption DEF IInv, TypeInv, LineHoldsMemory, TypeOK
<1>2. Ready \in [Regs -> Values] /\ Ready[0] = 0
  BY <1>1 DEF Ready, Due, LoadSlot
<1>3. SlotAfter \in LoadSlot /\ SlotAfter.timer = 0
  <2>1. 0 \in Values
    BY SizeAssumption DEF Values
  <2>2. NoLoad \in LoadSlot /\ NoLoad.timer = 0
    BY <1>1, <2>1 DEF NoLoad, LoadSlot
  <2>3. ASSUME ~Due PROVE SlotAfter \in LoadSlot /\ SlotAfter.timer = 0
    BY <1>1, <2>3 DEF SlotAfter, LoadSlot
  <2> QED BY <2>2, <2>3 DEF SlotAfter
<1> QED BY <1>2, <1>3

\* What the fields of an instruction are.
LEMMA Fields ==
  ASSUME NEW i \in Instructions
  PROVE  /\ i.op \in {"nop", "halt", "mtc", "j", "bne", "add", "lw", "sw"}
         /\ i.op = "j" => i.target \in Nat
         /\ i.op = "bne" => i.reg \in Regs /\ i.other \in Regs /\ i.offset \in Int
         /\ i.op = "add" => i.reg \in Regs /\ i.imm \in Int
         /\ i.op = "lw" => i.reg \in Regs
         /\ i.op = "sw" => i.reg \in Regs /\ i.line \in 0 .. Lines + Behind - 1
         /\ i.op = "mtc" => i.isolate \in BOOLEAN
BY DEF Instructions

\* A cycle fetches an instruction from an address of the memory.
LEMMA CycleFetches ==
  ASSUME IInv, NEW i, Cycle(i)
  PROVE  /\ FetchPc \in Nat /\ FetchPc \in Int /\ PcAfterFetch \in Int
         /\ i = Fetched(FetchPc) /\ i \in Instructions
<1>1. FetchPc \in Nat
  BY SizeAssumption DEF Cycle
<1>2. PcAfterFetch \in Int
  BY DEF PcAfterFetch, IInv, LineHoldsMemory, TypeOK
<1> QED BY <1>1, <1>2, FetchedIsAnInstruction DEF Cycle

Cleared(line) == [valid |-> FALSE, tag |-> 0, inst |-> [w \in DOMAIN line.inst |-> Nop]]

\* What a cycle does with the cache keeps it: the fetch, and a line cleared by a store
\* with the cache isolated.
LEMMA CycleKeepsCache ==
  ASSUME IInv, NEW i, Cycle(i),
         \/ lines' = CacheAfter(FetchPc)
         \/ \E k \in 0 .. Lines - 1 :
              lines' = [CacheAfter(FetchPc) EXCEPT ![k] = Cleared(CacheAfter(FetchPc)[k])]
  PROVE  /\ lines' \in [0 .. Lines - 1 -> CacheLine]
         /\ filled' \in [0 .. Lines - 1 -> 0 .. LineWords - 1]
         /\ HoldsMemory(lines', filled')
<1> DEFINE cache == CacheAfter(FetchPc)
<1>1. /\ cache \in [0 .. Lines - 1 -> CacheLine]
      /\ filled' \in [0 .. Lines - 1 -> 0 .. LineWords - 1]
      /\ HoldsMemory(cache, filled')
  BY CycleFetches, FetchKeepsCache DEF Cycle
<1> HIDE DEF cache
<1>2. CASE lines' = cache
  BY <1>1, <1>2
<1>3. ASSUME NEW k \in 0 .. Lines - 1, lines' = [cache EXCEPT ![k] = Cleared(cache[k])]
      PROVE  lines' \in [0 .. Lines - 1 -> CacheLine] /\ HoldsMemory(lines', filled')
  <2>1. Nop \in Instructions
    BY DEF Nop, Instructions
  <2>2. cache[k].inst \in [0 .. LineWords - 1 -> Instructions]
    BY <1>1 DEF CacheLine
  <2>3. Cleared(cache[k]) \in CacheLine /\ Cleared(cache[k]).valid = FALSE
    BY <2>1, <2>2 DEF Cleared, CacheLine
  <2>4. lines' \in [0 .. Lines - 1 -> CacheLine]
    BY <1>1, <1>3, <2>3
  <2>5. ASSUME NEW l \in 0 .. Lines - 1, lines'[l].valid
        PROVE  lines'[l] = cache[l]
    BY <1>1, <1>3, <2>3, <2>5
  <2> QED BY <1>1, <2>4, <2>5 DEF HoldsMemory
<1> QED BY <1>1, <1>2, <1>3 DEF cache

\* A step keeps the types of everything but the cache.
LEMMA StepKeepsTypes ==
  ASSUME IInv, Next
  PROVE  /\ rom' \in Programs /\ pc' \in Int /\ delay_slot' \in Int
         /\ regs' \in [Regs -> Values] /\ regs'[0] = 0
         /\ load_slot' \in LoadSlot /\ ram' \in Values
         /\ isolated' \in BOOLEAN /\ maskint' \in BOOLEAN
<1> DEFINE i == Fetched(FetchPc)
<1>1. Cycle(i)
  BY DEF Next, Execute, Jump, BranchNotEqual, Compute, LoadWord, StoreWord, MoveToCop0, Idle, Halt
<1>2. i \in Instructions /\ PcAfterFetch \in Int
  BY <1>1, CycleFetches
<1>3. /\ Ready \in [Regs -> Values] /\ Ready[0] = 0
      /\ SlotAfter \in LoadSlot /\ SlotAfter.timer = 0
  BY ReadyRegisters
<1>4. /\ rom' = rom /\ rom \in Programs /\ ram \in Values
      /\ isolated \in BOOLEAN /\ maskint \in BOOLEAN
      /\ regs \in [Regs -> Values] /\ regs[0] = 0 /\ load_slot \in LoadSlot
  BY <1>1 DEF Cycle, IInv, TypeInv, LineHoldsMemory, TypeOK
<1>5. Execute(i)
  BY DEF Next
<1> HIDE DEF i
<1>6. CASE Jump(i)
  BY <1>2, <1>3, <1>4, <1>6, Fields DEF Jump, Branch
<1>7. CASE BranchNotEqual(i)
  <2>1. Cast(i.offset) \in Int
    <3>1. i.offset \in Int /\ Reach \in Nat \ {0}
      BY <1>2, <1>7, Fields, SizeAssumption DEF BranchNotEqual
    <3>2. \A n \in Int, m \in Nat \ {0} : n % m \in Int
      OBVIOUS
    <3>3. (i.offset + Reach) % (2 * Reach) \in Int
      BY <3>1, <3>2
    <3> QED BY <3>1, <3>3 DEF Cast
  <2>2. pc' \in Int /\ delay_slot' \in Int
    BY <1>2, <1>7, <2>1 DEF BranchNotEqual, Branch, Proceed
  <2> QED BY <1>3, <1>4, <1>7, <2>2 DEF BranchNotEqual
<1>8. CASE Compute(i)
  <2>1. i.reg \in Regs /\ i.imm \in Int
    BY <1>2, <1>8, Fields DEF Compute
  <2>2. (Ready[i.reg] + i.imm) % Modulus \in Values
    <3>1. Ready[i.reg] \in Int /\ Modulus \in Nat \ {0}
      <4>1. Modulus \in Nat \ {0}
        BY SizeAssumption
      <4>2. Ready[i.reg] \in Values
        BY <1>3, <2>1
      <4> QED BY <4>1, <4>2 DEF Values
    <3>2. ASSUME NEW x \in Int PROVE x % Modulus \in 0 .. Modulus - 1
      BY <3>1
    <3>3. Ready[i.reg] + i.imm \in Int
      BY <2>1, <3>1
    <3> QED BY <3>2, <3>3 DEF Values
  <2>3. regs' \in [Regs -> Values] /\ regs'[0] = 0
    BY <1>3, <1>8, <2>1, <2>2 DEF Compute, Written
  <2> QED BY <1>2, <1>3, <1>4, <1>8, <2>3 DEF Compute, Proceed
<1>9. CASE LoadWord(i)
  <2>1. i.reg \in Regs
    BY <1>2, <1>9, Fields DEF LoadWord
  <2>2. load_slot' \in LoadSlot
    BY <1>3, <1>4, <1>9, <2>1 DEF LoadWord, LoadSlot
  <2> QED BY <1>2, <1>3, <1>4, <1>9, <2>2 DEF LoadWord, Proceed
<1>10. CASE StoreWord(i)
  <2>1. ram' \in Values /\ isolated' \in BOOLEAN
    BY <1>2, <1>3, <1>4, <1>10, Fields DEF StoreWord
  <2> QED BY <1>2, <1>3, <1>4, <1>10, <2>1 DEF StoreWord, Proceed
<1>11. CASE MoveToCop0(i)
  <2>1. isolated' \in BOOLEAN
    BY <1>2, <1>11, Fields DEF MoveToCop0
  <2> QED BY <1>2, <1>3, <1>4, <1>11, <2>1 DEF MoveToCop0, Proceed
<1>12. CASE Idle(i)
  BY <1>2, <1>3, <1>4, <1>12 DEF Idle, Proceed
<1>13. CASE Halt(i)
  BY <1>2, <1>3, <1>4, <1>13 DEF Halt, Proceed
<1> QED
  BY <1>5, <1>6, <1>7, <1>8, <1>9, <1>10, <1>11, <1>12, <1>13 DEF Execute

\* A step keeps the cache.
LEMMA StepKeepsCache ==
  ASSUME IInv, Next
  PROVE  /\ lines' \in [0 .. Lines - 1 -> CacheLine]
         /\ filled' \in [0 .. Lines - 1 -> 0 .. LineWords - 1]
         /\ HoldsMemory(lines', filled')
<1> DEFINE i == Fetched(FetchPc)
<1>1. Cycle(i) /\ Execute(i)
  BY DEF Next, Execute, Jump, BranchNotEqual, Compute, LoadWord, StoreWord, MoveToCop0, Idle, Halt
<1>2. i \in Instructions
  BY <1>1, CycleFetches
<1> HIDE DEF i
<1>3. \/ lines' = CacheAfter(FetchPc)
      \/ \E k \in 0 .. Lines - 1 :
           lines' = [CacheAfter(FetchPc) EXCEPT ![k] = Cleared(CacheAfter(FetchPc)[k])]
  <2>1. CASE StoreWord(i)
    <3>1. i.line < Lines => i.line \in 0 .. Lines - 1
      <4>1. i.line \in 0 .. Lines + Behind - 1
        BY <1>2, <2>1, Fields DEF StoreWord
      <4> QED BY <4>1, SizeAssumption
    <3>2. \/ lines' = CacheAfter(FetchPc)
          \/ /\ i.line < Lines
             /\ lines' = [CacheAfter(FetchPc) EXCEPT ![i.line] = Cleared(CacheAfter(FetchPc)[i.line])]
      BY <2>1 DEF StoreWord, Cleared
    <3> QED BY <3>1, <3>2
  <2>2. CASE ~StoreWord(i)
    BY <1>1, <2>2 DEF Execute, Jump, BranchNotEqual, Compute, LoadWord, MoveToCop0, Idle, Halt
  <2> QED BY <2>1, <2>2
<1> QED BY <1>1, <1>3, CycleKeepsCache

\* The invariant holds of the reset processor.
LEMMA InitHolds ==
  ASSUME Init
  PROVE  IInv
<1>1. 0 \in Regs /\ 0 \in Values /\ 1 \in Values /\ Bios \in Nat /\ 0 \in 0 .. LineWords - 1
  BY SizeAssumption DEF Values
<1>2. Nop \in Instructions
  BY DEF Nop, Instructions
<1>3. load_slot \in LoadSlot
  BY <1>1 DEF Init, NoLoad, LoadSlot
<1>4. /\ lines \in [0 .. Lines - 1 -> CacheLine]
      /\ \A l \in 0 .. Lines - 1 : lines[l].valid = FALSE
  BY <1>2 DEF Init, CacheLine
<1>5. filled \in [0 .. Lines - 1 -> 0 .. LineWords - 1]
  BY <1>1 DEF Init
<1>6. regs \in [Regs -> Values] /\ regs[0] = 0
  BY <1>1 DEF Init
<1>7. TypeInv
  BY <1>3, <1>4, <1>5, ProgramAssumption DEF Init, TypeInv
<1>8. TypeOK
  <2>1. pc \in Int /\ delay_slot \in Int /\ isolated \in BOOLEAN /\ maskint \in BOOLEAN
    <3>1. Bios \in Int
      BY <1>1
    <3>2. pc \in Int /\ delay_slot \in Int
      BY <3>1 DEF Init
    <3>3. isolated \in BOOLEAN /\ maskint \in BOOLEAN
      BY DEF Init
    <3> QED BY <3>2, <3>3
  <2>2. load_slot.reg \in Regs /\ load_slot.timer \in {0, 1}
    BY <1>3 DEF LoadSlot
  <2>3. DOMAIN lines = 0 .. Lines - 1 /\ \A l \in DOMAIN lines : filled[l] \in 0 .. LineWords - 1
    BY <1>4, <1>5
  <2> QED BY <1>6, <2>1, <2>2, <2>3 DEF TypeOK
<1>9. LineHoldsMemory
  <2>1. \A l \in DOMAIN lines : lines[l].valid = FALSE
    BY <1>4
  <2> QED BY <1>8, <2>1 DEF LineHoldsMemory
<1> QED BY <1>7, <1>9 DEF IInv

\* Every step keeps the invariant.
LEMMA StepHolds ==
  ASSUME IInv, [Next]_vars
  PROVE  IInv'
<1>1. CASE Next
  <2>1. TypeInv'
    BY <1>1, StepKeepsTypes, StepKeepsCache DEF TypeInv
  <2>2. TypeOK'
    BY <1>1, StepKeepsTypes, StepKeepsCache DEF TypeOK, LoadSlot
  <2>3. rom' = rom
    BY <1>1 DEF Next, Execute, Jump, BranchNotEqual, Compute, LoadWord, StoreWord, MoveToCop0,
                Idle, Halt, Cycle
  <2>4. \A a : Word(a)' = Word(a)
    BY <2>3 DEF Word
  <2>5. LineHoldsMemory'
    <3>1. HoldsMemory(lines', filled') /\ DOMAIN lines' = 0 .. Lines - 1
      BY <1>1, StepKeepsCache
    <3> QED BY <2>2, <2>3, <3>1 DEF HoldsMemory, LineHoldsMemory, Word
  <2> QED BY <2>1, <2>5 DEF IInv
<1>2. CASE UNCHANGED vars
  BY <1>2 DEF vars, IInv, TypeInv, LineHoldsMemory, TypeOK, Word
<1> QED BY <1>1, <1>2

\* The invariant holds in every reachable state.
THEOREM InvariantHolds == Spec => []IInv
<1>1. Init => IInv
  BY InitHolds
<1>2. IInv /\ [Next]_vars => IInv'
  BY StepHolds
<1> QED BY <1>1, <1>2, PTL DEF Spec

\* A valid line holds the memory's words from the word on at which it was last entered,
\* whatever the program and the order in which it enters and leaves its lines.
THEOREM CacheHoldsMemory == Spec => []LineHoldsMemory
<1>1. IInv => LineHoldsMemory
  BY DEF IInv
<1> QED BY <1>1, InvariantHolds, PTL
----------------------------------------------------------------------------
(* Refinement *)

\* What is substituted for the R3000's pending load.
Pending == IF load_slot.timer > 0 THEN [reg |-> load_slot.reg, value |-> load_slot.value] ELSE Nothing

\* The instruction fetched is the one in memory.
LEMMA FetchedFromMemory ==
  ASSUME IInv, WellPlaced, FetchPc \in Nat
  PROVE  Core!Word(FetchPc) = Fetched(FetchPc)
<1> DEFINE a == FetchPc
<1>1. /\ WordOf(a) \in 0 .. LineWords - 1 /\ LineOf(a) \in 0 .. Lines - 1
      /\ (TagOf(a) * Lines + LineOf(a)) * LineWords + WordOf(a) = a
  BY AddressSplits
<1>2. DOMAIN lines = 0 .. Lines - 1
  BY DEF IInv, TypeInv
<1>3. CASE CacheHit(a)
  <2>1. lines[LineOf(a)].valid /\ lines[LineOf(a)].tag = TagOf(a) /\ WordOf(a) >= filled[LineOf(a)]
    BY <1>3 DEF CacheHit, WellPlaced
  <2> HIDE DEF a
  <2>2. lines[LineOf(a)].inst[WordOf(a)] =
          Word((lines[LineOf(a)].tag * Lines + LineOf(a)) * LineWords + WordOf(a))
    BY <1>1, <1>2, <2>1 DEF IInv, LineHoldsMemory
  <2>3. Fetched(a) = Word(a)
    BY <1>1, <1>3, <2>1, <2>2 DEF Fetched
  <2> QED BY <2>3 DEF a, Word, Nop, Core!Word, Core!Nop
<1>4. CASE ~CacheHit(a)
  BY <1>4 DEF Fetched, Word, Nop, Core!Word, Core!Nop
<1> QED BY <1>3, <1>4

\* Without a branch the pair of addresses moves on by one, with one to its target.
LEMMA AddressesMove ==
  ASSUME PcAfterFetch # 0
  PROVE  /\ Proceed => FetchPc' = PcAfterFetch /\ PcAfterFetch' = PcAfterFetch + 1
         /\ \A t : Branch(t) => FetchPc' = PcAfterFetch /\ PcAfterFetch' = t
BY DEF Proceed, Branch, FetchPc, PcAfterFetch

\* The registers one cycle later have the pending load's value.
LEMMA PendingLands ==
  ASSUME IInv, LoadLands, load_slot' = SlotAfter
  PROVE  Ready' = IF load_slot.timer > 0 /\ load_slot.reg # 0
                    THEN [regs' EXCEPT ![load_slot.reg] = load_slot.value] ELSE regs'
<1>1. load_slot \in LoadSlot
  BY DEF IInv, TypeInv
<1>2. CASE load_slot.timer > 0
  <2>1. ~Due /\ load_slot.value # 0
    BY <1>1, <1>2 DEF Due, LoadLands
  <2>2. load_slot' = [load_slot EXCEPT !.timer = load_slot.timer - 1] /\ load_slot.timer = 1
    BY <1>1, <1>2, <2>1 DEF SlotAfter, LoadSlot
  <2>3. load_slot'.timer = 0 /\ load_slot'.reg = load_slot.reg /\ load_slot'.value = load_slot.value
    BY <1>1, <2>2 DEF LoadSlot
  <2> QED BY <1>2, <2>1, <2>3 DEF Ready, Due
<1>3. CASE ~(load_slot.timer > 0)
  <2>1. load_slot.timer = 0
    BY <1>1, <1>3 DEF LoadSlot
  <2>2. ~Due'
    <3>1. CASE Due
      BY <3>1 DEF Due, SlotAfter, NoLoad
    <3>2. CASE ~Due
      <4>1. load_slot'.reg = load_slot.reg /\ load_slot'.value = load_slot.value
        BY <1>1, <3>2 DEF SlotAfter, LoadSlot
      <4> QED BY <2>1, <3>2, <4>1 DEF Due
    <3> QED BY <3>1, <3>2
  <2> QED BY <1>3, <2>2 DEF Ready
<1> QED BY <1>2, <1>3

\* A step leaves the registers and the pending load that an R3000 leaves.
LEMMA RegistersMove ==
  ASSUME IInv, LoadLands, NEW i, i = Fetched(FetchPc), i \in Instructions, Execute(i)
  PROVE  /\ Ready' = [r \in Regs |-> IF r = 0 \/ i.op = "halt" THEN Ready[r] ELSE Core!Result(i, r)]
         /\ Pending' = IF i.op = "lw" /\ ~isolated THEN [reg |-> i.reg, value |-> ram]
                       ELSE IF i.op = "halt" THEN Pending ELSE Nothing
<1>1. /\ Ready \in [Regs -> Values] /\ Ready[0] = 0
      /\ SlotAfter \in LoadSlot /\ SlotAfter.timer = 0
      /\ load_slot \in LoadSlot /\ regs' \in [Regs -> Values] /\ 0 \in Regs
  BY ReadyRegisters, StepKeepsTypes, SizeAssumption DEF IInv, TypeInv, Next
<1>2. load_slot.timer > 0 => Pending # Nothing /\ Pending.reg = load_slot.reg /\ Pending.value = load_slot.value
  <2>1. [reg |-> load_slot.reg, value |-> load_slot.value] \in [reg : Regs, value : Values]
    BY <1>1 DEF LoadSlot
  <2> QED BY <2>1, ProgramAssumption DEF Pending
<1>3. ~(load_slot.timer > 0) => Pending = Nothing
  BY DEF Pending
<1>4. \A r : Core!Result(i, r) =
               IF i.op = "add" /\ i.reg = r THEN (Ready[r] + i.imm) % Modulus
               ELSE IF Pending # Nothing /\ Pending.reg = r THEN Pending.value
               ELSE Ready[r]
  BY DEF Core!Result, Pending
<1>x. load_slot.timer > 0 /\ i.op = "add" => i.reg # load_slot.reg
  BY DEF LoadLands
<1>5. ASSUME load_slot' = SlotAfter
      PROVE  Pending' = Nothing
  BY <1>1, <1>5 DEF Pending
<1>6. ASSUME load_slot' = SlotAfter, i.op # "halt", i.op # "lw" \/ isolated,
             \A r \in Regs : r # 0 => regs'[r] = IF i.op = "add" /\ i.reg = r
                                                   THEN (Ready[r] + i.imm) % Modulus ELSE Ready[r],
             regs'[0] = 0
      PROVE  Ready' = [r \in Regs |-> IF r = 0 \/ i.op = "halt" THEN Ready[r] ELSE Core!Result(i, r)]
  <2>1. Ready' = IF load_slot.timer > 0 /\ load_slot.reg # 0
                   THEN [regs' EXCEPT ![load_slot.reg] = load_slot.value] ELSE regs'
    BY <1>6, PendingLands
  <2>2. \A r \in Regs : Ready'[r] = IF r = 0 THEN Ready[r] ELSE Core!Result(i, r)
    <3> SUFFICES ASSUME NEW r \in Regs
                 PROVE  Ready'[r] = IF r = 0 THEN Ready[r] ELSE Core!Result(i, r)
      OBVIOUS
    <3>1. CASE load_slot.timer > 0
      BY <1>1, <1>2, <1>4, <1>x, <1>6, <2>1, <3>1
    <3>2. CASE ~(load_slot.timer > 0)
      BY <1>1, <1>3, <1>4, <1>6, <2>1, <3>2
    <3> QED BY <3>1, <3>2
  <2>3. Ready' = [r \in Regs |-> Ready'[r]]
    <3>1. CASE load_slot.timer > 0 /\ load_slot.reg # 0
      BY <1>1, <2>1, <3>1
    <3>2. CASE ~(load_slot.timer > 0 /\ load_slot.reg # 0)
      BY <1>1, <2>1, <3>2
    <3> QED BY <3>1, <3>2
  <2> QED BY <1>6, <2>2, <2>3
<1>7. CASE i.op \notin {"add", "lw", "halt"}
  <2>1. regs' = Ready /\ load_slot' = SlotAfter
    BY <1>7 DEF Execute, Jump, BranchNotEqual, Compute, LoadWord, StoreWord, MoveToCop0, Idle, Halt
  <2>2. /\ \A r \in Regs : r # 0 => regs'[r] = IF i.op = "add" /\ i.reg = r
                                                 THEN (Ready[r] + i.imm) % Modulus ELSE Ready[r]
        /\ regs'[0] = 0
    BY <1>1, <1>7, <2>1
  <2>3. Pending' = Nothing
    BY <1>5, <2>1
  <2> QED BY <1>6, <1>7, <2>1, <2>2, <2>3
<1>8. CASE i.op = "add"
  <2>1. regs' = Written(i.reg, (Ready[i.reg] + i.imm) % Modulus) /\ load_slot' = SlotAfter
    BY <1>8 DEF Execute, Jump, BranchNotEqual, Compute, LoadWord, StoreWord, MoveToCop0, Idle, Halt
  <2>2. /\ \A r \in Regs : r # 0 => regs'[r] = IF i.op = "add" /\ i.reg = r
                                                 THEN (Ready[r] + i.imm) % Modulus ELSE Ready[r]
        /\ regs'[0] = 0
    BY <1>1, <1>8, <2>1 DEF Written
  <2>3. Pending' = Nothing
    BY <1>5, <2>1
  <2> QED BY <1>6, <1>8, <2>1, <2>2, <2>3
<1>9. CASE i.op = "lw" /\ isolated
  <2>1. regs' = Ready /\ load_slot' = SlotAfter
    BY <1>9 DEF Execute, Jump, BranchNotEqual, Compute, LoadWord, StoreWord, MoveToCop0, Idle, Halt
  <2>2. /\ \A r \in Regs : r # 0 => regs'[r] = IF i.op = "add" /\ i.reg = r
                                                 THEN (Ready[r] + i.imm) % Modulus ELSE Ready[r]
        /\ regs'[0] = 0
    BY <1>1, <1>9, <2>1
  <2>3. Pending' = Nothing
    BY <1>5, <2>1
  <2> QED BY <1>6, <1>9, <2>1, <2>2, <2>3
<1>10. CASE i.op = "lw" /\ ~isolated
  <2>1. /\ regs' = Ready
        /\ load_slot' = [reg |-> i.reg, value |-> ram, timer |-> SlotAfter.timer + 1]
    BY <1>10 DEF Execute, Jump, BranchNotEqual, Compute, LoadWord, StoreWord, MoveToCop0, Idle, Halt
  <2>2. load_slot'.timer = 1 /\ load_slot'.reg = i.reg /\ load_slot'.value = ram
    BY <1>1, <2>1
  <2>3. Ready' = Ready
    BY <2>1, <2>2 DEF Ready, Due
  <2>4. Pending' = [reg |-> i.reg, value |-> ram]
    BY <2>2 DEF Pending
  <2>5. Pending = Nothing
    BY <1>3, <1>10 DEF LoadLands
  <2>6. \A r \in Regs : Core!Result(i, r) = Ready[r]
    BY <1>4, <1>10, <2>5
  <2>7. Ready = [r \in Regs |-> Ready[r]]
    BY <1>1
  <2> QED BY <1>10, <2>3, <2>4, <2>6, <2>7
<1>11. CASE i.op = "halt"
  <2>1. regs' = regs /\ load_slot' = load_slot
    BY <1>11 DEF Execute, Jump, BranchNotEqual, Compute, LoadWord, StoreWord, MoveToCop0, Idle, Halt
  <2>2. Ready' = Ready /\ Pending' = Pending
    BY <2>1 DEF Ready, Due, Pending
  <2>3. Ready = [r \in Regs |-> Ready[r]]
    BY <1>1
  <2> QED BY <1>11, <2>2, <2>3
<1> QED BY <1>7, <1>8, <1>9, <1>10, <1>11

\* An offset a branch can reach survives the cast.
LEMMA CastKeeps ==
  ASSUME NEW n \in -Reach .. Reach - 1
  PROVE  Cast(n) = n
<1>1. Reach \in Nat \ {0}
  BY SizeAssumption
<1>2. n + Reach \in 0 .. 2 * Reach - 1
  BY <1>1
<1>3. (n + Reach) % (2 * Reach) = n + Reach
  <2>1. ASSUME NEW a \in Nat, NEW b \in Nat, a < b  PROVE a % b = a
    BY <2>1
  <2> QED BY <1>1, <1>2, <2>1
<1> QED BY <1>1, <1>3 DEF Cast

\* Every step is one of an R3000.
LEMMA StepIsR3000Step ==
  ASSUME IInv, Next, WellPlaced, LoadLands
  PROVE  Core!Next
<1> DEFINE i == Fetched(FetchPc)
<1>1. Cycle(i) /\ Execute(i)
  BY DEF Next, Execute, Jump, BranchNotEqual, Compute, LoadWord, StoreWord, MoveToCop0, Idle, Halt
<1>2. FetchPc \in Nat /\ PcAfterFetch \in Int /\ i \in Instructions
  BY <1>1, CycleFetches
<1>3. Core!Word(FetchPc) = i
  BY <1>2, FetchedFromMemory
<1>4. /\ i.op = "bne" => delay_slot = 0 /\ i.offset \in -Reach .. Reach - 1
      /\ i.op = "sw" /\ isolated => i.line < Lines
  BY DEF WellPlaced
<1>5. /\ Ready' = [r \in Regs |-> IF r = 0 \/ i.op = "halt" THEN Ready[r] ELSE Core!Result(i, r)]
      /\ Pending' = IF i.op = "lw" /\ ~isolated THEN [reg |-> i.reg, value |-> ram]
                    ELSE IF i.op = "halt" THEN Pending ELSE Nothing
  BY <1>1, <1>2, RegistersMove
<1> HIDE DEF i
<1>6. /\ FetchPc' = PcAfterFetch
      /\ PcAfterFetch' = IF Core!Taken(i) THEN Core!Target(i) ELSE PcAfterFetch + 1
  <2> USE AddressesMove DEF WellPlaced, Core!Taken, Core!Target
  <2>1. CASE Jump(i)
    BY <2>1 DEF Jump
  <2>2. CASE BranchNotEqual(i)
    <3>1. delay_slot = 0 /\ PcAfterFetch = FetchPc + 1
      BY <1>4, <2>2 DEF BranchNotEqual, FetchPc, PcAfterFetch
    <3>2. Cast(i.offset) = i.offset
      <4>1. i.offset \in -Reach .. Reach - 1
        BY <1>4, <2>2 DEF BranchNotEqual
      <4> QED BY <4>1, CastKeeps
    <3> QED BY <2>2, <3>1, <3>2 DEF BranchNotEqual
  <2>3. CASE Compute(i)
    BY <2>3 DEF Compute
  <2>4. CASE LoadWord(i)
    BY <2>4 DEF LoadWord
  <2>5. CASE StoreWord(i)
    BY <2>5 DEF StoreWord
  <2>6. CASE MoveToCop0(i)
    BY <2>6 DEF MoveToCop0
  <2>7. CASE Idle(i)
    BY <2>7 DEF Idle
  <2>8. CASE Halt(i)
    BY <2>8 DEF Halt
  <2> QED BY <1>1, <2>1, <2>2, <2>3, <2>4, <2>5, <2>6, <2>7, <2>8 DEF Execute
<1>7. /\ ram' = IF i.op = "sw" /\ ~isolated THEN Ready[i.reg] ELSE ram
      /\ isolated' = IF i.op = "mtc" THEN i.isolate ELSE isolated
      /\ rom' = rom
  <2>1. i.op = "sw" /\ isolated => ~(i.line >= Lines)
    <3>1. i.op = "sw" => i.line \in Int /\ Lines \in Int
      BY <1>2, Fields, SizeAssumption
    <3> QED BY <1>4, <3>1
  <2> QED
    BY <1>1, <2>1 DEF Cycle, Execute, Jump, BranchNotEqual, Compute, LoadWord, StoreWord, MoveToCop0,
                      Idle, Halt
<1> QED BY <1>3, <1>5, <1>6, <1>7 DEF Core!Next, Pending

\* Every step of nextps is a step of an R3000, for every program, cache and set of
\* registers, where the code does not depart from it by design.
THEOREM ImplementsR3000 == Spec => RunsAsR3000
<1>1. IInv /\ [Next]_vars => [WellPlaced /\ LoadLands => Core!Next]_vars
  BY StepIsR3000Step
<1> QED BY <1>1, InvariantHolds, PTL DEF Spec, RunsAsR3000

----------------------------------------------------------------------------
(* The linked list *)

\* What is left of a sequence without one of its elements.
LEMMA RemovedAt ==
  ASSUME NEW S, NEW s \in Seq(S), NEW i \in 1 .. Len(s)
  PROVE  RemoveAt(s, i) = [j \in 1 .. Len(s) - 1 |-> IF j < i THEN s[j] ELSE s[j + 1]]
<1> DEFINE a == SubSeq(s, 1, i - 1)
           b == SubSeq(s, i + 1, Len(s))
           t == a \o b
           u == [j \in 1 .. Len(s) - 1 |-> IF j < i THEN s[j] ELSE s[j + 1]]
<1>1. Len(s) \in Nat /\ i \in 1 .. Len(s) /\ DOMAIN s = 1 .. Len(s) /\ \A j \in 1 .. Len(s) : s[j] \in S
  OBVIOUS
<1>2. a \in Seq(S) /\ Len(a) = i - 1 /\ \A j \in 1 .. i - 1 : a[j] = s[j]
  BY <1>1, SubSeqProperties
<1>3. b \in Seq(S) /\ Len(b) = Len(s) - i /\ \A j \in 1 .. Len(s) - i : b[j] = s[i + j]
  <2>1. \A j \in i + 1 .. Len(s) : s[j] \in S
    BY <1>1
  <2>2. /\ SubSeq(s, i + 1, Len(s)) \in Seq(S)
        /\ Len(SubSeq(s, i + 1, Len(s))) = IF i + 1 <= Len(s) THEN Len(s) - (i + 1) + 1 ELSE 0
        /\ \A j \in 1 .. Len(s) - (i + 1) + 1 : SubSeq(s, i + 1, Len(s))[j] = s[i + 1 + j - 1]
    BY <1>1, <2>1, SubSeqProperties
  <2>3. \A j \in 1 .. Len(s) - i : j \in 1 .. Len(s) - (i + 1) + 1 /\ i + 1 + j - 1 = i + j
    <3>1. Len(s) \in Nat /\ i \in Nat
      BY <1>1
    <3> HIDE DEF a, b, t, u
    <3> QED BY <3>1
  <2>4. Len(b) = Len(s) - i
    <3>1. Len(b) = IF i + 1 <= Len(s) THEN Len(s) - (i + 1) + 1 ELSE 0
      BY <2>2, Zenon
    <3>2. Len(s) \in Nat /\ i \in 1 .. Len(s)
      BY <1>1
    <3> HIDE DEF a, b, t, u
    <3> QED BY <3>1, <3>2
  <2> QED BY <2>2, <2>3, <2>4
<1> HIDE DEF a, b
<1>4. t \in Seq(S) /\ Len(t) = Len(s) - 1
  <2>1. t \in Seq(S) /\ Len(t) = Len(a) + Len(b)
    BY <1>2, <1>3, ConcatProperties, Zenon
  <2> HIDE DEF t
  <2> QED BY <1>1, <1>2, <1>3, <2>1
<1>5. u \in Seq(S) /\ Len(u) = Len(s) - 1
  BY <1>1
<1>6. \A j \in 1 .. Len(t) : t[j] = u[j]
  <2> TAKE j \in 1 .. Len(t)
  <2>1. t[j] = IF j <= i - 1 THEN a[j] ELSE b[j - (i - 1)]
    <3>1. \A k \in 1 .. Len(a) + Len(b) : t[k] = IF k <= Len(a) THEN a[k] ELSE b[k - Len(a)]
      BY <1>2, <1>3, ConcatProperties, Zenon
    <3>2. j \in 1 .. Len(a) + Len(b)
      BY <1>1, <1>2, <1>3, <1>4
    <3> QED BY <1>2, <3>1, <3>2, Zenon
  <2>2. j \in 1 .. Len(s) - 1
    BY <1>4
  <2>3. u[j] = IF j < i THEN s[j] ELSE s[j + 1]
    BY <2>2
  <2> HIDE DEF u, t
  <2>4. CASE j < i
    BY <1>1, <1>2, <2>1, <2>3, <2>4
  <2>5. CASE ~(j < i)
    <3>1. j - (i - 1) \in 1 .. Len(s) - i /\ i + (j - (i - 1)) = j + 1 /\ ~(j <= i - 1)
      BY <1>1, <2>2, <2>5
    <3> QED BY <1>3, <2>1, <2>3, <2>5, <3>1
  <2> QED BY <2>4, <2>5
<1> HIDE DEF u, t
<1>7. t = u
  BY <1>4, <1>5, <1>6, SeqEqual
<1> QED BY <1>7, Zenon DEF RemoveAt, t, a, b, u

\* An allocated cell.
Cell == [data : ListItems, next : Nat]

\* q is the chain of cells from tail t to head h, each made after the one before.
Chain(c, t, h, q) ==
  /\ q \in Seq(1 .. Len(c))
  /\ \A j \in 1 .. Len(q) : \A k \in 1 .. Len(q) : j < k => q[j] < q[k]
  /\ t = IF q = <<>> THEN 0 ELSE q[1]
  /\ h = IF q = <<>> THEN 0 ELSE q[Len(q)]
  /\ \A j \in 1 .. Len(q) : c[q[j]].next = IF j = Len(q) THEN 0 ELSE q[j + 1]

\* The items in the cells of a chain.
Listed(c, q) == [k \in 1 .. Len(q) |-> c[q[k]].data]

\* The cells from tail to head are a chain.
ListInv == cells \in Seq(Cell) /\ \E q : Chain(cells, tail, head, q)

\* A chain is not longer than there are cells.
LEMMA ChainFits ==
  ASSUME NEW c \in Seq(Cell), NEW t, NEW h, NEW q, Chain(c, t, h, q)
  PROVE  Len(q) \in 0 .. Len(c)
<1>1. Len(q) \in Nat /\ Len(c) \in Nat /\ \A j \in 1 .. Len(q) : q[j] \in 1 .. Len(c)
  BY DEF Chain
<1> DEFINE n == Len(q)
           S == { j \in 0 .. n : j = 0 \/ q[j] >= j }
<1>2. \A j \in 0 .. n - 1 : j \in S => j + 1 \in S
  <2> TAKE j \in 0 .. n - 1
  <2> HAVE j \in S
  <2>1. j + 1 \in 1 .. n /\ q[j + 1] \in 1 .. Len(c)
    BY <1>1
  <2>2. CASE j = 0
    BY <1>1, <2>1, <2>2
  <2>3. CASE j # 0
    <3>1. j \in 1 .. n /\ q[j] >= j /\ q[j] \in 1 .. Len(c)
      BY <1>1, <2>3
    <3>2. q[j] < q[j + 1]
      BY <1>1, <2>1, <3>1 DEF Chain
    <3> QED BY <1>1, <2>1, <3>1, <3>2
  <2> QED BY <2>2, <2>3
<1>3. 0 \in S
  BY <1>1
<1>4. n \in S
  <2> HIDE DEF S
  <2>1. n \in Nat
    BY <1>1
  <2>2. 0 .. n \subseteq S
    BY <1>2, <1>3, <2>1, AllNaturals
  <2> QED BY <2>1, <2>2
<1>5. n = 0 \/ (n \in 1 .. n /\ q[n] >= n /\ q[n] \in 1 .. Len(c))
  BY <1>1, <1>4
<1> QED BY <1>1, <1>5

\* Following the cells from tail is following the chain.
LEMMA AtIs ==
  ASSUME NEW q, Chain(cells, tail, head, q), cells \in Seq(Cell), NEW i \in Nat
  PROVE  At(i) = IF i < Len(q) THEN q[i + 1] ELSE 0
<1> DEFINE F(f) == [j \in 0 .. i |-> IF j = 0 THEN tail
                                ELSE IF f[j - 1] = 0 THEN 0 ELSE cells[f[j - 1]].next]
           at == CHOOSE at : at = F(at)
           n == Len(q)
           g == [j \in 0 .. i |-> IF j < n THEN q[j + 1] ELSE 0]
<1>1. /\ n \in Nat /\ \A j \in 1 .. n : q[j] \in Nat \ {0}
      /\ tail = IF n = 0 THEN 0 ELSE q[1]
      /\ \A j \in 1 .. n : cells[q[j]].next = IF j = n THEN 0 ELSE q[j + 1]
  BY DEF Chain
<1>2. g = F(g)
  <2>1. ASSUME NEW j \in 0 .. i
        PROVE  g[j] = IF j = 0 THEN tail ELSE IF g[j - 1] = 0 THEN 0 ELSE cells[g[j - 1]].next
    <3>1. CASE j = 0
      BY <1>1, <3>1
    <3>2. CASE j # 0
      <4>1. j - 1 \in 0 .. i /\ (j - 1) + 1 = j
        BY <3>2
      <4>2. g[j - 1] = (IF j - 1 < n THEN q[j] ELSE 0) /\ g[j] = IF j < n THEN q[j + 1] ELSE 0
        BY <4>1
      <4> HIDE DEF g
      <4>3. CASE j - 1 < n
        BY <1>1, <3>2, <4>1, <4>2, <4>3
      <4>4. CASE ~(j - 1 < n)
        BY <1>1, <3>2, <4>1, <4>2, <4>4
      <4> QED BY <4>3, <4>4
    <3> QED BY <3>1, <3>2
  <2> QED BY <2>1
<1>3. at = F(at)
  <2> HIDE DEF F, g
  <2> QED BY <1>2
<1> HIDE DEF at
<1>4. \A j \in 0 .. i : at[j] = IF j = 0 THEN tail ELSE IF at[j - 1] = 0 THEN 0 ELSE cells[at[j - 1]].next
  BY <1>3, Zenon DEF F
<1>5. \A j \in 0 .. i : g[j] = IF j = 0 THEN tail ELSE IF g[j - 1] = 0 THEN 0 ELSE cells[g[j - 1]].next
  <2> HIDE DEF g
  <2> QED BY <1>2, Zenon DEF F
<1>6. g[i] = IF i < n THEN q[i + 1] ELSE 0
  OBVIOUS
<1> HIDE DEF g
<1> DEFINE S == { j \in 0 .. i : at[j] = g[j] }
<1>7. 0 \in S
  BY <1>4, <1>5
<1>8. ASSUME NEW j \in 0 .. i - 1, j \in S PROVE j + 1 \in S
  <2>1. j + 1 \in 0 .. i /\ j + 1 # 0 /\ (j + 1) - 1 = j /\ at[j] = g[j]
    BY <1>8
  <2>2. at[j + 1] = IF at[j] = 0 THEN 0 ELSE cells[at[j]].next
    BY <1>4, <2>1
  <2>3. g[j + 1] = IF g[j] = 0 THEN 0 ELSE cells[g[j]].next
    BY <1>5, <2>1
  <2> QED BY <2>1, <2>2, <2>3
<1> HIDE DEF S
<1>9. 0 .. i \subseteq S
  BY <1>7, <1>8, AllNaturals
<1>10. at[i] = g[i]
  BY <1>9 DEF S
<1>11. At(i) = at[i]
  BY Zenon DEF At, at, F
<1> QED BY <1>6, <1>10, <1>11

\* What list_get returns.
LEMMA GetIs ==
  ASSUME NEW q, Chain(cells, tail, head, q), cells \in Seq(Cell), NEW i \in Nat
  PROVE  ListGet(i) = IF i < Len(q) THEN Listed(cells, q)[i + 1] ELSE NoItem
<1>1. At(i) = IF i < Len(q) THEN q[i + 1] ELSE 0
  BY AtIs
<1>2. Len(q) \in Nat /\ \A j \in 1 .. Len(q) : q[j] \in Nat \ {0}
  BY DEF Chain
<1>3. CASE i < Len(q)
  <2>1. i + 1 \in 1 .. Len(q)
    BY <1>2, <1>3
  <2> QED BY <1>1, <1>2, <1>3, <2>1 DEF ListGet, Listed
<1>4. CASE ~(i < Len(q))
  BY <1>1, <1>4 DEF ListGet
<1> QED BY <1>3, <1>4

\* The items of a chain, one for each of its cells.
LEMMA ListedIs ==
  ASSUME NEW c \in Seq(Cell), NEW t, NEW h, NEW q, Chain(c, t, h, q)
  PROVE  /\ Len(q) \in Nat /\ Listed(c, q) \in Seq(ListItems) /\ Len(Listed(c, q)) = Len(q)
         /\ \A k \in 1 .. Len(q) : q[k] \in 1 .. Len(c) /\ Listed(c, q)[k] = c[q[k]].data
<1>1. Len(q) \in Nat /\ \A k \in 1 .. Len(q) : q[k] \in 1 .. Len(c)
  BY DEF Chain
<1>2. \A k \in 1 .. Len(c) : c[k].data \in ListItems
  <2>1. \A k \in 1 .. Len(c) : c[k] \in Cell
    BY ElementOfSeq, Zenon
  <2> QED BY <2>1 DEF Cell
<1>3. Listed(c, q) \in [1 .. Len(q) -> ListItems]
  BY <1>1, <1>2 DEF Listed
<1>4. Listed(c, q) \in Seq(ListItems) /\ Len(Listed(c, q)) = Len(q)
  BY <1>1, <1>3
<1> QED BY <1>1, <1>4 DEF Listed

\* An empty list.
LEMMA NoneListed == \A c : Listed(c, <<>>) = <<>>
<1> TAKE c
<1>1. Len(<<>>) = 0
  OBVIOUS
<1>2. Listed(c, <<>>) = [k \in 1 .. 0 |-> c[<<>>[k]].data]
  BY <1>1, Zenon DEF Listed
<1> DEFINE f == [k \in 1 .. 0 |-> c[<<>>[k]].data]
<1>3. DOMAIN f = 1 .. 0 /\ f = [k \in 1 .. 0 |-> f[k]]
  OBVIOUS
<1> HIDE DEF f
<1>4. f \in Seq(Nat) /\ Len(f) = 0
  BY <1>3
<1>5. f = <<>>
  BY <1>4
<1> QED BY <1>2, <1>5 DEF f

\* The least element of a set of numbers.
LEMMA LeastIs ==
  ASSUME NEW T, T \subseteq Nat, NEW m \in T, \A x \in T : m <= x
  PROVE  Min(T) = m /\ Sequence!Min(T) = m
<1>1. (CHOOSE x \in T : \A y \in T : x <= y) = m
  <2> DEFINE c == CHOOSE x \in T : \A y \in T : x <= y
  <2>1. c \in T /\ \A y \in T : c <= y
    OBVIOUS
  <2> HIDE DEF c
  <2>2. c = m
    <3>1. c <= m /\ m <= c /\ c \in Nat /\ m \in Nat
      BY <2>1
    <3> QED BY <3>1
  <2> QED BY <2>2, Zenon DEF c
<1> QED BY <1>1, Zenon DEF Min, Sequence!Min

\* What list_size and list_locate return, and a loop over list_get.
LEMMA ReadersSee ==
  \A q : cells \in Seq(Cell) /\ Chain(cells, tail, head, q) =>
    /\ Contents = Listed(cells, q)
    /\ [d \in ListItems |-> ListLocate(d)] = Sequence!FirstPlaces(Listed(cells, q))
<1> SUFFICES ASSUME NEW q, cells \in Seq(Cell), Chain(cells, tail, head, q)
             PROVE  /\ Contents = Listed(cells, q)
                    /\ [d \in ListItems |-> ListLocate(d)] = Sequence!FirstPlaces(Listed(cells, q))
  OBVIOUS
<1> DEFINE n == Len(q)
           s == Listed(cells, q)
<1>1. n \in Nat /\ n \in 0 .. Len(cells) /\ Len(cells) \in Nat
  BY ChainFits
<1>2. s \in Seq(ListItems) /\ Len(s) = n /\ DOMAIN s = 1 .. n /\ \A k \in 1 .. n : s[k] \in ListItems
  BY ListedIs
<1>3. \A i \in Nat : ListGet(i) = IF i < n THEN s[i + 1] ELSE NoItem
  BY GetIs, Zenon
<1> HIDE DEF s
<1>4. \A i \in 0 .. Len(cells) : ListGet(i) = (IF i < n THEN s[i + 1] ELSE NoItem) /\ (i < n => s[i + 1] \in ListItems)
  BY <1>1, <1>2, <1>3
<1>5. ListSize = n
  <2> DEFINE T == { i \in 0 .. Len(cells) : ListGet(i) # NoItem }
  <2>1. T = 0 .. n - 1
    BY <1>1, <1>4, NoItemAssumption
  <2>2. Cardinality(0 .. n - 1) = n
    <3>1. Cardinality(0 .. n - 1) = IF 0 > n - 1 THEN 0 ELSE (n - 1) - 0 + 1
      <4>1. 0 \in Int /\ n - 1 \in Int
        BY <1>1
      <4> QED BY <4>1, FS_Interval, Zenon
    <3> QED BY <1>1, <3>1
  <2>3. ListSize = Cardinality(T)
    BY Zenon DEF ListSize, Cardinality
  <2> QED BY <2>1, <2>2, <2>3
<1>6. Contents = s
  <2>1. \A k \in 1 .. n : ListGet(k - 1) = s[k]
    BY <1>1, <1>4
  <2>2. Contents = [k \in 1 .. n |-> s[k]]
    BY <1>5, <2>1, Zenon DEF Contents
  <2>3. s = [k \in 1 .. n |-> s[k]]
    BY <1>2
  <2> QED BY <2>2, <2>3
<1>7. ASSUME NEW d \in ListItems
      PROVE  ListLocate(d) = IF d \in Sequence!Range(s) THEN Sequence!Min({ i \in DOMAIN s : s[i] = d }) - 1 ELSE 0
  <2> DEFINE hits == { i \in 0 .. Len(cells) : ListGet(i) = d }
             places == { i \in DOMAIN s : s[i] = d }
  <2>1. \A i : i \in hits <=> i \in 0 .. n - 1 /\ s[i + 1] = d
    BY <1>1, <1>4, NoItemAssumption
  <2>2. \A i : i \in places <=> i \in 1 .. n /\ s[i] = d
    BY <1>2
  <2>3. d \in Sequence!Range(s) <=> places # {}
    BY DEF Sequence!Range
  <2>4. ListLocate(d) = IF hits = {} THEN 0 ELSE Min(hits)
    BY Zenon DEF ListLocate
  <2> HIDE DEF hits, places
  <2>5. CASE places = {}
    <3>1. hits = {}
      <4>1. \A i \in hits : i + 1 \in places
        BY <1>1, <2>1, <2>2
      <4> QED BY <2>5, <4>1
    <3> QED BY <2>3, <2>4, <2>5, <3>1, Zenon DEF places
  <2>6. CASE places # {}
    <3>1. places \subseteq Nat
      BY <1>1, <2>2
    <3>2. PICK m \in places : \A x \in places : m <= x
      BY <2>6, <3>1, LeastNatural
    <3>3. m \in 1 .. n /\ s[m] = d
      BY <2>2
    <3>4. m - 1 \in hits /\ hits \subseteq Nat
      BY <1>1, <2>1, <3>3
    <3>5. ASSUME NEW x \in hits PROVE m - 1 <= x
      <4>1. x + 1 \in places /\ x \in Nat
        BY <1>1, <2>1, <2>2
      <4> QED BY <1>1, <3>2, <3>3, <4>1
    <3>6. Sequence!Min(places) = m
      BY <3>1, <3>2, LeastIs, Zenon
    <3>7. Min(hits) = m - 1
      BY <3>4, <3>5, LeastIs, Zenon
    <3> QED BY <2>3, <2>4, <2>6, <3>4, <3>6, <3>7 DEF places
  <2> QED BY <2>5, <2>6
<1> QED BY <1>6, <1>7, Zenon DEF Sequence!FirstPlaces, s

\* A cell is made to point elsewhere.
Relink(c, p, x) == [c EXCEPT ![p].next = x]

\* The other cells, and the items, stay as they are.
LEMMA Relinked ==
  ASSUME NEW c \in Seq(Cell), NEW p \in 1 .. Len(c), NEW x \in Nat,
         NEW d, d = Relink(c, p, x)
  PROVE  /\ d \in Seq(Cell) /\ Len(d) = Len(c)
         /\ \A j \in 1 .. Len(c) : /\ d[j].data = c[j].data
                                   /\ d[j].next = IF j = p THEN x ELSE c[j].next
<1> DEFINE new == [c[p] EXCEPT !.next = x]
           e == [c EXCEPT ![p] = new]
<1>1. c[p] \in Cell /\ Len(c) \in Nat /\ p \in DOMAIN c
  OBVIOUS
<1>2. new \in Cell /\ new.data = c[p].data /\ new.next = x
  BY <1>1 DEF Cell
<1> HIDE DEF new
<1>3. e \in Seq(Cell) /\ Len(e) = Len(c) /\ \A j \in 1 .. Len(c) : e[j] = IF j = p THEN new ELSE c[j]
  BY <1>2, ExceptSeq
<1>4. d = e
  BY Zenon DEF new, Relink
<1> QED BY <1>2, <1>3, <1>4

\* list_push adds a cell to the chain.
LEMMA PushKeeps ==
  ASSUME ListInv, NEW i \in ListItems, Push(i)
  PROVE  \E q, r : /\ Chain(cells, tail, head, q) /\ Chain(cells', tail', head', r)
                   /\ cells' \in Seq(Cell) /\ Len(cells') = Len(cells) + 1
                   /\ Listed(cells', r) = Append(Listed(cells, q), i)
<1> DEFINE new == Len(cells) + 1
           linked == IF head = 0 THEN cells ELSE [cells EXCEPT ![head].next = new]
           cell == [data |-> i, next |-> 0]
<1>1. /\ cells' = Append(linked, cell) /\ head' = new
      /\ tail' = IF tail = 0 THEN new ELSE tail
  BY Zenon DEF Push
<1>2. PICK q : Chain(cells, tail, head, q)
  BY DEF ListInv
<1>3. cells \in Seq(Cell) /\ Len(cells) \in Nat
  BY DEF ListInv
<1>4. /\ Len(q) \in Nat /\ \A j \in 1 .. Len(q) : q[j] \in 1 .. Len(cells)
      /\ q \in Seq(1 .. Len(cells)) /\ (q = <<>> <=> Len(q) = 0)
  BY <1>2 DEF Chain
<1> DEFINE n == Len(q)
<1>11. n \in Nat /\ \A j \in 1 .. n : \A k \in 1 .. n : j < k => q[j] < q[k]
  BY <1>2, <1>4 DEF Chain
<1>5. /\ linked \in Seq(Cell) /\ Len(linked) = Len(cells)
      /\ \A j \in 1 .. Len(cells) : /\ linked[j].data = cells[j].data
                                    /\ linked[j].next = IF j = head THEN new ELSE cells[j].next
  <2>1. CASE head = 0
    BY <1>3, <2>1
  <2>2. CASE head # 0
    <3>1. head \in 1 .. Len(cells) /\ new \in Nat
      BY <1>2, <1>3, <1>4, <2>2 DEF Chain
    <3>2. linked = Relink(cells, head, new)
      BY <2>2, Zenon DEF Relink
    <3> HIDE DEF linked, new
    <3> QED BY <1>3, <3>1, <3>2, Relinked
  <2> QED BY <2>1, <2>2
<1> HIDE DEF linked
<1>6. cell \in Cell /\ cell.data = i /\ cell.next = 0
  BY DEF Cell
<1> HIDE DEF cell
<1>7. /\ cells' \in Seq(Cell) /\ Len(cells') = new /\ cells'[new] = cell
      /\ \A j \in 1 .. Len(cells) : cells'[j] = linked[j]
  BY <1>1, <1>3, <1>5, <1>6
<1> DEFINE r == Append(q, new)
<1>8. r \in Seq(1 .. new) /\ Len(r) = n + 1 /\ r[n + 1] = new /\ \A j \in 1 .. n : r[j] = q[j]
  <2>1. q \in Seq(1 .. new) /\ new \in 1 .. new
    <3>1. 1 .. Len(cells) \subseteq 1 .. new /\ new \in 1 .. new
      BY <1>3
    <3> QED BY <1>4, <3>1, SeqMonotonic
  <2> HIDE DEF new
  <2> QED BY <1>4, <2>1
<1> HIDE DEF r
<1>9. Chain(cells', tail', head', r)
  <2>1. r # <<>>
    BY <1>4, <1>8
  <2>2. ASSUME NEW j \in 1 .. Len(r), NEW k \in 1 .. Len(r), j < k PROVE r[j] < r[k]
    <3>1. CASE k = n + 1
      <4>1. j \in 1 .. n
        BY <1>4, <1>8, <2>2, <3>1
      <4>2. r[j] = q[j] /\ q[j] \in 1 .. Len(cells) /\ r[k] = Len(cells) + 1
        BY <1>4, <1>8, <3>1, <4>1
      <4> QED BY <1>3, <4>2
    <3>2. CASE k # n + 1
      <4>1. j \in 1 .. n /\ k \in 1 .. n
        <5>1. Len(r) = n + 1 /\ n \in Nat
          BY <1>8, <1>11
        <5> QED BY <2>2, <3>2, <5>1
      <4> QED BY <1>8, <1>11, <2>2, <4>1
    <3> QED BY <3>1, <3>2
  <2>3. tail' = r[1]
    <3>1. CASE n = 0
      BY <1>1, <1>2, <1>4, <1>8, <3>1 DEF Chain
    <3>2. CASE n # 0
      <4>1. 1 \in 1 .. n /\ tail = q[1]
        BY <1>2, <1>4, <3>2 DEF Chain
      <4> QED BY <1>1, <1>4, <1>8, <4>1
    <3> QED BY <3>1, <3>2
  <2>4. ASSUME NEW j \in 1 .. Len(r) PROVE cells'[r[j]].next = IF j = Len(r) THEN 0 ELSE r[j + 1]
    <3>1. CASE j = n + 1
      BY <1>6, <1>7, <1>8, <3>1
    <3>2. CASE j # n + 1
      <4>1. j \in 1 .. n /\ q[j] \in 1 .. Len(cells)
        BY <1>4, <1>8, <3>2
      <4>2. cells'[r[j]].next = IF q[j] = head THEN new ELSE cells[q[j]].next
        <5>1. cells'[q[j]] = linked[q[j]] /\ r[j] = q[j]
          BY <1>7, <1>8, <4>1
        <5> QED BY <1>5, <4>1, <5>1
      <4>3. CASE j = n
        <5>1. q[j] = head
          BY <1>2, <1>4, <4>1, <4>3 DEF Chain
        <5> QED BY <1>8, <3>2, <4>2, <4>3, <5>1
      <4>4. CASE j # n
        <5>1. n \in 1 .. n /\ j < n /\ j + 1 \in 1 .. n /\ head = q[n]
          BY <1>2, <1>4, <4>1, <4>4 DEF Chain
        <5>2. q[j] < q[n] /\ q[n] \in Nat /\ q[j] \in Nat
          BY <1>4, <1>11, <4>1, <5>1
        <5>3. cells[q[j]].next = q[j + 1]
          BY <1>2, <4>1, <4>4 DEF Chain
        <5> QED BY <1>8, <3>2, <4>2, <5>1, <5>2, <5>3
      <4> QED BY <4>3, <4>4
    <3> QED BY <3>1, <3>2
  <2>5. head' = r[Len(r)]
    BY <1>1, <1>8
  <2> QED BY <1>7, <1>8, <2>1, <2>2, <2>3, <2>4, <2>5 DEF Chain
<1>10. Listed(cells', r) = Append(Listed(cells, q), i)
  <2>1. /\ Listed(cells, q) \in Seq(ListItems) /\ Len(Listed(cells, q)) = n
        /\ \A k \in 1 .. n : Listed(cells, q)[k] = cells[q[k]].data
    BY <1>2, <1>3, ListedIs
  <2>2. /\ Listed(cells', r) \in Seq(ListItems) /\ Len(Listed(cells', r)) = n + 1
        /\ \A k \in 1 .. n + 1 : Listed(cells', r)[k] = cells'[r[k]].data
    <3>1. cells' \in Seq(Cell) /\ Len(r) = n + 1
      BY <1>7, <1>8
    <3> QED BY <1>9, <3>1, ListedIs
  <2> DEFINE s == Listed(cells, q)
             t == Listed(cells', r)
             u == Append(s, i)
  <2>3. \A k \in 1 .. n : t[k] = s[k]
    <3> TAKE k \in 1 .. n
    <3>1. k \in 1 .. n + 1 /\ q[k] \in 1 .. Len(cells)
      BY <1>4
    <3>2. t[k] = cells'[q[k]].data
      BY <1>8, <2>2, <3>1
    <3>3. cells'[q[k]].data = cells[q[k]].data
      BY <1>5, <1>7, <3>1
    <3>4. s[k] = cells[q[k]].data
      BY <2>1
    <3> QED BY <3>2, <3>3, <3>4
  <2>4. t[n + 1] = i
    <3>1. n + 1 \in 1 .. n + 1
      BY <1>4
    <3> QED BY <1>6, <1>7, <1>8, <2>2, <3>1
  <2> HIDE DEF s, t
  <2>5. u \in Seq(ListItems) /\ Len(u) = n + 1 /\ u[n + 1] = i /\ \A k \in 1 .. n : u[k] = s[k]
    BY <1>4, <2>1 DEF s
  <2> HIDE DEF u
  <2>6. \A k \in 1 .. n + 1 : t[k] = u[k]
    BY <1>4, <2>3, <2>4, <2>5
  <2>7. t = u
    BY <2>2, <2>5, <2>6, SeqEqual DEF t
  <2> QED BY <2>7 DEF s, t, u
<1> QED BY <1>2, <1>7, <1>9, <1>10

\* list_drop takes the cell at an index out of the chain, or none past the end.
LEMMA DropKeeps ==
  ASSUME ListInv, NEW i \in Nat, Drop(i)
  PROVE  \E q, r : /\ Chain(cells, tail, head, q) /\ Chain(cells', tail', head', r)
                   /\ cells' \in Seq(Cell) /\ Len(cells') = Len(cells)
                   /\ Listed(cells', r) = IF i + 1 \in 1 .. Len(q) THEN RemoveAt(Listed(cells, q), i + 1)
                                          ELSE Listed(cells, q)
<1> DEFINE node == At(i)
           prev == IF i = 0 THEN 0 ELSE CHOOSE c \in Cells : \E j \in 0 .. i - 1 :
                                                 At(j) = c /\ At(j + 1) \in {0, node}
           after == IF node = 0 THEN 0 ELSE cells[node].next
<1>1. /\ tail # 0
      /\ cells' = IF prev = 0 THEN cells ELSE Relink(cells, prev, after)
      /\ head' = IF head = node THEN prev ELSE head
      /\ tail' = IF tail = node THEN cells[tail].next ELSE tail
  BY Zenon DEF Drop, Relink
<1>2. PICK q : Chain(cells, tail, head, q)
  BY DEF ListInv
<1> DEFINE n == Len(q)
<1>3. cells \in Seq(Cell) /\ Len(cells) \in Nat /\ Cells = 1 .. Len(cells)
  BY DEF ListInv, Cells
<1>10. /\ q \in Seq(1 .. Len(cells)) /\ n \in Nat /\ (q = <<>> <=> n = 0)
       /\ \A j \in 1 .. n : q[j] \in 1 .. Len(cells)
  BY <1>2 DEF Chain
<1>11. \A j \in 1 .. n : \A k \in 1 .. n : j < k => q[j] < q[k]
  BY <1>2 DEF Chain
<1>12. \A j \in 1 .. n : cells[q[j]].next = IF j = n THEN 0 ELSE q[j + 1]
  BY <1>2 DEF Chain
<1>13. q # <<>> /\ tail = q[1] /\ head = q[n]
  BY <1>1, <1>2 DEF Chain
<1>14. n \in Nat \ {0}
  BY <1>10, <1>13
<1>4. /\ n \in Nat \ {0} /\ \A j \in 1 .. n : q[j] \in 1 .. Len(cells)
      /\ q \in Seq(1 .. Len(cells)) /\ q # <<>>
      /\ \A j \in 1 .. n : \A k \in 1 .. n : j < k => q[j] < q[k]
      /\ tail = q[1] /\ head = q[n]
      /\ \A j \in 1 .. n : cells[q[j]].next = IF j = n THEN 0 ELSE q[j + 1]
  BY <1>10, <1>11, <1>12, <1>13, <1>14, Zenon
<1>5. \A j \in Nat : At(j) = IF j < n THEN q[j + 1] ELSE 0
  BY <1>2, <1>3, AtIs, Zenon
<1>6. node = IF i < n THEN q[i + 1] ELSE 0
  BY <1>5
<1> DEFINE m == IF i < n THEN i ELSE n
<1>7. ASSUME i # 0 PROVE prev = q[m]
  <2> DEFINE P(c) == c \in 1 .. Len(cells) /\ \E j \in 0 .. i - 1 : At(j) = c /\ At(j + 1) \in {0, node}
  <2>1. m \in 1 .. n /\ m - 1 \in 0 .. i - 1 /\ m - 1 \in Nat /\ m \in Nat /\ (m - 1) + 1 = m
    BY <1>4, <1>7
  <2>2. At(m - 1) = q[m]
    BY <1>5, <2>1, <1>4
  <2>3. At(m) \in {0, node}
    BY <1>4, <1>5, <1>6, <2>1
  <2>4. P(q[m])
    BY <1>4, <2>1, <2>2, <2>3
  <2>5. ASSUME NEW c, P(c) PROVE c = q[m]
    <3>1. PICK j \in 0 .. i - 1 : At(j) = c /\ At(j + 1) \in {0, node}
      BY <2>5
    <3>2. j < n /\ j + 1 \in 1 .. n /\ c = q[j + 1]
      <4>1. c # 0 /\ j \in Nat /\ c = IF j < n THEN q[j + 1] ELSE 0
        BY <1>5, <2>5, <3>1
      <4> QED BY <1>14, <4>1
    <3>3. At(j + 1) = IF j + 1 < n THEN q[j + 2] ELSE 0
      <4>1. j + 1 \in Nat /\ (j + 1) + 1 = j + 2
        OBVIOUS
      <4> QED BY <1>5, <4>1
    <3>4. CASE j + 1 < n
      <4>1. j + 2 \in 1 .. n /\ q[j + 2] # 0 /\ q[j + 2] = node
        BY <1>4, <3>1, <3>3, <3>4
      <4>2. i < n /\ i + 1 \in 1 .. n /\ q[j + 2] = q[i + 1]
        BY <1>4, <1>6, <4>1
      <4>3. ~(j + 2 < i + 1) /\ ~(i + 1 < j + 2)
        <5> HIDE DEF n
        <5>1. q[j + 2] \in Int
          BY <1>4, <4>1
        <5> QED BY <1>4, <4>1, <4>2, <5>1
      <4> QED BY <3>2, <4>2, <4>3
    <3>5. CASE ~(j + 1 < n)
      BY <1>4, <3>2, <3>5
    <3> QED BY <3>4, <3>5
  <2>6. prev = CHOOSE c \in 1 .. Len(cells) : \E j \in 0 .. i - 1 : At(j) = c /\ At(j + 1) \in {0, node}
    BY <1>3, <1>7
  <2> HIDE DEF prev, node, m
  <2> QED BY <2>4, <2>5, <2>6, Zenon
<1> HIDE DEF prev, node
<1>8. CASE ~(i < n)
  <2>1. node = 0 /\ after = 0 /\ prev = q[n] /\ n \in 1 .. n /\ q[n] \in 1 .. Len(cells)
    BY <1>4, <1>6, <1>7, <1>8
  <2>2. /\ cells' \in Seq(Cell) /\ Len(cells') = Len(cells)
        /\ \A j \in 1 .. Len(cells) : /\ cells'[j].data = cells[j].data
                                      /\ cells'[j].next = IF j = q[n] THEN 0 ELSE cells[j].next
    <3>1. cells' = Relink(cells, q[n], 0) /\ q[n] \in 1 .. Len(cells) /\ 0 \in Nat
      BY <1>1, <2>1
    <3> QED BY <1>3, <3>1, Relinked
  <2>3. \A j \in 1 .. Len(cells) : cells'[j].next = cells[j].next
    BY <1>4, <2>1, <2>2
  <2>4. tail' = tail /\ head' = head
    BY <1>1, <1>4, <2>1
  <2>5. Chain(cells', tail', head', q)
    BY <1>2, <1>4, <2>2, <2>3, <2>4 DEF Chain
  <2>6. Listed(cells', q) = Listed(cells, q)
    <3>1. \A k \in 1 .. Len(q) : cells'[q[k]].data = cells[q[k]].data
      BY <1>4, <2>2
    <3> QED BY <3>1, Zenon DEF Listed
  <2>7. i + 1 \notin 1 .. Len(q)
    BY <1>4, <1>8
  <2> QED BY <1>2, <2>2, <2>5, <2>6, <2>7
<1>9. CASE i < n
  <2> DEFINE r == [k \in 1 .. n - 1 |-> IF k <= i THEN q[k] ELSE q[k + 1]]
  <2>1. i + 1 \in 1 .. n /\ node = q[i + 1] /\ node # 0 /\ n - 1 \in Nat
    BY <1>4, <1>6, <1>9
  <2>2. after = (IF i + 1 = n THEN 0 ELSE q[i + 2]) /\ after \in Nat
    <3>1. i + 1 # n => i + 2 \in 1 .. n
      BY <1>4, <1>9
    <3>2. cells[q[i + 1]].next = IF i + 1 = n THEN 0 ELSE q[i + 2]
      <4>1. (i + 1) + 1 = i + 2
        OBVIOUS
      <4> QED BY <1>12, <2>1, <4>1
    <3>3. i + 1 # n => q[i + 2] \in Nat
      BY <1>10, <3>1
    <3> QED BY <2>1, <3>2, <3>3
  <2> HIDE DEF after
  <2>3. /\ cells' \in Seq(Cell) /\ Len(cells') = Len(cells)
        /\ \A j \in 1 .. Len(cells) : /\ cells'[j].data = cells[j].data
                                      /\ i = 0 => cells'[j].next = cells[j].next
                                      /\ i # 0 => cells'[j].next = IF j = q[i] THEN after ELSE cells[j].next
    <3>1. CASE i = 0
      <4>1. cells' = cells
        BY <1>1, <3>1 DEF prev
      <4> QED BY <1>3, <3>1, <4>1
    <3>2. CASE i # 0
      <4>1. prev = q[i] /\ q[i] \in 1 .. Len(cells)
        BY <1>4, <1>7, <1>9, <3>2
      <4>2. cells' = Relink(cells, q[i], after)
        BY <1>1, <4>1
      <4>3. /\ cells' \in Seq(Cell) /\ Len(cells') = Len(cells)
            /\ \A j \in 1 .. Len(cells) : /\ cells'[j].data = cells[j].data
                                          /\ cells'[j].next = IF j = q[i] THEN after ELSE cells[j].next
        BY <1>3, <2>2, <4>1, <4>2, Relinked
      <4> QED BY <3>2, <4>3
    <3> QED BY <3>1, <3>2
  <2>4. /\ r \in Seq(1 .. Len(cells)) /\ Len(r) = n - 1
        /\ \A k \in 1 .. n - 1 : r[k] = IF k <= i THEN q[k] ELSE q[k + 1]
    <3>1. \A k \in 1 .. n - 1 : (IF k <= i THEN q[k] ELSE q[k + 1]) \in 1 .. Len(cells)
      <4>1. \A k \in 1 .. n - 1 : k \in 1 .. n /\ k + 1 \in 1 .. n
        BY <1>14
      <4> QED BY <1>10, <4>1
    <3> QED BY <2>1, <3>1
  <2> HIDE DEF r, n
  <2>5. \A k \in 1 .. n - 1 : k \in 1 .. n /\ k + 1 \in 1 .. n
    BY <1>14
  <2>6. \A k \in 1 .. n : q[k] = q[i] => i = 0 \/ k = i
    <3> SUFFICES ASSUME NEW k \in 1 .. n, q[k] = q[i], i # 0 PROVE k = i
      OBVIOUS
    <3>1. i \in 1 .. n /\ q[i] \in Int
      <4>1. i \in 1 .. n
        BY <1>9, <1>14
      <4> QED BY <1>10, <4>1
    <3>2. ~(k < i) /\ ~(i < k)
      BY <1>4, <3>1
    <3> QED BY <3>1, <3>2
  <2>7. Chain(cells', tail', head', r)
    <3>1. ASSUME NEW j \in 1 .. n - 1, NEW k \in 1 .. n - 1, j < k PROVE r[j] < r[k]
      <4>1. CASE k <= i
        BY <1>4, <2>4, <2>5, <3>1, <4>1
      <4>2. CASE ~(k <= i)
        <5>1. CASE j <= i
          <6>1. j < k + 1 /\ r[j] = q[j] /\ r[k] = q[k + 1]
            BY <2>4, <3>1, <4>2, <5>1
          <6> QED BY <1>4, <2>5, <6>1
        <5>2. CASE ~(j <= i)
          <6>1. j + 1 < k + 1 /\ r[j] = q[j + 1] /\ r[k] = q[k + 1]
            BY <2>4, <3>1, <4>2, <5>2
          <6> QED BY <1>4, <2>5, <6>1
        <5> QED BY <5>1, <5>2
      <4> QED BY <4>1, <4>2
    <3>2. tail' = IF r = <<>> THEN 0 ELSE r[1]
      <4>1. r = <<>> <=> n = 1
        BY <1>14, <2>4
      <4>2. CASE i = 0
        <5>1. tail = node /\ tail' = cells[q[1]].next /\ 1 \in 1 .. n
          BY <1>1, <1>4, <2>1, <4>2
        <5>2. tail' = IF n = 1 THEN 0 ELSE q[2]
          BY <1>4, <5>1
        <5>3. n # 1 => r[1] = q[2]
          <6>1. n # 1 => 1 \in 1 .. n - 1
            BY <1>14
          <6> QED BY <2>4, <4>2, <6>1
        <5> QED BY <4>1, <5>2, <5>3
      <4>3. CASE i # 0
        <5>1. 1 \in 1 .. n /\ 1 < i + 1 /\ 1 \in 1 .. n - 1 /\ q[1] < q[i + 1] /\ q[1] \in Int
          <6>1. 1 \in 1 .. n /\ 1 < i + 1 /\ 1 \in 1 .. n - 1
            BY <1>9, <1>14, <4>3
          <6>2. q[1] < q[i + 1]
            BY <1>11, <2>1, <6>1
          <6> QED BY <1>10, <6>1, <6>2
        <5>2. tail' = q[1]
          BY <1>1, <1>4, <2>1, <5>1
        <5>3. r[1] = q[1] /\ n # 1
          BY <1>9, <2>4, <4>3, <5>1
        <5> QED BY <4>1, <5>2, <5>3
      <4> QED BY <4>2, <4>3
    <3>3. head' = IF r = <<>> THEN 0 ELSE r[Len(r)]
      <4>1. r = <<>> <=> n = 1
        BY <1>14, <2>4
      <4>2. CASE i + 1 = n
        <5>1. head' = prev
          BY <1>1, <1>4, <2>1, <4>2
        <5>2. CASE i = 0
          BY <4>1, <4>2, <5>1, <5>2 DEF prev
        <5>3. CASE i # 0
          <6>1. prev = q[i]
            BY <1>7, <1>9, <5>3
          <6>2. n # 1 /\ n - 1 \in 1 .. n - 1 /\ n - 1 <= i /\ n - 1 = i
            <7>1. i + 1 = n /\ i \in Nat /\ i # 0
              BY <1>4, <4>2, <5>3
            <7> QED BY <7>1
          <6> QED BY <2>4, <4>1, <5>1, <6>1, <6>2
        <5> QED BY <5>2, <5>3
      <4>3. CASE i + 1 # n
        <5>0. n \in 1 .. n /\ i + 1 < n
          BY <1>4, <2>1, <4>3
        <5>1. n \in 1 .. n /\ i + 1 < n /\ q[i + 1] < q[n] /\ q[n] \in Int
          BY <1>10, <1>11, <2>1, <5>0
        <5>2. head' = q[n]
          BY <1>1, <1>4, <2>1, <5>1
        <5>3. n # 1 /\ n - 1 \in 1 .. n - 1 /\ ~(n - 1 <= i) /\ (n - 1) + 1 = n
          BY <1>14, <5>0
        <5> QED BY <2>4, <4>1, <5>2, <5>3
      <4> QED BY <4>2, <4>3
    <3>4. ASSUME NEW j \in 1 .. n - 1 PROVE cells'[r[j]].next = IF j = n - 1 THEN 0 ELSE r[j + 1]
      <4>1. j \in 1 .. n /\ j + 1 \in 1 .. n /\ q[j] \in 1 .. Len(cells) /\ q[j + 1] \in 1 .. Len(cells)
        BY <1>4, <2>5
      <4>2. CASE j = i
        <5>1. r[j] = q[i] /\ i # 0 /\ cells'[q[i]].next = after
          BY <2>3, <2>4, <4>1, <4>2
        <5>2. j = n - 1 <=> i + 1 = n
          BY <1>4, <4>2
        <5>3. j # n - 1 => r[j + 1] = q[i + 2]
          <6>1. j # n - 1 => j + 1 \in 1 .. n - 1 /\ ~(j + 1 <= i) /\ (j + 1) + 1 = i + 2
            BY <1>4, <4>2
          <6> QED BY <2>4, <6>1
        <5> QED BY <2>2, <5>1, <5>2, <5>3
      <4>3. CASE j < i
        <5>1. r[j] = q[j] /\ q[j] # q[i] /\ j # n - 1 /\ j + 1 \in 1 .. n - 1 /\ j + 1 <= i
          <6>1. j # n - 1 /\ j + 1 \in 1 .. n - 1 /\ j + 1 <= i /\ i # 0 /\ i \in 1 .. n
            BY <1>9, <1>14, <4>3
          <6> QED BY <2>4, <2>6, <4>1, <4>3, <6>1
        <5>2. cells'[q[j]].next = cells[q[j]].next
          BY <2>3, <4>1, <4>3, <5>1
        <5>3. cells[q[j]].next = q[j + 1] /\ r[j + 1] = q[j + 1]
          <6>1. r[j + 1] = q[j + 1]
            BY <2>4, <5>1
          <6>2. j # n
            BY <1>14
          <6> QED BY <1>12, <4>1, <6>1, <6>2
        <5> QED BY <5>1, <5>2, <5>3
      <4>4. CASE j > i
        <5>1. r[j] = q[j + 1] /\ (i # 0 => q[j + 1] # q[i])
          <6>1. r[j] = q[j + 1] /\ j + 1 # i
            BY <2>4, <4>4
          <6> QED BY <2>6, <4>1, <6>1
        <5>2. cells'[q[j + 1]].next = cells[q[j + 1]].next
          BY <2>3, <4>1, <5>1
        <5>3. cells[q[j + 1]].next = IF j + 1 = n THEN 0 ELSE q[j + 2]
          <6>1. (j + 1) + 1 = j + 2
            OBVIOUS
          <6> QED BY <1>4, <4>1, <6>1
        <5>4. j # n - 1 => r[j + 1] = q[j + 2]
          <6>1. j # n - 1 => j + 1 \in 1 .. n - 1 /\ ~(j + 1 <= i) /\ (j + 1) + 1 = j + 2
            BY <1>4, <4>4
          <6> QED BY <2>4, <6>1
        <5>5. j = n - 1 <=> j + 1 = n
          BY <1>4
        <5> QED BY <5>1, <5>2, <5>3, <5>4, <5>5
      <4> QED BY <4>2, <4>3, <4>4
    <3> QED BY <2>3, <2>4, <3>1, <3>2, <3>3, <3>4 DEF Chain
  <2>8. Listed(cells', r) = RemoveAt(Listed(cells, q), i + 1)
    <3> DEFINE s == Listed(cells, q)
               t == Listed(cells', r)
               u == [j \in 1 .. n - 1 |-> IF j < i + 1 THEN s[j] ELSE s[j + 1]]
    <3>1. s \in Seq(ListItems) /\ Len(s) = n /\ \A k \in 1 .. n : s[k] = cells[q[k]].data
      BY <1>2, <1>3, ListedIs DEF n
    <3>2. t \in Seq(ListItems) /\ Len(t) = n - 1 /\ \A k \in 1 .. n - 1 : t[k] = cells'[r[k]].data
      BY <2>3, <2>4, <2>7, ListedIs
    <3> HIDE DEF s, t
    <3>3. RemoveAt(s, i + 1) = u
      BY <2>1, <3>1, RemovedAt
    <3>4. \A j \in 1 .. n - 1 : t[j] = u[j]
      <4> TAKE j \in 1 .. n - 1
      <4>1. r[j] \in 1 .. Len(cells) /\ t[j] = cells[r[j]].data
        <5>1. r[j] \in 1 .. Len(cells)
          BY <1>10, <2>4, <2>5
        <5> QED BY <2>3, <3>2, <5>1
      <4>2. u[j] = IF j < i + 1 THEN s[j] ELSE s[j + 1]
        OBVIOUS
      <4>3. j \in 1 .. n /\ j + 1 \in 1 .. n /\ (j < i + 1 <=> j <= i) /\ r[j] = IF j <= i THEN q[j] ELSE q[j + 1]
        BY <1>14, <2>4
      <4> HIDE DEF u
      <4> QED BY <3>1, <4>1, <4>2, <4>3
    <3>5. t = [j \in 1 .. n - 1 |-> t[j]]
      BY <3>2
    <3>6. t = u
      BY <3>4, <3>5, Zenon
    <3> QED BY <3>3, <3>6 DEF s, t
  <2>9. i + 1 \in 1 .. Len(q)
    BY <2>1 DEF n
  <2> QED BY <1>2, <2>3, <2>7, <2>8, <2>9
<1> QED BY <1>8, <1>9

\* The list is a sequence: pushing adds at the end, dropping removes the item at the index
\* or none, and the readers see those items, at those places.
THEOREM ListIsSequence == ListSpec => IsASequence
<1>1. ListInit => ListInv /\ Sequence!Init
  <2> SUFFICES ASSUME ListInit PROVE ListInv /\ Sequence!Init
    OBVIOUS
  <2>1. cells = <<>> /\ tail = 0 /\ head = 0 /\ cells \in Seq(Cell) /\ Len(cells) = 0
    BY DEF ListInit
  <2>2. Chain(cells, tail, head, <<>>)
    BY <2>1 DEF Chain
  <2>3. Contents = Listed(cells, <<>>) /\ [d \in ListItems |-> ListLocate(d)] = Sequence!FirstPlaces(Listed(cells, <<>>))
    BY <2>1, <2>2, ReadersSee, Zenon
  <2>4. Listed(cells, <<>>) = <<>>
    BY NoneListed
  <2> QED BY <2>1, <2>2, <2>3, <2>4 DEF ListInv, Sequence!Init
<1>2. ListInv /\ [ListNext]_listVars => ListInv' /\ [Sequence!Next]_(Sequence!vars)
  <2> SUFFICES ASSUME ListInv, [ListNext]_listVars
               PROVE  ListInv' /\ [Sequence!Next]_(Sequence!vars)
    OBVIOUS
  <2>1. \A q : cells \in Seq(Cell) /\ Chain(cells, tail, head, q) => Contents = Listed(cells, q)
    BY ReadersSee
  <2>2. \A q : cells' \in Seq(Cell) /\ Chain(cells', tail', head', q) =>
          /\ Contents' = Listed(cells', q)
          /\ [d \in ListItems |-> ListLocate(d)]' = Sequence!FirstPlaces(Listed(cells', q))
    <3>1. (\A q : cells \in Seq(Cell) /\ Chain(cells, tail, head, q) =>
            /\ Contents = Listed(cells, q)
            /\ [d \in ListItems |-> ListLocate(d)] = Sequence!FirstPlaces(Listed(cells, q)))'
      BY ReadersSee, PTL
    <3> QED BY <3>1 DEF Chain, Listed
  <2>3. cells \in Seq(Cell) /\ Len(cells) \in Nat
    BY DEF ListInv
  <2>4. ASSUME NEW i \in ListItems, Push(i) PROVE ListInv' /\ Sequence!Next
    <3>1. PICK q, r : /\ Chain(cells, tail, head, q) /\ Chain(cells', tail', head', r)
                      /\ cells' \in Seq(Cell) /\ Len(cells') = Len(cells) + 1
                      /\ Listed(cells', r) = Append(Listed(cells, q), i)
      BY <2>4, PushKeeps
    <3>2. Contents' = Append(Contents, i)
      BY <2>1, <2>2, <2>3, <3>1
    <3>3. Sequence!Push(i)
      BY <3>1, <3>2, Zenon DEF Sequence!Push
    <3>4. [d \in ListItems |-> ListLocate(d)]' = Sequence!FirstPlaces(Contents')
      BY <2>2, <3>1
    <3>5. ListInv'
      BY <3>1 DEF ListInv, Chain
    <3> QED BY <3>3, <3>4, <3>5 DEF Sequence!Next, Sequence!FirstPlaces
  <2>5. ASSUME NEW i \in 0 .. Len(cells), Drop(i) PROVE ListInv' /\ Sequence!Next
    <3>1. PICK q, r : /\ Chain(cells, tail, head, q) /\ Chain(cells', tail', head', r)
                      /\ cells' \in Seq(Cell) /\ Len(cells') = Len(cells)
                      /\ Listed(cells', r) = IF i + 1 \in 1 .. Len(q) THEN RemoveAt(Listed(cells, q), i + 1)
                                             ELSE Listed(cells, q)
      BY <2>5, DropKeeps
    <3>2. Contents = Listed(cells, q) /\ Contents' = Listed(cells', r)
      BY <2>1, <2>2, <2>3, <3>1
    <3>3. Len(q) \in Nat /\ Contents \in Seq(ListItems) /\ Len(Contents) = Len(q) /\ DOMAIN Contents = 1 .. Len(q)
      BY <2>3, <3>1, <3>2, ListedIs
    <3> DEFINE k == IF i + 1 \in 1 .. Len(q) THEN i ELSE Len(q)
    <3>4. k \in 0 .. Len(Contents)
      BY <3>3
    <3>5. Sequence!Drop(k)
      BY <3>1, <3>2, <3>3 DEF Sequence!Drop, Sequence!RemoveAt, RemoveAt
    <3>6. [d \in ListItems |-> ListLocate(d)]' = Sequence!FirstPlaces(Contents')
      BY <2>2, <3>1
    <3>7. ListInv'
      BY <3>1 DEF ListInv, Chain
    <3> HIDE DEF k
    <3> QED BY <3>4, <3>5, <3>6, <3>7 DEF Sequence!Next, Sequence!FirstPlaces
  <2>6. CASE Renew
    <3>1. cells' = <<>> /\ tail' = 0 /\ head' = 0 /\ cells' \in Seq(Cell) /\ Len(cells') = 0
      BY <2>6 DEF Renew
    <3>2. Chain(cells', tail', head', <<>>)
      BY <3>1 DEF Chain
    <3>3. Listed(cells', <<>>) = <<>>
      BY NoneListed
    <3>4. /\ Contents' = <<>>
          /\ [d \in ListItems |-> ListLocate(d)]' = Sequence!FirstPlaces(Contents')
      BY <2>2, <3>1, <3>2, <3>3
    <3>5. ListInv'
      BY <3>1, <3>2 DEF ListInv, Chain
    <3> QED BY <3>1, <3>4, <3>5 DEF Sequence!Next, Sequence!Renew, Sequence!FirstPlaces
  <2>7. CASE UNCHANGED listVars
    <3>1. cells' = cells /\ tail' = tail /\ head' = head
      BY <2>7 DEF listVars
    <3>2. ListInv'
      BY <3>1 DEF ListInv, Chain
    <3>3. PICK q : Chain(cells, tail, head, q)
      BY DEF ListInv
    <3>4. Contents' = Contents /\ Len(cells') = Len(cells)
      BY <2>1, <2>2, <2>3, <3>1, <3>3
    <3>5. [d \in ListItems |-> ListLocate(d)]' = [d \in ListItems |-> ListLocate(d)]
      <4>1. [d \in ListItems |-> ListLocate(d)] = Sequence!FirstPlaces(Listed(cells, q))
        BY <2>3, <3>3, ReadersSee, Zenon
      <4>2. [d \in ListItems |-> ListLocate(d)]' = Sequence!FirstPlaces(Listed(cells', q))
        BY <2>2, <2>3, <3>1, <3>3
      <4> QED BY <3>1, <4>1, <4>2
    <3> QED BY <3>2, <3>4, <3>5 DEF Sequence!vars
  <2> QED BY <2>4, <2>5, <2>6, <2>7 DEF ListNext
<1> QED BY <1>1, <1>2, PTL DEF ListSpec, IsASequence, Sequence!Spec

----------------------------------------------------------------------------
(* The recompiler *)

\* Each core in the list was enabled once, and those are the ones held.
CoresInv ==
  /\ cores_made \in Nat /\ cores_list \in Seq(1 .. cores_made)
  /\ IsInjective(cores_list)
  /\ cores_live = Range(cores_list) /\ Len(cores_list) <= Processors

\* The blocks after the first are nested in it, in order, until the run ends.
BlocksInv ==
  /\ step \in {"idle", "compile", "cleanup"}
  /\ blocks \in Seq([nested : Seq(Nat), irs : Nat])
  /\ step = "idle" => blocks_live = {} /\ (~int_enabled => blocks = <<>>)
  /\ step # "idle" => /\ ~int_enabled /\ blocks_live = 1 .. Len(blocks)
                      /\ blocks # <<>> => blocks[1].nested = [k \in 1 .. Len(blocks) - 1 |-> k + 1]
  /\ step = "cleanup" => blocks # <<>>

RecompilerInv == ~fault /\ (step \notin {"destroyed", "crashed"} => CoresInv /\ BlocksInv)

\* An element taken out of a sequence without repetitions.
LEMMA TakenOut ==
  ASSUME NEW S, NEW s \in Seq(S), IsInjective(s), NEW i \in DOMAIN s
  PROVE  LET t == RemoveAt(s, i)
         IN  t \in Seq(S) /\ IsInjective(t) /\ Len(t) = Len(s) - 1 /\ Range(t) = Range(s) \ {s[i]}
<1> DEFINE t == RemoveAt(s, i)
           rest == [j \in 1 .. Len(s) - 1 |-> IF j < i THEN s[j] ELSE s[j + 1]]
<1>1. Len(s) \in Nat /\ i \in 1 .. Len(s) /\ DOMAIN s = 1 .. Len(s) /\ \A j \in 1 .. Len(s) : s[j] \in S
  OBVIOUS
<1>2. t = rest
  BY <1>1, RemovedAt, Zenon
<1> HIDE DEF t
<1>4. t \in Seq(S) /\ Len(t) = Len(s) - 1
  <2>1. rest \in [1 .. Len(s) - 1 -> S] /\ Len(s) - 1 \in Nat
    BY <1>1
  <2> HIDE DEF rest
  <2> QED BY <1>2, <2>1
<1>5. \A j \in 1 .. Len(t) : t[j] = s[IF j < i THEN j ELSE j + 1]
  BY <1>2, <1>4
<1> HIDE DEF rest
<1>6. DOMAIN t = 1 .. Len(s) - 1
  BY <1>4
<1>7. IsInjective(t)
  <2> SUFFICES ASSUME NEW j \in 1 .. Len(t), NEW k \in 1 .. Len(t), t[j] = t[k] PROVE j = k
    BY <1>4, <1>6, Zenon DEF IsInjective
  <2> DEFINE u == IF j < i THEN j ELSE j + 1
             v == IF k < i THEN k ELSE k + 1
  <2>1. u \in 1 .. Len(s) /\ v \in 1 .. Len(s)
    BY <1>1, <1>4
  <2>2. s[u] = s[v]
    BY <1>5
  <2>3. u = v
    BY <1>1, <2>1, <2>2 DEF IsInjective
  <2> QED BY <1>1, <1>4, <2>3
<1>8. Range(t) = Range(s) \ {s[i]}
  <2>1. ASSUME NEW j \in 1 .. Len(t) PROVE t[j] \in Range(s) \ {s[i]}
    <3> DEFINE u == IF j < i THEN j ELSE j + 1
    <3>1. u \in 1 .. Len(s) /\ u # i
      BY <1>1, <1>4
    <3>2. t[j] = s[u]
      BY <1>5
    <3> HIDE DEF u
    <3>3. s[u] # s[i]
      BY <1>1, <3>1 DEF IsInjective
    <3> QED BY <1>1, <3>1, <3>2, <3>3 DEF Range
  <2>2. ASSUME NEW k \in 1 .. Len(s), k # i PROVE s[k] \in Range(t)
    <3>1. CASE k < i
      BY <1>1, <1>4, <1>5, <1>6, <3>1 DEF Range
    <3>2. CASE k > i
      <4>1. k - 1 \in 1 .. Len(t) /\ t[k - 1] = s[k]
        BY <1>1, <1>4, <1>5, <3>2
      <4> QED BY <1>4, <1>6, <4>1 DEF Range
    <3> QED BY <1>1, <2>2, <3>1, <3>2
  <2> QED BY <1>1, <1>4, <1>6, <2>1, <2>2 DEF Range
<1> QED BY <1>4, <1>7, <1>8, Zenon DEF t

\* A new element at the end of a sequence without repetitions.
LEMMA PutBehind ==
  ASSUME NEW n \in Nat, NEW s \in Seq(1 .. n), IsInjective(s)
  PROVE  LET t == Append(s, n + 1)
         IN  /\ t \in Seq(1 .. n + 1) /\ IsInjective(t) /\ Len(t) = Len(s) + 1
             /\ Range(t) = Range(s) \cup {n + 1}
<1> DEFINE t == Append(s, n + 1)
<1>1. Len(s) \in Nat /\ DOMAIN s = 1 .. Len(s) /\ \A i \in 1 .. Len(s) : s[i] \in 1 .. n
  OBVIOUS
<1>2. s \in Seq(1 .. n + 1)
  <2>1. 1 .. n \subseteq 1 .. n + 1
    OBVIOUS
  <2> QED BY <2>1, SeqMonotonic
<1>3. t \in Seq(1 .. n + 1) /\ Len(t) = Len(s) + 1
  BY <1>2
<1>4. DOMAIN t = 1 .. Len(s) + 1
  BY <1>3
<1>5. t[Len(s) + 1] = n + 1 /\ \A i \in 1 .. Len(s) : t[i] = s[i]
  BY <1>1
<1> HIDE DEF t
<1>6. IsInjective(t)
  BY <1>1, <1>4, <1>5 DEF IsInjective
<1>7. Range(t) = Range(s) \cup {n + 1}
  BY <1>1, <1>4, <1>5 DEF Range
<1> QED BY <1>3, <1>6, <1>7 DEF t

\* Enabling a core.
LEMMA EnableKept ==
  ASSUME RecompilerInv, EnableCore
  PROVE  RecompilerInv'
<1>1. /\ step = "idle" /\ ~fault /\ CoresInv /\ BlocksInv /\ Len(cores_list) # Processors
      /\ cores_made' = cores_made + 1 /\ cores_list' = Append(cores_list, cores_made')
      /\ cores_live' = cores_live \cup {cores_made'}
      /\ UNCHANGED <<step, fault, blocks, blocks_live, int_enabled>>
  BY DEF RecompilerInv, EnableCore, SameBlocks
<1>2. /\ cores_made \in Nat /\ cores_list \in Seq(1 .. cores_made) /\ IsInjective(cores_list)
      /\ cores_live = Range(cores_list) /\ Len(cores_list) <= Processors
  BY <1>1 DEF CoresInv
<1>3. /\ cores_list' \in Seq(1 .. cores_made') /\ IsInjective(cores_list')
      /\ Len(cores_list') = Len(cores_list) + 1
      /\ Range(cores_list') = Range(cores_list) \cup {cores_made'}
  BY <1>1, <1>2, PutBehind, Zenon
<1>4. CoresInv'
  <2>1. cores_made' \in Nat /\ Len(cores_list') <= Processors
    BY <1>1, <1>2, <1>3, CountAssumption
  <2> QED BY <1>1, <1>2, <1>3, <2>1, Zenon DEF CoresInv
<1>5. BlocksInv'
  BY <1>1, Zenon DEF BlocksInv
<1> QED BY <1>1, <1>4, <1>5, Zenon DEF RecompilerInv

\* Disabling a core, which the list has once.
LEMMA DisableKept ==
  ASSUME RecompilerInv, NEW c, DisableCore(c)
  PROVE  RecompilerInv'
<1> DEFINE i == CHOOSE i \in DOMAIN cores_list : cores_list[i] = c
<1>1. /\ step = "idle" /\ ~fault /\ CoresInv /\ BlocksInv
      /\ c \in Range(cores_list) /\ cores_list' = RemoveAt(cores_list, i)
      /\ cores_live' = cores_live \ {c} /\ fault' = (fault \/ c \notin cores_live)
      /\ UNCHANGED <<step, cores_made, blocks, blocks_live, int_enabled>>
  BY Zenon DEF RecompilerInv, DisableCore, Without, RemoveAt, Range, SameBlocks
<1>2. i \in DOMAIN cores_list /\ cores_list[i] = c
  BY <1>1, Zenon DEF Range
<1> HIDE DEF i
<1>3. /\ cores_made \in Nat /\ cores_list \in Seq(1 .. cores_made) /\ IsInjective(cores_list)
      /\ cores_live = Range(cores_list) /\ Len(cores_list) <= Processors
  BY <1>1 DEF CoresInv
<1>4. /\ cores_list' \in Seq(1 .. cores_made) /\ IsInjective(cores_list')
      /\ Len(cores_list') = Len(cores_list) - 1 /\ Range(cores_list') = Range(cores_list) \ {c}
  BY <1>1, <1>2, <1>3, TakenOut, Zenon
<1>5. CoresInv' /\ ~fault'
  <2>1. Len(cores_list') <= Processors
    BY <1>3, <1>4, CountAssumption
  <2> QED BY <1>1, <1>3, <1>4, <2>1, Zenon DEF CoresInv
<1>6. BlocksInv'
  BY <1>1, Zenon DEF BlocksInv
<1> QED BY <1>1, <1>5, <1>6, Zenon DEF RecompilerInv

\* Compiling a block.
LEMMA CompileKept ==
  ASSUME RecompilerInv, Compile
  PROVE  RecompilerInv'
<1> SUFFICES ASSUME step' # "crashed" PROVE RecompilerInv'
  BY DEF RecompilerInv, Compile
<1> DEFINE n == Len(blocks) + 1
           Block == [nested : Seq(Nat), irs : Nat]
           new == [nested |-> <<>>, irs |-> Translated]
<1>1. /\ step = "compile" /\ ~fault /\ CoresInv /\ BlocksInv /\ Translated # 0
      /\ blocks' = Append(Nested(n), new)
      /\ blocks_live' = blocks_live \cup {n} /\ step' \in {"compile", "cleanup"}
      /\ UNCHANGED <<int_enabled, fault>> /\ SameCores
  BY Zenon DEF RecompilerInv, Compile
<1>2. CoresInv' /\ ~fault'
  BY <1>1 DEF CoresInv, SameCores
<1>3. /\ blocks \in Seq(Block) /\ Len(blocks) \in Nat /\ ~int_enabled /\ blocks_live = 1 .. Len(blocks)
      /\ blocks # <<>> => blocks[1].nested = [k \in 1 .. Len(blocks) - 1 |-> k + 1]
  BY <1>1 DEF BlocksInv
<1>4. /\ Nested(n) \in Seq(Block) /\ Len(Nested(n)) = Len(blocks)
      /\ blocks # <<>> => Nested(n)[1].nested = Append(blocks[1].nested, n)
  <2>1. Nested(n) = [i \in 1 .. Len(blocks) |->
                IF i = 1 THEN [blocks[i] EXCEPT !.nested = Append(@, n)] ELSE blocks[i]]
    BY <1>3 DEF Nested
  <2>2. \A i \in 1 .. Len(blocks) : blocks[i] \in Block
    BY <1>3, ElementOfSeq, Zenon
  <2>3. ASSUME NEW B \in Block
        PROVE  /\ [B EXCEPT !.nested = Append(@, n)] \in Block
               /\ [B EXCEPT !.nested = Append(@, n)].nested = Append(B.nested, n)
    <3>1. B.nested \in Seq(Nat) /\ n \in Nat
      BY <1>3
    <3> DEFINE longer == Append(B.nested, n)
    <3>2. longer \in Seq(Nat)
      BY <3>1
    <3> HIDE DEF longer
    <3>3. [B EXCEPT !.nested = longer] \in Block /\ [B EXCEPT !.nested = longer].nested = longer
      BY <3>2
    <3> QED BY <3>3, Zenon DEF longer
  <2> HIDE DEF Block
  <2>4. Nested(n) \in [1 .. Len(blocks) -> Block]
    <3>1. \A i \in 1 .. Len(blocks) :
            (IF i = 1 THEN [blocks[i] EXCEPT !.nested = Append(@, n)] ELSE blocks[i]) \in Block
      BY <2>2, <2>3, Zenon
    <3> QED BY <2>1, <3>1, Zenon
  <2>5. Nested(n) \in Seq(Block) /\ Len(Nested(n)) = Len(blocks)
    BY <1>3, <2>4
  <2>6. ASSUME blocks # <<>> PROVE Nested(n)[1].nested = Append(blocks[1].nested, n)
    <3>1. 1 \in 1 .. Len(blocks)
      BY <1>3, <2>6
    <3>2. Nested(n)[1] = [blocks[1] EXCEPT !.nested = Append(@, n)]
      BY <2>1, <3>1, Zenon
    <3> QED BY <2>2, <2>3, <3>1, <3>2, Zenon
  <2> QED BY <2>5, <2>6
<1>5. new \in Block
  BY CountAssumption DEF Translated
<1> HIDE DEF Block, new
<1>6. /\ blocks' \in Seq(Block) /\ Len(blocks') = n
      /\ \A i \in 1 .. Len(blocks) : blocks'[i] = Nested(n)[i]
      /\ blocks'[n] = new
  BY <1>1, <1>3, <1>4, <1>5
<1>7. blocks_live' = 1 .. Len(blocks')
  BY <1>1, <1>3, <1>6
<1>8. blocks'[1].nested = [k \in 1 .. Len(blocks') - 1 |-> k + 1]
  <2>1. CASE blocks = <<>>
    <3>1. n = 1 /\ blocks'[1] = new
      BY <1>6, <2>1
    <3> QED BY <1>6, <3>1 DEF new
  <2>2. CASE blocks # <<>>
    <3> DEFINE s == [k \in 1 .. Len(blocks) - 1 |-> k + 1]
    <3>1. Len(blocks) \in Nat \ {0}
      BY <1>3, <2>2
    <3>2. blocks'[1].nested = Append(s, n)
      <4>1. 1 \in 1 .. Len(blocks)
        BY <3>1
      <4> QED BY <1>3, <1>4, <1>6, <2>2, <4>1, Zenon
    <3>3. Append(s, n) = [k \in 1 .. n - 1 |-> k + 1]
      BY <3>1
    <3> QED BY <1>6, <3>2, <3>3
  <2> QED BY <2>1, <2>2
<1>9. blocks' # <<>>
  BY <1>3, <1>6
<1>10. BlocksInv'
  <2>1. step' # "idle" /\ ~int_enabled'
    BY <1>1, <1>3
  <2> QED BY <1>1, <1>6, <1>7, <1>8, <1>9, <2>1 DEF BlocksInv, Block
<1> QED BY <1>2, <1>10 DEF RecompilerInv

\* Freeing the blocks of a run.
LEMMA CleanupKept ==
  ASSUME RecompilerInv, Cleanup
  PROVE  RecompilerInv'
<1>1. /\ step = "cleanup" /\ step' = "idle" /\ ~fault /\ CoresInv /\ BlocksInv
      /\ int_enabled' = TRUE /\ blocks_live' = blocks_live \ Range(Freed(1))
      /\ fault' = (fault \/ ~IsInjective(Freed(1)) \/ ~(Range(Freed(1)) \subseteq blocks_live))
      /\ blocks' = blocks /\ SameCores
  BY Zenon DEF RecompilerInv, Cleanup, Range, IsInjective
<1> DEFINE n == Len(blocks)
           f == [k \in 1 .. n - 1 |-> k + 1] \o <<1>>
<1>2. n \in Nat \ {0} /\ blocks_live = 1 .. n /\ Freed(1) = f
  <2>1. /\ blocks # <<>> /\ blocks_live = 1 .. n
        /\ blocks[1].nested = [k \in 1 .. n - 1 |-> k + 1]
    BY <1>1 DEF BlocksInv
  <2>2. n \in Nat \ {0}
    BY <1>1, <2>1 DEF BlocksInv
  <2> QED BY <2>1, <2>2, Zenon DEF Freed
<1>3. DOMAIN f = 1 .. n /\ \A k \in 1 .. n : f[k] = IF k = n THEN 1 ELSE k + 1
  BY <1>2
<1> HIDE DEF f
<1>4. IsInjective(f)
  BY <1>2, <1>3 DEF IsInjective
<1>5. Range(f) = 1 .. n
  <2>1. \A k \in 1 .. n : f[k] \in 1 .. n
    BY <1>2, <1>3
  <2>2. ASSUME NEW m \in 1 .. n PROVE \E k \in 1 .. n : f[k] = m
    <3>1. CASE m = 1
      BY <1>2, <1>3, <3>1
    <3>2. CASE m # 1
      <4>1. m - 1 \in 1 .. n /\ f[m - 1] = m
        BY <1>2, <1>3, <3>2
      <4> QED BY <4>1
    <3> QED BY <3>1, <3>2
  <2> QED BY <1>3, <2>1, <2>2 DEF Range
<1>6. ~fault' /\ blocks_live' = {}
  BY <1>1, <1>2, <1>4, <1>5
<1>7. CoresInv'
  BY <1>1 DEF CoresInv, SameCores
<1>8. BlocksInv'
  BY <1>1, <1>6 DEF BlocksInv
<1> QED BY <1>6, <1>7, <1>8 DEF RecompilerInv

\* What is held can be reached, as RecompilerInv says of cores and blocks: 
\* the core and block lists.
THEOREM HeldCanBeReached == RecompilerSpec => []HeldIsReachable
<1>1. RecompilerInit => RecompilerInv
  <2> SUFFICES ASSUME RecompilerInit PROVE RecompilerInv
    OBVIOUS
  <2>1. CoresInv
    BY CountAssumption DEF RecompilerInit, CoresInv, IsInjective, Range
  <2>2. BlocksInv
    BY DEF RecompilerInit, BlocksInv
  <2> QED BY <2>1, <2>2 DEF RecompilerInit, RecompilerInv
<1>2. RecompilerInv /\ [RecompilerNext]_recompilerVars => RecompilerInv'
  <2> SUFFICES ASSUME RecompilerInv, [RecompilerNext]_recompilerVars PROVE RecompilerInv'
    OBVIOUS
  <2>1. CASE EnableCore
    BY <2>1, EnableKept
  <2>7. ASSUME NEW c \in 1 .. MaxCores, DisableCore(c) PROVE RecompilerInv'
    BY <2>7, DisableKept
  <2>2. CASE Destroy
    <3>1. ~fault /\ cores_live = Range(cores_list)
      BY <2>2 DEF Destroy, RecompilerInv, CoresInv
    <3>2. Taken \subseteq cores_live
      BY <3>1, Zenon DEF Taken, Range
    <3> QED BY <2>2, <3>1, <3>2 DEF Destroy, RecompilerInv
  <2>3. CASE Run
    <3>1. step = "idle" /\ step' = "compile" /\ ~fault' /\ CoresInv /\ BlocksInv
      BY <2>3 DEF RecompilerInv, Run
    <3>2. CoresInv'
      BY <2>3, <3>1 DEF CoresInv, Run, SameCores
    <3>3. BlocksInv'
      BY <2>3, <3>1 DEF BlocksInv, Run
    <3> QED BY <3>1, <3>2, <3>3 DEF RecompilerInv
  <2>4. CASE Compile
    BY <2>4, CompileKept
  <2>5. CASE Cleanup
    BY <2>5, CleanupKept
  <2>6. CASE UNCHANGED recompilerVars
    BY <2>6 DEF recompilerVars, RecompilerInv, CoresInv, BlocksInv
  <2> QED BY <2>1, <2>2, <2>3, <2>4, <2>5, <2>6, <2>7, Zenon DEF RecompilerNext
<1>3. RecompilerInv => HeldIsReachable
  <2> SUFFICES ASSUME RecompilerInv, step \notin {"destroyed", "crashed"}
               PROVE  /\ cores_live = Range(cores_list) /\ Len(cores_list) <= Processors
                      /\ blocks_live = IF step \in {"compile", "cleanup"} /\ blocks # <<>>
                                         THEN {1} \cup Range(blocks[1].nested) ELSE {}
    BY Zenon DEF HeldIsReachable, RecompilerInv, Range
  <2>1. CoresInv /\ BlocksInv
    BY DEF RecompilerInv
  <2>2. CASE step \in {"compile", "cleanup"} /\ blocks # <<>>
    <3>1. /\ Len(blocks) \in Nat \ {0} /\ blocks_live = 1 .. Len(blocks)
          /\ blocks[1].nested = [k \in 1 .. Len(blocks) - 1 |-> k + 1]
      BY <2>1, <2>2 DEF BlocksInv
    <3> DEFINE f == [k \in 1 .. Len(blocks) - 1 |-> k + 1]
    <3>2. DOMAIN f = 1 .. Len(blocks) - 1 /\ \A k \in 1 .. Len(blocks) - 1 : f[k] = k + 1
      OBVIOUS
    <3> HIDE DEF f
    <3>3. ASSUME NEW m \in 2 .. Len(blocks) PROVE m \in Range(f)
      <4>1. m - 1 \in 1 .. Len(blocks) - 1 /\ f[m - 1] = m
        BY <3>1, <3>2
      <4> QED BY <3>2, <4>1 DEF Range
    <3>5. Range(f) = 2 .. Len(blocks)
      <4>1. \A k \in 1 .. Len(blocks) - 1 : f[k] \in 2 .. Len(blocks)
        BY <3>1, <3>2
      <4> QED BY <3>2, <3>3, <4>1 DEF Range
    <3>4. {1} \cup Range(f) = 1 .. Len(blocks)
      BY <3>1, <3>5
    <3> QED BY <2>1, <2>2, <3>1, <3>4 DEF CoresInv, f
  <2>3. CASE ~(step \in {"compile", "cleanup"} /\ blocks # <<>>)
    BY <2>1, <2>3 DEF CoresInv, BlocksInv
  <2> QED BY <2>2, <2>3
<1> QED BY <1>1, <1>2, <1>3, PTL DEF RecompilerSpec
=============================================================================
