--------------------------- MODULE StarSys2Proofs ---------------------------
(***************************************************************************)
(* For every firmware, slice and number of steps the IOP of starsys2 gets  *)
(* a quarter of the cycles the EE was given, and every branch of the EE is *)
(* taken after its slot.                                                   *)
(***************************************************************************)
EXTENDS StarSys2, NumberFacts, SequenceTheorems

Devices == {"ee", "iop", "dmac", "draw"}

\* What the proof needs of the variables' types.
TypeInv ==
  /\ ee_cycles \in Nat /\ iop_cycles \in Nat /\ count \in Nat /\ steps \in Nat
  /\ iop_pc \in Int
  /\ todo \in Seq(Devices)

\* What the IOP has been given, used or not, is a quarter of what the EE has been given,
\* each step's rounded down.
Balance == count - 4 * (iop_pc + iop_cycles - Boot) \in 0 .. 3 * steps

\* An IOP with cycles is running or will run before the step ends.
IopPending ==
  iop_cycles # 0 => running = "iop" \/ \E k \in DOMAIN todo : todo[k] = "iop"

IInv == TypeInv /\ Balance /\ IopPending

\* The firmware's address is a number.
LEMMA BootIsNat == Boot \in Nat
BY SizeAssumption DEF Boot

\* A turn of ee_run takes at least one of the EE's cycles, or ends the process, and gives
\* none to anyone.
LEMMA TurnsOnlySpend ==
  ASSUME TypeInv, NEW i, Execute(i)
  PROVE  /\ ee_cycles' \in Nat
         /\ UNCHANGED <<iop_cycles, count, iop_pc, running, todo, steps>>
<1>1. ASSUME NEW j, Turn(j)
      PROVE  /\ ee_cycles - 1 \in Nat /\ SkipCycles - 1 \in Nat
             /\ UNCHANGED <<iop_cycles, count, iop_pc, running, todo, steps>>
  BY <1>1 DEF Turn, TypeInv, SkipCycles
<1>2. CASE Compute(i)
  BY <1>1, <1>2 DEF Compute
<1>3. CASE Skip(i)
  BY <1>1, <1>3 DEF Skip
<1>4. CASE Branch(i)
  BY <1>1, <1>4 DEF Branch
<1>5. CASE JumpRegister(i)
  BY <1>1, <1>5 DEF JumpRegister
<1>6. CASE Sync(i)
  BY <1>1, <1>6 DEF Sync
<1>7. CASE Special(i)
  BY <1>1, <1>7 DEF Special
<1>8. CASE Store(i)
  BY <1>1, <1>8 DEF Store
<1>9. CASE MoveToCop0(i)
  BY <1>1, <1>9 DEF MoveToCop0
<1>10. CASE Illegal(i)
  BY <1>1, <1>10 DEF Illegal, TypeInv
<1> QED
  BY <1>2, <1>3, <1>4, <1>5, <1>6, <1>7, <1>8, <1>9, <1>10 DEF Execute

\* A fourth, rounded down, is short by at most three.
LEMMA FourthIsShort ==
  ASSUME NEW n \in Nat
  PROVE  n \div 4 \in Nat /\ n - 4 * (n \div 4) \in 0 .. 3
OBVIOUS

\* A step of the schedule begins: the IOP has nothing left, and gets its share.
LEMMA BeginKeeps ==
  ASSUME IInv, Begin
  PROVE  IInv'
<1> DEFINE given == ee_cycles + Slice
<1>1. /\ given \in Nat /\ count \in Nat /\ iop_pc \in Int /\ steps \in Nat /\ Boot \in Nat
  BY SizeAssumption, BootIsNat DEF IInv, TypeInv
<1>2. /\ ee_cycles' = given /\ iop_cycles' = given \div 4 /\ count' = count + given
      /\ todo' = <<"ee", "iop", "dmac", "draw">> /\ steps' = steps + 1 /\ iop_pc' = iop_pc
      /\ running = "none" /\ todo = <<>>
  BY DEF Begin, IopShare
<1> HIDE DEF given
<1>3. given \div 4 \in Nat /\ given - 4 * (given \div 4) \in 0 .. 3
  BY <1>1, FourthIsShort
<1>4. iop_cycles = 0
  BY <1>2 DEF IInv, IopPending
<1>5. TypeInv'
  BY <1>1, <1>2, <1>3 DEF TypeInv, Devices
<1>6. Balance'
  <2>1. count - 4 * (iop_pc - Boot) \in 0 .. 3 * steps
    BY <1>1, <1>4 DEF IInv, Balance
  <2>2. Boot' = Boot
    BY DEF Boot
  <2> QED BY <1>1, <1>2, <1>3, <2>1, <2>2 DEF Balance
<1>7. IopPending'
  <2>1. 2 \in DOMAIN todo' /\ todo'[2] = "iop"
    BY <1>2
  <2> QED BY <2>1 DEF IopPending
<1> QED BY <1>5, <1>6, <1>7 DEF IInv

\* A device is called: if it is the IOP, it is now running.
LEMMA CallKeeps ==
  ASSUME IInv, Call
  PROVE  IInv'
<1>1. /\ running = "none" /\ todo # <<>> /\ todo \in Seq(Devices)
      /\ running' = Head(todo) /\ todo' = Tail(todo)
      /\ UNCHANGED <<ee_cycles, iop_cycles, count, iop_pc, steps>>
  BY DEF Call, IInv, TypeInv
<1>2. TypeInv'
  BY <1>1 DEF IInv, TypeInv
<1>3. Balance'
  BY <1>1 DEF IInv, Balance, Boot
<1>4. IopPending'
  <2> SUFFICES ASSUME iop_cycles' # 0
               PROVE  running' = "iop" \/ \E k \in DOMAIN todo' : todo'[k] = "iop"
    BY DEF IopPending
  <2>1. PICK k \in DOMAIN todo : todo[k] = "iop"
    BY <1>1 DEF IInv, IopPending
  <2>2. CASE k = 1
    BY <1>1, <2>1, <2>2
  <2>3. CASE k # 1
    <3>1. k - 1 \in DOMAIN Tail(todo) /\ Tail(todo)[k - 1] = todo[k]
      BY <1>1, <2>1, <2>3
    <3> QED BY <1>1, <2>1, <3>1
  <2> QED BY <2>2, <2>3
<1> QED BY <1>2, <1>3, <1>4 DEF IInv

\* The draws choose devices only when the IOP has nothing left.
LEMMA DrawKeeps ==
  ASSUME IInv, Draw
  PROVE  IInv'
<1>1. PICK out : todo' = Once("ee", out) \o Once("iop", out) \o Once("dmac", out)
  BY DEF Draw
<1>2. /\ running = "none" /\ todo = <<"draw">>
      /\ UNCHANGED <<ee_cycles, iop_cycles, count, iop_pc, steps>>
  BY DEF Draw
<1>3. todo' \in Seq(Devices)
  <2>1. Once("ee", out) \in Seq(Devices) /\ Once("iop", out) \in Seq(Devices)
        /\ Once("dmac", out) \in Seq(Devices)
    <3>1. ASSUME NEW device \in Devices PROVE Once(device, out) \in Seq(Devices)
      <4>1. <<device>> \in Seq(Devices) /\ <<>> \in Seq(Devices)
        OBVIOUS
      <4> QED BY <4>1 DEF Once
    <3> QED BY <3>1 DEF Devices
  <2> QED BY <1>1, <2>1, ConcatProperties
<1>4. iop_cycles = 0
  <2>1. \A k \in DOMAIN todo : todo[k] # "iop"
    BY <1>2
  <2> QED BY <1>2, <2>1 DEF IInv, IopPending
<1> QED BY <1>2, <1>3, <1>4 DEF IInv, TypeInv, Balance, IopPending, Boot

\* The invariant holds at every step of the schedule.
THEOREM InvariantHolds == Spec => []IInv
<1>1. Init => IInv
  <2> SUFFICES ASSUME Init PROVE IInv
    OBVIOUS
  <2>1. TypeInv
    BY BootIsNat DEF Init, TypeInv
  <2>2. Balance
    BY BootIsNat DEF Init, Balance
  <2> QED BY <2>1, <2>2 DEF Init, IInv, IopPending
<1>2. IInv /\ [Next]_vars => IInv'
  <2> SUFFICES ASSUME IInv, [Next]_vars PROVE IInv'
    OBVIOUS
  <2>1. CASE Begin
    BY <2>1, BeginKeeps
  <2>2. CASE Call
    BY <2>2, CallKeeps
  <2>3. CASE Execute(Read(pc))
    BY <2>3, TurnsOnlySpend DEF IInv, TypeInv, Balance, IopPending, Boot
  <2>4. CASE EeReturns
    BY <2>4 DEF EeReturns, Return, IInv, TypeInv, Balance, IopPending, Boot
  <2>5. CASE IopRuns
    <3>1. iop_pc' = iop_pc + iop_cycles /\ iop_cycles' = 0
          /\ UNCHANGED <<ee_cycles, count, todo, steps>>
      BY <2>5 DEF IopRuns
    <3>2. iop_pc \in Int /\ iop_cycles \in Nat
      BY DEF IInv, TypeInv
    <3>3. Balance'
      <4>1. Boot' = Boot
        BY DEF Boot
      <4>2. Boot \in Nat /\ count \in Nat /\ steps \in Nat
        BY BootIsNat DEF IInv, TypeInv
      <4> QED BY <3>1, <3>2, <4>1, <4>2 DEF IInv, Balance
    <3>4. TypeInv'
      BY <3>1, <3>2 DEF IInv, TypeInv
    <3>5. IopPending'
      BY <3>1 DEF IopPending
    <3> QED BY <3>3, <3>4, <3>5 DEF IInv
  <2>6. CASE DmacRuns
    BY <2>6 DEF DmacRuns, Return, IInv, TypeInv, Balance, IopPending, Boot
  <2>7. CASE Draw
    BY <2>7, DrawKeeps
  <2>8. CASE UNCHANGED vars
    BY <2>8 DEF vars, ee, IInv, TypeInv, Balance, IopPending, Boot
  <2> QED BY <2>1, <2>2, <2>3, <2>4, <2>5, <2>6, <2>7, <2>8 DEF Next, InStep
<1> QED BY <1>1, <1>2, PTL DEF Spec

----------------------------------------------------------------------------
(* The EE: what it has in its registers, and that one that stops is not at the boot *)
(* address, where it would start again with the cycles it has left.                 *)

\* What the proof needs of the types of the EE's variables.
EeTypes ==
  /\ pc \in Addresses /\ next_pc \in Addresses /\ reg \in Addresses
  /\ cop0 \in [config : Addresses, other : Addresses]
  /\ Loaded(memory)

\* The EE comes to the boot address from the word before it, or by a jump that is taken
\* at once, and does not stop there; and to address 0, which counts as no target, by no
\* branch.
NotAtBoot ==
  /\ next_pc = Boot => pc = Boot - 1
  /\ isinint => pc # Boot
  /\ next_pc = 0 => After(pc) = 0

\* As long as the EE has not stopped it spends each slice, and the IOP has its quarter.
Exact ==
  ~isinint /\ ~ended =>
    /\ count = Slice * steps
    /\ 4 * (iop_pc + iop_cycles - Boot) = count
    /\ ee_cycles # 0 => running = "ee" \/ \E k \in DOMAIN todo : todo[k] = "ee"

\* The inductive invariant of the EE, next to that of the schedule.
EeInv == EeTypes /\ NotAtBoot /\ Exact

\* Addresses are numbers, and Boot is one of them.
LEMMA AddressesAre ==
  /\ Modulus \in Nat \ {0} /\ Addresses \subseteq Nat
  /\ 0 \in Addresses /\ 1 \in Addresses /\ Boot \in Addresses \ {0}
  /\ \A n \in Nat : n < Modulus <=> n \in Addresses
  /\ Boot' = Boot /\ Modulus' = Modulus /\ Addresses' = Addresses
BY SizeAssumption DEF Modulus, Addresses, Boot

\* The address after the last one is 0.
LEMMA AfterIs ==
  ASSUME NEW a \in Addresses
  PROVE  /\ After(a) \in Addresses
         /\ a + 1 < Modulus => After(a) = a + 1
         /\ a + 1 >= Modulus => After(a) = 0
<1>1. Modulus \in Nat \ {0} /\ a \in 0 .. Modulus - 1
  BY AddressesAre DEF Addresses
<1>2. CASE a + 1 < Modulus
  <2>1. (a + 1) % Modulus = a + 1
    BY <1>1, <1>2, SmallRemainder
  <2> QED BY <1>1, <1>2, <2>1 DEF After, Addresses
<1>3. CASE a + 1 >= Modulus
  <2>1. a + 1 = Modulus
    BY <1>1, <1>3
  <2>2. Modulus % Modulus = 0
    BY <1>1
  <2> QED BY <1>1, <1>3, <2>1, <2>2 DEF After, Addresses
<1> QED BY <1>1, <1>2, <1>3

\* The word before the boot address is not firmware, and no branch from firmware ends there,
\* or beyond the last address: the mirrors of the firmware below it are too far off for a
\* branch's offset.
LEMMA BootIsFarOff ==
  ASSUME NEW a \in Nat, IsFirmware(Physical(a))
  PROVE  /\ a # Boot - 1
         /\ \A n \in 0 .. Span - 1 : a + 1 + n # Boot /\ a + 1 + n < Modulus
<1> DEFINE u == a \div Span
           r == a % Span
           v == u \div 128
           x == u % 128
<1>0. Span \in Nat \ {0}
  BY SizeAssumption
<1>1. u \in Nat /\ r \in 0 .. Span - 1 /\ a = u * Span + r
  BY <1>0, Division
<1> HIDE DEF u, r
<1>2. u < 512 \/ u \in 639 .. 767
  <2> SUFFICES ASSUME ~(u < 512 \/ u \in 639 .. 767) PROVE FALSE
    OBVIOUS
  <2>1. Physical(a) = a
    BY DEF Physical, u
  <2>2. u = 127
    BY <2>1 DEF IsFirmware, u
  <2> QED BY <2>2
<1>3. v \in Nat /\ x \in 0 .. 127 /\ u = v * 128 + x
  BY <1>1
<1> HIDE DEF v, x
<1>4. Physical(a) = a % Low
  BY <1>2 DEF Physical, u
<1>5. x = 127
  <2> DEFINE y == x * Span + r
  <2>1. x * Span \in Nat /\ x * Span <= 127 * Span
    BY <1>0, <1>3, Products
  <2>2. Low = 128 * Span /\ Low \in Nat \ {0} /\ y \in 0 .. Low - 1
    BY <1>0, <1>1, <2>1 DEF Low
  <2>3. a = v * Low + y
    <3>2. u * Span = (v * 128) * Span + x * Span
      BY <1>0, <1>3
    <3>3. (v * 128) * Span = v * (128 * Span)
      BY <1>0, <1>3
    <3>1. u * Span = v * (128 * Span) + x * Span
      BY <3>2, <3>3
    <3>4. v * (128 * Span) \in Nat /\ r \in Nat
      BY <1>0, <1>1, <1>3
    <3> HIDE DEF y
    <3>5. a = v * (128 * Span) + (x * Span + r)
      BY <1>1, <2>1, <3>1, <3>4
    <3> QED BY <2>2, <3>5 DEF y
  <2>4. y \div Span = x
    BY <1>0, <1>1, <1>3, QuotientIsUnique
  <2> HIDE DEF y
  <2>5. a % Low = y
    BY <1>3, <2>2, <2>3, RemainderIsUnique
  <2> QED BY <1>4, <2>4, <2>5 DEF IsFirmware
<1>6. u <= 639 \/ u = 767
  BY <1>2, <1>3, <1>5
<1>7. CASE u = 767
  BY <1>0, <1>1, <1>7 DEF Boot, Modulus
<1>8. CASE u <= 639
  <2>1. u * Span \in Nat /\ u * Span <= 639 * Span
    BY <1>0, <1>1, <1>8, Products
  <2> QED BY <1>0, <1>1, <2>1 DEF Boot, Modulus
<1> QED BY <1>6, <1>7, <1>8

\* What ee_run reads is an instruction, and one that is no nop is firmware.
LEMMA ReadIsDecoded ==
  ASSUME EeTypes
  PROVE  Decoded(Read(pc)) /\ (Read(pc).op # "nop" => IsFirmware(Physical(pc)))
<1>1. pc % Span \in 0 .. Span - 1
  BY SizeAssumption, AddressesAre DEF EeTypes
<1>2. CASE IsFirmware(Physical(pc))
  BY <1>1, <1>2 DEF Read, EeTypes, Loaded
<1>3. CASE ~IsFirmware(Physical(pc))
  BY <1>3 DEF Read, Nop, Decoded
<1> QED BY <1>2, <1>3

\* setpc after an instruction that is no branch.
LEMMA SetPcGoesOn ==
  ASSUME pc \in Addresses, NEW n \in Addresses, SetPc(n, 0)
  PROVE  /\ pc' \in Addresses /\ next_pc' = After(pc') /\ next_pc' \in Addresses
         /\ n # 0 => pc' = n
         /\ n = 0 => pc' = After(pc)
<1>1. pc' = (IF n # 0 THEN n ELSE After(pc)) /\ next_pc' = After(pc')
  BY DEF SetPc
<1>2. After(pc) \in Addresses
  BY AfterIs
<1>3. pc' \in Addresses
  BY <1>1, <1>2
<1>4. After(pc') \in Addresses
  BY <1>3, AfterIs
<1> QED BY <1>1, <1>3, <1>4

\* What an instruction that is no store leaves of the EE's types.
LEMMA TypesStay ==
  ASSUME EeTypes, pc' \in Addresses, next_pc' \in Addresses, reg' \in Addresses,
         cop0' \in [config : Addresses, other : Addresses], memory' = memory
  PROVE  EeTypes'
<1>1. Addresses' = Addresses
  BY DEF Addresses, Modulus
<1> QED BY <1>1 DEF EeTypes, Loaded, Decoded

\* A store changes words of the firmware, if any, to words it may make of them.
LEMMA StoredIn ==
  ASSUME NEW writes, Stored(writes)
  PROVE  \E hit : \E w \in [hit -> Words] :
           memory' = [a \in DOMAIN memory |-> IF a \in hit THEN w[a] ELSE memory[a]]
BY Zenon DEF Stored

\* An EE that nobody runs keeps what it has.
LEMMA EeStays ==
  ASSUME EeTypes, NotAtBoot, UNCHANGED <<memory, pc, next_pc, reg, cop0>>, isinint' => isinint
  PROVE  EeTypes' /\ NotAtBoot'
<1>1. EeTypes'
  BY TypesStay DEF EeTypes
<1>2. Boot' = Boot /\ After(pc)' = After(pc)
  BY DEF Boot, After, Modulus
<1>3. /\ next_pc' = Boot => pc' = Boot - 1
      /\ isinint' => pc' # Boot
      /\ next_pc' = 0 => After(pc) = 0
  BY DEF NotAtBoot
<1>4. NotAtBoot'
  BY <1>2, <1>3, Zenon DEF NotAtBoot
<1> QED BY <1>1, <1>4

\* Every turn of ee_run keeps the types, and does not stop at the boot address.
LEMMA TurnKeepsEe ==
  ASSUME EeTypes, NotAtBoot, Execute(Read(pc))
  PROVE  EeTypes' /\ NotAtBoot'
<1> DEFINE i == Read(pc)
<1>1. /\ pc \in Addresses /\ next_pc \in Addresses /\ reg \in Addresses /\ pc \in Nat
      /\ cop0 \in [config : Addresses, other : Addresses] /\ Loaded(memory)
      /\ Prid \in Addresses /\ Span \in Nat \ {0}
  BY AddressesAre, SizeAssumption DEF EeTypes
<1>2. Decoded(i) /\ (i.op # "nop" => IsFirmware(Physical(pc)))
  BY ReadIsDecoded
<1>3. i.op # "nop" => pc # Boot - 1 /\ \A n \in 0 .. Span - 1 : pc + 1 + n # Boot /\ pc + 1 + n < Modulus
  BY <1>1, <1>2, BootIsFarOff
<1> HIDE DEF i
<1>4. ASSUME NEW n \in Addresses, SetPc(n, 0), isinint' => pc' # Boot
      PROVE  pc' \in Addresses /\ next_pc' \in Addresses /\ NotAtBoot'
  <2>1. pc' \in Addresses /\ next_pc' = After(pc') /\ next_pc' \in Addresses
    BY <1>1, <1>4, SetPcGoesOn
  <2>2. next_pc' = Boot => pc' = Boot - 1
    <3> SUFFICES ASSUME next_pc' = Boot PROVE pc' = Boot - 1
      OBVIOUS
    <3> DEFINE x == pc'
    <3>1. x \in Addresses /\ After(x) = Boot
      BY <2>1
    <3> HIDE DEF x
    <3>2. /\ x + 1 < Modulus => After(x) = x + 1
          /\ x + 1 >= Modulus => After(x) = 0
      BY <3>1, AfterIs
    <3>3. x \in Nat /\ Boot \in Nat /\ Boot # 0 /\ Modulus \in Nat
      BY <3>1, AddressesAre
    <3>4. x = Boot - 1
      BY <3>1, <3>2, <3>3
    <3> QED BY <3>4 DEF x
  <2>3. /\ next_pc' = Boot => pc' = Boot - 1
        /\ isinint' => pc' # Boot
        /\ next_pc' = 0 => After(pc') = 0
    BY <1>4, <2>1, <2>2, Zenon
  <2>4. Boot' = Boot /\ After(pc)' = After(pc')
    BY DEF Boot, After, Modulus
  <2> QED BY <2>1, <2>3, <2>4, Zenon DEF NotAtBoot
<1>5. ASSUME NEW n \in Addresses, SetPc(n, 0), Turn(i), isinint' = isinint
      PROVE  pc' \in Addresses /\ next_pc' \in Addresses /\ NotAtBoot'
  BY <1>4, <1>5 DEF Turn
<1>6. CASE Compute(i)
  <2>1. Value(i) \in Addresses
    <3>1. i.op \in {"lui", "add", "slti", "mfc0"}
      BY <1>6 DEF Compute
    <3>2. CASE i.op = "lui"
      BY <1>2, <3>2 DEF Value, Decoded
    <3>3. CASE i.op = "add"
      <4>1. i.imm \in Int
        BY <1>2, <3>3 DEF Decoded
      <4>2. (reg + i.imm) % Modulus \in Addresses
        BY <1>1, <4>1, AddressesAre DEF Addresses
      <4> QED BY <3>3, <4>2 DEF Value
    <3>4. CASE i.op = "slti"
      BY <3>4, AddressesAre DEF Value
    <3>5. CASE i.op = "mfc0"
      BY <1>1, <3>5, AddressesAre DEF Value
    <3> QED BY <3>1, <3>2, <3>3, <3>4, <3>5
  <2>2. /\ reg' = Value(i) /\ SetPc(next_pc, 0) /\ Turn(i) /\ memory' = memory /\ cop0' = cop0
        /\ isinint' = isinint
    BY <1>6 DEF Compute
  <2>3. pc' \in Addresses /\ next_pc' \in Addresses /\ NotAtBoot'
    BY <1>1, <1>5, <2>2
  <2> QED BY <1>1, <2>1, <2>2, <2>3, TypesStay
<1>7. CASE Skip(i)
  <2>2. /\ reg' = reg /\ SetPc(next_pc, 0) /\ Turn(i) /\ memory' = memory /\ cop0' = cop0
        /\ isinint' = isinint
    BY <1>7 DEF Skip
  <2>3. pc' \in Addresses /\ next_pc' \in Addresses /\ NotAtBoot'
    BY <1>1, <1>5, <2>2
  <2> QED BY <1>1, <2>2, <2>3, TypesStay
<1>8. CASE Branch(i)
  <2>1. /\ Turn(i) /\ i.op = "bne" /\ reg' = reg /\ memory' = memory /\ cop0' = cop0
        /\ isinint' = isinint /\ ~isinint
        /\ \/ SetPc(Target(i), After(pc))
           \/ SetPc(next_pc, 0)
    BY <1>8 DEF Branch, Turn
  <2>2. CASE SetPc(Target(i), After(pc))
    <3>1. i.offset \in 0 .. Span - 1 /\ i.offset \in Nat
      BY <1>1, <1>2, <2>1 DEF Decoded
    <3>2. pc + 1 + i.offset # Boot /\ pc + 1 + i.offset < Modulus
      BY <1>3, <2>1, <3>1
    <3>3. Target(i) = pc + 1 + i.offset /\ Target(i) \in Addresses /\ Target(i) # 0
      <4> DEFINE x == pc + 1 + i.offset
      <4>1. x \in Nat /\ x # 0 /\ x < Modulus /\ Modulus \in Nat \ {0}
        BY <1>1, <3>1, <3>2, AddressesAre
      <4> HIDE DEF x
      <4>2. x \in 0 .. Modulus - 1
        BY <4>1
      <4>3. x % Modulus = x
        BY <4>1, <4>2, SmallRemainder
      <4> QED BY <4>1, <4>2, <4>3 DEF Target, Addresses, x
    <3>4. After(pc) = pc + 1 /\ After(pc) \in Addresses /\ After(pc) # 0
      <4>1. pc + 1 < Modulus
        BY <1>1, <3>1, <3>2, AddressesAre
      <4> QED BY <1>1, <4>1, AfterIs
    <3>5. pc' = After(pc) /\ next_pc' = Target(i)
      BY <2>2, <3>4 DEF SetPc
    <3>6. pc' \in Addresses /\ next_pc' \in Addresses /\ next_pc' # Boot /\ next_pc' # 0 /\ ~isinint'
      BY <2>1, <3>2, <3>3, <3>4, <3>5
    <3>7. NotAtBoot'
      <4>1. Boot' = Boot
        BY DEF Boot
      <4> QED BY <3>6, <4>1 DEF NotAtBoot
    <3> QED BY <1>1, <2>1, <3>6, <3>7, TypesStay
  <2>3. CASE SetPc(next_pc, 0)
    <3>1. pc' \in Addresses /\ next_pc' \in Addresses /\ NotAtBoot'
      BY <1>1, <1>5, <2>1, <2>3
    <3> QED BY <1>1, <2>1, <3>1, TypesStay
  <2> QED BY <2>1, <2>2, <2>3
<1>9. CASE JumpRegister(i)
  <2>1. /\ reg' = (IF i.op = "jalr" THEN After(After(pc)) ELSE reg) /\ SetPc(reg', 0) /\ Turn(i)
        /\ memory' = memory /\ cop0' = cop0 /\ isinint' = isinint
    BY <1>9 DEF JumpRegister
  <2>2. reg' \in Addresses
    <3>1. After(pc) \in Addresses
      BY <1>1, AfterIs
    <3>2. After(After(pc)) \in Addresses
      BY <3>1, AfterIs
    <3> QED BY <1>1, <2>1, <3>2
  <2>3. pc' \in Addresses /\ next_pc' \in Addresses /\ NotAtBoot'
    BY <1>5, <2>1, <2>2
  <2> QED BY <2>1, <2>2, <2>3, <1>1, TypesStay
<1>10. CASE Sync(i)
  <2>2. /\ reg' = reg /\ SetPc(next_pc, 0) /\ Turn(i) /\ memory' = memory /\ cop0' = cop0
        /\ isinint' = isinint
    BY <1>10 DEF Sync
  <2>3. pc' \in Addresses /\ next_pc' \in Addresses /\ NotAtBoot'
    BY <1>1, <1>5, <2>2
  <2> QED BY <1>1, <2>2, <2>3, TypesStay
<1>11. CASE Special(i)
  <2>2. /\ reg' = reg /\ SetPc(next_pc, 0) /\ memory' = memory /\ cop0' = cop0 /\ i.op = "special"
    BY <1>11 DEF Special
  <2>3. (next_pc # 0 => pc' = next_pc) /\ (next_pc = 0 => pc' = After(pc))
    BY <1>1, <2>2, SetPcGoesOn
  <2>4. pc' # Boot
    <3>1. CASE next_pc # 0
      BY <1>3, <2>2, <2>3, <3>1 DEF NotAtBoot
    <3>2. CASE next_pc = 0
      BY <2>3, <3>2, AddressesAre DEF NotAtBoot
    <3> QED BY <3>1, <3>2
  <2>5. pc' \in Addresses /\ next_pc' \in Addresses /\ NotAtBoot'
    BY <1>1, <1>4, <2>2, <2>4
  <2> QED BY <1>1, <2>2, <2>5, TypesStay
<1>12. CASE Store(i)
  <2>1. /\ reg' = reg /\ SetPc(next_pc, 0) /\ Turn(i) /\ cop0' = cop0 /\ isinint' = isinint
    BY <1>12 DEF Store
  <2>5. PICK hit : \E w \in [hit -> Words] :
          memory' = [a \in DOMAIN memory |-> IF a \in hit THEN w[a] ELSE memory[a]]
    BY <1>12, StoredIn DEF Store
  <2>2. PICK w \in [hit -> Words] :
          memory' = [a \in DOMAIN memory |-> IF a \in hit THEN w[a] ELSE memory[a]]
    BY <2>5
  <2>3. Loaded(memory')
    <3>1. DOMAIN memory' = 0 .. Span - 1
      BY <1>1, <2>2 DEF Loaded
    <3>2. ASSUME NEW a \in 0 .. Span - 1 PROVE Decoded(memory'[a])
      <4>1. memory'[a] = IF a \in hit THEN w[a] ELSE memory[a]
        BY <1>1, <2>2 DEF Loaded
      <4>2. CASE a \in hit
        BY <2>2, <4>1, <4>2, FirmwareAssumption
      <4>3. CASE a \notin hit
        BY <1>1, <4>1, <4>3 DEF Loaded
      <4> QED BY <4>2, <4>3
    <3> QED BY <3>1, <3>2 DEF Loaded
  <2>4. pc' \in Addresses /\ next_pc' \in Addresses /\ NotAtBoot'
    BY <1>1, <1>5, <2>1
  <2>6. Addresses' = Addresses /\ (Loaded(memory))' = Loaded(memory')
    BY DEF Addresses, Modulus, Loaded, Decoded
  <2> QED BY <1>1, <2>1, <2>3, <2>4, <2>6 DEF EeTypes
<1>13. CASE MoveToCop0(i)
  <2>2. /\ reg' = reg /\ SetPc(next_pc, 0) /\ Turn(i) /\ memory' = memory
        /\ cop0' = [cop0 EXCEPT ![i.to] = reg] /\ isinint' = isinint
    BY <1>13 DEF MoveToCop0
  <2>3. pc' \in Addresses /\ next_pc' \in Addresses /\ NotAtBoot'
    BY <1>1, <1>5, <2>2
  <2>4. cop0' \in [config : Addresses, other : Addresses]
    BY <1>1, <2>2
  <2> QED BY <1>1, <2>2, <2>3, <2>4, TypesStay
<1>14. CASE Illegal(i)
  BY <1>14, EeStays DEF Illegal, ee
<1> QED
  BY <1>6, <1>7, <1>8, <1>9, <1>10, <1>11, <1>12, <1>13, <1>14 DEF Execute, i

\* Only an EE that is running and has not stopped executes.
LEMMA ExecuteIsTurn ==
  ASSUME NEW i, Execute(i)
  PROVE  running = "ee" /\ ~isinint /\ ~ended
BY DEF Execute, Compute, Skip, Branch, JumpRegister, Sync, Special, Store, MoveToCop0, Illegal, Turn

\* A step of the schedule begins with an EE that has no cycles left, or has stopped.
LEMMA BeginKeepsExact ==
  ASSUME IInv, EeInv, Begin
  PROVE  Exact'
<1> SUFFICES ASSUME ~isinint', ~ended'
             PROVE  /\ count' = Slice * steps'
                    /\ 4 * (iop_pc' + iop_cycles' - Boot) = count'
                    /\ ee_cycles' # 0 => running' = "ee" \/ \E k \in DOMAIN todo' : todo'[k] = "ee"
  <2>1. Boot' = Boot /\ Slice' = Slice
    BY DEF Boot
  <2> QED BY <2>1, Zenon DEF Exact
<1>1. /\ ~isinint /\ ~ended /\ running = "none" /\ todo = <<>>
      /\ ee_cycles' = ee_cycles + Slice /\ iop_cycles' = (ee_cycles + Slice) \div 4
      /\ count' = count + ee_cycles' /\ steps' = steps + 1 /\ iop_pc' = iop_pc
      /\ todo' = <<"ee", "iop", "dmac", "draw">>
  BY DEF Begin, IopShare, ee
<1>2. iop_cycles = 0 /\ ee_cycles = 0 /\ count = Slice * steps
      /\ 4 * (iop_pc + iop_cycles - Boot) = count
  BY <1>1 DEF IInv, IopPending, EeInv, Exact
<1>3. Slice \in Nat /\ steps \in Nat /\ Boot \in Nat /\ iop_pc \in Int /\ count \in Nat
  BY SizeAssumption, BootIsNat DEF IInv, TypeInv
<1>4. Slice \div 4 \in Nat /\ 4 * (Slice \div 4) = Slice
  <2>1. Slice \in Nat /\ Slice % 4 = 0
    BY SizeAssumption
  <2> QED BY <2>1
<1>5. ee_cycles' = Slice /\ iop_cycles' = Slice \div 4 /\ count' = count + Slice
  BY <1>1, <1>2, <1>3
<1>6. count' = Slice * steps'
  <2>1. Slice * (steps + 1) = Slice * steps + Slice
    BY <1>3
  <2> QED BY <1>1, <1>2, <1>5, <2>1
<1>7. 4 * (iop_pc' + iop_cycles' - Boot) = count'
  BY <1>1, <1>2, <1>3, <1>4, <1>5
<1>8. 1 \in DOMAIN todo' /\ todo'[1] = "ee"
  BY <1>1
<1> QED BY <1>6, <1>7, <1>8

\* The EE is called: it is running now, if it was among those to come.
LEMMA CallKeepsExact ==
  ASSUME IInv, EeInv, Call
  PROVE  EeTypes' /\ NotAtBoot' /\ Exact'
<1>1. /\ running = "none" /\ todo # <<>> /\ todo \in Seq(Devices)
      /\ running' = Head(todo) /\ todo' = Tail(todo)
      /\ UNCHANGED <<memory, pc, next_pc, reg, cop0, ee_cycles, iop_cycles, count, iop_pc, steps, ended>>
  BY DEF Call, IInv, TypeInv
<1>2. isinint' => isinint
  BY DEF Call, StillInInterrupt
<1>3. ~isinint' => ~isinint
  BY DEF Call, StillInInterrupt, EeInv, NotAtBoot
<1>4. EeTypes' /\ NotAtBoot'
  BY <1>1, <1>2, EeStays DEF EeInv
<1>5. ASSUME ee_cycles # 0, ~isinint, ~ended
      PROVE  running' = "ee" \/ \E k \in DOMAIN todo' : todo'[k] = "ee"
  <2>1. PICK k \in DOMAIN todo : todo[k] = "ee"
    BY <1>1, <1>5 DEF EeInv, Exact
  <2>2. CASE k = 1
    BY <1>1, <2>1, <2>2
  <2>3. CASE k # 1
    <3>1. k - 1 \in DOMAIN Tail(todo) /\ Tail(todo)[k - 1] = todo[k]
      BY <1>1, <2>1, <2>3
    <3> QED BY <1>1, <2>1, <3>1
  <2> QED BY <2>2, <2>3
<1>6. Exact'
  BY <1>1, <1>3, <1>5 DEF EeInv, Exact, Boot
<1> QED BY <1>4, <1>6

\* As long as the EE runs its turns are counted, and what it stops with is not.
THEOREM EeInvariantHolds == Spec => []EeInv
<1>1. Init => EeInv
  <2> SUFFICES ASSUME Init PROVE EeInv
    OBVIOUS
  <2>1. Boot \in Nat /\ Slice \in Nat
    BY BootIsNat, SizeAssumption
  <2>2. EeTypes
    <3>1. Boot + 1 \in Addresses
      BY SizeAssumption DEF Boot, Addresses, Modulus
    <3> QED BY <3>1, AddressesAre, FirmwareAssumption DEF Init, EeTypes
  <2>3. NotAtBoot
    BY <2>1 DEF Init, NotAtBoot
  <2>4. Exact
    BY <2>1 DEF Init, Exact
  <2> QED BY <2>2, <2>3, <2>4 DEF EeInv
<1>2. IInv /\ EeInv /\ [Next]_vars => EeInv'
  <2> SUFFICES ASSUME IInv, EeInv, [Next]_vars PROVE EeInv'
    OBVIOUS
  <2>1. CASE Begin
    <3>1. UNCHANGED <<memory, pc, next_pc, reg, cop0, isinint>>
      BY <2>1 DEF Begin, ee
    <3> QED BY <2>1, <3>1, BeginKeepsExact, EeStays DEF EeInv
  <2>2. CASE Call
    BY <2>2, CallKeepsExact DEF EeInv
  <2>3. CASE Execute(Read(pc))
    <3>1. EeTypes' /\ NotAtBoot'
      BY <2>3, TurnKeepsEe DEF EeInv
    <3>2. running = "ee" /\ ~isinint /\ ~ended
      BY <2>3, ExecuteIsTurn
    <3>3. UNCHANGED <<iop_cycles, count, iop_pc, running, todo, steps>>
      BY <2>3, TurnsOnlySpend DEF IInv
    <3>4. Exact'
      BY <3>2, <3>3 DEF EeInv, Exact, Boot
    <3> QED BY <3>1, <3>4 DEF EeInv
  <2>4. CASE EeReturns
    <3>1. /\ UNCHANGED <<memory, pc, next_pc, reg, cop0, isinint, ee_cycles, iop_cycles, count,
                         iop_pc, todo, steps, ended>>
          /\ isinint \/ ee_cycles = 0
      BY <2>4 DEF EeReturns, ee
    <3>2. Exact'
      BY <3>1 DEF EeInv, Exact, Boot
    <3> QED BY <3>1, <3>2, EeStays DEF EeInv
  <2>5. CASE IopRuns
    <3>1. /\ iop_pc' = iop_pc + iop_cycles /\ iop_cycles' = 0 /\ running = "iop" /\ ~ended
          /\ UNCHANGED <<memory, pc, next_pc, reg, cop0, isinint, ee_cycles, count, todo, steps, ended>>
      BY <2>5 DEF IopRuns, ee
    <3>2. iop_pc \in Int /\ iop_cycles \in Nat /\ Boot \in Nat
      BY BootIsNat DEF IInv, TypeInv
    <3>3. iop_pc' + iop_cycles' - Boot = iop_pc + iop_cycles - Boot
      BY <3>1, <3>2
    <3>4. Exact'
      BY <3>1, <3>3 DEF EeInv, Exact, Boot
    <3> QED BY <3>1, <3>4, EeStays DEF EeInv
  <2>6. CASE DmacRuns
    <3>1. /\ running = "dmac" /\ ~ended
          /\ UNCHANGED <<memory, pc, next_pc, reg, cop0, isinint, ee_cycles, iop_cycles, count,
                         iop_pc, todo, steps>>
      BY <2>6 DEF DmacRuns, ee
    <3>2. Exact'
      BY <3>1 DEF EeInv, Exact, Boot
    <3> QED BY <3>1, <3>2, EeStays DEF EeInv
  <2>7. CASE Draw
    <3>1. /\ running = "none" /\ todo = <<"draw">>
          /\ UNCHANGED <<memory, pc, next_pc, reg, cop0, isinint, ee_cycles, iop_cycles, count,
                         iop_pc, steps, ended>>
      BY <2>7 DEF Draw, ee
    <3>2. \A k \in DOMAIN todo : todo[k] # "ee"
      BY <3>1
    <3>3. Exact'
      BY <3>1, <3>2 DEF EeInv, Exact, Boot
    <3> QED BY <3>1, <3>3, EeStays DEF EeInv
  <2>8. CASE UNCHANGED vars
    <3>1. /\ UNCHANGED <<memory, pc, next_pc, reg, cop0, isinint, ee_cycles, iop_cycles, count,
                         iop_pc, steps, ended, running, todo>>
      BY <2>8 DEF vars, ee
    <3>3. Exact'
      BY <3>1 DEF EeInv, Exact, Boot
    <3> QED BY <3>1, <3>3, EeStays DEF EeInv
  <2> QED BY <2>1, <2>2, <2>3, <2>4, <2>5, <2>6, <2>7, <2>8 DEF Next, InStep
<1> QED BY <1>1, <1>2, InvariantHolds, PTL DEF Spec

\* Whenever a step of the schedule is over the IOP has taken a quarter of the cycles the EE
\* was given, each step's rounded down; and exactly a quarter, of full slices, as long as
\* the EE has not stopped.
THEOREM IopTakesAQuarter == Spec => []IopQuarter
<1>1. IInv /\ EeInv => IopQuarter
  <2> SUFFICES ASSUME IInv, EeInv, running = "none", todo = <<>>, ~ended
               PROVE  /\ QuarterRounded
                      /\ ~isinint => ee_cycles = 0 /\ count = Slice * steps
                                     /\ 4 * (iop_pc - Boot) = count
    BY DEF IopQuarter
  <2>1. iop_cycles = 0
    BY DEF IInv, IopPending
  <2>2. iop_pc \in Int /\ Boot \in Nat
    BY BootIsNat DEF IInv, TypeInv
  <2>3. QuarterRounded
    BY <2>1, <2>2 DEF IInv, Balance, QuarterRounded
  <2>4. ASSUME ~isinint
        PROVE  ee_cycles = 0 /\ count = Slice * steps /\ 4 * (iop_pc - Boot) = count
    <3>1. /\ count = Slice * steps /\ 4 * (iop_pc + iop_cycles - Boot) = count
          /\ ee_cycles # 0 => \E k \in DOMAIN todo : todo[k] = "ee"
      BY <2>4 DEF EeInv, Exact
    <3>2. iop_pc + iop_cycles - Boot = iop_pc - Boot
      BY <2>1, <2>2
    <3> QED BY <3>1, <3>2
  <2> QED BY <2>3, <2>4
<1> QED BY <1>1, InvariantHolds, EeInvariantHolds, PTL

\* Of a taken branch, the slot is executed once and then the target: also when a slice ends
\* between them, the slot is stepped over, or an instruction stops the EE in it.
THEOREM BranchesAreDelayed == Spec => BranchDelay
<1> DEFINE Delayed ==
             running = "ee" /\ ee_cycles' < ee_cycles /\ Read(pc).op \notin {"jr", "jalr"}
               /\ (next_pc # After(pc) => Read(pc).op # "bne") =>
             /\ pc' = next_pc
             /\ next_pc' = IF Read(pc).op = "bne" /\ reg # 0 THEN Target(Read(pc)) ELSE After(next_pc)
<1>1. IInv /\ EeInv /\ [Next]_vars => [Delayed]_vars
  <2> SUFFICES ASSUME IInv, EeInv, Next, running = "ee", ee_cycles' < ee_cycles,
                      Read(pc).op \notin {"jr", "jalr"},
                      next_pc # After(pc) => Read(pc).op # "bne"
               PROVE  /\ pc' = next_pc
                      /\ next_pc' = IF Read(pc).op = "bne" /\ reg # 0 THEN Target(Read(pc))
                                    ELSE After(next_pc)
    OBVIOUS
  <2> DEFINE i == Read(pc)
  <2>1. /\ pc \in Addresses /\ next_pc \in Addresses /\ ee_cycles \in Nat
        /\ next_pc = 0 => After(pc) = 0
    BY DEF IInv, TypeInv, EeInv, EeTypes, NotAtBoot
  <2>2. Execute(i)
    <3>1. ~(ee_cycles' = ee_cycles)
      BY <2>1
    <3> QED BY <3>1 DEF Next, InStep, Begin, Call, EeReturns, IopRuns, DmacRuns, Draw
  <2> HIDE DEF i
  <2>3. CASE SetPc(next_pc, 0) /\ ~(i.op = "bne" /\ reg # 0)
    <3>1. /\ next_pc' = After(pc') /\ (next_pc # 0 => pc' = next_pc)
          /\ (next_pc = 0 => pc' = After(pc))
      BY <2>1, <2>3, SetPcGoesOn
    <3>2. pc' = next_pc
      BY <2>1, <3>1
    <3> QED BY <2>3, <3>1, <3>2 DEF i
  <2>4. CASE SetPc(Target(i), After(pc)) /\ i.op = "bne" /\ reg # 0
    <3>1. next_pc = After(pc)
      BY <2>4 DEF i
    <3>2. IsFirmware(Physical(pc))
      BY <2>4, ReadIsDecoded DEF i, EeInv
    <3>3. After(pc) # 0
      <4>1. pc \in Nat /\ 0 \in 0 .. Span - 1 /\ Modulus \in Nat
        BY <2>1, AddressesAre, SizeAssumption
      <4>2. pc + 1 + 0 < Modulus
        BY <3>2, <4>1, BootIsFarOff
      <4>3. pc + 1 < Modulus
        BY <4>1, <4>2
      <4>4. After(pc) = pc + 1
        BY <2>1, <4>3, AfterIs
      <4> QED BY <4>1, <4>4
    <3>4. pc' = After(pc) /\ next_pc' = Target(i)
      BY <2>4, <3>3 DEF SetPc
    <3> QED BY <2>4, <3>1, <3>4 DEF i
  <2>5. i.op \notin {"jr", "jalr"}
    BY DEF i
  <2>6. ~(ee_cycles' = ee_cycles)
    BY <2>1
  <2> QED BY <2>2, <2>3, <2>4, <2>5, <2>6
             DEF Execute, Compute, Skip, Branch, JumpRegister, Sync, Special, Store, MoveToCop0, Illegal
<1> HIDE DEF Delayed
<1> QED BY <1>1, InvariantHolds, EeInvariantHolds, PTL DEF Spec, BranchDelay, Delayed
=============================================================================
