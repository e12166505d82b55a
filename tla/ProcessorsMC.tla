---------------------------- MODULE ProcessorsMC ----------------------------
(* Every program of six words over a few instructions each, in a cache of two *)
(* lines of two words: three lines of code, two of which share a cache line,  *)
(* with branches into the middle of lines and to their beginning, one of them *)
(* further than a branch reaches, and a store behind the cache.  And, in      *)
(* behaviours of their own (subject), boot sectors of the 8086 that copy      *)
(* themselves to one of four segments, whole or in part, over themselves      *)
(* among them, and jump to the copy; a paragraph has four bytes, a register   *)
(* six bits.                                                                  *)
EXTENDS NextPS, Sequences, SequencesExt

Add == [op |-> "add", reg |-> 1, imm |-> 1]
Load == [op |-> "lw", reg |-> 1]
StoreTo(line) == [op |-> "sw", reg |-> 2, line |-> line]
Isolate == [op |-> "mtc", isolate |-> TRUE]
Stop == [op |-> "halt"]
JumpTo(a) == [op |-> "j", target |-> a]
BranchBy(n) == [op |-> "bne", reg |-> 1, other |-> 2, offset |-> n]

Early == {Add, Load, StoreTo(1), JumpTo(8), BranchBy(2), JumpTo(7)}
Late == {Add, Load, Isolate, BranchBy(-3), JumpTo(5)}
MCPrograms ==
  { [a \in 4 .. 9 |-> <<i, j, k, l, m, n>>[a - 3]] :
      i, j, k \in Early, l, m \in Late, n \in {StoreTo(2), BranchBy(-4), BranchBy(4), Stop} }

VARIABLES subject, memory, segs, ip, regs86, int_, ended

vars86 == <<memory, segs, ip, regs86, int_, ended>>

Xor(rm, reg, mem) == [op |-> "xor", rm |-> rm, reg |-> reg, mem |-> mem]
ToSegment(seg, rm, mem) == [op |-> "movseg", seg |-> seg, rm |-> rm, mem |-> mem]
Move(reg, rm) == [op |-> "mov16", reg |-> reg, rm |-> rm]
Immediate(reg, n) == [op |-> "movimm", reg |-> reg, imm |-> n]
Rep(movs) == [op |-> "rep", movs |-> movs]
Forward(n) == [op |-> "jmp", rel |-> n]
Far(cs, to) == [op |-> "jmpfar", cs |-> cs, ip |-> to]
Simple(op) == [op |-> op]

Sizes == [cli |-> 1, cld |-> 1, other |-> 1, jmp |-> 2, xor |-> 2, movseg |-> 2, mov16 |-> 2,
          rep |-> 2, movimm |-> 3, store |-> 3, jmpfar |-> 5]
Bytes(i) == [k \in 1 .. Sizes[i.op] |-> IF k = 1 THEN i ELSE [op |-> "operand", of |-> i, k |-> k - 1]]
Sector(code) == LET b == FlattenSeq([n \in DOMAIN code |-> Bytes(code[n])]) IN [a \in 0 .. Len(b) - 1 |-> b[a + 1]]

\* The last instructions, most of them run in the copy.
Tails ==
  { <<Xor(0, 0, FALSE), Move(3, 3)>>, <<Xor(1, 2, FALSE), Move(1, 6)>>, <<Xor(2, 0, TRUE)>>,
    <<ToSegment("ss", 0, FALSE), Immediate(4, 63)>>, <<ToSegment("ds", 3, FALSE), Forward(-4)>>,
    <<ToSegment("ss", 0, TRUE)>>, <<[op |-> "store", addr |-> 20], Forward(0)>>, <<Rep(TRUE)>>, <<Rep(FALSE)>> }

SectorsMC ==
  { Sector(<<Forward(1), Simple("other"), Simple("cli"), Xor(0, 0, FALSE), ToSegment("ds", 0, FALSE),
             Immediate(0, seg), ToSegment("es", 0, FALSE), Immediate(6, 16), Immediate(7, di),
             Immediate(1, n), Rep(TRUE), Far(to, 16 + 30), Simple("cld")>> \o tail) :
      seg \in {0, 16, 20, 34}, di \in {16, 18, 49, 0}, n \in {0, 7, 18}, to \in {0, 16, 20}, tail \in Tails }

FormsMC ==
  { Forward(n) : n \in {0, 3} } \cup { Rep(TRUE), Rep(FALSE), Far(0, 16), Far(16, 46) }
  \cup { Xor(r, q, m) : r, q \in {0, 1}, m \in BOOLEAN } \cup { Immediate(r, n) : r \in 0 .. 7, n \in {0, 16} }
  \cup { ToSegment(s, 0, m) : s \in {"ds", "es"}, m \in BOOLEAN } \cup { Move(3, 1), Move(6, 7) }

PC == INSTANCE Pc8086 WITH Sectors <- SectorsMC, Forms <- FormsMC, Boot <- 16, Paragraph <- 4, Wide <- 64,
                           regs <- regs86

InitMC ==
  \/ /\ subject = "nextps" /\ Init
     /\ memory = [a \in {0} |-> Simple("other")] /\ segs = [s \in {"es", "cs", "ss", "ds"} |-> 0] /\ ip = 0
     /\ regs86 = [r \in {"ax"} |-> 0] /\ int_ = TRUE /\ ended = FALSE
  \/ /\ subject = "redos" /\ Init /\ rom = [a \in 4 .. 9 |-> IF a = 9 THEN Stop ELSE Add]
     /\ PC!Init

NextMC ==
  /\ UNCHANGED subject
  /\ \/ subject = "nextps" /\ Next /\ UNCHANGED vars86
     \/ subject = "redos" /\ PC!Next /\ UNCHANGED vars

SpecMC == InitMC /\ [][NextMC]_<<subject, vars, vars86>>

\* Stated in module Pc8086.
RunsAs8086 == PC!RunsAs8086
=============================================================================
