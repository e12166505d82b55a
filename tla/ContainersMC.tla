---------------------------- MODULE ContainersMC ----------------------------
(* The vector, the list and the recompiler that keeps its cores and blocks in *)
(* lists, one of them (subject) in each behaviour.  Vectors of bytes, of      *)
(* two-byte elements and of strings, the empty one among them, grow twice     *)
(* from nothing; MinForStrings is never reached.  Lists have up to five cells *)
(* over two items.  Four processors, and blocks of two words, four to a run.  *)
EXTENDS Vector, List, Recompiler

TypesMC == {0, 1, 2}
BytesMC == {0, 1}
StringsMC == {<<>>, <<1>>, <<1, 1>>}
CountsMC == {0, 1, 2, 3}
ListItemsMC == {"a", "b"}

VARIABLE subject  \* what this behaviour is about

InitMC ==
  /\ subject \in {"vector", "list", "recompiler"}
  /\ Init /\ (subject # "vector" => type = 1 /\ capacity = 0)
  /\ ListInit
  /\ RecompilerInit /\ (subject # "recompiler" => known[1] /\ known[2])

NextMC ==
  /\ UNCHANGED subject
  /\ \/ subject = "vector" /\ Next /\ UNCHANGED <<listVars, recompilerVars>>
     \/ subject = "list" /\ ListNext /\ UNCHANGED <<vars, recompilerVars>>
     \/ subject = "recompiler" /\ RecompilerNext /\ UNCHANGED <<vars, listVars>>

SpecMC == InitMC /\ [][NextMC]_<<subject, vars, listVars, recompilerVars>>
=============================================================================
