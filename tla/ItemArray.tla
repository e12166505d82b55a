----------------------------- MODULE ItemArray -----------------------------
(* What a vector promises: an array of items that grows at the end and can be  *)
(* cut or extended to any length.  What an extension adds is blank.  The pushes*)
(* are counted, so that one which leaves the items as they were is not a step. *)
EXTENDS Naturals, Sequences

CONSTANT Items

VARIABLES
  items,   \* the array
  blank,   \* what a place that was never written holds
  pushes   \* how many items have been pushed

vars == <<items, blank, pushes>>

Init == items = <<>> /\ pushes = 0

Push(d) == items' = Append(items, d) /\ pushes' = pushes + 1

Resize ==
  /\ items' = [i \in 1 .. Len(items') |-> IF i <= Len(items) THEN items[i] ELSE blank]
  /\ UNCHANGED pushes

Next == UNCHANGED blank /\ (Resize \/ \E d \in Items : Push(d))

Spec == Init /\ [][Next]_vars
=============================================================================
