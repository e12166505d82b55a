---------------------------- MODULE ItemSequence ----------------------------
(* What a list promises: a sequence of items, to which an item is added at the *)
(* end and from which the item at an index is removed, and the place where     *)
(* each item is first found.  The pushes are counted, so that one which leaves *)
(* the items as they were is not a step of it.                                 *)
EXTENDS Sequences, SequencesExt, FiniteSetsExt, Naturals

CONSTANT Items

VARIABLES items, pushes, located

vars == <<items, pushes, located>>

\* The first index of each item of s, counted from 0, and 0 for an item not in it.
FirstPlaces(s) ==
  [d \in Items |-> IF d \in Range(s) THEN Min({ i \in DOMAIN s : s[i] = d }) - 1 ELSE 0]

Init == items = <<>> /\ pushes = 0 /\ located = FirstPlaces(items)

Push(d) == items' = Append(items, d) /\ pushes' = pushes + 1

Drop(i) ==
  /\ items' = IF i + 1 \in DOMAIN items THEN RemoveAt(items, i + 1) ELSE items
  /\ UNCHANGED pushes

Renew == items' = <<>> /\ pushes' = 0

Next ==
  /\ \/ \E d \in Items : Push(d)
     \/ \E i \in 0 .. Len(items) : Drop(i)
     \/ Renew
  /\ located' = FirstPlaces(items')

Spec == Init /\ [][Next]_vars
=============================================================================
