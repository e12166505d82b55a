---------------------------- MODULE HashTableMC ----------------------------
(* Five keys whose hashes collide in the buckets of 1, 3 and 7 slots: k1 and k2 *)
(* in all of them, k1 and k3 in that of 7 but not in that of 3, so that a       *)
(* growth to 7 slots starts another.  A table is created from two of them.      *)
EXTENDS HashTable

CONSTANTS k1, k2, k3, k4, k5

MCHash == (k1 :> 0) @@ (k2 :> 21) @@ (k3 :> 7) @@ (k4 :> 42) @@ (k5 :> 1)
MCNames == <<k1, k4>>
=============================================================================
