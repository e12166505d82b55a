----------------------------- MODULE RobinMapMC -----------------------------
(* Three keys, each with any of four hashes, in buckets of 1, 3 and 7 slots: *)
(* hashes that collide in one bucket and not in the next.                    *)
EXTENDS RobinMap

CONSTANTS keyA, keyB, keyC, valV, valW
=============================================================================
