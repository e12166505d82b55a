------------------------------ MODULE RobinMap ------------------------------
(***************************************************************************)
(* The Robin Hood map of src/src/core/algo/robin.c.  Entries are probed    *)
(* for linearly; an entry that is further from its home than the one it    *)
(* meets takes its place, and the one it met goes on.  A full bucket grows *)
(* to 2n + 1 slots, into which every entry is emplaced anew.               *)
(*                                                                         *)
(* The siphash of a key under the map's random secret is a function picked *)
(* at the start.  Values are strings (pair type 0, core/unit_test/         *)
(* robin_test.c) or pointers (pair type 2, the blocks of arm/dynrec.c);    *)
(* robin_map_fill_field copies the former and stores the address it is     *)
(* given as the latter.                                                    *)
(***************************************************************************)
EXTENDS Naturals, FiniteSets, Functions

CONSTANTS
  Keys,      \* the keys
  Vals,      \* the values callers store
  KeyAsVal,  \* what a value field holds after a key was stored in it
  Stale,     \* a pointer into a bucket or a stack frame that is gone
  None,      \* no entry, no key
  Hashes,    \* the hashes a key may have
  MaxPuts    \* bound on the calls of robin_map_emplace

ASSUME DistinctAssumption ==
  None \notin Keys /\ {KeyAsVal, Stale, None} \cap Vals = {}
ASSUME NumberAssumption == Hashes \subseteq Nat /\ MaxPuts \in Nat

VARIABLES
  hash,       \* the hash of each key
  pair_type,  \* pair_types[1]: "string" or "pointer"
  bucket,     \* the slots
  old,        \* the bucket being replaced, empty when none is
  next,       \* the index the growth has come to in it
  want,       \* the entry the caller's robin_map_emplace waits to place
  probe,      \* the entry being placed and the index it has come to
  puts        \* how often each key was emplaced

robinVars == <<hash, pair_type, bucket, old, next, want, probe, puts>>

Free == [key |-> None, val |-> None, psl |-> 0]
Entry(k, v) == [key |-> k, val |-> v, psl |-> 0]
NoProbe == [entry |-> Free, at |-> 0]
Slots(n) == [i \in 0 .. n - 1 |-> Free]
Size(b) == Cardinality(DOMAIN b)
Full(b) == \A i \in DOMAIN b : b[i] # Free

RobinInit ==
  /\ hash \in [Keys -> Hashes] /\ pair_type \in {"string", "pointer"}
  /\ bucket = Slots(0) /\ old = Slots(0) /\ next = 0
  /\ want = Free /\ probe = NoProbe /\ puts = [k \in Keys |-> 0]

Idle == want = Free /\ probe = NoProbe

\* robin_map_get_entry
Home(k, b) == IF b = Slots(0) THEN 0 ELSE hash[k] % Size(b)
StartProbe(e, b) == [entry |-> e, at |-> Home(e.key, b)]

Calls == FoldFunction(+, 0, puts)

\* robin_map_emplace up to its loop: a full bucket grows first.
RobinEmplace(k, v) ==
  /\ Idle /\ Calls < MaxPuts
  /\ puts' = [puts EXCEPT ![k] = @ + 1]
  /\ \/ /\ Full(bucket)
        /\ want' = Entry(k, v)
        /\ old' = bucket /\ next' = 0
        /\ bucket' = Slots(2 * Size(bucket) + 1)
        /\ UNCHANGED probe
     \/ /\ ~Full(bucket)
        /\ probe' = StartProbe(Entry(k, v), bucket)
        /\ UNCHANGED <<bucket, old, next, want>>
  /\ UNCHANGED <<hash, pair_type>>

\* robin_reorder: the value passed on is the address of the old value field.
Reorder ==
  /\ want # Free /\ probe = NoProbe /\ next \in DOMAIN old
  /\ LET val == IF pair_type = "string" THEN old[next].val ELSE Stale
     IN  probe' = StartProbe(Entry(old[next].key, val), bucket)
  /\ next' = next + 1
  /\ UNCHANGED <<hash, pair_type, bucket, old, want, puts>>

\* The old bucket is destroyed, and the caller's entry takes its turn.
GrowDone ==
  /\ want # Free /\ probe = NoProbe /\ next = Size(old)
  /\ old' = Slots(0) /\ next' = 0
  /\ probe' = StartProbe(want, bucket) /\ want' = Free
  /\ UNCHANGED <<hash, pair_type, bucket, puts>>

----------------------------------------------------------------------------
(* The loop of robin_map_emplace *)

Met == bucket[probe.at]
Carried == probe.entry
\* A key that is met already gets the carried key stored in its value field, and the
\* loop goes on.
Marked ==
  IF Met.key # Carried.key THEN Met
  ELSE [Met EXCEPT !.val = IF pair_type = "string" THEN KeyAsVal ELSE Stale]

Settle ==
  /\ probe # NoProbe /\ Met = Free
  /\ bucket' = [bucket EXCEPT ![probe.at] = Carried]
  /\ probe' = NoProbe
  /\ UNCHANGED <<hash, pair_type, old, next, want, puts>>

\* Mutant: the richer entry is overwritten, not carried on.
PassRobbing ==
  /\ probe # NoProbe /\ Met # Free
  /\ LET rob == Carried.psl > Met.psl
     IN  /\ bucket' = [bucket EXCEPT ![probe.at] = IF rob THEN Carried ELSE Marked]
         /\ probe' = [entry |-> [Carried EXCEPT !.psl = @ + 1],
                      at |-> (probe.at + 1) % Size(bucket)]
  /\ UNCHANGED <<hash, pair_type, old, next, want, puts>>

\* Mutant: the distance is counted before the entries are swapped.
PassCountFirst ==
  /\ probe # NoProbe /\ Met # Free
  /\ LET far == [Carried EXCEPT !.psl = @ + 1]
         swap == far.psl > Met.psl
     IN  /\ bucket' = [bucket EXCEPT ![probe.at] = IF swap THEN far ELSE Marked]
         /\ probe' = [entry |-> IF swap THEN Marked ELSE far,
                      at |-> (probe.at + 1) % Size(bucket)]
  /\ UNCHANGED <<hash, pair_type, old, next, want, puts>>

\* Mutant: the index does not wrap round.
PassNoWrap ==
  /\ probe # NoProbe /\ Met # Free
  /\ LET swap == Carried.psl > Met.psl
         on == IF probe.at + 1 \in DOMAIN bucket THEN probe.at + 1 ELSE probe.at
     IN  /\ bucket' = [bucket EXCEPT ![probe.at] = IF swap THEN Carried ELSE Marked]
         /\ probe' = [entry |-> IF swap THEN Marked ELSE Carried, at |-> on]
  /\ UNCHANGED <<hash, pair_type, old, next, want, puts>>

Pass ==
  /\ probe # NoProbe /\ Met # Free
  /\ LET swap == Carried.psl > Met.psl
     IN  /\ bucket' = [bucket EXCEPT ![probe.at] = IF swap THEN Carried ELSE Marked]
         /\ probe' = [entry |-> [(IF swap THEN Marked ELSE Carried) EXCEPT !.psl = @ + 1],
                      at |-> (probe.at + 1) % Size(bucket)]
  /\ UNCHANGED <<hash, pair_type, old, next, want, puts>>

Step == Reorder \/ GrowDone \/ Settle \/ Pass

RobinNext == (\E k \in Keys, v \in Vals : RobinEmplace(k, v)) \/ Step

\* robin.c runs to its end once called.
RobinSpec == RobinInit /\ [][RobinNext]_robinVars /\ WF_robinVars(Step)

\* robin_map_get: the value field of the home slot, whichever key is there.
RobinGet(k) == IF bucket = Slots(0) THEN None ELSE bucket[Home(k, bucket)].val

----------------------------------------------------------------------------
(* Properties *)

RobinTypes ==
  LET Slot == [key : Keys \cup {None}, val : Vals \cup {KeyAsVal, Stale, None}, psl : Nat]
  IN  /\ hash \in [Keys -> Hashes] /\ pair_type \in {"string", "pointer"}
      /\ \A b \in {bucket, old} : \A i \in DOMAIN b : b[i] \in Slot
      /\ next \in 0 .. Size(old) /\ want \in Slot /\ probe.entry \in Slot
      /\ probe # NoProbe => probe.at \in DOMAIN bucket
      /\ puts \in [Keys -> Nat]

DistanceFromHome ==
  /\ \A i \in DOMAIN bucket :
       bucket[i] # Free => (Home(bucket[i].key, bucket) + bucket[i].psl) % Size(bucket) = i
  /\ probe # NoProbe =>
       (Home(Carried.key, bucket) + Carried.psl) % Size(bucket) = probe.at

RobinHoodOrder ==
  \A i \in DOMAIN bucket :
    bucket[i].psl > 0 =>
      LET before == bucket[(i + Size(bucket) - 1) % Size(bucket)]
      IN  before # Free /\ bucket[i].psl <= before.psl + 1

\* Every variable has its type (RobinTypes); an entry's psl_value is its distance from home,
\* for the one being carried too (DistanceFromHome); and there is no gap and no unfairness
\* on the way: the slot before an entry that is not at home holds one that is at most one
\* step closer to its own (RobinHoodOrder).
WellFormed == RobinTypes /\ DistanceFromHome /\ RobinHoodOrder

\* However an entry is carried along or moved by a growth, there are as many entries
\* of a key as there were calls that emplaced it.
EntriesAreKept ==
  \A k \in Keys :
    puts[k] =   Cardinality({ i \in DOMAIN bucket : bucket[i].key = k })
              + Cardinality({ i \in DOMAIN old : i >= next /\ old[i].key = k })
              + (IF want.key = k THEN 1 ELSE 0) + (IF Carried.key = k THEN 1 ELSE 0)

\* Every emplacement ends: the probe finds a free slot.
EmplaceEnds == ~Idle ~> Idle

\* What was stored for a key is what robin_map_get finds for it, as the last line of
\* robin_test.c expects of strings under different keys.
GetFindsValue ==
  pair_type = "string" /\ Idle /\ (\A k \in Keys : puts[k] <= 1) =>
    \A i \in DOMAIN bucket : bucket[i] # Free => RobinGet(bucket[i].key) = bucket[i].val
=============================================================================
