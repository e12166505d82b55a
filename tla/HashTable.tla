----------------------------- MODULE HashTable -----------------------------
(***************************************************************************)
(* The hash table of src/src/core/algo/ht.c: one slot per hash value, no   *)
(* probing.  A key whose slot holds another key makes the table grow and   *)
(* every entry move, and a move may collide again and grow the table in    *)
(* the middle of a growth.  The recursion of ht_insert_2 and ht_grow is a  *)
(* stack of growths here, one slot of an old bucket per step.              *)
(*                                                                         *)
(* A value wider than a pointer lives in a block of its own, which slots   *)
(* point to; a narrow one lives in the slot.  The tables of the            *)
(* repository are used in three ways, which `use` tells apart:             *)
(*   "sizes"   ht_mm of util.c: narrow; absent keys inserted, present ones *)
(*             erased                                                      *)
(*   "named"   named_keys of keys_db.c: wide; created from a list of keys, *)
(*             of which values are replaced and pointers kept              *)
(*   "tagged"  tag_keysmap of keys_db.c and the table of arm64_table.c:    *)
(*             wide; absent keys inserted                                  *)
(***************************************************************************)
EXTENDS Naturals, Sequences, SequencesExt, FiniteSets

CONSTANTS
  Keys,      \* the keys
  Hash,      \* their 64-bit hashes
  Data,      \* the values callers store
  Zero,      \* what a fresh block holds
  NoKey,     \* the key of a free slot
  NoValue,   \* the absence of a value, and the null value pointer
  Names,     \* the list a "named" table is created from
  MaxPuts    \* bound on the insertions

ASSUME KeyAssumption == NoKey \notin Keys /\ Names \in Seq(Keys)
ASSUME HashAssumption == Hash \in [Keys -> Nat]
ASSUME ValueAssumption == NoValue \notin Data \cup {Zero} /\ Zero \notin Data
ASSUME BoundAssumption == MaxPuts \in Nat

VARIABLES
  use,     \* "sizes", "named" or "tagged"
  bucket,  \* the slots: a function on 0 .. n - 1
  mem,     \* the value blocks allocated so far
  grows,   \* the growths in progress, innermost last
  named,   \* how many of Names ht_create has inserted
  kept,    \* the block of the pointer a caller keeps for each key, 0 for none
  puts,    \* how many insertions there have been
  last     \* the last call: its kind, key and value

vars == <<use, bucket, mem, grows, named, kept, puts, last>>

Wide == use # "sizes"
Uses == {"sizes", "named", "tagged"}

\* A slot: in a wide table `block` is the value pointer, else `value` is the value.
FreeSlot == [key |-> NoKey, value |-> NoValue, block |-> 0]
Slots(n) == [i \in 0 .. n - 1 |-> FreeSlot]
SizeOf(b) == Cardinality(DOMAIN b)
Home(k, b) == Hash[k] % SizeOf(b)

Init ==
  /\ use \in Uses
  /\ bucket = Slots(IF use = "named" THEN Len(Names) ELSE 0)
  /\ mem = <<>> /\ grows = <<>> /\ kept = [k \in Keys |-> 0] /\ puts = 0 /\ last = <<"none">>
  /\ named = IF use = "named" THEN 0 ELSE Len(Names)

Idle == grows = <<>> /\ named = Len(Names)

\* ht_find sizes an empty bucket before it looks.
Ready(b) == IF SizeOf(b) = 0 THEN Slots(1) ELSE b
SlotOf(k, b) == b[Home(k, b)]

\* ht_get
HasKey(k) == SlotOf(k, Ready(bucket)).key = k

----------------------------------------------------------------------------
(* ht_insert_2.  An item is a key with either a caller's value or the block *)
(* of an entry; `move` is the case of reallocate = false.                   *)

Item(k, v, blk, move) == [key |-> k, value |-> v, block |-> blk, move |-> move]

ItemData(it) == IF it.block # 0 THEN mem[it.block] ELSE it.value

\* Mutant: every insertion takes a new block.
PlaceWideAnew(it, b, s) ==
  LET blk == Len(mem) + 1
  IN  /\ bucket' = [b EXCEPT ![Home(it.key, b)] = [FreeSlot EXCEPT !.key = it.key, !.block = blk]]
      /\ mem' = Append(mem, IF ItemData(it) = NoValue THEN Zero ELSE ItemData(it))

\* A free slot takes the item's own block if it is moved, and else a new, zeroed one;
\* the value is copied unless the caller gave none.
PlaceWide(it, b, s) ==
  LET blk == IF s.block # 0 THEN s.block ELSE IF it.move THEN it.block ELSE Len(mem) + 1
      grown == IF blk > Len(mem) THEN Append(mem, Zero) ELSE mem
  IN  /\ bucket' = [b EXCEPT ![Home(it.key, b)] = [FreeSlot EXCEPT !.key = it.key, !.block = blk]]
      /\ mem' = IF ItemData(it) = NoValue THEN grown ELSE [grown EXCEPT ![blk] = ItemData(it)]

\* A narrow value is stored only where there is none.
PlaceNarrow(it, b, s) ==
  /\ bucket' = [b EXCEPT ![Home(it.key, b)] =
                 [FreeSlot EXCEPT !.key = it.key,
                                  !.value = IF s.value = NoValue THEN it.value ELSE s.value]]
  /\ UNCHANGED mem

\* The outcome of ht_insert_2 for an item under the growths gs: it is placed, or a
\* growth starts with the item as the one to insert when it ends.
Place(it, b, gs) ==
  LET s == SlotOf(it.key, b)
  IN  \/ /\ s.key \in {NoKey, it.key}
         /\ IF Wide THEN PlaceWide(it, b, s) ELSE PlaceNarrow(it, b, s)
         /\ grows' = gs
      \/ /\ s.key \notin {NoKey, it.key}
         /\ grows' = Append(gs, [old |-> b, next |-> 0, item |-> it])
         /\ bucket' = Slots(2 * SizeOf(b) + 1)
         /\ UNCHANGED mem

----------------------------------------------------------------------------
(* ht_create, and the callers *)

\* ht_create inserts the keys of its list with no value.
InsertName ==
  /\ grows = <<>> /\ named < Len(Names)
  /\ named' = named + 1 /\ last' = <<"put", Names[named + 1], Zero>>
  /\ Place(Item(Names[named + 1], NoValue, 0, FALSE), Ready(bucket), <<>>)
  /\ UNCHANGED <<use, kept, puts>>

Insert(k, v) ==
  /\ Idle /\ puts < MaxPuts
  /\ HasKey(k) <=> use = "named"
  /\ puts' = puts + 1 /\ last' = <<"put", k, v>>
  /\ Place(Item(k, v, 0, FALSE), Ready(bucket), <<>>)
  /\ UNCHANGED <<use, named, kept>>

\* ht_erase wipes the slot of the key, whichever key is in it.
Erase(k) ==
  /\ Idle /\ use = "sizes" /\ HasKey(k)
  /\ bucket' = [bucket EXCEPT ![Home(k, bucket)] = FreeSlot]
  /\ last' = <<"drop", k, NoValue>>
  /\ UNCHANGED <<use, mem, grows, named, kept, puts>>

\* keys_db keeps the pointer ht_get returns for header_key.
KeepPointer(k) ==
  /\ Idle /\ use = "named" /\ HasKey(k)
  /\ kept' = [kept EXCEPT ![k] = SlotOf(k, bucket).block]
  /\ UNCHANGED <<use, bucket, mem, grows, named, puts, last>>

----------------------------------------------------------------------------
(* ht_grow *)

Inner == Last(grows)
Moved == [grows EXCEPT ![Len(grows)].next = @ + 1]
OldSlot == Inner.old[Inner.next]

SkipSlot ==
  /\ grows # <<>> /\ Inner.next < SizeOf(Inner.old) /\ OldSlot.key = NoKey
  /\ grows' = Moved
  /\ UNCHANGED <<use, bucket, mem, named, kept, puts, last>>

\* Mutant: an entry that collides during a growth is left behind.
MoveSlotOnce ==
  /\ grows # <<>> /\ Inner.next < SizeOf(Inner.old) /\ OldSlot.key # NoKey
  /\ IF SlotOf(OldSlot.key, bucket).key = NoKey
     THEN Place(Item(OldSlot.key, OldSlot.value, OldSlot.block, Wide), bucket, Moved)
     ELSE grows' = Moved /\ UNCHANGED <<bucket, mem>>
  /\ UNCHANGED <<use, named, kept, puts, last>>

\* Mutant: an entry keeps the index it had in the old bucket.
MoveSlotInPlace ==
  /\ grows # <<>> /\ Inner.next < SizeOf(Inner.old) /\ OldSlot.key # NoKey
  /\ grows' = Moved
  /\ bucket' = [bucket EXCEPT ![Inner.next] = OldSlot]
  /\ UNCHANGED <<use, mem, named, kept, puts, last>>

MoveSlot ==
  /\ grows # <<>> /\ Inner.next < SizeOf(Inner.old) /\ OldSlot.key # NoKey
  /\ Place(Item(OldSlot.key, OldSlot.value, OldSlot.block, Wide), bucket, Moved)
  /\ UNCHANGED <<use, named, kept, puts, last>>

\* Mutant: the growth does not return after it has inserted its item.
GrowDoneAgain ==
  /\ grows # <<>> /\ Inner.next = SizeOf(Inner.old)
  /\ Place([Inner.item EXCEPT !.move = FALSE], bucket, grows)
  /\ UNCHANGED <<use, named, kept, puts, last>>

\* The growth ends and its item is inserted again, this time with reallocate = true.
GrowDone ==
  /\ grows # <<>> /\ Inner.next = SizeOf(Inner.old)
  /\ Place([Inner.item EXCEPT !.move = FALSE], bucket, Front(grows))
  /\ UNCHANGED <<use, named, kept, puts, last>>

Grow == SkipSlot \/ MoveSlot \/ GrowDone

Next ==
  \/ InsertName
  \/ \E k \in Keys, v \in Data : Insert(k, v)
  \/ \E k \in Keys : Erase(k) \/ KeepPointer(k)
  \/ Grow

\* ht.c runs to its end once called.
Spec == Init /\ [][Next]_vars /\ WF_vars(InsertName \/ Grow)

----------------------------------------------------------------------------
(* Properties *)

\* The entries there are: in the bucket, in the part of an old bucket that has not
\* been moved, and in the hands of a growth.
Bucketed == { bucket[i] : i \in DOMAIN bucket }
Waiting(g) == { g.old[i] : i \in { j \in DOMAIN g.old : j >= g.next } }
Held(g) == [key |-> g.item.key, value |-> g.item.value, block |-> g.item.block]
Growths == DOMAIN grows
Entries ==
  LET all == Bucketed \cup UNION { Waiting(grows[i]) \cup {Held(grows[i])} : i \in Growths }
  IN  { e \in all : e.key # NoKey }

\* The value of an entry: an entry without a value has a zeroed block, or will.
ValueOf(e) ==
  IF e.block # 0 THEN mem[e.block] ELSE IF e.value = NoValue THEN Zero ELSE e.value

Contents ==
  [k \in Keys |-> LET es == { e \in Entries : e.key = k }
                  IN  IF es = {} THEN NoValue ELSE ValueOf(CHOOSE e \in es : TRUE)]

TypeOK ==
  /\ last[1] \in {"none", "put", "drop"} /\ use \in Uses /\ named \in 0 .. Len(Names) /\ puts \in 0 .. MaxPuts
  /\ \A k \in Keys : kept[k] \in 0 .. Len(mem)
  /\ \A b \in DOMAIN mem : mem[b] \in Data \cup {Zero}
  /\ \A e \in Entries : e.key \in Keys /\ e.block \in 0 .. Len(mem)
  /\ \A i \in Growths : grows[i].next \in 0 .. SizeOf(grows[i].old)

Placement ==
  \A i \in DOMAIN bucket : bucket[i].key # NoKey => Home(bucket[i].key, bucket) = i

OnePlacePerKey ==
  /\ \A e, f \in Entries : e.key = f.key \/ (e.block # 0 /\ e.block = f.block) => e = f
  /\ \A i \in Growths : \A e \in Bucketed : e.key # grows[i].item.key

\* Every variable has its type (TypeOK); an entry sits in the slot its hash names, so that
\* ht_get finds every key there is, also in the middle of a growth (Placement); and
\* however deep growths nest, a key is in one place at a time, and no two keys share a
\* value block (OnePlacePerKey).
WellFormed == TypeOK /\ Placement /\ OnePlacePerKey

\* The pointer kept for a key of named_keys always reaches the key's present value.
KeptPointerIsCurrent ==
  \A k \in Keys : kept[k] # 0 => \E e \in Entries : e.key = k /\ e.block = kept[k]

\* The table is a map: a growth changes nothing a caller could see, an insertion one
\* key, and an erasure one key.
Store == INSTANCE KeyedStore WITH
           store <- Contents, Values <- Data \cup {Zero}

IsAStore == Store!Spec

\* A growth, with the growths it causes, comes to an end.
GrowthEnds == grows # <<>> ~> grows = <<>>
=============================================================================
