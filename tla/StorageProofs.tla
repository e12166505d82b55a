---------------------------- MODULE StorageProofs ----------------------------
(***************************************************************************)
(* Of the hash table and of the allocator, whose registry is one.  For any *)
(* keys and hashes, however deep growths nest, every entry of the hash     *)
(* table is in one place, in the slot its hash names and with a block of   *)
(* its own; and the table is the map KeyedStore describes.  For any number *)
(* of threads and any addresses, the allocator faults nowhere, and its     *)
(* registry names exactly the mapped blocks that are live.                 *)
(***************************************************************************)
EXTENDS HashTable, Allocator, NumberFacts, FiniteSetTheorems, SequenceTheorems

(* The hash table *)

Slot == [key : Keys \cup {NoKey}, value : Data \cup {NoValue}, block : Nat]
Buckets == UNION { [0 .. n - 1 -> Slot] : n \in Nat }
Growth == [old : Buckets, next : Nat,
           item : [key : Keys, value : Data \cup {NoValue}, block : Nat, move : BOOLEAN]]

\* What a slot holds in a table used as u, with n blocks allocated: a key and either a
\* block or a value, or nothing.
Fits(s, u, n) ==
  IF s.key = NoKey THEN s = FreeSlot
  ELSE IF u # "sizes" THEN s.value = NoValue /\ s.block \in 1 .. n
            ELSE s.value \in Data /\ s.block = 0

\* Every entry of a bucket is in the slot its hash names.
GoodBucket(b, u, n) ==
  /\ b \in Buckets
  /\ \A i \in DOMAIN b : Fits(b[i], u, n) /\ (b[i].key # NoKey => Home(b[i].key, b) = i)

\* A growth has an entry to insert: a moved one with its block, or one with a value.
GoodItem(it, u, n) ==
  /\ it.block \in 0 .. n
  /\ it.move => it.block # 0
  /\ IF u # "sizes" THEN it.block # 0 => it.value = NoValue ELSE it.block = 0 /\ it.value \in Data

GoodGrowth(g, u, n) ==
  GoodBucket(g.old, u, n) /\ g.next \in 0 .. SizeOf(g.old) /\ GoodItem(g.item, u, n)

\* The entries of a bucket, and those a growth still has in hand.
InBucket(b) == { e \in { b[i] : i \in DOMAIN b } : e.key # NoKey }
InHand(g) == { e \in Waiting(g) \cup {Held(g)} : e.key # NoKey }

\* All the entries there are under bucket b and growths gs.
EntriesOf(b, gs) == InBucket(b) \cup UNION { InHand(gs[i]) : i \in DOMAIN gs }

\* No key is in two of these places.
Apart(b, gs) ==
  /\ \A i \in DOMAIN gs : \A e \in InBucket(b), f \in InHand(gs[i]) : e.key # f.key
  /\ \A i, j \in DOMAIN gs : i # j => \A e \in InHand(gs[i]), f \in InHand(gs[j]) : e.key # f.key
  /\ \A i \in DOMAIN gs : \A e \in Waiting(gs[i]) : e.key # gs[i].item.key

\* No two keys share a block.
OwnBlocks(S) == \A e, f \in S : e.block # 0 /\ e.block = f.block => e.key = f.key

\* A bucket under growths, as one call of ht_insert_2 finds it.
Sound(b, gs, u, n) ==
  /\ GoodBucket(b, u, n)
  /\ gs \in Seq(Growth)
  /\ \A i \in DOMAIN gs : GoodGrowth(gs[i], u, n)
  /\ Apart(b, gs)
  /\ OwnBlocks(EntriesOf(b, gs))

TypeInv ==
  /\ use \in Uses /\ named \in 0 .. Len(Names) /\ puts \in 0 .. MaxPuts
  /\ mem \in Seq(Data \cup {Zero})
  /\ last[1] \in {"none", "put", "drop"}
  /\ kept \in [Keys -> Nat]
  /\ grows # <<>> => SizeOf(bucket) > 0

\* Pointers are kept once ht_create is done, to blocks of a bucket that grows no more.
KeptInv ==
  /\ \A k \in Keys : kept[k] # 0 =>
       /\ use = "named" /\ Idle
       /\ \E i \in DOMAIN bucket : bucket[i].key = k /\ bucket[i].block = kept[k]

\* What ht_create inserts has no value yet.
CreateInv ==
  named < Len(Names) => /\ use = "named"
                        /\ \A b \in DOMAIN mem : mem[b] = Zero
                        /\ \A i \in DOMAIN grows : grows[i].item.value = NoValue

IInv == TypeInv /\ Sound(bucket, grows, use, Len(mem)) /\ KeptInv /\ CreateInv

----------------------------------------------------------------------------
(* Buckets *)

\* A bucket is a function on as many slots as its size says.
LEMMA BucketSize ==
  ASSUME NEW b \in Buckets
  PROVE  SizeOf(b) \in Nat /\ b \in [0 .. SizeOf(b) - 1 -> Slot]
<1>1. PICK n \in Nat : b \in [0 .. n - 1 -> Slot]
  BY DEF Buckets
<1>2. DOMAIN b = 0 .. n - 1
  BY <1>1
<1>3. Cardinality(0 .. n - 1) = n
  BY FS_Interval
<1> QED BY <1>1, <1>2, <1>3 DEF SizeOf

\* A free slot is one.
LEMMA FreeIsSlot == FreeSlot \in Slot /\ FreeSlot.key = NoKey
BY DEF FreeSlot, Slot

\* New slots are free, and as many as asked for.
LEMMA NewSlots ==
  ASSUME NEW m \in Nat, NEW u, NEW n
  PROVE  /\ GoodBucket(Slots(m), u, n) /\ SizeOf(Slots(m)) = m
         /\ Slots(m) \in Buckets /\ InBucket(Slots(m)) = {}
<1>1. Slots(m) \in [0 .. m - 1 -> Slot] /\ \A i \in DOMAIN Slots(m) : Slots(m)[i] = FreeSlot
  BY FreeIsSlot DEF Slots
<1>2. Slots(m) \in Buckets
  BY <1>1 DEF Buckets
<1>3. Cardinality(0 .. m - 1) = m /\ DOMAIN Slots(m) = 0 .. m - 1
  BY <1>1, FS_Interval
<1> QED BY <1>1, <1>2, <1>3, FreeIsSlot DEF GoodBucket, Fits, SizeOf, InBucket

\* The home of a key is a slot, if there are any.
LEMMA HomeIsSlot ==
  ASSUME NEW b \in Buckets, SizeOf(b) > 0, NEW k \in Keys
  PROVE  Home(k, b) \in DOMAIN b /\ SlotOf(k, b) = b[Home(k, b)] /\ SlotOf(k, b) \in Slot
<1>1. SizeOf(b) \in Nat \ {0} /\ b \in [0 .. SizeOf(b) - 1 -> Slot] /\ Hash[k] \in Nat
  BY BucketSize, HashAssumption
<1>2. Hash[k] % SizeOf(b) \in 0 .. SizeOf(b) - 1
  BY <1>1, Division
<1> QED BY <1>1, <1>2 DEF Home, SlotOf

\* A key is in a bucket only in its home.
LEMMA OnlyAtHome ==
  ASSUME NEW b, NEW u, NEW n, GoodBucket(b, u, n), SizeOf(b) > 0, NEW k \in Keys,
         SlotOf(k, b).key # k
  PROVE  \A e \in InBucket(b) : e.key # k
BY DEF GoodBucket, SlotOf, InBucket

\* A bucket stays good when there are more blocks.
LEMMA MoreBlocks ==
  ASSUME NEW u, NEW n \in Nat, NEW m \in Nat, n <= m
  PROVE  /\ \A b : GoodBucket(b, u, n) => GoodBucket(b, u, m)
         /\ \A g : GoodGrowth(g, u, n) => GoodGrowth(g, u, m)
<1>1. \A s : Fits(s, u, n) => Fits(s, u, m)
  BY DEF Fits
<1>2. \A b : GoodBucket(b, u, n) => GoodBucket(b, u, m)
  BY <1>1 DEF GoodBucket
<1>3. \A it : GoodItem(it, u, n) => GoodItem(it, u, m)
  BY DEF GoodItem
<1> QED BY <1>2, <1>3 DEF GoodGrowth

\* The entries of the specification, place by place.
LEMMA EntriesAreThose ==
  Entries = EntriesOf(bucket, grows) /\ Entries' = EntriesOf(bucket', grows')
BY DEF Entries, EntriesOf, Bucketed, InBucket, InHand, Growths

\* An entry in a bucket is a key with its value or block.
LEMMA EntryFits ==
  ASSUME NEW b, NEW u, NEW n, GoodBucket(b, u, n), NEW e \in InBucket(b)
  PROVE  /\ e \in Slot /\ e.key \in Keys /\ Fits(e, u, n)
         /\ Home(e.key, b) \in DOMAIN b /\ b[Home(e.key, b)] = e
<1>1. PICK i \in DOMAIN b : e = b[i] /\ e.key # NoKey
  BY DEF InBucket
<1>2. b[i] \in Slot
  BY <1>1, BucketSize DEF GoodBucket
<1> QED BY <1>1, <1>2 DEF GoodBucket, Slot

\* Two entries of one key are one entry.
LEMMA OneEntryPerKey ==
  ASSUME NEW b, NEW gs, NEW u, NEW n, Sound(b, gs, u, n),
         NEW e \in EntriesOf(b, gs), NEW f \in EntriesOf(b, gs), e.key = f.key
  PROVE  e = f
<1>1. ASSUME NEW x \in InBucket(b), NEW y \in InBucket(b), x.key = y.key
      PROVE  x = y
  BY <1>1, EntryFits DEF Sound
<1>2. ASSUME NEW i \in DOMAIN gs, NEW x \in InHand(gs[i]), NEW y \in InHand(gs[i]), x.key = y.key
      PROVE  x = y
  <2>1. GoodBucket(gs[i].old, u, n)
    BY DEF Sound, GoodGrowth
  <2>2. ASSUME NEW z \in Waiting(gs[i]), z.key # NoKey
        PROVE  z \in InBucket(gs[i].old) /\ z.key # Held(gs[i]).key
    BY <2>2 DEF Sound, Apart, Waiting, InBucket, Held
  <2>3. CASE x \in Waiting(gs[i]) /\ y \in Waiting(gs[i])
    <3>1. x \in InBucket(gs[i].old) /\ y \in InBucket(gs[i].old)
      BY <2>2, <2>3 DEF InHand
    <3> QED BY <1>2, <2>1, <3>1, EntryFits
  <2>4. CASE x \notin Waiting(gs[i]) /\ y \notin Waiting(gs[i])
    BY <2>4 DEF InHand
  <2>5. CASE ~(x \in Waiting(gs[i]) <=> y \in Waiting(gs[i]))
    BY <1>2, <2>2, <2>5 DEF InHand
  <2> QED BY <2>3, <2>4, <2>5
<1>3. CASE e \in InBucket(b) /\ f \in InBucket(b)
  BY <1>1, <1>3
<1>4. CASE ~(e \in InBucket(b) <=> f \in InBucket(b))
  BY <1>4 DEF EntriesOf, Sound, Apart
<1>5. CASE e \notin InBucket(b) /\ f \notin InBucket(b)
  <2>1. PICK i \in DOMAIN gs : e \in InHand(gs[i])
    BY <1>5 DEF EntriesOf
  <2>2. PICK j \in DOMAIN gs : f \in InHand(gs[j])
    BY <1>5 DEF EntriesOf
  <2>3. i = j
    BY <2>1, <2>2 DEF Sound, Apart
  <2> QED BY <1>2, <2>1, <2>2, <2>3
<1> QED BY <1>3, <1>4, <1>5

----------------------------------------------------------------------------
(* ht_insert_2 *)

OneMore(S, T, f) == S = T \cup {f}

\* Bucket c is b with entry s in the slot of its key.
Filled(c, b, s) == c = [b EXCEPT ![Home(s.key, b)] = s]

\* A free slot that is filled adds its entry to the bucket's.
LEMMA SlotFilled ==
  ASSUME NEW b, NEW u, NEW n, GoodBucket(b, u, n),
         NEW f \in Slot, f.key \in Keys, Fits(f, u, n),
         Home(f.key, b) \in DOMAIN b, b[Home(f.key, b)].key = NoKey,
         NEW c, Filled(c, b, f)
  PROVE  /\ GoodBucket(c, u, n) /\ SizeOf(c) = SizeOf(b)
         /\ OneMore(InBucket(c), InBucket(b), f)
<1> DEFINE h == Home(f.key, b)
<1>0. c = [b EXCEPT ![h] = f]
  BY DEF Filled
<1>1. b \in [0 .. SizeOf(b) - 1 -> Slot] /\ SizeOf(b) \in Nat
  BY BucketSize DEF GoodBucket
<1>2. c \in [0 .. SizeOf(b) - 1 -> Slot] /\ DOMAIN c = DOMAIN b
  BY <1>0, <1>1
<1>3. c \in Buckets /\ SizeOf(c) = SizeOf(b)
  BY <1>1, <1>2 DEF Buckets, SizeOf
<1>4. \A k : Home(k, c) = Home(k, b)
  BY <1>3 DEF Home
<1>5. f.key # NoKey
  BY KeyAssumption
<1>6. \A i \in DOMAIN c : c[i] = IF i = h THEN f ELSE b[i]
  BY <1>0, <1>1
<1> HIDE DEF h
<1>7. h \in DOMAIN b /\ Home(f.key, b) = h /\ b[h].key = NoKey
  BY DEF h
<1>8. GoodBucket(c, u, n)
  BY <1>2, <1>3, <1>4, <1>6, <1>7 DEF GoodBucket
<1>9. OneMore(InBucket(c), InBucket(b), f)
  BY <1>2, <1>5, <1>6, <1>7 DEF InBucket, OneMore
<1> QED BY <1>3, <1>8, <1>9

\* A table stays sound when there are more blocks.
LEMMA MoreSound ==
  ASSUME NEW b, NEW gs, NEW u, NEW n \in Nat, NEW m \in Nat, n <= m, Sound(b, gs, u, n)
  PROVE  Sound(b, gs, u, m)
BY MoreBlocks DEF Sound

\* A bucket with one entry more makes one entry more.
LEMMA EntriesAdded ==
  ASSUME NEW b, NEW gs, NEW f, NEW c, OneMore(InBucket(c), InBucket(b), f)
  PROVE  OneMore(EntriesOf(c, gs), EntriesOf(b, gs), f)
BY DEF EntriesOf, OneMore

\* A bucket with one entry more, of a key and with a block that nobody had.
LEMMA EntryAdded ==
  ASSUME NEW b, NEW gs, NEW u, NEW n, Sound(b, gs, u, n),
         NEW f, NEW c, GoodBucket(c, u, n), OneMore(InBucket(c), InBucket(b), f),
         \A e \in EntriesOf(b, gs) : e.key # f.key /\ (f.block # 0 => e.block # f.block)
  PROVE  Sound(c, gs, u, n)
<1>1. OneMore(EntriesOf(c, gs), EntriesOf(b, gs), f)
  BY EntriesAdded
<1>2. OwnBlocks(EntriesOf(c, gs))
  BY <1>1 DEF Sound, OwnBlocks, OneMore
<1>3. Apart(c, gs)
  <2>1. \A i \in DOMAIN gs : \A e \in InHand(gs[i]) : e.key # f.key
    BY DEF EntriesOf
  <2> QED BY <2>1 DEF Sound, Apart, OneMore
<1> QED BY <1>1, <1>2, <1>3 DEF Sound

\* ht_grow begins: the old bucket and the item are in the hands of the new growth.
LEMMA GrowthBegins ==
  ASSUME NEW b, NEW gs, NEW u, NEW n \in Nat, Sound(b, gs, u, n),
         NEW it \in [key : Keys, value : Data \cup {NoValue}, block : Nat, move : BOOLEAN],
         GoodItem(it, u, n),
         \A e \in EntriesOf(b, gs) : e.key # it.key /\ (it.block # 0 => e.block # it.block)
  PROVE  LET c == Slots(2 * SizeOf(b) + 1)
             hs == Append(gs, [old |-> b, next |-> 0, item |-> it])
             f == [key |-> it.key, value |-> it.value, block |-> it.block]
         IN  /\ Sound(c, hs, u, n) /\ SizeOf(c) > 0
             /\ OneMore(EntriesOf(c, hs), EntriesOf(b, gs), f)
<1> DEFINE c == Slots(2 * SizeOf(b) + 1)
           g == [old |-> b, next |-> 0, item |-> it]
           hs == Append(gs, g)
           f == [key |-> it.key, value |-> it.value, block |-> it.block]
<1>1. b \in Buckets /\ SizeOf(b) \in Nat /\ DOMAIN b = 0 .. SizeOf(b) - 1
  BY BucketSize DEF Sound, GoodBucket
<1>2. 2 * SizeOf(b) + 1 \in Nat /\ 2 * SizeOf(b) + 1 > 0
  BY <1>1
<1>3. GoodBucket(c, u, n) /\ SizeOf(c) > 0 /\ InBucket(c) = {}
  BY <1>2, NewSlots
<1>4. g \in Growth /\ GoodGrowth(g, u, n)
  BY <1>1 DEF Growth, GoodGrowth, Sound
<1>5. Held(g) = f /\ f.key = it.key /\ f.block = it.block /\ f.key # NoKey
  BY KeyAssumption DEF Held
<1>6. Waiting(g) = { b[i] : i \in DOMAIN b }
  BY <1>1 DEF Waiting
<1>7. InHand(g) = InBucket(b) \cup {f}
  BY <1>5, <1>6 DEF InHand, InBucket
<1>8. gs \in Seq(Growth) /\ Len(gs) \in Nat /\ DOMAIN gs = 1 .. Len(gs)
  BY DEF Sound
<1> HIDE DEF c, f, g
<1>9. /\ hs \in Seq(Growth) /\ DOMAIN hs = DOMAIN gs \cup {Len(gs) + 1} /\ Len(gs) + 1 \notin DOMAIN gs
      /\ hs[Len(gs) + 1] = g /\ \A i \in DOMAIN gs : hs[i] = gs[i]
  BY <1>4, <1>8
<1> DEFINE top == Len(gs) + 1
<1> HIDE DEF hs, top
<1>10. /\ DOMAIN hs = DOMAIN gs \cup {top} /\ top \notin DOMAIN gs
       /\ hs[top] = g /\ \A i \in DOMAIN gs : hs[i] = gs[i]
  BY <1>9 DEF top
<1>11. OneMore(EntriesOf(c, hs), EntriesOf(b, gs), f)
  BY <1>3, <1>7, <1>10 DEF EntriesOf, OneMore
<1>12. OwnBlocks(EntriesOf(c, hs))
  BY <1>5, <1>11 DEF Sound, OwnBlocks, OneMore
<1>13. \A i \in DOMAIN hs : GoodGrowth(hs[i], u, n)
  BY <1>4, <1>10 DEF Sound
<1>14. Apart(c, hs)
  <2>1. \A i \in DOMAIN gs : \A e \in InHand(gs[i]), x \in InHand(g) : e.key # x.key
    BY <1>5, <1>7 DEF Sound, Apart, EntriesOf
  <2>2. \A e \in Waiting(g) : e.key # g.item.key
    <3>1. g.item = it /\ it.key # NoKey
      BY <1>5 DEF g
    <3>2. \A e \in Waiting(g) : e.key = NoKey \/ e \in InBucket(b)
      BY <1>6 DEF InBucket
    <3> QED BY <3>1, <3>2 DEF EntriesOf
  <2>3. /\ \A i, j \in DOMAIN gs : i # j => \A e \in InHand(gs[i]), x \in InHand(gs[j]) : e.key # x.key
        /\ \A i \in DOMAIN gs : \A e \in Waiting(gs[i]) : e.key # gs[i].item.key
    BY DEF Sound, Apart
  <2>4. \A i, j \in DOMAIN hs : i # j => \A e \in InHand(hs[i]), x \in InHand(hs[j]) : e.key # x.key
    BY <1>10, <2>1, <2>3
  <2>5. \A i \in DOMAIN hs : \A e \in Waiting(hs[i]) : e.key # hs[i].item.key
    BY <1>10, <2>2, <2>3
  <2> QED BY <1>3, <2>4, <2>5 DEF Apart
<1>15. Sound(c, hs, u, n)
  BY <1>3, <1>9, <1>12, <1>13, <1>14 DEF Sound
<1> QED BY <1>3, <1>11, <1>15 DEF c, hs, f, g

\* The value of an entry or an item, with blocks m.
ValueIn(e, m) ==
  IF e.block # 0 THEN m[e.block] ELSE IF e.value = NoValue THEN Zero ELSE e.value

Memories == Seq(Data \cup {Zero})
Items == [key : Keys, value : Data \cup {NoValue}, block : Nat, move : BOOLEAN]

\* Bucket c, growths hs and blocks mm have the entries of b, gs and m, and one more, f, of
\* value v; and no block has changed.
Adds(f, v, b, gs, m, c, hs, mm, u) ==
  /\ f \in Slot /\ ValueIn(f, mm) = v
  /\ OneMore(EntriesOf(c, hs), EntriesOf(b, gs), f)
  /\ Sound(c, hs, u, Len(mm)) /\ SizeOf(c) > 0
  /\ mm \in Memories /\ Len(m) <= Len(mm)
  /\ \A i \in 1 .. Len(m) : mm[i] = m[i]
  /\ \A i \in 1 .. Len(mm) : i > Len(m) => mm[i] = v

Updated(t, s, k, v) == t = [s EXCEPT ![k] = v]

\* Memories t are s, but for block k with value v.
Written(t, s, k, v) ==
  /\ t \in Memories /\ Len(t) = Len(s)
  /\ \A i \in 1 .. Len(s) : t[i] = IF i = k THEN v ELSE s[i]

\* Memories of which one is written.
LEMMA BlockWritten ==
  ASSUME NEW s \in Memories, NEW k \in 1 .. Len(s), NEW v \in Data \cup {Zero},
         NEW t, Updated(t, s, k, v)
  PROVE  Written(t, s, k, v)
BY DEF Updated, Memories, Written

\* Memories m, with a new block if it is blk, and with v in it if there is a value.
Filling(mm, m, blk, v) ==
  \E grown : /\ blk > Len(m) => grown = Append(m, Zero)
             /\ blk <= Len(m) => grown = m
             /\ v = NoValue => mm = grown
             /\ v # NoValue => Updated(mm, grown, blk, v)

\* Memories mm are m, but for block blk, which there is and which has value v if it is one.
AllBut(blk, v, m, mm) ==
  /\ mm \in Memories /\ Len(m) <= Len(mm) /\ blk \in 1 .. Len(mm)
  /\ mm[blk] = IF v # NoValue THEN v ELSE IF blk <= Len(m) THEN m[blk] ELSE Zero
  /\ \A i \in 1 .. Len(m) : i # blk => mm[i] = m[i]
  /\ \A i \in 1 .. Len(mm) : i > Len(m) => i = blk

\* A block is allocated if it is the next one, and then written if there is a value.
LEMMA BlockFilled ==
  ASSUME NEW m \in Memories, NEW blk \in 1 .. Len(m) + 1,
         NEW v \in Data \cup {Zero, NoValue},
         NEW mm, Filling(mm, m, blk, v)
  PROVE  AllBut(blk, v, m, mm)
<1>0. Len(m) \in Nat
  BY DEF Memories
<1> PICK grown : /\ blk > Len(m) => grown = Append(m, Zero)
                 /\ blk <= Len(m) => grown = m
                 /\ v = NoValue => mm = grown
                 /\ v # NoValue => Updated(mm, grown, blk, v)
  BY DEF Filling
<1>1. /\ grown \in Memories /\ Len(m) <= Len(grown) /\ blk \in 1 .. Len(grown)
      /\ grown[blk] = IF blk <= Len(m) THEN m[blk] ELSE Zero
      /\ \A i \in 1 .. Len(m) : grown[i] = m[i]
      /\ \A i \in 1 .. Len(grown) : i > Len(m) => i = blk
  <2>1. CASE blk > Len(m)
    <3>1. grown = Append(m, Zero) /\ blk = Len(m) + 1
      BY <1>0, <2>1
    <3> QED BY <1>0, <3>1 DEF Memories
  <2>2. CASE ~(blk > Len(m))
    BY <1>0, <2>2
  <2> QED BY <2>1, <2>2
<1>2. CASE v = NoValue
  BY <1>1, <1>2 DEF AllBut
<1>3. CASE v # NoValue
  <2>1. Updated(mm, grown, blk, v) /\ v \in Data \cup {Zero}
    BY <1>3
  <2>2. /\ mm \in Memories /\ Len(mm) = Len(grown) /\ mm[blk] = v
        /\ \A i \in 1 .. Len(grown) : i # blk => mm[i] = grown[i]
    <3>1. grown \in Memories /\ blk \in 1 .. Len(grown)
      BY <1>1
    <3>2. Written(mm, grown, blk, v)
      BY <2>1, <3>1, BlockWritten
    <3> QED BY <3>1, <3>2 DEF Written
  <2>3. \A i \in 1 .. Len(m) : i # blk => mm[i] = m[i]
    <3>1. Len(grown) \in Nat /\ \A i \in 1 .. Len(m) : i \in 1 .. Len(grown)
      BY <1>0, <1>1 DEF Memories
    <3> QED BY <1>1, <2>2, <3>1, Zenon
  <2> QED BY <1>1, <1>3, <2>2, <2>3 DEF AllBut
<1> QED BY <1>2, <1>3 DEF AllBut

\* The blocks of entries are allocated.
LEMMA BlockAllocated ==
  ASSUME NEW b, NEW gs, NEW u, NEW n \in Nat, Sound(b, gs, u, n),
         NEW e \in EntriesOf(b, gs)
  PROVE  e.block \in 0 .. n
<1>1. ASSUME NEW c, GoodBucket(c, u, n), NEW x \in InBucket(c)
      PROVE  x.block \in 0 .. n
  <2>1. Fits(x, u, n) /\ x.key # NoKey
    BY <1>1, EntryFits DEF InBucket
  <2> QED BY <2>1 DEF Fits
<1>2. CASE e \in InBucket(b)
  BY <1>1, <1>2 DEF Sound
<1>3. CASE e \notin InBucket(b)
  <2>1. PICK i \in DOMAIN gs : e \in InHand(gs[i])
    BY <1>3 DEF EntriesOf
  <2>2. GoodBucket(gs[i].old, u, n) /\ GoodItem(gs[i].item, u, n)
    BY DEF Sound, GoodGrowth
  <2>3. CASE e = Held(gs[i])
    BY <2>2, <2>3 DEF GoodItem, Held
  <2>4. CASE e \in Waiting(gs[i])
    <3>1. e \in InBucket(gs[i].old)
      BY <2>1, <2>4 DEF InHand, Waiting, InBucket
    <3> QED BY <1>1, <2>2, <3>1
  <2> QED BY <2>1, <2>3, <2>4 DEF InHand
<1> QED BY <1>2, <1>3

\* In a wide table, a free slot with the item's block or a new one adds the item.
LEMMA WideAdds ==
  ASSUME NEW u, u # "sizes", NEW m \in Memories, NEW mm \in Memories, NEW b, NEW gs,
         Sound(b, gs, u, Len(m)), NEW it \in Items, NEW c, NEW blk \in Nat,
         SlotOf(it.key, b).key = NoKey, SizeOf(b) > 0,
         Filled(c, b, [key |-> it.key, value |-> NoValue, block |-> blk]),
         Len(m) <= Len(mm), blk \in 1 .. Len(mm), blk <= Len(m) => blk = it.block,
         \A i \in 1 .. Len(m) : mm[i] = m[i],
         \A i \in 1 .. Len(mm) : i > Len(m) => i = blk,
         \A e \in EntriesOf(b, gs) : e.key # it.key /\ (it.block # 0 => e.block # it.block)
  PROVE  \E f : f.key = it.key /\ Adds(f, mm[blk], b, gs, m, c, gs, mm, u)
<1> DEFINE f == [key |-> it.key, value |-> NoValue, block |-> blk]
<1>0. it.key \in Keys /\ it.key # NoKey
  BY KeyAssumption DEF Items
<1>1. Len(m) \in Nat /\ Len(mm) \in Nat
  BY DEF Memories
<1>2. GoodBucket(b, u, Len(mm)) /\ b \in Buckets
  BY <1>1, MoreBlocks DEF Sound, GoodBucket
<1>3. f \in Slot /\ f.key = it.key /\ f.block = blk /\ Fits(f, u, Len(mm))
  BY <1>0 DEF Slot, Fits
<1>4. ValueIn(f, mm) = mm[blk]
  BY <1>1, <1>3 DEF ValueIn
<1>5. Filled(c, b, f)
  OBVIOUS
<1> HIDE DEF f
<1>6. Home(f.key, b) \in DOMAIN b /\ b[Home(f.key, b)].key = NoKey
  BY <1>0, <1>2, <1>3, HomeIsSlot
<1>7. GoodBucket(c, u, Len(mm)) /\ SizeOf(c) = SizeOf(b) /\ OneMore(InBucket(c), InBucket(b), f)
  BY <1>0, <1>2, <1>3, <1>5, <1>6, SlotFilled
<1>8. \A e \in EntriesOf(b, gs) : e.key # f.key /\ (f.block # 0 => e.block # f.block)
  <2> SUFFICES ASSUME NEW e \in EntriesOf(b, gs) PROVE e.key # it.key /\ e.block # blk
    BY <1>3
  <2>1. e.block \in 0 .. Len(m)
    BY <1>1, BlockAllocated
  <2> QED BY <1>1, <2>1
<1>9. Sound(c, gs, u, Len(mm)) /\ OneMore(EntriesOf(c, gs), EntriesOf(b, gs), f)
  <2>1. Sound(b, gs, u, Len(mm))
    BY <1>1, MoreSound
  <2>2. OneMore(EntriesOf(c, gs), EntriesOf(b, gs), f)
    BY <1>7, EntriesAdded
  <2> QED BY <1>7, <1>8, <2>1, <2>2, EntryAdded
<1>10. \A i \in 1 .. Len(mm) : i > Len(m) => mm[i] = mm[blk]
  OBVIOUS
<1> QED BY <1>3, <1>4, <1>7, <1>9, <1>10 DEF Adds

\* In a narrow table, a free slot with the item's value adds the item.
LEMMA NarrowAdds ==
  ASSUME NEW u, u = "sizes", NEW m \in Memories, NEW b, NEW gs,
         Sound(b, gs, u, Len(m)), NEW it \in Items, GoodItem(it, u, Len(m)), NEW c,
         SlotOf(it.key, b).key = NoKey, SizeOf(b) > 0,
         Filled(c, b, [key |-> it.key, value |-> it.value, block |-> 0]),
         \A e \in EntriesOf(b, gs) : e.key # it.key
  PROVE  \E f : f.key = it.key /\ Adds(f, ValueIn(it, m), b, gs, m, c, gs, m, u)
<1> DEFINE f == [key |-> it.key, value |-> it.value, block |-> 0]
<1>0. it.key \in Keys /\ it.key # NoKey
  BY KeyAssumption DEF Items
<1>1. Len(m) \in Nat
  BY DEF Memories
<1>2. GoodBucket(b, u, Len(m)) /\ b \in Buckets
  BY DEF Sound, GoodBucket
<1>3. it.block = 0 /\ it.value \in Data
  BY DEF GoodItem
<1>4. f \in Slot /\ f.key = it.key /\ f.block = 0 /\ Fits(f, u, Len(m))
  BY <1>0, <1>3 DEF Slot, Fits
<1>5. ValueIn(f, m) = ValueIn(it, m)
  BY <1>3 DEF ValueIn
<1>6. Filled(c, b, f)
  OBVIOUS
<1> HIDE DEF f
<1>7. Home(f.key, b) \in DOMAIN b /\ b[Home(f.key, b)].key = NoKey
  BY <1>0, <1>2, <1>4, HomeIsSlot
<1>8. GoodBucket(c, u, Len(m)) /\ SizeOf(c) = SizeOf(b) /\ OneMore(InBucket(c), InBucket(b), f)
  BY <1>0, <1>2, <1>4, <1>6, <1>7, SlotFilled
<1>9. \A e \in EntriesOf(b, gs) : e.key # f.key /\ (f.block # 0 => e.block # f.block)
  BY <1>4
<1>10. Sound(c, gs, u, Len(m)) /\ OneMore(EntriesOf(c, gs), EntriesOf(b, gs), f)
  <2>1. OneMore(EntriesOf(c, gs), EntriesOf(b, gs), f)
    BY <1>8, EntriesAdded
  <2> QED BY <1>8, <1>9, <2>1, EntryAdded
<1> QED BY <1>1, <1>4, <1>5, <1>8, <1>10 DEF Adds

\* A growth that begins adds its item.
LEMMA GrowthAdds ==
  ASSUME NEW u, NEW m \in Memories, NEW b, NEW gs,
         Sound(b, gs, u, Len(m)), NEW it \in Items, GoodItem(it, u, Len(m)),
         \A e \in EntriesOf(b, gs) : e.key # it.key /\ (it.block # 0 => e.block # it.block)
  PROVE  \E f : /\ f.key = it.key
                /\ Adds(f, ValueIn(it, m), b, gs, m, Slots(2 * SizeOf(b) + 1),
                        Append(gs, [old |-> b, next |-> 0, item |-> it]), m, u)
<1> DEFINE f == [key |-> it.key, value |-> it.value, block |-> it.block]
           c == Slots(2 * SizeOf(b) + 1)
           hs == Append(gs, [old |-> b, next |-> 0, item |-> it])
<1>1. Len(m) \in Nat
  BY DEF Memories
<1>2. f \in Slot /\ f.key = it.key
  BY DEF Slot, Items
<1>3. ValueIn(f, m) = ValueIn(it, m)
  BY DEF ValueIn
<1>4. it \in [key : Keys, value : Data \cup {NoValue}, block : Nat, move : BOOLEAN]
  BY DEF Items
<1>5. Sound(c, hs, u, Len(m)) /\ SizeOf(c) > 0 /\ OneMore(EntriesOf(c, hs), EntriesOf(b, gs), f)
  BY <1>1, <1>4, GrowthBegins
<1> HIDE DEF f, c, hs
<1>6. f.key = it.key /\ Adds(f, ValueIn(it, m), b, gs, m, c, hs, m, u)
  BY <1>1, <1>2, <1>3, <1>5 DEF Adds
<1> QED BY <1>6 DEF c, hs

\* The two kinds of slot ht_insert_2 makes of a free one.
LEMMA SlotMade ==
  ASSUME NEW k, NEW x
  PROVE  /\ [FreeSlot EXCEPT !.key = k, !.value = x] = [key |-> k, value |-> x, block |-> 0]
         /\ [FreeSlot EXCEPT !.key = k, !.block = x] = [key |-> k, value |-> NoValue, block |-> x]
<1> DEFINE s == [key |-> k, value |-> x, block |-> 0]
           t == [key |-> k, value |-> NoValue, block |-> x]
<1>1. s.key = k /\ s.value = x /\ s.block = FreeSlot.block
  BY DEF FreeSlot
<1>2. t.key = k /\ t.value = FreeSlot.value /\ t.block = x
  BY DEF FreeSlot
<1>3. [FreeSlot EXCEPT !.key = k, !.value = x] = s
  BY <1>1 DEF FreeSlot
<1>4. [FreeSlot EXCEPT !.key = k, !.block = x] = t
  BY <1>2 DEF FreeSlot
<1> QED BY <1>3, <1>4

\* A placed item whose key is nowhere in the table is there afterwards, in a slot or in the
\* hands of a growth, and nothing else has changed.
LEMMA PlaceAdds ==
  ASSUME mem \in Memories, NEW b, NEW gs, Sound(b, gs, use, Len(mem)), SizeOf(b) > 0,
         NEW it \in Items, GoodItem(it, use, Len(mem)), Place(it, b, gs),
         \A e \in EntriesOf(b, gs) : e.key # it.key /\ (it.block # 0 => e.block # it.block)
  PROVE  \E f : /\ f.key = it.key
                /\ Adds(f, ValueIn(it, mem), b, gs, mem, bucket', grows', mem', use)
<1> DEFINE s == SlotOf(it.key, b)
           n == Len(mem)
<1>1. b \in Buckets /\ GoodBucket(b, use, n) /\ it.key \in Keys /\ it.key # NoKey
  BY KeyAssumption DEF Sound, GoodBucket, Items
<1>2. Home(it.key, b) \in DOMAIN b /\ s = b[Home(it.key, b)]
  BY <1>1, HomeIsSlot
<1>3. s.key # it.key
  BY <1>1, <1>2 DEF EntriesOf, InBucket
<1>4. n \in Nat
  BY DEF Memories
<1>5. CASE s.key = NoKey
  <2>1. s = FreeSlot
    BY <1>1, <1>2, <1>5 DEF GoodBucket, Fits
  <2>2. grows' = gs /\ IF Wide THEN PlaceWide(it, b, FreeSlot) ELSE PlaceNarrow(it, b, FreeSlot)
    BY <1>5, <2>1 DEF Place
  <2>3. CASE ~Wide
    <3>1. bucket' = [b EXCEPT ![Home(it.key, b)] =
                       [FreeSlot EXCEPT !.key = it.key, !.value = it.value]]
      BY <2>2, <2>3 DEF PlaceNarrow, FreeSlot
    <3>2. [FreeSlot EXCEPT !.key = it.key, !.value = it.value]
            = [key |-> it.key, value |-> it.value, block |-> 0]
      BY SlotMade
    <3>3. Filled(bucket', b, [key |-> it.key, value |-> it.value, block |-> 0])
      BY <3>1, <3>2 DEF Filled
    <3>4. mem' = mem /\ use = "sizes"
      BY <2>2, <2>3 DEF PlaceNarrow, Wide
    <3>5. \A e \in EntriesOf(b, gs) : e.key # it.key
      OBVIOUS
    <3> HIDE DEF s, n
    <3> QED BY <1>5, <2>2, <3>3, <3>4, <3>5, NarrowAdds DEF s
  <2>4. CASE Wide
    <3> DEFINE blk == IF it.move THEN it.block ELSE Len(mem) + 1
               grown == IF blk > Len(mem) THEN Append(mem, Zero) ELSE mem
               v == ItemData(it)
    <3>1. /\ bucket' = [b EXCEPT ![Home(it.key, b)] =
                         [FreeSlot EXCEPT !.key = it.key, !.block = blk]]
          /\ mem' = IF v = NoValue THEN grown ELSE [grown EXCEPT ![blk] = v]
      BY <2>2, <2>4 DEF PlaceWide, FreeSlot
    <3>2. [FreeSlot EXCEPT !.key = it.key, !.block = blk]
            = [key |-> it.key, value |-> NoValue, block |-> blk]
      BY SlotMade
    <3>3. Filled(bucket', b, [key |-> it.key, value |-> NoValue, block |-> blk])
      BY <3>1, <3>2 DEF Filled
    <3>4. it.block \in 0 .. n /\ it.move \in BOOLEAN /\ (it.move => it.block \in 1 .. n)
      BY <1>4 DEF GoodItem, Items
    <3>5. blk \in 1 .. Len(mem) + 1 /\ blk \in Nat /\ (blk <= Len(mem) => blk = it.block)
      BY <1>4, <3>4
    <3>6. v = (IF it.block # 0 THEN mem[it.block] ELSE it.value) /\ v \in Data \cup {Zero, NoValue}
      BY <3>4 DEF ItemData, Items, Memories
    <3>7. ValueIn(it, mem) = IF v = NoValue THEN Zero ELSE v
      <4>1. it.block # 0 => mem[it.block] # NoValue
        BY <3>4, ValueAssumption DEF Memories
      <4> QED BY <3>6, <4>1 DEF ValueIn
    <3>8. it.move => v # NoValue
      BY <3>4, <3>6, ValueAssumption DEF Memories
    <3>9. /\ blk > Len(mem) => grown = Append(mem, Zero)
          /\ blk <= Len(mem) => grown = mem
      BY <1>4, <3>5
    <3>10. it.move <=> blk <= Len(mem)
      BY <1>4, <3>4
    <3>11. (v = NoValue => mem' = grown) /\ (v # NoValue => Updated(mem', grown, blk, v))
      BY <3>1 DEF Updated
    <3>12. \A i \in 1 .. Len(mem) : i = blk => v = mem[i]
      BY <3>4, <3>5, <3>6
    <3> HIDE DEF s, n, blk, grown, v
    <3>13. /\ mem' \in Memories /\ Len(mem) <= Len(mem') /\ blk \in 1 .. Len(mem')
           /\ mem'[blk] = IF v # NoValue THEN v ELSE IF blk <= Len(mem) THEN mem[blk] ELSE Zero
           /\ \A i \in 1 .. Len(mem) : i # blk => mem'[i] = mem[i]
           /\ \A i \in 1 .. Len(mem') : i > Len(mem) => i = blk
      <4>1. Filling(mem', mem, blk, v)
        BY <3>9, <3>11 DEF Filling
      <4>2. AllBut(blk, v, mem, mem')
        BY <3>5, <3>6, <4>1, BlockFilled
      <4> QED BY <4>2 DEF AllBut
    <3>14. mem'[blk] = ValueIn(it, mem)
      BY <3>7, <3>8, <3>10, <3>13
    <3>15. \A i \in 1 .. Len(mem) : mem'[i] = mem[i]
      BY <3>8, <3>10, <3>12, <3>13
    <3>16. use # "sizes" /\ SlotOf(it.key, b).key = NoKey
      BY <1>5, <2>4 DEF Wide, s
    <3> QED BY <2>2, <3>3, <3>5, <3>13, <3>14, <3>15, <3>16, WideAdds
  <2> QED BY <2>3, <2>4
<1>6. CASE s.key # NoKey
  <2>1. /\ bucket' = Slots(2 * SizeOf(b) + 1) /\ mem' = mem
        /\ grows' = Append(gs, [old |-> b, next |-> 0, item |-> it])
    BY <1>3, <1>6 DEF Place
  <2> QED BY <2>1, GrowthAdds
<1> QED BY <1>5, <1>6

----------------------------------------------------------------------------
(* What a caller can see *)

ContentsOf(S, m) ==
  [k \in Keys |-> LET es == { e \in S : e.key = k }
                  IN  IF es = {} THEN NoValue ELSE ValueIn(CHOOSE e \in es : TRUE, m)]

Unique(S) == \A e, f \in S : e.key = f.key => e = f

\* The contents F are G but for the value v of key k.
Changed(F, G, k, v) == F = [G EXCEPT ![k] = v]

\* The contents are those of the entries.
LEMMA ContentsAreThose ==
  /\ Contents = ContentsOf(EntriesOf(bucket, grows), mem)
  /\ Contents' = ContentsOf(EntriesOf(bucket', grows'), mem')
BY EntriesAreThose DEF Contents, ContentsOf, ValueOf, ValueIn

\* A key has the value of its one entry, or none.
LEMMA ContentsAt ==
  ASSUME NEW S, NEW m, Unique(S), NEW k \in Keys
  PROVE  /\ \A e \in S : e.key = k => ContentsOf(S, m)[k] = ValueIn(e, m)
         /\ (\A e \in S : e.key # k) => ContentsOf(S, m)[k] = NoValue
<1> DEFINE es == { e \in S : e.key = k }
<1>1. ContentsOf(S, m)[k] = IF es = {} THEN NoValue ELSE ValueIn(CHOOSE e \in es : TRUE, m)
  BY DEF ContentsOf
<1>2. ASSUME NEW e \in S, e.key = k
      PROVE  ContentsOf(S, m)[k] = ValueIn(e, m)
  <2>1. es = {e}
    BY <1>2 DEF Unique
  <2>2. es # {} /\ (CHOOSE x \in es : TRUE) = e
    BY <2>1
  <2> QED BY <1>1, <2>2
<1>3. ASSUME \A e \in S : e.key # k
      PROVE  ContentsOf(S, m)[k] = NoValue
  <2>1. es = {}
    BY <1>3
  <2> QED BY <1>1, <2>1
<1> QED BY <1>2, <1>3

\* The contents are equal if they are at each key.
LEMMA ChangedAt ==
  ASSUME NEW S, NEW m, NEW T, NEW mm, NEW k \in Keys, NEW v,
         ContentsOf(T, mm)[k] = v,
         \A x \in Keys : x # k => ContentsOf(T, mm)[x] = ContentsOf(S, m)[x]
  PROVE  Changed(ContentsOf(T, mm), ContentsOf(S, m), k, v)
<1> DEFINE F == ContentsOf(T, mm)
           G == ContentsOf(S, m)
<1>1. F = [x \in Keys |-> F[x]] /\ G = [x \in Keys |-> G[x]]
  BY DEF ContentsOf
<1> HIDE DEF F, G
<1>2. F = [G EXCEPT ![k] = v]
  <2>1. F[k] = v /\ \A x \in Keys : x # k => F[x] = G[x]
    BY DEF F, G
  <2> QED BY <1>1, <2>1
<1> QED BY <1>2 DEF Changed, F, G

\* An entry more gives its key its value.
LEMMA ContentsAdded ==
  ASSUME NEW S, NEW T, NEW f, f.key \in Keys, OneMore(T, S, f), Unique(T),
         \A e \in S : e.key # f.key,
         NEW m, NEW mm, \A e \in S : ValueIn(e, mm) = ValueIn(e, m)
  PROVE  Changed(ContentsOf(T, mm), ContentsOf(S, m), f.key, ValueIn(f, mm))
<1>1. \A e : e \in T <=> e \in S \/ e = f
  BY DEF OneMore
<1>2. Unique(S)
  BY <1>1 DEF Unique
<1>3. ContentsOf(T, mm)[f.key] = ValueIn(f, mm)
  BY <1>1, ContentsAt
<1>4. ASSUME NEW k \in Keys, k # f.key
      PROVE  ContentsOf(T, mm)[k] = ContentsOf(S, m)[k]
  <2>1. CASE \E e \in S : e.key = k
    <3>1. PICK e \in S : e.key = k
      BY <2>1
    <3>2. e \in T
      BY <1>1
    <3>3. ContentsOf(T, mm)[k] = ValueIn(e, mm)
      BY <3>1, <3>2, ContentsAt
    <3>4. ContentsOf(S, m)[k] = ValueIn(e, m)
      BY <1>2, <3>1, ContentsAt
    <3> QED BY <3>3, <3>4
  <2>2. CASE \A e \in S : e.key # k
    <3>1. \A e \in T : e.key # k
      BY <1>1, <1>4, <2>2
    <3>2. ContentsOf(T, mm)[k] = NoValue
      BY <3>1, ContentsAt
    <3>3. ContentsOf(S, m)[k] = NoValue
      BY <1>2, <2>2, ContentsAt
    <3> QED BY <3>2, <3>3
  <2> QED BY <2>1, <2>2
<1> QED BY <1>3, <1>4, ChangedAt

\* A sound table has one entry per key.
LEMMA SoundIsUnique ==
  ASSUME NEW b, NEW gs, NEW u, NEW n, Sound(b, gs, u, n)
  PROVE  Unique(EntriesOf(b, gs))
BY OneEntryPerKey DEF Unique

\* A placed item gives its key its value.
LEMMA AddsOneKey ==
  ASSUME NEW f, NEW v, NEW b, NEW gs, NEW m \in Memories, NEW c, NEW hs, NEW mm, NEW u,
         Sound(b, gs, u, Len(m)), Adds(f, v, b, gs, m, c, hs, mm, u), f.key \in Keys,
         \A e \in EntriesOf(b, gs) : e.key # f.key
  PROVE  Changed(ContentsOf(EntriesOf(c, hs), mm), ContentsOf(EntriesOf(b, gs), m), f.key, v)
<1>1. Unique(EntriesOf(c, hs))
  BY SoundIsUnique DEF Adds
<1>2. ASSUME NEW e \in EntriesOf(b, gs)
      PROVE  ValueIn(e, mm) = ValueIn(e, m)
  <2>1. e.block \in 0 .. Len(m) /\ Len(m) \in Nat
    BY BlockAllocated DEF Memories
  <2>2. \A i \in 1 .. Len(m) : mm[i] = m[i]
    BY DEF Adds
  <2> QED BY <2>1, <2>2 DEF ValueIn
<1>3. OneMore(EntriesOf(c, hs), EntriesOf(b, gs), f) /\ ValueIn(f, mm) = v
  BY DEF Adds
<1>4. Changed(ContentsOf(EntriesOf(c, hs), mm), ContentsOf(EntriesOf(b, gs), m),
              f.key, ValueIn(f, mm))
  BY <1>1, <1>2, <1>3, ContentsAdded
<1> QED BY <1>3, <1>4

\* The table of a caller that finds its key in a "named" table stays as it is, but for the
\* value in the key's block.
LEMMA PlaceAgain ==
  ASSUME mem \in Memories, use = "named",
         NEW b, NEW gs, Sound(b, gs, use, Len(mem)), SizeOf(b) > 0,
         NEW it \in Items, it.block = 0, Place(it, b, gs), SlotOf(it.key, b).key = it.key
  PROVE  LET s == SlotOf(it.key, b)
         IN  /\ bucket' = b /\ grows' = gs /\ s \in EntriesOf(b, gs) /\ s.block \in 1 .. Len(mem)
             /\ IF it.value = NoValue THEN mem' = mem ELSE Updated(mem', mem, s.block, it.value)
<1> DEFINE s == SlotOf(it.key, b)
           h == Home(it.key, b)
<1>1. b \in Buckets /\ GoodBucket(b, use, Len(mem)) /\ it.key \in Keys /\ it.key # NoKey
  BY KeyAssumption DEF Sound, GoodBucket, Items
<1>2. h \in DOMAIN b /\ s = b[h] /\ s \in Slot
  BY <1>1, HomeIsSlot
<1>3. s \in EntriesOf(b, gs)
  BY <1>1, <1>2 DEF EntriesOf, InBucket
<1>4. s.value = NoValue /\ s.block \in 1 .. Len(mem) /\ s.key = it.key
  BY <1>1, <1>2 DEF GoodBucket, Fits
<1>5. Wide /\ PlaceWide(it, b, s) /\ grows' = gs
  BY DEF Place, Wide
<1>6. Len(mem) \in Nat /\ s.block # 0 /\ ~(s.block > Len(mem))
  BY <1>4 DEF Memories
<1>7. ItemData(it) = it.value
  BY DEF ItemData
<1>8. /\ bucket' = [b EXCEPT ![h] = [FreeSlot EXCEPT !.key = it.key, !.block = s.block]]
      /\ mem' = IF it.value = NoValue THEN mem ELSE [mem EXCEPT ![s.block] = it.value]
  BY <1>5, <1>6, <1>7 DEF PlaceWide
<1>9. [FreeSlot EXCEPT !.key = it.key, !.block = s.block]
        = [key |-> it.key, value |-> NoValue, block |-> s.block]
  BY SlotMade
<1>10. [key |-> it.key, value |-> NoValue, block |-> s.block] = s
  BY <1>2, <1>4 DEF Slot
<1>11. bucket' = b
  <2>1. bucket' = [b EXCEPT ![h] = b[h]]
    BY <1>2, <1>8, <1>9, <1>10
  <2>2. b \in [0 .. SizeOf(b) - 1 -> Slot]
    BY <1>1, BucketSize
  <2> HIDE DEF h
  <2> QED BY <2>1, <2>2
<1> QED BY <1>3, <1>4, <1>5, <1>8, <1>11 DEF Updated

\* Writing the block of an entry changes the value of its key alone.
LEMMA WriteOneKey ==
  ASSUME NEW b, NEW gs, NEW u, NEW m \in Memories, Sound(b, gs, u, Len(m)),
         NEW e \in EntriesOf(b, gs), e.block \in 1 .. Len(m), e.key \in Keys,
         NEW v \in Data \cup {Zero}, NEW mm, Updated(mm, m, e.block, v)
  PROVE  /\ mm \in Memories /\ Len(mm) = Len(m)
         /\ Changed(ContentsOf(EntriesOf(b, gs), mm), ContentsOf(EntriesOf(b, gs), m), e.key, v)
<1> DEFINE S == EntriesOf(b, gs)
<1>1. Unique(S) /\ OwnBlocks(S)
  BY SoundIsUnique DEF Sound
<1>2. Written(mm, m, e.block, v)
  BY BlockWritten
<1>3. /\ mm \in Memories /\ Len(mm) = Len(m) /\ mm[e.block] = v
      /\ \A i \in 1 .. Len(m) : mm[i] = IF i = e.block THEN v ELSE m[i]
  BY <1>2 DEF Written
<1>4. Len(m) \in Nat /\ e.block # 0
  BY DEF Memories
<1>5. ContentsOf(S, mm)[e.key] = v
  <2>1. ValueIn(e, mm) = v
    BY <1>3, <1>4 DEF ValueIn
  <2> QED BY <1>1, <2>1, ContentsAt
<1>6. ASSUME NEW k \in Keys, k # e.key
      PROVE  ContentsOf(S, mm)[k] = ContentsOf(S, m)[k]
  <2>1. CASE \E f \in S : f.key = k
    <3>1. PICK f \in S : f.key = k
      BY <2>1
    <3>2. f.block \in 0 .. Len(m)
      BY <1>4, BlockAllocated
    <3>3. f.block # e.block
      BY <1>1, <1>4, <1>6, <3>1 DEF OwnBlocks
    <3>4. ValueIn(f, mm) = ValueIn(f, m)
      BY <1>3, <1>4, <3>2, <3>3 DEF ValueIn
    <3> QED BY <1>1, <3>1, <3>4, ContentsAt
  <2>2. CASE \A f \in S : f.key # k
    BY <1>1, <2>2, ContentsAt
  <2> QED BY <2>1, <2>2
<1>7. Changed(ContentsOf(S, mm), ContentsOf(S, m), e.key, v)
  BY <1>5, <1>6, ChangedAt
<1> QED BY <1>3, <1>7

\* ht_find's first slot holds nothing.
LEMMA ReadyIsSound ==
  ASSUME NEW b, NEW u, NEW n, Sound(b, <<>>, u, n)
  PROVE  /\ Sound(Ready(b), <<>>, u, n) /\ SizeOf(Ready(b)) > 0
         /\ EntriesOf(Ready(b), <<>>) = EntriesOf(b, <<>>)
         /\ \A k \in Keys : SlotOf(k, Ready(b)).key = k => Ready(b) = b
<1>1. b \in Buckets /\ SizeOf(b) \in Nat /\ b \in [0 .. SizeOf(b) - 1 -> Slot]
  BY BucketSize DEF Sound, GoodBucket
<1>2. CASE SizeOf(b) # 0
  BY <1>1, <1>2 DEF Ready
<1>3. CASE SizeOf(b) = 0
  <2>1. Ready(b) = Slots(1)
    BY <1>3 DEF Ready
  <2>2. GoodBucket(Slots(1), u, n) /\ SizeOf(Slots(1)) = 1 /\ InBucket(Slots(1)) = {} /\ Slots(1) \in Buckets
    BY NewSlots
  <2>3. DOMAIN b = {}
    BY <1>1, <1>3
  <2>4. InBucket(b) = {}
    BY <2>3 DEF InBucket
  <2>5. EntriesOf(Slots(1), <<>>) = EntriesOf(b, <<>>)
    BY <2>2, <2>4 DEF EntriesOf
  <2>6. Apart(Slots(1), <<>>)
    BY DEF Apart
  <2>7. Sound(Slots(1), <<>>, u, n)
    BY <2>2, <2>5, <2>6 DEF Sound
  <2>8. ASSUME NEW k \in Keys PROVE SlotOf(k, Slots(1)).key # k
    <3>1. Home(k, Slots(1)) \in DOMAIN Slots(1) /\ SlotOf(k, Slots(1)) = Slots(1)[Home(k, Slots(1))]
      BY <2>2, HomeIsSlot
    <3>2. SlotOf(k, Slots(1)) = FreeSlot
      BY <3>1 DEF Slots
    <3> QED BY <3>2, FreeIsSlot, KeyAssumption
  <2> QED BY <2>1, <2>2, <2>5, <2>7, <2>8
<1> QED BY <1>2, <1>3

----------------------------------------------------------------------------
(* The steps *)

NoneKept == \A k \in Keys : kept[k] = 0

\* Pointers are kept only in a "named" table nothing is going on in.
LEMMA NoneKeptYet ==
  ASSUME KeptInv, ~Idle \/ use # "named"
  PROVE  NoneKept
BY DEF KeptInv, NoneKept

\* A placed item is put in the hands of a growth, if in any.
LEMMA PlaceGrows ==
  ASSUME NEW b, NEW gs, NEW it, Place(it, b, gs)
  PROVE  grows' = gs \/ \E g : g.item = it /\ grows' = Append(gs, g)
<1>1. CASE grows' = gs
  BY <1>1
<1>2. CASE grows' # gs
  <2>1. grows' = Append(gs, [old |-> b, next |-> 0, item |-> it])
    BY <1>2 DEF Place
  <2> QED BY <2>1
<1> QED BY <1>1, <1>2

\* A step that places an item whose key was nowhere gives that key its value.
LEMMA Joins ==
  ASSUME TypeInv, CreateInv, NoneKept,
         NEW b, NEW gs, Sound(b, gs, use, Len(mem)), SizeOf(b) > 0,
         NEW it \in Items, GoodItem(it, use, Len(mem)), Place(it, b, gs),
         \A e \in EntriesOf(b, gs) : e.key # it.key /\ (it.block # 0 => e.block # it.block),
         named < Len(Names) => /\ it.value = NoValue /\ ValueIn(it, mem) = Zero
                               /\ \A i \in DOMAIN gs : gs[i].item.value = NoValue,
         use' = use, kept' = kept, named' \in 0 .. Len(Names), puts' \in 0 .. MaxPuts,
         last'[1] \in {"none", "put", "drop"}, named' < Len(Names) => named < Len(Names)
  PROVE  /\ IInv'
         /\ Changed(Contents', ContentsOf(EntriesOf(b, gs), mem), it.key, ValueIn(it, mem))
<1>0. mem \in Memories /\ it.key \in Keys
  BY DEF TypeInv, Memories, Items
<1>1. PICK f : /\ f.key = it.key
               /\ Adds(f, ValueIn(it, mem), b, gs, mem, bucket', grows', mem', use)
  BY <1>0, PlaceAdds
<1>2. /\ Sound(bucket', grows', use, Len(mem')) /\ SizeOf(bucket') > 0
      /\ mem' \in Memories /\ Len(mem) <= Len(mem')
      /\ \A i \in 1 .. Len(mem) : mem'[i] = mem[i]
      /\ \A i \in 1 .. Len(mem') : i > Len(mem) => mem'[i] = ValueIn(it, mem)
  BY <1>1 DEF Adds
<1>3. TypeInv'
  BY <1>2 DEF TypeInv, Memories
<1>4. Sound(bucket', grows', use', Len(mem'))
  BY <1>2
<1>5. KeptInv'
  BY DEF KeptInv, NoneKept
<1>6. CreateInv'
  <2> SUFFICES ASSUME named' < Len(Names)
               PROVE  /\ use' = "named" /\ \A i \in DOMAIN mem' : mem'[i] = Zero
                      /\ \A i \in DOMAIN grows' : grows'[i].item.value = NoValue
    BY DEF CreateInv
  <2>1. named < Len(Names)
    OBVIOUS
  <2>2. use = "named" /\ \A i \in DOMAIN mem : mem[i] = Zero
    BY <2>1 DEF CreateInv
  <2>3. it.value = NoValue /\ ValueIn(it, mem) = Zero /\ \A i \in DOMAIN gs : gs[i].item.value = NoValue
    BY <2>1
  <2>4. \A i \in DOMAIN mem' : mem'[i] = Zero
    <3>1. Len(mem) \in Nat /\ DOMAIN mem = 1 .. Len(mem) /\ DOMAIN mem' = 1 .. Len(mem') /\ Len(mem') \in Nat
      BY <1>0, <1>2 DEF Memories
    <3> QED BY <1>2, <2>2, <2>3, <3>1
  <2>5. \A i \in DOMAIN grows' : grows'[i].item.value = NoValue
    <3>1. CASE grows' = gs
      BY <2>3, <3>1
    <3>2. CASE \E g : g.item = it /\ grows' = Append(gs, g)
      <4>1. PICK g : g.item = it /\ grows' = Append(gs, g)
        BY <3>2
      <4>2. gs \in Seq(Growth)
        BY DEF Sound
      <4>3. \A i \in DOMAIN grows' : grows'[i] = g \/ (i \in DOMAIN gs /\ grows'[i] = gs[i])
        BY <4>1, <4>2
      <4> QED BY <2>3, <4>1, <4>3
    <3> QED BY <3>1, <3>2, PlaceGrows
  <2> QED BY <2>2, <2>4, <2>5
<1>7. Changed(ContentsOf(EntriesOf(bucket', grows'), mem'), ContentsOf(EntriesOf(b, gs), mem),
              it.key, ValueIn(it, mem))
  <2>1. f.key \in Keys /\ \A e \in EntriesOf(b, gs) : e.key # f.key
    BY <1>0, <1>1
  <2>2. Changed(ContentsOf(EntriesOf(bucket', grows'), mem'), ContentsOf(EntriesOf(b, gs), mem),
                f.key, ValueIn(it, mem))
    BY <1>0, <1>1, <2>1, AddsOneKey
  <2> QED BY <1>1, <2>2
<1>8. Contents' = ContentsOf(EntriesOf(bucket', grows'), mem')
  BY ContentsAreThose
<1> QED BY <1>3, <1>4, <1>5, <1>6, <1>7, <1>8 DEF IInv

\* A key that is not in its slot is nowhere, when no growth is in progress.
LEMMA KeyIsNew ==
  ASSUME NEW b, NEW u, NEW n, Sound(b, <<>>, u, n), SizeOf(b) > 0,
         NEW k \in Keys, SlotOf(k, b).key # k
  PROVE  \A e \in EntriesOf(b, <<>>) : e.key # k
<1>1. GoodBucket(b, u, n)
  BY DEF Sound
<1>2. EntriesOf(b, <<>>) = InBucket(b)
  BY DEF EntriesOf
<1> QED BY <1>1, <1>2, OnlyAtHome

\* An item without a block is one callers give.
LEMMA CallersItem ==
  ASSUME NEW k \in Keys, NEW v \in Data \cup {NoValue}, v \in Data \/ use # "sizes", NEW n \in Nat
  PROVE  /\ Item(k, v, 0, FALSE) \in Items /\ GoodItem(Item(k, v, 0, FALSE), use, n)
         /\ Item(k, v, 0, FALSE).key = k /\ Item(k, v, 0, FALSE).block = 0
         /\ Item(k, v, 0, FALSE).value = v
BY DEF Item, Items, GoodItem

\* A name of the list that ht_create is given twice is inserted once.
LEMMA SameName ==
  ASSUME IInv, InsertName, SlotOf(Names[named + 1], Ready(bucket)).key = Names[named + 1]
  PROVE  IInv' /\ Changed(Contents', Contents, Names[named + 1], Zero)
<1> DEFINE k == Names[named + 1]
           it == Item(k, NoValue, 0, FALSE)
           b == Ready(bucket)
           s == SlotOf(k, b)
<1>1. /\ named \in Nat /\ named' \in 0 .. Len(Names) /\ k \in Keys /\ grows = <<>> /\ mem \in Memories
      /\ use = "named" /\ Len(mem) \in Nat /\ \A i \in DOMAIN mem : mem[i] = Zero
  BY KeyAssumption DEF InsertName, IInv, TypeInv, CreateInv, Memories
<1>2. Sound(b, <<>>, use, Len(mem)) /\ SizeOf(b) > 0 /\ b = bucket
  BY <1>1, ReadyIsSound DEF IInv
<1>3. it \in Items /\ it.key = k /\ it.block = 0 /\ it.value = NoValue
  BY <1>1, CallersItem
<1>4. Place(it, b, <<>>)
  BY DEF InsertName
<1> HIDE DEF it, b
<1>5. SlotOf(it.key, b).key = it.key /\ s = SlotOf(it.key, b)
  BY <1>3 DEF b
<1>6. /\ bucket' = b /\ grows' = <<>> /\ s \in EntriesOf(b, <<>>) /\ s.block \in 1 .. Len(mem)
      /\ mem' = mem
  BY <1>1, <1>2, <1>3, <1>4, <1>5, PlaceAgain
<1>7. bucket' = bucket /\ grows' = grows /\ mem' = mem /\ use' = use /\ kept' = kept
  BY <1>1, <1>2, <1>6 DEF InsertName
<1>8. IInv'
  <2>1. NoneKept
    BY <1>1, NoneKeptYet DEF IInv, Idle, InsertName
  <2>2. KeptInv'
    BY <1>7, <2>1 DEF KeptInv, NoneKept
  <2>3. TypeInv'
    BY <1>1, <1>7 DEF InsertName, IInv, TypeInv
  <2>4. CreateInv'
    BY <1>1, <1>6, <1>7 DEF CreateInv
  <2>5. Sound(bucket, grows, use, Len(mem))'
    BY <1>7 DEF IInv
  <2> QED BY <2>2, <2>3, <2>4, <2>5 DEF IInv
<1>9. Changed(Contents', Contents, k, Zero)
  <2> DEFINE S == EntriesOf(bucket, grows)
  <2>1. Contents = ContentsOf(S, mem) /\ Contents' = ContentsOf(S, mem)
    BY <1>7, ContentsAreThose
  <2>2. s \in S /\ s.key = k /\ ValueIn(s, mem) = Zero
    BY <1>1, <1>2, <1>3, <1>5, <1>6 DEF ValueIn, Memories
  <2>3. Unique(S)
    BY SoundIsUnique DEF IInv
  <2> HIDE DEF S, s, k
  <2>4. ContentsOf(S, mem)[k] = Zero /\ k \in Keys
    BY <1>1, <2>2, <2>3, ContentsAt
  <2> QED BY <2>1, <2>4, ChangedAt
<1> QED BY <1>8, <1>9

\* ht_create gives each of its keys a zeroed value, and keeps the invariant.
LEMMA InsertNameKeeps ==
  ASSUME IInv, InsertName
  PROVE  IInv' /\ Changed(Contents', Contents, Names[named + 1], Zero)
<1> DEFINE k == Names[named + 1]
           it == Item(k, NoValue, 0, FALSE)
           b == Ready(bucket)
<1>1. /\ named \in Nat /\ named' \in 0 .. Len(Names) /\ k \in Keys /\ grows = <<>>
      /\ use = "named" /\ Len(mem) \in Nat /\ TypeInv /\ CreateInv
  BY KeyAssumption DEF InsertName, IInv, TypeInv, CreateInv
<1>2. /\ Sound(b, <<>>, use, Len(mem)) /\ SizeOf(b) > 0
      /\ EntriesOf(b, <<>>) = EntriesOf(bucket, grows)
  BY <1>1, ReadyIsSound DEF IInv
<1>3. CASE SlotOf(k, b).key = k
  BY <1>3, SameName
<1>4. CASE SlotOf(k, b).key # k
  <2>1. /\ it \in Items /\ it.key = k /\ it.block = 0 /\ it.value = NoValue
        /\ GoodItem(it, use, Len(mem)) /\ ValueIn(it, mem) = Zero
    <3>1. use # "sizes" /\ NoValue \in Data \cup {NoValue}
      BY <1>1
    <3>2. /\ it \in Items /\ it.key = k /\ it.block = 0 /\ it.value = NoValue
          /\ GoodItem(it, use, Len(mem))
      BY <1>1, <3>1, CallersItem
    <3> HIDE DEF it
    <3> QED BY <3>2 DEF ValueIn
  <2>2. Place(it, b, <<>>) /\ use' = use /\ kept' = kept /\ puts' = puts
    BY DEF InsertName
  <2>3. last'[1] = "put" /\ named' = named + 1 /\ named < Len(Names)
    BY DEF InsertName
  <2>4. NoneKept
    BY <1>1, NoneKeptYet DEF IInv, Idle, InsertName
  <2>5. \A e \in EntriesOf(b, <<>>) : e.key # k
    BY <1>1, <1>2, <1>4, KeyIsNew
  <2>6. puts' \in 0 .. MaxPuts
    BY <1>1, <2>2 DEF TypeInv
  <2>7. Contents = ContentsOf(EntriesOf(b, <<>>), mem)
    BY <1>2, ContentsAreThose
  <2> HIDE DEF it, b, k
  <2>8. /\ named' < Len(Names) => named < Len(Names)
        /\ \A i \in DOMAIN <<>> : <<>>[i].item.value = NoValue
    BY <1>1, <2>3
  <2>9. IInv' /\ Changed(Contents', ContentsOf(EntriesOf(b, <<>>), mem), it.key, ValueIn(it, mem))
    BY <1>1, <1>2, <2>1, <2>2, <2>3, <2>4, <2>5, <2>6, <2>8, Joins
  <2> QED BY <2>1, <2>7, <2>9 DEF k
<1> QED BY <1>3, <1>4

\* ht_insert gives the key the value, and keeps the invariant.
LEMMA InsertKeeps ==
  ASSUME IInv, NEW k \in Keys, NEW v \in Data, Insert(k, v)
  PROVE  IInv' /\ Changed(Contents', Contents, k, v)
<1> DEFINE it == Item(k, v, 0, FALSE)
           b == Ready(bucket)
           s == SlotOf(k, b)
<1>1. /\ named = Len(Names) /\ named' = named /\ Len(Names) \in Nat /\ grows = <<>>
      /\ Len(mem) \in Nat /\ mem \in Memories /\ TypeInv /\ CreateInv /\ use' = use /\ kept' = kept
  BY KeyAssumption DEF Insert, Idle, IInv, TypeInv, Memories
<1>2. puts' \in 0 .. MaxPuts /\ last'[1] = "put"
  BY <1>1, BoundAssumption DEF Insert, TypeInv
<1>3. /\ Sound(b, <<>>, use, Len(mem)) /\ SizeOf(b) > 0
      /\ EntriesOf(b, <<>>) = EntriesOf(bucket, grows)
      /\ (s.key = k => b = bucket)
  BY <1>1, ReadyIsSound DEF IInv
<1>4. /\ it \in Items /\ it.key = k /\ it.block = 0 /\ it.value = v
      /\ GoodItem(it, use, Len(mem)) /\ v # NoValue
  BY <1>1, CallersItem, ValueAssumption
<1>5. Place(it, b, <<>>) /\ (s.key = k <=> use = "named")
  BY DEF Insert, HasKey
<1>6. Contents = ContentsOf(EntriesOf(b, <<>>), mem)
  BY <1>3, ContentsAreThose
<1> HIDE DEF it, b
<1>7. CASE s.key = k
  <2>1. use = "named" /\ SlotOf(it.key, b).key = it.key /\ SlotOf(it.key, b) = s
    BY <1>4, <1>5, <1>7
  <2>2. /\ bucket' = b /\ grows' = <<>> /\ s \in EntriesOf(b, <<>>) /\ s.block \in 1 .. Len(mem)
        /\ Updated(mem', mem, s.block, v)
    BY <1>1, <1>3, <1>4, <1>5, <2>1, PlaceAgain
  <2>3. bucket' = bucket /\ grows' = grows
    BY <1>1, <1>3, <1>7, <2>2
  <2>4. /\ mem' \in Memories /\ Len(mem') = Len(mem)
        /\ Changed(ContentsOf(EntriesOf(b, <<>>), mem'), ContentsOf(EntriesOf(b, <<>>), mem), k, v)
    <3>1. s.key \in Keys /\ v \in Data \cup {Zero}
      BY <1>7
    <3> HIDE DEF s
    <3>2. mem' \in Memories /\ Len(mem') = Len(mem)
      BY <1>1, <1>3, <2>2, <3>1, WriteOneKey
    <3>3. Changed(ContentsOf(EntriesOf(b, <<>>), mem'), ContentsOf(EntriesOf(b, <<>>), mem), s.key, v)
      BY <1>1, <1>3, <2>2, <3>1, WriteOneKey
    <3> QED BY <1>7, <3>2, <3>3
  <2>5. Contents' = ContentsOf(EntriesOf(b, <<>>), mem')
    BY <2>2, ContentsAreThose
  <2>6. IInv'
    <3>1. TypeInv'
      BY <1>1, <1>2, <2>3, <2>4 DEF TypeInv, Memories
    <3>2. KeptInv'
      BY <1>1, <2>3 DEF KeptInv, IInv, Idle
    <3>3. CreateInv'
      BY <1>1 DEF CreateInv
    <3>4. Sound(bucket, grows, use, Len(mem))'
      BY <1>1, <2>3, <2>4 DEF IInv
    <3> QED BY <3>1, <3>2, <3>3, <3>4 DEF IInv
  <2> QED BY <1>6, <2>4, <2>5, <2>6
<1>8. CASE s.key # k
  <2>1. NoneKept
    BY <1>5, <1>8, NoneKeptYet DEF IInv
  <2>2. \A e \in EntriesOf(b, <<>>) : e.key # it.key
    BY <1>3, <1>4, <1>8, KeyIsNew
  <2>3. named' \in 0 .. Len(Names) /\ ~(named < Len(Names)) /\ ~(named' < Len(Names))
    BY <1>1
  <2>4. IInv' /\ Changed(Contents', ContentsOf(EntriesOf(b, <<>>), mem), it.key, ValueIn(it, mem))
    BY <1>1, <1>2, <1>3, <1>4, <1>5, <2>1, <2>2, <2>3, Joins
  <2>5. ValueIn(it, mem) = v
    BY <1>4 DEF ValueIn
  <2> QED BY <1>4, <1>6, <2>4, <2>5
<1> QED BY <1>7, <1>8

\* An entry less leaves its key without a value.
LEMMA ContentsDropped ==
  ASSUME NEW S, NEW T, NEW f, f.key \in Keys, OneMore(S, T, f), Unique(S),
         \A e \in T : e.key # f.key, NEW m
  PROVE  Changed(ContentsOf(T, m), ContentsOf(S, m), f.key, NoValue)
<1>1. \A e : e \in S <=> e \in T \/ e = f
  BY DEF OneMore
<1>2. Unique(T)
  BY <1>1 DEF Unique
<1>3. ContentsOf(T, m)[f.key] = NoValue
  BY <1>2, ContentsAt
<1>4. ASSUME NEW k \in Keys, k # f.key
      PROVE  ContentsOf(T, m)[k] = ContentsOf(S, m)[k]
  <2>1. CASE \E e \in T : e.key = k
    BY <1>1, <1>2, <2>1, ContentsAt
  <2>2. CASE \A e \in T : e.key # k
    <3>1. \A e \in S : e.key # k
      BY <1>1, <1>4, <2>2
    <3> QED BY <1>2, <2>2, <3>1, ContentsAt
  <2> QED BY <2>1, <2>2
<1> QED BY <1>3, <1>4, ChangedAt

\* ht_erase of a key that is there takes it out, and keeps the invariant.
LEMMA EraseKeeps ==
  ASSUME IInv, NEW k \in Keys, Erase(k)
  PROVE  IInv' /\ Changed(Contents', Contents, k, NoValue)
<1> DEFINE h == Home(k, bucket)
           s == bucket[h]
<1>1. /\ named = Len(Names) /\ Len(Names) \in Nat /\ grows = <<>> /\ use = "sizes"
      /\ UNCHANGED <<use, mem, grows, named, kept, puts>> /\ last'[1] = "drop"
      /\ bucket' = [bucket EXCEPT ![h] = FreeSlot]
  BY KeyAssumption DEF Erase, Idle
<1>2. Sound(bucket, <<>>, use, Len(mem)) /\ GoodBucket(bucket, use, Len(mem))
  BY <1>1 DEF IInv, Sound
<1>3. SizeOf(bucket) > 0 /\ SlotOf(k, bucket).key = k
  BY <1>2, ReadyIsSound DEF Erase, HasKey
<1>4. bucket \in Buckets /\ bucket \in [0 .. SizeOf(bucket) - 1 -> Slot] /\ SizeOf(bucket) \in Nat
  BY <1>2, BucketSize DEF GoodBucket
<1>5. h \in DOMAIN bucket /\ s.key = k /\ s.key # NoKey
  BY <1>3, <1>4, HomeIsSlot, KeyAssumption
<1>6. DOMAIN bucket' = DOMAIN bucket /\ bucket' \in [0 .. SizeOf(bucket) - 1 -> Slot]
  BY <1>1, <1>4, FreeIsSlot
<1>7. bucket' \in Buckets /\ SizeOf(bucket') = SizeOf(bucket)
  BY <1>4, <1>6 DEF Buckets, SizeOf
<1>8. \A i \in DOMAIN bucket : bucket'[i] = IF i = h THEN FreeSlot ELSE bucket[i]
  BY <1>1, <1>4
<1>9. \A x : Home(x, bucket') = Home(x, bucket)
  BY <1>7 DEF Home
<1>10. GoodBucket(bucket', use, Len(mem))
  BY <1>2, <1>6, <1>7, <1>8, <1>9, FreeIsSlot DEF GoodBucket, Fits
<1>11. OneMore(InBucket(bucket), InBucket(bucket'), s) /\ \A e \in InBucket(bucket') : e.key # k
  <2>1. \A i \in DOMAIN bucket : bucket[i].key = k => i = h
    BY <1>2, <1>5 DEF GoodBucket
  <2>2. \A e \in InBucket(bucket') : e.key # k
    BY <1>5, <1>6, <1>8, <2>1, FreeIsSlot DEF InBucket
  <2>3. \A e : e \in InBucket(bucket) <=> e \in InBucket(bucket') \/ e = s
    <3> HIDE DEF h
    <3> QED BY <1>5, <1>6, <1>8, FreeIsSlot DEF InBucket
  <2> QED BY <2>2, <2>3 DEF OneMore
<1>12. EntriesOf(bucket, <<>>) = InBucket(bucket) /\ EntriesOf(bucket', <<>>) = InBucket(bucket')
  BY DEF EntriesOf
<1>13. Sound(bucket', <<>>, use, Len(mem))
  <2>1. OwnBlocks(EntriesOf(bucket', <<>>))
    BY <1>2, <1>11, <1>12 DEF OwnBlocks, OneMore, Sound
  <2>2. Apart(bucket', <<>>)
    BY DEF Apart
  <2> QED BY <1>2, <1>10, <2>1, <2>2 DEF Sound
<1>14. IInv'
  <2>1. TypeInv'
    BY <1>1, <1>3, <1>7 DEF IInv, TypeInv
  <2>2. KeptInv'
    BY <1>1 DEF IInv, KeptInv
  <2>3. CreateInv'
    BY <1>1 DEF CreateInv
  <2> QED BY <1>1, <1>13, <2>1, <2>2, <2>3 DEF IInv
<1>15. Changed(Contents', Contents, k, NoValue)
  <2>1. Contents = ContentsOf(InBucket(bucket), mem) /\ Contents' = ContentsOf(InBucket(bucket'), mem)
    BY <1>1, <1>12, ContentsAreThose
  <2>2. Unique(InBucket(bucket))
    BY <1>2, <1>12, SoundIsUnique
  <2>3. Changed(ContentsOf(InBucket(bucket'), mem), ContentsOf(InBucket(bucket), mem), s.key, NoValue)
    BY <1>5, <1>11, <2>2, ContentsDropped
  <2> QED BY <1>5, <2>1, <2>3
<1> QED BY <1>14, <1>15

\* Keeping the pointer ht_get returns changes nothing of the table.
LEMMA KeepPointerKeeps ==
  ASSUME IInv, NEW k \in Keys, KeepPointer(k)
  PROVE  IInv' /\ Contents' = Contents /\ last' = last
<1>1. /\ UNCHANGED <<use, bucket, mem, grows, named, puts, last>>
      /\ kept' = [kept EXCEPT ![k] = SlotOf(k, bucket).block]
      /\ Idle /\ grows = <<>> /\ use = "named" /\ HasKey(k)
  BY DEF KeepPointer, Idle
<1>2. Sound(bucket, <<>>, use, Len(mem)) /\ GoodBucket(bucket, use, Len(mem))
  BY <1>1 DEF IInv, Sound
<1>3. SizeOf(bucket) > 0 /\ SlotOf(k, bucket).key = k
  BY <1>1, <1>2, ReadyIsSound DEF HasKey
<1>4. Home(k, bucket) \in DOMAIN bucket /\ SlotOf(k, bucket) = bucket[Home(k, bucket)] /\ SlotOf(k, bucket) \in Slot
  BY <1>2, <1>3, HomeIsSlot DEF GoodBucket
<1>5. KeptInv'
  BY <1>1, <1>3, <1>4 DEF IInv, KeptInv, TypeInv, Idle
<1>6. TypeInv'
  BY <1>1, <1>4 DEF IInv, TypeInv, Slot
<1>7. CreateInv' /\ Sound(bucket, grows, use, Len(mem))'
  BY <1>1 DEF IInv, CreateInv
<1>8. Contents' = Contents
  BY <1>1 DEF Contents, Entries, Bucketed, Growths, Waiting, Held, ValueOf
<1> QED BY <1>1, <1>5, <1>6, <1>7, <1>8 DEF IInv

\* What leaves a table whose keys and blocks are each its own leaves nothing behind.
LEMMA NothingBehind ==
  ASSUME NEW S, NEW T, NEW f, OneMore(S, T, f), OwnBlocks(S), \A e \in T : e.key # f.key
  PROVE  \A e \in T : e.key # f.key /\ (f.block # 0 => e.block # f.block)
BY DEF OneMore, OwnBlocks

\* One entry less in the hands of a growth.
LEMMA HandsApart ==
  ASSUME NEW b, NEW gs, NEW u, NEW n, Sound(b, gs, u, n), NEW i \in DOMAIN gs,
         NEW f \in InHand(gs[i])
  PROVE  /\ \A e \in InBucket(b) : e.key # f.key
         /\ \A j \in DOMAIN gs : j # i => \A e \in InHand(gs[j]) : e.key # f.key
BY DEF Sound, Apart

\* A growth that has looked at a slot more.
LEMMA SlotTaken ==
  ASSUME NEW g \in Growth, NEW u, NEW n, GoodGrowth(g, u, n), g.next < SizeOf(g.old),
         \A e \in Waiting(g) : e.key # g.item.key,
         NEW h, h = [g EXCEPT !.next = @ + 1]
  PROVE  LET o == g.old[g.next]
         IN  /\ h \in Growth /\ GoodGrowth(h, u, n) /\ h.item = g.item
             /\ o \in Slot /\ Fits(o, u, n)
             /\ \A e \in Waiting(h) : e \in Waiting(g)
             /\ o.key = NoKey => InHand(h) = InHand(g)
             /\ o.key # NoKey => OneMore(InHand(g), InHand(h), o) /\ \A e \in InHand(h) : e.key # o.key
<1> DEFINE o == g.old[g.next]
<1>1. g.old \in Buckets /\ SizeOf(g.old) \in Nat /\ g.old \in [0 .. SizeOf(g.old) - 1 -> Slot]
  BY BucketSize DEF Growth
<1>2. g.next \in Nat /\ g.next \in DOMAIN g.old /\ o \in Slot
  BY <1>1 DEF Growth
<1>3. h.old = g.old /\ h.item = g.item /\ h.next = g.next + 1 /\ h \in Growth
  BY DEF Growth
<1>4. GoodGrowth(h, u, n)
  BY <1>1, <1>2, <1>3 DEF GoodGrowth
<1>5. \A j \in DOMAIN g.old : j >= g.next <=> j = g.next \/ j >= h.next
  BY <1>1, <1>2, <1>3
<1>6. \A e : e \in Waiting(g) <=> e \in Waiting(h) \/ e = o
  BY <1>2, <1>3, <1>5 DEF Waiting
<1>7. Held(h) = Held(g)
  BY <1>3 DEF Held
<1>8. Fits(o, u, n)
  BY <1>2 DEF GoodGrowth, GoodBucket
<1> HIDE DEF o
<1>9. o.key = NoKey => InHand(h) = InHand(g)
  BY <1>6, <1>7 DEF InHand
<1>10. ASSUME o.key # NoKey
       PROVE  OneMore(InHand(g), InHand(h), o) /\ \A e \in InHand(h) : e.key # o.key
  <2>1. OneMore(InHand(g), InHand(h), o)
    BY <1>6, <1>7, <1>10 DEF InHand, OneMore
  <2>2. ASSUME NEW e \in Waiting(h) PROVE e.key # o.key
    <3>1. PICK j \in DOMAIN g.old : j >= h.next /\ e = g.old[j]
      BY <1>3 DEF Waiting
    <3>2. j # g.next
      BY <1>1, <1>2, <1>3, <3>1
    <3>3. \A i \in DOMAIN g.old : g.old[i].key # NoKey => Home(g.old[i].key, g.old) = i
      BY DEF GoodGrowth, GoodBucket
    <3> QED BY <1>2, <1>10, <3>1, <3>2, <3>3 DEF o
  <2>3. Held(h).key # o.key
    BY <1>6, <1>7 DEF Held
  <2> QED BY <2>1, <2>2, <2>3 DEF InHand
<1> QED BY <1>2, <1>3, <1>4, <1>6, <1>8, <1>9, <1>10 DEF o

\* Growths hs are gs but for growth t, which has no more in hand than before or is over.
Later(hs, gs, t, u, n) ==
  /\ hs \in Seq(Growth) /\ DOMAIN hs \cup {t} = DOMAIN gs
  /\ \A i \in DOMAIN hs : i # t => hs[i] = gs[i]
  /\ t \in DOMAIN hs => /\ GoodGrowth(hs[t], u, n) /\ InHand(hs[t]) \subseteq InHand(gs[t])
                        /\ \A e \in Waiting(hs[t]) : e.key # hs[t].item.key

\* What a table has less leaves it sound.
LEMMA StillSound ==
  ASSUME NEW b, NEW gs, NEW u, NEW n, Sound(b, gs, u, n), NEW hs, NEW t, Later(hs, gs, t, u, n)
  PROVE  Sound(b, hs, u, n)
<1>1. \A i \in DOMAIN hs : i \in DOMAIN gs /\ InHand(hs[i]) \subseteq InHand(gs[i])
  BY DEF Later
<1>2. \A e \in EntriesOf(b, hs) : e \in EntriesOf(b, gs)
  BY <1>1 DEF EntriesOf
<1>3. OwnBlocks(EntriesOf(b, hs))
  BY <1>2 DEF OwnBlocks, Sound
<1>4. Apart(b, hs)
  <2>1. \A i \in DOMAIN hs : \A e \in InBucket(b), f \in InHand(hs[i]) : e.key # f.key
    BY <1>1 DEF Sound, Apart
  <2>2. \A i, j \in DOMAIN hs : i # j => \A e \in InHand(hs[i]), f \in InHand(hs[j]) : e.key # f.key
    BY <1>1 DEF Sound, Apart
  <2>3. \A i \in DOMAIN hs : \A e \in Waiting(hs[i]) : e.key # hs[i].item.key
    BY <1>1 DEF Later, Sound, Apart
  <2> QED BY <2>1, <2>2, <2>3 DEF Apart
<1>5. \A i \in DOMAIN hs : GoodGrowth(hs[i], u, n)
  BY <1>1 DEF Later, Sound
<1> QED BY <1>3, <1>4, <1>5 DEF Sound, Later

\* With growths hs, entry f is the one the table has less, and nowhere else; t, u, n and H
\* only name the growth it left, for the provers.
GivenOut(f, b, gs, hs, t, u, n, H) ==
  /\ OneMore(EntriesOf(b, gs), EntriesOf(b, hs), f)
  /\ \A e \in EntriesOf(b, hs) : e.key # f.key /\ (f.block # 0 => e.block # f.block)

\* What a growth gives out of its hands is nowhere else in the table.
LEMMA OneLess ==
  ASSUME NEW b, NEW gs, NEW u, NEW n, Sound(b, gs, u, n), NEW hs, NEW t, Later(hs, gs, t, u, n),
         NEW f, NEW H, OneMore(InHand(gs[t]), H, f), \A e \in H : e.key # f.key,
         H = IF t \in DOMAIN hs THEN InHand(hs[t]) ELSE {}
  PROVE  GivenOut(f, b, gs, hs, t, u, n, H)
<1>1. t \in DOMAIN gs /\ \A i \in DOMAIN gs : i # t => i \in DOMAIN hs /\ hs[i] = gs[i]
  BY DEF Later
<1>2. \A i \in DOMAIN hs : i \in DOMAIN gs
  BY DEF Later
<1>3. \A e : e \in InHand(gs[t]) <=> e \in H \/ e = f
  BY DEF OneMore
<1>4. \A e : e \in EntriesOf(b, gs) <=>
               e \in InBucket(b) \/ (\E i \in DOMAIN gs : i # t /\ e \in InHand(gs[i])) \/ e \in InHand(gs[t])
  BY <1>1 DEF EntriesOf
<1>5. \A e : e \in EntriesOf(b, hs) <=>
               e \in InBucket(b) \/ (\E i \in DOMAIN gs : i # t /\ e \in InHand(gs[i])) \/ e \in H
  <2>1. \A e : e \in EntriesOf(b, hs) <=> e \in InBucket(b) \/ \E i \in DOMAIN hs : e \in InHand(hs[i])
    BY DEF EntriesOf
  <2>2. \A e : (\E i \in DOMAIN hs : e \in InHand(hs[i]))
                 <=> (\E i \in DOMAIN gs : i # t /\ e \in InHand(gs[i])) \/ e \in H
    <3>1. \A i \in DOMAIN hs : i # t => hs[i] = gs[i] /\ i \in DOMAIN gs
      BY <1>1, <1>2
    <3>2. CASE t \in DOMAIN hs
      BY <1>1, <3>1, <3>2
    <3>3. CASE t \notin DOMAIN hs
      BY <1>1, <3>1, <3>3
    <3> QED BY <3>2, <3>3
  <2> QED BY <2>1, <2>2
<1>6. OneMore(EntriesOf(b, gs), EntriesOf(b, hs), f)
  BY <1>3, <1>4, <1>5 DEF OneMore
<1>7. \A e \in EntriesOf(b, hs) : e.key # f.key
  <2>1. f \in InHand(gs[t])
    BY <1>3
  <2>2. \A e \in InBucket(b) : e.key # f.key
    BY <1>1, <2>1, HandsApart
  <2>3. \A i \in DOMAIN gs : i # t => \A e \in InHand(gs[i]) : e.key # f.key
    BY <1>1, <2>1, HandsApart
  <2> QED BY <1>5, <2>2, <2>3
<1>8. OwnBlocks(EntriesOf(b, gs))
  BY DEF Sound
<1>9. \A e \in EntriesOf(b, hs) : e.key # f.key /\ (f.block # 0 => e.block # f.block)
  BY <1>6, <1>7, <1>8, NothingBehind
<1> QED BY <1>6, <1>9 DEF GivenOut

\* The innermost growth has looked at a slot more.
LEMMA MovedIsLater ==
  ASSUME NEW b, NEW u, NEW n, Sound(b, grows, u, n), grows # <<>>, Inner.next < SizeOf(Inner.old)
  PROVE  LET t == Len(grows)
         IN  /\ Later(Moved, grows, t, u, n)
             /\ t \in DOMAIN Moved /\ grows[t] = Inner
             /\ OldSlot \in Slot /\ Fits(OldSlot, u, n)
             /\ DOMAIN Moved = DOMAIN grows /\ \A i \in DOMAIN grows : Moved[i].item = grows[i].item
             /\ OldSlot.key = NoKey => InHand(Moved[t]) = InHand(grows[t])
             /\ OldSlot.key # NoKey => /\ OneMore(InHand(grows[t]), InHand(Moved[t]), OldSlot)
                                       /\ \A e \in InHand(Moved[t]) : e.key # OldSlot.key
<1> DEFINE t == Len(grows)
           g == Inner
           h == [g EXCEPT !.next = @ + 1]
<1>1. grows \in Seq(Growth) /\ t \in Nat /\ DOMAIN grows = 1 .. t /\ t \in DOMAIN grows
  BY DEF Sound
<1>2. grows[t] = g /\ g \in Growth
  BY <1>1 DEF Inner, Last
<1>3. GoodGrowth(g, u, n) /\ \A e \in Waiting(g) : e.key # g.item.key
  BY <1>1, <1>2 DEF Sound, Apart
<1>4. OldSlot = g.old[g.next]
  BY DEF OldSlot
<1>5. Moved = [grows EXCEPT ![t] = h]
  BY <1>1, <1>2 DEF Moved
<1> HIDE DEF g, h
<1>6. /\ h \in Growth /\ GoodGrowth(h, u, n) /\ h.item = g.item
      /\ OldSlot \in Slot /\ Fits(OldSlot, u, n)
      /\ \A e \in Waiting(h) : e \in Waiting(g)
      /\ OldSlot.key = NoKey => InHand(h) = InHand(g)
      /\ OldSlot.key # NoKey => OneMore(InHand(g), InHand(h), OldSlot) /\ \A e \in InHand(h) : e.key # OldSlot.key
  BY <1>2, <1>3, <1>4, SlotTaken DEF g, h
<1>7. Moved \in Seq(Growth) /\ DOMAIN Moved = DOMAIN grows /\ Moved[t] = h
  BY <1>1, <1>5, <1>6
<1>8. \A i \in DOMAIN grows : i # t => Moved[i] = grows[i]
  BY <1>1, <1>5
<1>9. InHand(h) \subseteq InHand(g)
  BY <1>6 DEF OneMore
<1>10. Later(Moved, grows, t, u, n)
  BY <1>1, <1>2, <1>3, <1>6, <1>7, <1>8, <1>9 DEF Later
<1> HIDE DEF t
<1> QED BY <1>1, <1>2, <1>6, <1>7, <1>8, <1>10 DEF g, t

\* The innermost growth has moved its slots and is over.
LEMMA FrontIsLater ==
  ASSUME NEW b, NEW u, NEW n, Sound(b, grows, u, n), grows # <<>>, Inner.next = SizeOf(Inner.old)
  PROVE  LET t == Len(grows)
         IN  /\ Later(Front(grows), grows, t, u, n)
             /\ t \notin DOMAIN Front(grows) /\ grows[t] = Inner /\ t \in DOMAIN grows
             /\ \A i \in DOMAIN Front(grows) : i \in DOMAIN grows /\ Front(grows)[i] = grows[i]
             /\ OneMore(InHand(grows[t]), {}, Held(Inner))
             /\ Inner \in Growth /\ GoodItem(Inner.item, u, n)
<1> DEFINE t == Len(grows)
           g == Inner
<1>1. grows \in Seq(Growth) /\ t \in Nat /\ t > 0 /\ DOMAIN grows = 1 .. t /\ t \in DOMAIN grows
  BY DEF Sound
<1>2. grows[t] = g /\ g \in Growth
  BY <1>1 DEF Inner, Last
<1>3. GoodGrowth(g, u, n)
  BY <1>1, <1>2 DEF Sound
<1>4. /\ Front(grows) \in Seq(Growth) /\ DOMAIN Front(grows) = 1 .. t - 1
      /\ \A i \in 1 .. t - 1 : Front(grows)[i] = grows[i]
  <2>1. Front(grows) = SubSeq(grows, 1, t - 1)
    BY DEF Front
  <2> HIDE DEF t
  <2> QED BY <1>1, <2>1
<1>5. Waiting(g) = {}
  <2>1. SizeOf(g.old) \in Nat /\ DOMAIN g.old = 0 .. SizeOf(g.old) - 1
    BY <1>2, BucketSize DEF Growth
  <2> HIDE DEF g
  <2>2. g.next = SizeOf(g.old)
    BY DEF g
  <2> QED BY <2>1, <2>2 DEF Waiting
<1>6. Held(g).key # NoKey
  BY <1>2, KeyAssumption DEF Held, Growth
<1> HIDE DEF g
<1>7. OneMore(InHand(g), {}, Held(g))
  BY <1>5, <1>6 DEF InHand, OneMore
<1>8. GoodItem(g.item, u, n)
  BY <1>3 DEF GoodGrowth
<1> HIDE DEF t
<1>9. Later(Front(grows), grows, t, u, n) /\ t \notin DOMAIN Front(grows)
  BY <1>1, <1>4 DEF Later
<1>10. \A i \in DOMAIN Front(grows) : i \in DOMAIN grows /\ Front(grows)[i] = grows[i]
  BY <1>1, <1>4
<1> QED BY <1>1, <1>2, <1>7, <1>8, <1>9, <1>10 DEF g, t

\* While a growth moves entries, nobody keeps pointers and no key is inserted.
LEMMA WhileGrowing ==
  ASSUME IInv, grows # <<>>, UNCHANGED <<use, named, kept, puts, last>>
  PROVE  /\ TypeInv /\ CreateInv /\ NoneKept /\ mem \in Memories /\ Len(mem) \in Nat
         /\ Sound(bucket, grows, use, Len(mem)) /\ SizeOf(bucket) > 0
         /\ use' = use /\ kept' = kept /\ named' \in 0 .. Len(Names) /\ puts' \in 0 .. MaxPuts
         /\ last'[1] \in {"none", "put", "drop"} /\ last' = last
         /\ named' < Len(Names) => named < Len(Names)
BY NoneKeptYet DEF IInv, TypeInv, Idle, Memories

\* Looking at a free slot changes nothing of the table.
LEMMA SkipSlotKeeps ==
  ASSUME IInv, SkipSlot
  PROVE  IInv' /\ Contents' = Contents /\ last' = last
<1>1. /\ grows # <<>> /\ Inner.next < SizeOf(Inner.old) /\ OldSlot.key = NoKey /\ grows' = Moved
      /\ bucket' = bucket /\ mem' = mem /\ UNCHANGED <<use, named, kept, puts, last>>
  BY DEF SkipSlot
<1>2. /\ TypeInv /\ CreateInv /\ NoneKept /\ Sound(bucket, grows, use, Len(mem)) /\ SizeOf(bucket) > 0
  BY <1>1, WhileGrowing
<1> DEFINE t == Len(grows)
<1>3. /\ Later(Moved, grows, t, use, Len(mem)) /\ t \in DOMAIN Moved /\ DOMAIN Moved = DOMAIN grows
      /\ \A i \in DOMAIN grows : Moved[i].item = grows[i].item
      /\ InHand(Moved[t]) = InHand(grows[t])
  BY <1>1, <1>2, MovedIsLater
<1> HIDE DEF t
<1>4. Sound(bucket, Moved, use, Len(mem))
  BY <1>2, <1>3, StillSound
<1>5. EntriesOf(bucket, Moved) = EntriesOf(bucket, grows)
  <2>1. \A i \in DOMAIN grows : InHand(Moved[i]) = InHand(grows[i])
    BY <1>3 DEF Later
  <2>2. \A e : e \in EntriesOf(bucket, Moved) <=> e \in EntriesOf(bucket, grows)
    BY <1>3, <2>1 DEF EntriesOf
  <2> QED BY <2>2
<1>6. IInv'
  <2>1. TypeInv'
    BY <1>1, <1>2 DEF TypeInv
  <2>2. KeptInv'
    BY <1>1, <1>2 DEF KeptInv, NoneKept
  <2>3. CreateInv'
    BY <1>1, <1>2, <1>3 DEF CreateInv
  <2>4. Sound(bucket, grows, use, Len(mem))'
    BY <1>1, <1>4
  <2> QED BY <2>1, <2>2, <2>3, <2>4 DEF IInv
<1>7. Contents' = Contents
  BY <1>1, <1>5, ContentsAreThose
<1> QED BY <1>1, <1>6, <1>7

\* What leaves the hands of a growth and is placed again changes nothing a caller sees.
LEMMA PlacedAgain ==
  ASSUME IInv, grows # <<>>, UNCHANGED <<use, named, kept, puts, last>>,
         NEW hs, NEW t, Later(hs, grows, t, use, Len(mem)),
         NEW f, NEW H, OneMore(InHand(grows[t]), H, f), \A e \in H : e.key # f.key,
         H = IF t \in DOMAIN hs THEN InHand(hs[t]) ELSE {},
         NEW it \in Items, GoodItem(it, use, Len(mem)), Place(it, bucket, hs),
         it.key = f.key, it.block = f.block, it.value = f.value,
         named < Len(Names) => /\ it.value = NoValue /\ ValueIn(it, mem) = Zero
                               /\ \A i \in DOMAIN hs : hs[i].item.value = NoValue
  PROVE  IInv' /\ Contents' = Contents /\ last' = last
<1>1. /\ TypeInv /\ CreateInv /\ NoneKept /\ mem \in Memories /\ Len(mem) \in Nat
      /\ Sound(bucket, grows, use, Len(mem)) /\ SizeOf(bucket) > 0
      /\ use' = use /\ kept' = kept /\ named' \in 0 .. Len(Names) /\ puts' \in 0 .. MaxPuts
      /\ last'[1] \in {"none", "put", "drop"} /\ last' = last
      /\ named' < Len(Names) => named < Len(Names)
  BY WhileGrowing
<1>2. Sound(bucket, hs, use, Len(mem))
  BY <1>1, StillSound
<1>3. /\ OneMore(EntriesOf(bucket, grows), EntriesOf(bucket, hs), f)
      /\ \A e \in EntriesOf(bucket, hs) : e.key # f.key /\ (f.block # 0 => e.block # f.block)
  <2>1. GivenOut(f, bucket, grows, hs, t, use, Len(mem), H)
    BY <1>1, OneLess
  <2> QED BY <2>1 DEF GivenOut
<1> DEFINE S == EntriesOf(bucket, grows)
           T == EntriesOf(bucket, hs)
<1>4. \A e \in T : e.key # it.key /\ (it.block # 0 => e.block # it.block)
  BY <1>3
<1>5. IInv' /\ Changed(Contents', ContentsOf(T, mem), it.key, ValueIn(it, mem))
  BY <1>1, <1>2, <1>4, Joins
<1>6. ValueIn(it, mem) = ValueIn(f, mem) /\ f.key \in Keys
  BY DEF ValueIn, Items
<1>7. Unique(S)
  BY <1>1, SoundIsUnique
<1>8. Changed(ContentsOf(S, mem), ContentsOf(T, mem), f.key, ValueIn(f, mem))
  <2>1. OneMore(S, T, f) /\ \A e \in T : e.key # f.key /\ ValueIn(e, mem) = ValueIn(e, mem)
    BY <1>3
  <2> HIDE DEF S, T
  <2> QED BY <1>6, <1>7, <2>1, ContentsAdded
<1>9. Contents = ContentsOf(S, mem)
  BY ContentsAreThose
<1> HIDE DEF S, T
<1>10. Contents' = [ContentsOf(T, mem) EXCEPT ![f.key] = ValueIn(f, mem)]
  BY <1>5, <1>6 DEF Changed
<1>11. Contents = [ContentsOf(T, mem) EXCEPT ![f.key] = ValueIn(f, mem)]
  BY <1>8, <1>9 DEF Changed
<1> QED BY <1>1, <1>5, <1>10, <1>11

\* Moving an entry, also when that starts a growth, changes nothing a caller sees.
LEMMA MoveSlotKeeps ==
  ASSUME IInv, MoveSlot
  PROVE  IInv' /\ Contents' = Contents /\ last' = last
<1> DEFINE t == Len(grows)
           o == OldSlot
           it == Item(o.key, o.value, o.block, Wide)
<1>1. /\ grows # <<>> /\ Inner.next < SizeOf(Inner.old) /\ o.key # NoKey
      /\ Place(it, bucket, Moved) /\ UNCHANGED <<use, named, kept, puts, last>>
  BY DEF MoveSlot
<1>2. /\ Sound(bucket, grows, use, Len(mem)) /\ CreateInv /\ mem \in Memories /\ Len(mem) \in Nat
  BY <1>1, WhileGrowing
<1>3. /\ Later(Moved, grows, t, use, Len(mem)) /\ t \in DOMAIN Moved /\ DOMAIN Moved = DOMAIN grows
      /\ o \in Slot /\ Fits(o, use, Len(mem))
      /\ \A i \in DOMAIN grows : Moved[i].item = grows[i].item
      /\ OneMore(InHand(grows[t]), InHand(Moved[t]), o) /\ \A e \in InHand(Moved[t]) : e.key # o.key
  BY <1>1, <1>2, MovedIsLater
<1>4. o.key \in Keys /\ o.value \in Data \cup {NoValue} /\ o.block \in Nat
  BY <1>1, <1>3 DEF Slot
<1>5. IF use # "sizes" THEN o.value = NoValue /\ o.block \in 1 .. Len(mem)
                       ELSE o.value \in Data /\ o.block = 0
  BY <1>1, <1>3 DEF Fits
<1> HIDE DEF o, t
<1>6. it \in Items /\ it.key = o.key /\ it.block = o.block /\ it.value = o.value /\ (it.move <=> use # "sizes")
  BY <1>4 DEF Item, Items, Wide
<1> HIDE DEF it
<1>7. GoodItem(it, use, Len(mem))
  BY <1>2, <1>5, <1>6 DEF GoodItem
<1>8. ASSUME named < Len(Names)
      PROVE  /\ it.value = NoValue /\ ValueIn(it, mem) = Zero
             /\ \A i \in DOMAIN Moved : Moved[i].item.value = NoValue
  <2>1. /\ use = "named" /\ \A i \in DOMAIN mem : mem[i] = Zero
        /\ \A i \in DOMAIN grows : grows[i].item.value = NoValue
    BY <1>2, <1>8 DEF CreateInv
  <2>2. it.value = NoValue /\ it.block \in 1 .. Len(mem)
    BY <1>5, <1>6, <2>1
  <2>3. ValueIn(it, mem) = Zero
    BY <1>2, <2>1, <2>2 DEF ValueIn, Memories
  <2>4. \A i \in DOMAIN Moved : Moved[i].item.value = NoValue
    BY <1>3, <2>1
  <2> QED BY <2>2, <2>3, <2>4
<1>9. InHand(Moved[t]) = IF t \in DOMAIN Moved THEN InHand(Moved[t]) ELSE {}
  BY <1>3
<1>10. Place(it, bucket, Moved)
  BY <1>1 DEF it
<1> QED BY <1>1, <1>3, <1>6, <1>7, <1>8, <1>9, <1>10, PlacedAgain

\* The end of a growth, which inserts its item, changes nothing a caller sees.
LEMMA GrowDoneKeeps ==
  ASSUME IInv, GrowDone
  PROVE  IInv' /\ Contents' = Contents /\ last' = last
<1> DEFINE t == Len(grows)
           hs == Front(grows)
           g == Inner
           it == [g.item EXCEPT !.move = FALSE]
           f == Held(g)
<1>1. /\ grows # <<>> /\ Inner.next = SizeOf(Inner.old)
      /\ Place(it, bucket, hs) /\ UNCHANGED <<use, named, kept, puts, last>>
  BY DEF GrowDone
<1>2. /\ Sound(bucket, grows, use, Len(mem)) /\ CreateInv /\ mem \in Memories /\ Len(mem) \in Nat
  BY <1>1, WhileGrowing
<1>3. /\ Later(hs, grows, t, use, Len(mem)) /\ t \notin DOMAIN hs /\ grows[t] = g /\ t \in DOMAIN grows
      /\ \A i \in DOMAIN hs : i \in DOMAIN grows /\ hs[i] = grows[i]
      /\ OneMore(InHand(grows[t]), {}, f) /\ g \in Growth /\ GoodItem(g.item, use, Len(mem))
  BY <1>1, <1>2, FrontIsLater
<1> HIDE DEF t, hs, g
<1>4. /\ it \in Items /\ it.key = g.item.key /\ it.value = g.item.value /\ it.block = g.item.block
      /\ it.move = FALSE
  BY <1>3 DEF Growth, Items
<1> HIDE DEF it
<1>5. GoodItem(it, use, Len(mem))
  BY <1>3, <1>4 DEF GoodItem
<1>6. it.key = f.key /\ it.block = f.block /\ it.value = f.value
  BY <1>4 DEF Held
<1>7. ASSUME named < Len(Names)
      PROVE  /\ it.value = NoValue /\ ValueIn(it, mem) = Zero
             /\ \A i \in DOMAIN hs : hs[i].item.value = NoValue
  <2>1. /\ use = "named" /\ \A i \in DOMAIN mem : mem[i] = Zero
        /\ \A i \in DOMAIN grows : grows[i].item.value = NoValue
    BY <1>2, <1>7 DEF CreateInv
  <2>2. it.value = NoValue /\ it.block \in 0 .. Len(mem)
    BY <1>3, <1>4, <2>1 DEF GoodItem
  <2>3. ValueIn(it, mem) = Zero
    BY <1>2, <2>1, <2>2 DEF ValueIn, Memories
  <2>4. \A i \in DOMAIN hs : hs[i].item.value = NoValue
    BY <1>3, <2>1
  <2> QED BY <2>2, <2>3, <2>4
<1>8. {} = IF t \in DOMAIN hs THEN InHand(hs[t]) ELSE {}
  BY <1>3
<1>9. Place(it, bucket, hs)
  BY <1>1 DEF it
<1>10. \A e \in {} : e.key # f.key
  OBVIOUS
<1> HIDE DEF f
<1> QED BY <1>1, <1>3, <1>4, <1>5, <1>6, <1>7, <1>8, <1>9, <1>10, PlacedAgain

----------------------------------------------------------------------------
(* The theorems *)

\* The invariant holds of a new table.
LEMMA InitKeeps ==
  ASSUME Init
  PROVE  IInv /\ Contents = [k \in Keys |-> NoValue] /\ last = <<"none">>
<1> DEFINE m == IF use = "named" THEN Len(Names) ELSE 0
<1>1. /\ use \in Uses /\ bucket = Slots(m) /\ mem = <<>> /\ grows = <<>>
      /\ kept = [k \in Keys |-> 0] /\ puts = 0 /\ last = <<"none">>
      /\ named = IF use = "named" THEN 0 ELSE Len(Names)
  BY DEF Init
<1>2. Len(Names) \in Nat /\ m \in Nat
  BY KeyAssumption
<1> HIDE DEF m
<1>3. GoodBucket(Slots(m), use, 0) /\ InBucket(Slots(m)) = {}
  BY <1>2, NewSlots
<1>4. EntriesOf(Slots(m), <<>>) = {}
  BY <1>3 DEF EntriesOf
<1>5. Sound(bucket, grows, use, Len(mem))
  BY <1>1, <1>3, <1>4 DEF Sound, Apart, OwnBlocks
<1>6. TypeInv /\ KeptInv /\ CreateInv
  BY <1>1, <1>2, BoundAssumption DEF TypeInv, KeptInv, CreateInv, Uses
<1>7. Contents = [k \in Keys |-> NoValue]
  <2>1. Contents = ContentsOf({}, mem)
    BY <1>1, <1>4, ContentsAreThose
  <2> QED BY <2>1 DEF ContentsOf
<1> QED BY <1>1, <1>5, <1>6, <1>7 DEF IInv

\* A step that leaves the variables alone.
LEMMA StutterKeeps ==
  ASSUME IInv, UNCHANGED vars
  PROVE  IInv' /\ Contents' = Contents /\ last' = last
<1>1. UNCHANGED <<use, bucket, mem, grows, named, kept, puts, last>>
  BY DEF vars
<1>2. TypeInv' /\ KeptInv' /\ CreateInv' /\ Sound(bucket, grows, use, Len(mem))'
  BY <1>1 DEF IInv, TypeInv, KeptInv, CreateInv, Idle
<1>3. Contents' = Contents
  BY <1>1, ContentsAreThose
<1> QED BY <1>1, <1>2, <1>3 DEF IInv

\* Every step keeps the invariant.
LEMMA NextKeeps ==
  ASSUME IInv, [Next]_vars
  PROVE  IInv'
<1>1. CASE InsertName
  BY <1>1, InsertNameKeeps
<1>2. ASSUME NEW k \in Keys, NEW v \in Data, Insert(k, v) PROVE IInv'
  BY <1>2, InsertKeeps
<1>3. ASSUME NEW k \in Keys, Erase(k) PROVE IInv'
  BY <1>3, EraseKeeps
<1>4. ASSUME NEW k \in Keys, KeepPointer(k) PROVE IInv'
  BY <1>4, KeepPointerKeeps
<1>5. CASE Grow
  BY <1>5, SkipSlotKeeps, MoveSlotKeeps, GrowDoneKeeps DEF Grow
<1>6. CASE UNCHANGED vars
  BY <1>6, StutterKeeps
<1> QED BY <1>1, <1>2, <1>3, <1>4, <1>5, <1>6 DEF Next

\* The inductive invariant: bucket and growths are sound, pointers are kept to blocks of
\* entries, and a table that is being created has no values yet.
THEOREM InvariantHolds == Spec => []IInv
<1>1. Init => IInv
  BY InitKeeps
<1>2. IInv /\ [Next]_vars => IInv'
  BY NextKeeps
<1> QED BY <1>1, <1>2, PTL DEF Spec

\* However deep growths nest, an entry is in the slot its hash names, a key is in one
\* place at a time and no two keys share a block: ht_insert_2 and ht_grow lose no entry.
THEOREM TableIsWellFormed == Spec => []WellFormed
<1>1. ASSUME IInv PROVE WellFormed
  <2>1. Sound(bucket, grows, use, Len(mem)) /\ TypeInv /\ KeptInv /\ Len(mem) \in Nat
    BY <1>1 DEF IInv, TypeInv
  <2>2. Entries = EntriesOf(bucket, grows)
    BY EntriesAreThose
  <2>3. \A e \in Entries : e.block \in 0 .. Len(mem)
    BY <2>1, <2>2, BlockAllocated
  <2>4. \A e \in Entries : e.key \in Keys
    <3> SUFFICES ASSUME NEW e \in EntriesOf(bucket, grows) PROVE e.key \in Keys
      BY <2>2
    <3>1. CASE e \in InBucket(bucket)
      BY <2>1, <3>1, EntryFits DEF Sound
    <3>2. CASE e \notin InBucket(bucket)
      <4>1. PICK i \in DOMAIN grows : e \in InHand(grows[i])
        BY <3>2 DEF EntriesOf
      <4>2. grows[i] \in Growth /\ GoodBucket(grows[i].old, use, Len(mem))
        BY <2>1 DEF Sound, GoodGrowth
      <4>3. CASE e = Held(grows[i])
        BY <4>2, <4>3 DEF Held, Growth
      <4>4. CASE e \in Waiting(grows[i])
        <5>1. e \in InBucket(grows[i].old)
          BY <4>1, <4>4 DEF InHand, Waiting, InBucket
        <5> QED BY <4>2, <5>1, EntryFits
      <4> QED BY <4>1, <4>3, <4>4 DEF InHand
    <3> QED BY <3>1, <3>2
  <2>5. \A k \in Keys : kept[k] \in 0 .. Len(mem)
    <3> SUFFICES ASSUME NEW k \in Keys, kept[k] # 0 PROVE kept[k] \in 0 .. Len(mem)
      BY <2>1
    <3>1. PICK i \in DOMAIN bucket : bucket[i].key = k /\ bucket[i].block = kept[k]
      BY <2>1 DEF KeptInv
    <3>2. bucket[i] \in InBucket(bucket)
      BY <3>1, KeyAssumption DEF InBucket
    <3> QED BY <2>2, <2>3, <3>1, <3>2 DEF EntriesOf
  <2>6. TypeOK
    BY <2>1, <2>3, <2>4, <2>5 DEF TypeOK, TypeInv, Sound, GoodGrowth, Growths
  <2>7. Placement
    BY <2>1 DEF Placement, Sound, GoodBucket
  <2>8. OnePlacePerKey
    <3>1. ASSUME NEW e \in Entries, NEW f \in Entries,
                 e.key = f.key \/ (e.block # 0 /\ e.block = f.block)
          PROVE  e = f
      <4>1. e.key = f.key
        BY <2>1, <2>2, <3>1 DEF Sound, OwnBlocks
      <4> QED BY <2>1, <2>2, <4>1, OneEntryPerKey
    <3>2. ASSUME NEW i \in Growths, NEW e \in Bucketed
          PROVE  e.key # grows[i].item.key
      <4>1. grows[i] \in Growth /\ i \in DOMAIN grows
        BY <2>1 DEF Sound, Growths
      <4>2. grows[i].item.key \in Keys /\ grows[i].item.key # NoKey
        BY <4>1, KeyAssumption DEF Growth
      <4>3. Held(grows[i]) \in InHand(grows[i]) /\ Held(grows[i]).key = grows[i].item.key
        BY <4>2 DEF InHand, Held
      <4>4. e.key # NoKey => e \in InBucket(bucket)
        BY DEF Bucketed, InBucket
      <4> QED BY <2>1, <4>1, <4>2, <4>3, <4>4 DEF Sound, Apart
    <3> QED BY <3>1, <3>2 DEF OnePlacePerKey
  <2> QED BY <2>6, <2>7, <2>8 DEF WellFormed
<1> QED BY <1>1, InvariantHolds, PTL

\* The pointer keys_db keeps for header_key reaches the key's present value for good.
THEOREM KeptPointersStayCurrent == Spec => []KeptPointerIsCurrent
<1>1. ASSUME IInv PROVE KeptPointerIsCurrent
  <2> SUFFICES ASSUME NEW k \in Keys, kept[k] # 0
               PROVE  \E e \in Entries : e.key = k /\ e.block = kept[k]
    BY DEF KeptPointerIsCurrent
  <2>1. PICK i \in DOMAIN bucket : bucket[i].key = k /\ bucket[i].block = kept[k]
    BY <1>1 DEF IInv, KeptInv
  <2>2. bucket[i] \in EntriesOf(bucket, grows)
    BY <2>1, KeyAssumption DEF EntriesOf, InBucket
  <2> QED BY <2>1, <2>2, EntriesAreThose
<1> QED BY <1>1, InvariantHolds, PTL

\* The hash table is the map KeyedStore describes: a call changes the value of its key when
\* it begins, and no step of the growths it starts changes anything a caller could see.
THEOREM TableIsAStore == Spec => IsAStore
<1>1. Init => Store!Init
  BY InitKeeps DEF Store!Init
<1>2. ASSUME IInv, [Next]_vars
      PROVE  [Store!Next]_<<Contents, last>>
  <2>1. CASE InsertName
    <3>1. Changed(Contents', Contents, Names[named + 1], Zero)
      BY <1>2, <2>1, InsertNameKeeps
    <3>2. last' = <<"put", Names[named + 1], Zero>> /\ Names[named + 1] \in Keys
      BY <1>2, <2>1, KeyAssumption DEF InsertName, IInv, TypeInv
    <3> QED BY <3>1, <3>2 DEF Changed, Store!Next, Store!Put
  <2>2. ASSUME NEW k \in Keys, NEW v \in Data, Insert(k, v)
        PROVE  Store!Next
    <3>1. Changed(Contents', Contents, k, v)
      BY <1>2, <2>2, InsertKeeps
    <3>2. last' = <<"put", k, v>>
      BY <2>2 DEF Insert
    <3> QED BY <3>1, <3>2 DEF Changed, Store!Next, Store!Put
  <2>3. ASSUME NEW k \in Keys, Erase(k)
        PROVE  Store!Next
    <3>1. Changed(Contents', Contents, k, NoValue)
      BY <1>2, <2>3, EraseKeeps
    <3>2. last' = <<"drop", k, NoValue>>
      BY <2>3 DEF Erase
    <3> QED BY <3>1, <3>2 DEF Changed, Store!Next, Store!Drop
  <2>4. ASSUME NEW k \in Keys, KeepPointer(k)
        PROVE  UNCHANGED <<Contents, last>>
    BY <1>2, <2>4, KeepPointerKeeps
  <2>5. CASE Grow
    BY <1>2, <2>5, SkipSlotKeeps, MoveSlotKeeps, GrowDoneKeeps DEF Grow
  <2>6. CASE UNCHANGED vars
    BY <1>2, <2>6, StutterKeeps
  <2> QED BY <1>2, <2>1, <2>2, <2>3, <2>4, <2>5, <2>6 DEF Next
<1> QED BY <1>1, <1>2, InvariantHolds, PTL DEF Spec, IsAStore, Store!Spec

----------------------------------------------------------------------------
(* The allocator, for any number of threads and addresses *)

USE AddressAssumption DEF AllocatorInv, At, Goto, Threads, Blocks, state, lock, locals, callers

(* The unlocked test of ht_mm at the head of fb_malloc keeps the invariant. *)
LEMMA TestInductive ==
  ASSUME AllocatorInv, NEW t \in Threads, Test(t)
  PROVE  AllocatorInv'
<1>1. AllocatorTypeOK'
  BY DEF Test, AllocatorTypeOK, Labels
<1>2. NoFault'
  BY DEF Test, NoFault
<1>3. LockInv'
  BY DEF Test, LockInv, PhaseInv, Holds
<1>4. CalmInv'
  BY DEF Test, CalmInv, Shared, Calm
<1>5. RegistryInv'
  BY DEF Test, RegistryInv, Colliding
<1>6. PhaseInv'
  BY DEF Test, AllocatorTypeOK, PhaseInv
<1>7. HolderInv'
  BY DEF Test, HolderInv, HasPtr
<1>8. TableInv'
  BY DEF Test, TableInv
<1>9. OriginInv'
  BY DEF Test, OriginInv, HasPtr
<1>10. QED
  BY <1>1, <1>2, <1>3, <1>4, <1>5, <1>6, <1>7, <1>8, <1>9

(* The unlocked store of the placeholder one happens only while nobody shares the table. *)
LEMMA ClaimInductive ==
  ASSUME AllocatorInv, NEW t \in Threads, Claim(t)
  PROVE  AllocatorInv'
<1>1. AllocatorTypeOK'
  BY DEF Claim, AllocatorTypeOK, Labels
<1>2. NoFault'
  BY DEF Claim, NoFault
<1>3. LockInv'
  BY DEF Claim, LockInv, Holds
<1>4. CalmInv'
  BY DEF Claim, CalmInv, PhaseInv, Shared
<1>5. RegistryInv'
  BY DEF Claim, RegistryInv, Colliding, PhaseInv
<1>6. PhaseInv'
  BY DEF Claim, AllocatorTypeOK, RegistryInv, Colliding, PhaseInv, HolderInv
<1>7. HolderInv'
  BY DEF Claim, HolderInv, HasPtr
<1>8. TableInv'
  BY DEF Claim, PhaseInv, TableInv
<1>9. OriginInv'
  BY DEF Claim, OriginInv, HasPtr
<1>10. QED
  BY <1>1, <1>2, <1>3, <1>4, <1>5, <1>6, <1>7, <1>8, <1>9

(* pthread_mutex_trylock by the thread that claimed the table. *)
LEMMA TryLockInductive ==
  ASSUME AllocatorInv, NEW t \in Threads, TryLock(t)
  PROVE  AllocatorInv'
<1>1. AllocatorTypeOK'
  BY DEF TryLock, AllocatorTypeOK, Lock, Labels
<1>2. NoFault'
  BY DEF TryLock, NoFault
<1>3. LockInv'
  BY DEF TryLock, AllocatorTypeOK, LockInv, CalmInv, RegistryInv, Colliding, PhaseInv, HolderInv, Lock, Holds
<1>4. CalmInv'
  BY DEF TryLock, AllocatorTypeOK, CalmInv, PhaseInv, Shared
<1>5. RegistryInv'
  BY DEF TryLock, AllocatorTypeOK, RegistryInv, Colliding
<1>6. PhaseInv'
  BY DEF TryLock, AllocatorTypeOK, LockInv, CalmInv, RegistryInv, Colliding, PhaseInv, HolderInv, CanLock, Holds
<1>7. HolderInv'
  BY DEF TryLock, AllocatorTypeOK, HolderInv, HasPtr
<1>8. TableInv'
  BY DEF TryLock, AllocatorTypeOK, TableInv
<1>9. OriginInv'
  BY DEF TryLock, AllocatorTypeOK, OriginInv, HasPtr
<1>10. QED
  BY <1>1, <1>2, <1>3, <1>4, <1>5, <1>6, <1>7, <1>8, <1>9

(* ht_create's table is fresh, and not yet anybody's. *)
LEMMA MakeTableInductive ==
  ASSUME AllocatorInv, NEW t \in Threads, MakeTable(t)
  PROVE  AllocatorInv'
<1>1. AllocatorTypeOK'
  BY DEF MakeTable, AllocatorTypeOK, Labels
<1>2. NoFault'
  BY DEF MakeTable, NoFault
<1>3. LockInv'
  BY DEF MakeTable, AllocatorTypeOK, LockInv, PhaseInv, Holds
<1>4. CalmInv'
  BY DEF MakeTable, CalmInv, Shared
<1>5. RegistryInv'
  BY DEF MakeTable, RegistryInv, Colliding
<1>6. PhaseInv'
  BY DEF MakeTable, AllocatorTypeOK, PhaseInv
<1>7. HolderInv'
  BY DEF MakeTable, HolderInv, HasPtr
<1>8. TableInv'
  BY DEF MakeTable, AllocatorTypeOK, RegistryInv, Colliding, PhaseInv, HolderInv, TableInv
<1>9. OriginInv'
  BY DEF MakeTable, AllocatorTypeOK, CalmInv, Shared, PhaseInv, OriginInv, HasPtr
<1>10. QED
  BY <1>1, <1>2, <1>3, <1>4, <1>5, <1>6, <1>7, <1>8, <1>9

(* ht_mm gets the table made under the mutex. *)
LEMMA PublishInductive ==
  ASSUME AllocatorInv, NEW t \in Threads, Publish(t)
  PROVE  AllocatorInv'
<1>1. AllocatorTypeOK'
  BY DEF Publish, AllocatorTypeOK, Labels
<1>2. NoFault'
  BY DEF Publish, NoFault
<1>3. LockInv'
  BY DEF Publish, LockInv, Holds
<1>4. CalmInv'
  BY DEF Publish, CalmInv, PhaseInv, Shared
<1>5. RegistryInv'
  BY DEF Publish, RegistryInv, Colliding, PhaseInv
<1>6. PhaseInv'
  BY DEF Publish, AllocatorTypeOK, RegistryInv, Colliding, PhaseInv, HolderInv
<1>7. HolderInv'
  BY DEF Publish, HolderInv, HasPtr
<1>8. TableInv'
  BY DEF Publish, PhaseInv, TableInv
<1>9. OriginInv'
  BY DEF Publish, OriginInv, HasPtr
<1>10. QED
  BY <1>1, <1>2, <1>3, <1>4, <1>5, <1>6, <1>7, <1>8, <1>9

(* The unlock that follows a successful ht_create. *)
LEMMA ReleaseInductive ==
  ASSUME AllocatorInv, NEW t \in Threads, Release(t)
  PROVE  AllocatorInv'
<1>1. AllocatorTypeOK'
  BY DEF Release, AllocatorTypeOK, LockInv, Unlock, Holds, Labels
<1>2. NoFault'
  BY DEF Release, NoFault
<1>3. LockInv'
  BY DEF Release, AllocatorTypeOK, LockInv, PhaseInv, Unlock, Holds
<1>4. CalmInv'
  BY DEF Release, CalmInv, Shared, Calm
<1>5. RegistryInv'
  BY DEF Release, RegistryInv, Colliding
<1>6. PhaseInv'
  BY DEF Release, PhaseInv
<1>7. HolderInv'
  BY DEF Release, HolderInv, HasPtr
<1>8. TableInv'
  BY DEF Release, TableInv
<1>9. OriginInv'
  BY DEF Release, OriginInv, HasPtr
<1>10. QED
  BY <1>1, <1>2, <1>3, <1>4, <1>5, <1>6, <1>7, <1>8, <1>9

(* malloc returns a block outside the heap's and the mapping's blocks. *)
LEMMA SmallBlockInductive ==
  ASSUME AllocatorInv, NEW t \in Threads, SmallBlock(t)
  PROVE  AllocatorInv'
<1>1. AllocatorTypeOK'
  BY DEF SmallBlock, AllocatorTypeOK, Labels
<1>2. NoFault'
  BY DEF SmallBlock, NoFault
<1>3. LockInv'
  BY DEF SmallBlock, LockInv, Holds
<1>4. CalmInv'
  BY DEF SmallBlock, CalmInv, Shared, Calm
<1>5. RegistryInv'
  BY DEF SmallBlock, RegistryInv, Colliding
<1>6. PhaseInv'
  BY DEF SmallBlock, PhaseInv
<1>7. HolderInv'
  BY DEF SmallBlock, AllocatorTypeOK, HolderInv, HasPtr
<1>8. TableInv'
  BY DEF SmallBlock, TableInv
<1>9. OriginInv'
  BY DEF SmallBlock, AllocatorTypeOK, HolderInv, OriginInv, HasPtr
<1>10. QED
  BY <1>1, <1>2, <1>3, <1>4, <1>5, <1>6, <1>7, <1>8, <1>9

(* A large request goes on to lock the mutex. *)
LEMMA LargeBlockInductive ==
  ASSUME AllocatorInv, NEW t \in Threads, LargeBlock(t)
  PROVE  AllocatorInv'
<1>1. AllocatorTypeOK'
  BY DEF LargeBlock, AllocatorTypeOK, Labels
<1>2. NoFault'
  BY DEF LargeBlock, NoFault
<1>3. LockInv'
  BY DEF LargeBlock, LockInv, Holds
<1>4. CalmInv'
  BY DEF LargeBlock, CalmInv, Shared, Calm
<1>5. RegistryInv'
  BY DEF LargeBlock, RegistryInv, Colliding
<1>6. PhaseInv'
  BY DEF LargeBlock, PhaseInv
<1>7. HolderInv'
  BY DEF LargeBlock, HolderInv, HasPtr
<1>8. TableInv'
  BY DEF LargeBlock, TableInv
<1>9. OriginInv'
  BY DEF LargeBlock, OriginInv, HasPtr
<1>10. QED
  BY <1>1, <1>2, <1>3, <1>4, <1>5, <1>6, <1>7, <1>8, <1>9

(* The lock around mmap. *)
LEMMA LockToMapInductive ==
  ASSUME AllocatorInv, NEW t \in Threads, LockToMap(t)
  PROVE  AllocatorInv'
<1>1. AllocatorTypeOK'
  BY DEF LockToMap, AllocatorTypeOK, Lock, Labels
<1>2. NoFault'
  BY DEF LockToMap, NoFault
<1>3. LockInv'
  BY DEF LockToMap, AllocatorTypeOK, LockInv, CanLock, Lock, Holds
<1>4. CalmInv'
  BY DEF LockToMap, CalmInv, Shared, Calm
<1>5. RegistryInv'
  BY DEF LockToMap, RegistryInv, Colliding
<1>6. PhaseInv'
  BY DEF LockToMap, PhaseInv
<1>7. HolderInv'
  BY DEF LockToMap, HolderInv, HasPtr
<1>8. TableInv'
  BY DEF LockToMap, TableInv
<1>9. OriginInv'
  BY DEF LockToMap, OriginInv, HasPtr
<1>10. QED
  BY <1>1, <1>2, <1>3, <1>4, <1>5, <1>6, <1>7, <1>8, <1>9

(* mmap and ht_insert: the new block is mapped, and registered unless its slot is taken. *)
LEMMA MapInductive ==
  ASSUME AllocatorInv, NEW t \in Threads, Map(t)
  PROVE  AllocatorInv'
<1>a. Usable(ht_mm)
  BY DEF Map, Usable, PhaseInv, RegistryInv
<1>b. PICK b \in Large \ mapped :
        /\ mapped' = mapped \cup {b}
        /\ ptr' = [ptr EXCEPT ![t] = b]
        /\ \/ entries' = [entries EXCEPT ![ht_mm] = @ \cup {b}] /\ Goto(t, "unlock")
           \/ entries[ht_mm] # {} /\ Goto(t, "grow") /\ UNCHANGED entries
  BY <1>a DEF Map, Die
<1>c. /\ At(t, "map") /\ buckets' = Sized(t)
      /\ UNCHANGED <<ht_mm, heap, origin, lock, kind, table, nest, callers, fault>>
  BY <1>a DEF Map, Die
<1>1. AllocatorTypeOK'
  BY <1>a, <1>b, <1>c DEF AllocatorTypeOK, Sized, Labels
<1>2. NoFault'
  BY <1>a, <1>b, <1>c DEF NoFault
<1>3. LockInv'
  BY <1>a, <1>b, <1>c DEF AllocatorTypeOK, LockInv, Holds
<1>4. CalmInv'
  BY <1>a, <1>b, <1>c DEF AllocatorTypeOK, CalmInv, Shared, Calm
<1>5. RegistryInv'
  BY <1>a, <1>b, <1>c DEF AllocatorTypeOK, RegistryInv, Colliding, PhaseInv
<1>6. PhaseInv'
  BY <1>a, <1>b, <1>c DEF AllocatorTypeOK, RegistryInv, Colliding, PhaseInv, HolderInv
<1>7. HolderInv'
  BY <1>a, <1>b, <1>c DEF AllocatorTypeOK, HolderInv, HasPtr
<1>8. TableInv'
  BY <1>a, <1>b, <1>c DEF AllocatorTypeOK, TableInv
<1>9. OriginInv'
  BY <1>a, <1>b, <1>c DEF AllocatorTypeOK, OriginInv, Sized, HasPtr
<1>10. QED
  BY <1>1, <1>2, <1>3, <1>4, <1>5, <1>6, <1>7, <1>8, <1>9

(* The fb_free of an old bucket locks the mutex once more. *)
LEMMA GrowBucketInductive ==
  ASSUME AllocatorInv, NEW t \in Threads, GrowBucket(t)
  PROVE  AllocatorInv'
<1>1. AllocatorTypeOK'
  BY DEF GrowBucket, AllocatorTypeOK, Lock, Labels
<1>2. NoFault'
  BY DEF GrowBucket, NoFault
<1>3. LockInv'
  BY DEF GrowBucket, AllocatorTypeOK, LockInv, CanLock, Lock, Holds
<1>4. CalmInv'
  BY DEF GrowBucket, CalmInv, Shared, Calm
<1>5. RegistryInv'
  BY DEF GrowBucket, AllocatorTypeOK, RegistryInv, Colliding
<1>6. PhaseInv'
  BY DEF GrowBucket, AllocatorTypeOK, PhaseInv
<1>7. HolderInv'
  BY DEF GrowBucket, AllocatorTypeOK, HolderInv, HasPtr
<1>8. TableInv'
  BY DEF GrowBucket, TableInv
<1>9. OriginInv'
  BY DEF GrowBucket, OriginInv, HasPtr
<1>10. QED
  BY <1>1, <1>2, <1>3, <1>4, <1>5, <1>6, <1>7, <1>8, <1>9

(* The old bucket comes from the heap of the thread that frees it: only the main thread *)
(* asks for large blocks, so it made every bucket and is the one that grows it.         *)
LEMMA ShedBucketInductive ==
  ASSUME AllocatorInv, NEW t \in Threads, ShedBucket(t)
  PROVE  AllocatorInv'
<1>a. Usable(ht_mm)
  BY DEF ShedBucket, Usable, PhaseInv, RegistryInv
<1>b. t = Main
  BY DEF ShedBucket, OriginInv
<1>c. buckets[ht_mm] \subseteq {t}
  BY <1>a, <1>b DEF Usable, OriginInv
<1>d. /\ At(t, "shed") /\ Goto(t, "unlock") /\ Unlock(t)
      /\ buckets' = [buckets EXCEPT ![ht_mm] = {t}]
      /\ entries' = [entries EXCEPT ![ht_mm] = @ \cup {ptr[t]}]
      /\ UNCHANGED <<ht_mm, mapped, heap, origin, kind, ptr, table, nest, callers, fault>>
  BY <1>a, <1>c DEF ShedBucket, Die
<1>e. ptr[t] \in mapped
  BY <1>d DEF HolderInv
<1>f. depth = 2 /\ owner = t
  BY <1>d DEF LockInv, Holds
<1>g. depth' = 1 /\ owner' = t
  BY <1>d, <1>f DEF Unlock
<1>1. AllocatorTypeOK'
  BY <1>a, <1>b, <1>d, <1>e, <1>g DEF AllocatorTypeOK, Labels
<1>2. NoFault'
  BY <1>d DEF NoFault
<1>3. LockInv'
  BY <1>d, <1>f, <1>g DEF AllocatorTypeOK, LockInv, Holds
<1>4. CalmInv'
  BY <1>d DEF CalmInv, Shared, Calm
<1>5. RegistryInv'
  BY <1>a, <1>d, <1>e DEF AllocatorTypeOK, RegistryInv, Colliding
<1>6. PhaseInv'
  <2>1. \A u \in running \ {t} : pc[u] \notin {"publish", "old", "clear"}
    <3>1. \A u \in running \ {t} : u \in Loops
      BY <1>b DEF AllocatorTypeOK
    <3>2. QED
      BY <3>1 DEF CalmInv, Shared, Calm
  <2>2. QED
    BY <1>a, <1>d, <2>1 DEF AllocatorTypeOK, PhaseInv
<1>7. HolderInv'
  BY <1>d DEF AllocatorTypeOK, HolderInv, HasPtr
<1>8. TableInv'
  BY <1>d DEF TableInv
<1>9. OriginInv'
  BY <1>a, <1>b, <1>d DEF AllocatorTypeOK, OriginInv, HasPtr
<1>10. QED
  BY <1>1, <1>2, <1>3, <1>4, <1>5, <1>6, <1>7, <1>8, <1>9

(* The unlock after mmap hands the block to its caller. *)
LEMMA UnlockMappedInductive ==
  ASSUME AllocatorInv, NEW t \in Threads, UnlockMapped(t)
  PROVE  AllocatorInv'
<1>1. AllocatorTypeOK'
  BY DEF UnlockMapped, AllocatorTypeOK, LockInv, HolderInv, Unlock, Holds, Labels
<1>2. NoFault'
  BY DEF UnlockMapped, NoFault
<1>3. LockInv'
  BY DEF UnlockMapped, AllocatorTypeOK, LockInv, Unlock, Holds
<1>4. CalmInv'
  BY DEF UnlockMapped, CalmInv, PhaseInv, Shared, Calm
<1>5. RegistryInv'
  BY DEF UnlockMapped, RegistryInv, Colliding
<1>6. PhaseInv'
  BY DEF UnlockMapped, PhaseInv
<1>7. HolderInv'
  BY DEF UnlockMapped, AllocatorTypeOK, HolderInv, HasPtr
<1>8. TableInv'
  BY DEF UnlockMapped, TableInv
<1>9. OriginInv'
  BY DEF UnlockMapped, OriginInv, HasPtr
<1>10. QED
  BY <1>1, <1>2, <1>3, <1>4, <1>5, <1>6, <1>7, <1>8, <1>9

(* fb_free's lock. *)
LEMMA EnterInductive ==
  ASSUME AllocatorInv, NEW t \in Threads, Enter(t)
  PROVE  AllocatorInv'
<1>1. AllocatorTypeOK'
  BY DEF Enter, AllocatorTypeOK, Lock, Labels
<1>2. NoFault'
  BY DEF Enter, NoFault
<1>3. LockInv'
  BY DEF Enter, AllocatorTypeOK, LockInv, CanLock, Lock, Holds
<1>4. CalmInv'
  BY DEF Enter, CalmInv, Shared, Calm
<1>5. RegistryInv'
  BY DEF Enter, RegistryInv, Colliding
<1>6. PhaseInv'
  BY DEF Enter, PhaseInv
<1>7. HolderInv'
  BY DEF Enter, HolderInv, HasPtr
<1>8. TableInv'
  BY DEF Enter, TableInv
<1>9. OriginInv'
  BY DEF Enter, OriginInv, HasPtr
<1>10. QED
  BY <1>1, <1>2, <1>3, <1>4, <1>5, <1>6, <1>7, <1>8, <1>9

(* fb_free unmaps and erases a registered block, or frees a heap block. *)
LEMMA LookupInductive ==
  ASSUME AllocatorInv, NEW t \in Threads, Lookup(t)
  PROVE  AllocatorInv'
<1>a. ht_mm = Null \/ Usable(ht_mm)
  BY DEF Lookup, AllocatorTypeOK, Usable, PhaseInv, RegistryInv, Colliding
<1>n. \A u \in running : ~Colliding(u)
  BY DEF Lookup, Colliding, LockInv, Holds, AllocatorTypeOK
<1>m. mapped = IF ht_mm \in Tables THEN entries[ht_mm] ELSE {}
  BY <1>n DEF RegistryInv
<1>b. Registered(ptr[t]) \/ Owned(t, ptr[t]) \/ ptr[t] = Null
  <2>1. CASE nest[t] = 1
    <3>1. t = Main
      <4>1. t \in running /\ (t \in Loops => running \cap Loops # {})
        BY DEF Lookup
      <4>2. ~Shared
        BY <2>1 DEF CalmInv
      <4>3. QED
        BY <4>1, <4>2 DEF Shared
    <3>2. ptr[t] \in Tables \cap heap
      BY <2>1 DEF Lookup, PhaseInv
    <3>3. QED
      BY <3>1, <3>2 DEF Owned, OriginInv
  <2>2. CASE nest[t] # 1 /\ ptr[t] # Null
    <3>1. ptr[t] \in Blocks /\ ptr[t] \in mapped \cup heap
      BY <2>2 DEF Lookup, PhaseInv, HolderInv, HasPtr
    <3>2. CASE ptr[t] \in Small
      BY <3>1, <3>2, <1>m DEF Lookup, Owned, OriginInv, HasPtr, AllocatorTypeOK
    <3>3. CASE ptr[t] \in Large
      BY <3>1, <3>3, <1>m DEF Registered, AllocatorTypeOK
    <3>4. QED
      BY <3>1, <3>2, <3>3
  <2>3. QED
    BY <2>1, <2>2
<1>e. t \in Loops => ht_mm \in Tables /\ entries[ht_mm] # {}
  BY <1>m DEF Lookup, CalmInv, Shared, HolderInv
<1>c. /\ At(t, "lookup") /\ Goto(t, "empty")
      /\ buckets' = Sized(t)
      /\ UNCHANGED <<ht_mm, lock, kind, ptr, table, nest, callers, fault>>
      /\ \/ /\ Registered(ptr[t])
            /\ mapped' = mapped \ {ptr[t]}
            /\ entries' = [entries EXCEPT ![ht_mm] = @ \ {ptr[t]}]
            /\ UNCHANGED <<heap, origin>>
         \/ /\ ~Registered(ptr[t]) /\ Owned(t, ptr[t])
            /\ heap' = heap \ {ptr[t]}
            /\ origin' = [origin EXCEPT ![ptr[t]] = Null]
            /\ UNCHANGED <<entries, mapped>>
         \/ ptr[t] = Null /\ UNCHANGED <<entries, mapped, heap, origin>>
  BY <1>a, <1>b DEF Lookup, Usable, Die
<1>1. AllocatorTypeOK'
  BY <1>a, <1>b, <1>c DEF AllocatorTypeOK, Sized, Labels
<1>2. NoFault'
  BY <1>a, <1>b, <1>c DEF NoFault
<1>3. LockInv'
  BY <1>a, <1>b, <1>c DEF LockInv, Holds
<1>4. CalmInv'
  BY <1>a, <1>b, <1>c DEF CalmInv, Shared, Calm
<1>5. RegistryInv'
  <2>1. ht_mm \in Tables => ptr[t] # ht_mm
    BY <1>c DEF PhaseInv, AllocatorTypeOK
  <2>2. ht_mm' \in Tables => ht_mm' \in heap'
    BY <1>c, <2>1 DEF RegistryInv, Colliding
  <2>3. ASSUME ht_mm \in Tables  PROVE mapped' = entries'[ht_mm]
    <3>1. mapped = entries[ht_mm] /\ ht_mm \in DOMAIN entries /\ ht_mm # Null
      BY <2>3, <1>m DEF AllocatorTypeOK
    <3>2. QED
      BY <1>c, <3>1 DEF Registered
  <2>4. ASSUME ht_mm \notin Tables  PROVE mapped' = {}
    BY <1>a, <1>c, <1>m, <2>4 DEF Usable, Registered
  <2>5. QED
    BY <1>c, <2>2, <2>3, <2>4 DEF RegistryInv
<1>6. PhaseInv'
  <2>1. \A u \in running : pc[u] # "publish"
    BY <1>c DEF LockInv, Holds, AllocatorTypeOK
  <2>2. QED
    BY <1>a, <1>b, <1>c, <1>n, <2>1
       DEF AllocatorTypeOK, RegistryInv, Colliding, PhaseInv, HolderInv, HasPtr
<1>7. HolderInv'
  BY <1>a, <1>b, <1>c DEF AllocatorTypeOK, HolderInv, HasPtr
<1>8. TableInv'
  BY <1>a, <1>b, <1>c DEF PhaseInv, TableInv, Registered
<1>9. OriginInv'
  <2>1. ASSUME NEW m \in heap' \cap Tables  PROVE buckets'[m] \subseteq {Main}
    BY <1>c, <1>e, <2>1 DEF Sized, OriginInv, AllocatorTypeOK
  <2>2. QED
    BY <1>a, <1>b, <1>c, <2>1
       DEF AllocatorTypeOK, HolderInv, PhaseInv, CalmInv, Shared, Owned, OriginInv, HasPtr
<1>10. QED
  BY <1>1, <1>2, <1>3, <1>4, <1>5, <1>6, <1>7, <1>8, <1>9

(* fb_free finds the registry empty, or leaves it alone. *)
LEMMA EmptyCheckInductive ==
  ASSUME AllocatorInv, NEW t \in Threads, EmptyCheck(t)
  PROVE  AllocatorInv'
<1>a. ht_mm = Null \/ Usable(ht_mm)
  BY DEF EmptyCheck, AllocatorTypeOK, Usable, PhaseInv, RegistryInv, Colliding
<1>b. /\ At(t, "empty")
      /\ UNCHANGED <<state, kind, ptr, table, nest, callers, fault>>
      /\ \/ (ht_mm = Null \/ entries[ht_mm] # {}) /\ Goto(t, "leave") /\ UNCHANGED lock
         \/ ht_mm # Null /\ entries[ht_mm] = {} /\ Unlock(t) /\ Goto(t, "old")
  BY <1>a DEF EmptyCheck, Usable, Die
<1>1. AllocatorTypeOK'
  BY <1>a, <1>b DEF AllocatorTypeOK, LockInv, Unlock, Holds, Labels
<1>2. NoFault'
  BY <1>a, <1>b DEF NoFault
<1>3. LockInv'
  BY <1>a, <1>b DEF AllocatorTypeOK, LockInv, Unlock, Holds
<1>4. CalmInv'
  <2>1. ASSUME NEW l \in running \cap Loops  PROVE ht_mm \in Tables /\ entries[ht_mm] # {}
    <3>1. buffer[l] \in mapped /\ \A u \in running : HasPtr(u) => ptr[u] # buffer[l]
      BY DEF HolderInv
    <3>2. QED
      BY <3>1 DEF RegistryInv, Colliding, HasPtr, AllocatorTypeOK
  <2>2. QED
    BY <1>a, <1>b, <2>1 DEF AllocatorTypeOK, CalmInv, Shared, Calm
<1>5. RegistryInv'
  BY <1>a, <1>b DEF AllocatorTypeOK, RegistryInv, Colliding
<1>6. PhaseInv'
  BY <1>a, <1>b DEF AllocatorTypeOK, PhaseInv
<1>7. HolderInv'
  BY <1>a, <1>b DEF AllocatorTypeOK, HolderInv, HasPtr
<1>8. TableInv'
  BY <1>a, <1>b DEF AllocatorTypeOK, TableInv
<1>9. OriginInv'
  BY <1>a, <1>b DEF AllocatorTypeOK, OriginInv, HasPtr
<1>10. QED
  BY <1>1, <1>2, <1>3, <1>4, <1>5, <1>6, <1>7, <1>8, <1>9

(* exchange reads ht_mm without the mutex. *)
LEMMA ExchangeReadInductive ==
  ASSUME AllocatorInv, NEW t \in Threads, ExchangeRead(t)
  PROVE  AllocatorInv'
<1>1. AllocatorTypeOK'
  BY DEF ExchangeRead, AllocatorTypeOK, Labels
<1>2. NoFault'
  BY DEF ExchangeRead, NoFault
<1>3. LockInv'
  BY DEF ExchangeRead, LockInv, Holds
<1>4. CalmInv'
  BY DEF ExchangeRead, CalmInv, RegistryInv, Colliding, PhaseInv, HolderInv, Shared
<1>5. RegistryInv'
  BY DEF ExchangeRead, RegistryInv, Colliding
<1>6. PhaseInv'
  BY DEF ExchangeRead, AllocatorTypeOK, PhaseInv
<1>7. HolderInv'
  BY DEF ExchangeRead, HolderInv, HasPtr
<1>8. TableInv'
  BY DEF ExchangeRead, TableInv
<1>9. OriginInv'
  BY DEF ExchangeRead, OriginInv, HasPtr
<1>10. QED
  BY <1>1, <1>2, <1>3, <1>4, <1>5, <1>6, <1>7, <1>8, <1>9

(* exchange clears ht_mm without the mutex. *)
LEMMA ExchangeWriteInductive ==
  ASSUME AllocatorInv, NEW t \in Threads, ExchangeWrite(t)
  PROVE  AllocatorInv'
<1>1. AllocatorTypeOK'
  BY DEF ExchangeWrite, AllocatorTypeOK, Labels
<1>2. NoFault'
  BY DEF ExchangeWrite, NoFault
<1>3. LockInv'
  BY DEF ExchangeWrite, LockInv, Holds
<1>4. CalmInv'
  BY DEF ExchangeWrite, CalmInv, RegistryInv, Colliding, PhaseInv, HolderInv, Shared
<1>5. RegistryInv'
  BY DEF ExchangeWrite, RegistryInv, Colliding, PhaseInv
<1>6. PhaseInv'
  BY DEF ExchangeWrite, AllocatorTypeOK, RegistryInv, Colliding, PhaseInv, HolderInv
<1>7. HolderInv'
  BY DEF ExchangeWrite, HolderInv, HasPtr
<1>8. TableInv'
  BY DEF ExchangeWrite, AllocatorTypeOK, RegistryInv, Colliding, PhaseInv, HolderInv, TableInv
<1>9. OriginInv'
  BY DEF ExchangeWrite, OriginInv, HasPtr
<1>10. QED
  BY <1>1, <1>2, <1>3, <1>4, <1>5, <1>6, <1>7, <1>8, <1>9

(* ht_destroy frees the table that exchange returned. *)
LEMMA DestroyInductive ==
  ASSUME AllocatorInv, NEW t \in Threads, Destroy(t)
  PROVE  AllocatorInv'
<1>a. Usable(table[t])
  BY DEF Destroy, Usable, PhaseInv
<1>b. /\ At(t, "destroy")
      /\ ptr' = [ptr EXCEPT ![t] = table[t]]
      /\ nest' = [nest EXCEPT ![t] = @ + 1]
      /\ Goto(t, "enter")
      /\ UNCHANGED <<state, lock, kind, table, callers, fault>>
  BY <1>a DEF Destroy, Die
<1>1. AllocatorTypeOK'
  BY <1>a, <1>b DEF AllocatorTypeOK, PhaseInv, Labels
<1>2. NoFault'
  BY <1>a, <1>b DEF NoFault
<1>3. LockInv'
  BY <1>a, <1>b DEF LockInv, Holds
<1>4. CalmInv'
  BY <1>a, <1>b DEF CalmInv, PhaseInv, Shared
<1>5. RegistryInv'
  BY <1>a, <1>b DEF AllocatorTypeOK, RegistryInv, Colliding
<1>6. PhaseInv'
  BY <1>a, <1>b DEF AllocatorTypeOK, PhaseInv
<1>7. HolderInv'
  BY <1>a, <1>b DEF AllocatorTypeOK, RegistryInv, Colliding, PhaseInv, HolderInv
<1>8. TableInv'
  BY <1>a, <1>b DEF AllocatorTypeOK, PhaseInv, TableInv
<1>9. OriginInv'
  BY <1>a, <1>b DEF AllocatorTypeOK, PhaseInv, OriginInv, HasPtr
<1>10. QED
  BY <1>1, <1>2, <1>3, <1>4, <1>5, <1>6, <1>7, <1>8, <1>9

(* fb_free's last unlock. *)
LEMMA LeaveInductive ==
  ASSUME AllocatorInv, NEW t \in Threads, Leave(t)
  PROVE  AllocatorInv'
<1>1. AllocatorTypeOK'
  BY DEF Leave, AllocatorTypeOK, LockInv, Unlock, Holds, Labels
<1>2. NoFault'
  BY DEF Leave, NoFault
<1>3. LockInv'
  BY DEF Leave, AllocatorTypeOK, LockInv, Unlock, Holds
<1>4. CalmInv'
  BY DEF Leave, AllocatorTypeOK, CalmInv, Shared, Calm
<1>5. RegistryInv'
  BY DEF Leave, AllocatorTypeOK, RegistryInv, Colliding
<1>6. PhaseInv'
  BY DEF Leave, AllocatorTypeOK, PhaseInv
<1>7. HolderInv'
  BY DEF Leave, AllocatorTypeOK, HolderInv, HasPtr
<1>8. TableInv'
  BY DEF Leave, AllocatorTypeOK, TableInv
<1>9. OriginInv'
  BY DEF Leave, AllocatorTypeOK, OriginInv, HasPtr
<1>10. QED
  BY <1>1, <1>2, <1>3, <1>4, <1>5, <1>6, <1>7, <1>8, <1>9

(* fb_free locks again after it destroyed the table. *)
LEMMA RelockInductive ==
  ASSUME AllocatorInv, NEW t \in Threads, Relock(t)
  PROVE  AllocatorInv'
<1>1. AllocatorTypeOK'
  BY DEF Relock, AllocatorTypeOK, Lock, Labels
<1>2. NoFault'
  BY DEF Relock, NoFault
<1>3. LockInv'
  BY DEF Relock, AllocatorTypeOK, LockInv, CalmInv, RegistryInv, Colliding, PhaseInv, HolderInv, Lock, Holds
<1>4. CalmInv'
  BY DEF Relock, CalmInv, PhaseInv, Shared
<1>5. RegistryInv'
  BY DEF Relock, RegistryInv, Colliding
<1>6. PhaseInv'
  BY DEF Relock, PhaseInv
<1>7. HolderInv'
  BY DEF Relock, HolderInv, HasPtr
<1>8. TableInv'
  BY DEF Relock, TableInv
<1>9. OriginInv'
  BY DEF Relock, OriginInv, HasPtr
<1>10. QED
  BY <1>1, <1>2, <1>3, <1>4, <1>5, <1>6, <1>7, <1>8, <1>9

(* A call of fb_malloc starts by a thread that is free to call. *)
LEMMA CallMallocInductive ==
  ASSUME AllocatorInv, NEW t \in Threads, NEW k \in {"large", "small"}, CallMalloc(t, k)
  PROVE  AllocatorInv'
<1>1. AllocatorTypeOK'
  BY DEF CallMalloc, AllocatorTypeOK, Labels
<1>2. NoFault'
  BY DEF CallMalloc, NoFault
<1>3. LockInv'
  BY DEF CallMalloc, LockInv, PhaseInv, Holds
<1>4. CalmInv'
  BY DEF CallMalloc, CalmInv, Shared, Calm
<1>5. RegistryInv'
  BY DEF CallMalloc, RegistryInv, Colliding
<1>6. PhaseInv'
  BY DEF CallMalloc, PhaseInv
<1>7. HolderInv'
  BY DEF CallMalloc, HolderInv, HasPtr
<1>8. TableInv'
  BY DEF CallMalloc, TableInv
<1>9. OriginInv'
  BY DEF CallMalloc, OriginInv, HasPtr
<1>10. QED
  BY <1>1, <1>2, <1>3, <1>4, <1>5, <1>6, <1>7, <1>8, <1>9

(* A call of fb_free starts with a block its caller holds, or a null pointer. *)
LEMMA CallFreeInductive ==
  ASSUME AllocatorInv, NEW t \in Threads, NEW b \in Blocks \cup {Null}, CallFree(t, b)
  PROVE  AllocatorInv'
<1>1. AllocatorTypeOK'
  BY DEF CallFree, AllocatorTypeOK, Labels
<1>2. NoFault'
  BY DEF CallFree, NoFault
<1>3. LockInv'
  BY DEF CallFree, LockInv, Holds
<1>4. CalmInv'
  BY DEF CallFree, CalmInv, Shared, Calm
<1>5. RegistryInv'
  BY DEF CallFree, RegistryInv, Colliding
<1>6. PhaseInv'
  BY DEF CallFree, AllocatorTypeOK, PhaseInv
<1>7. HolderInv'
  BY DEF CallFree, AllocatorTypeOK, HolderInv, HasPtr
<1>8. TableInv'
  BY DEF CallFree, TableInv
<1>9. OriginInv'
  BY DEF CallFree, AllocatorTypeOK, OriginInv, HasPtr
<1>10. QED
  BY <1>1, <1>2, <1>3, <1>4, <1>5, <1>6, <1>7, <1>8, <1>9

(* userfs_create hands a large block to a new loop as its buffer. *)
LEMMA SpawnInductive ==
  ASSUME AllocatorInv, NEW l \in Loops, Spawn(l)
  PROVE  AllocatorInv'
<1>1. AllocatorTypeOK'
  BY DEF Spawn, AllocatorTypeOK
<1>2. NoFault'
  BY DEF Spawn, NoFault
<1>3. LockInv'
  BY DEF Spawn, LockInv, Holds
<1>4. CalmInv'
  BY DEF Spawn, AllocatorTypeOK, CalmInv, RegistryInv, Colliding, HolderInv, Shared, Calm
<1>5. RegistryInv'
  BY DEF Spawn, RegistryInv, Colliding
<1>6. PhaseInv'
  BY DEF Spawn, CalmInv, PhaseInv
<1>7. HolderInv'
  BY DEF Spawn, AllocatorTypeOK, CalmInv, HolderInv, HasPtr
<1>8. TableInv'
  BY DEF Spawn, TableInv
<1>9. OriginInv'
  BY DEF Spawn, AllocatorTypeOK, CalmInv, OriginInv, HasPtr
<1>10. QED
  BY <1>1, <1>2, <1>3, <1>4, <1>5, <1>6, <1>7, <1>8, <1>9

(* userfs_destroy joins a loop and takes its buffer back. *)
LEMMA JoinInductive ==
  ASSUME AllocatorInv, NEW l \in Loops, Join(l)
  PROVE  AllocatorInv'
<1>1. AllocatorTypeOK'
  BY DEF Join, AllocatorTypeOK, HolderInv
<1>2. NoFault'
  BY DEF Join, NoFault
<1>3. LockInv'
  BY DEF Join, LockInv, Holds
<1>4. CalmInv'
  BY DEF Join, CalmInv, Shared
<1>5. RegistryInv'
  BY DEF Join, RegistryInv, Colliding
<1>6. PhaseInv'
  BY DEF Join, PhaseInv
<1>7. HolderInv'
  BY DEF Join, HolderInv, HasPtr
<1>8. TableInv'
  BY DEF Join, TableInv
<1>9. OriginInv'
  BY DEF Join, OriginInv, HasPtr
<1>10. QED
  BY <1>1, <1>2, <1>3, <1>4, <1>5, <1>6, <1>7, <1>8, <1>9

(* AllocatorInit satisfies every part of the invariant. *)
LEMMA InitEstablishes == AllocatorInit => AllocatorInv
  BY DEF AllocatorInit, AllocatorTypeOK, NoFault, LockInv, CalmInv, RegistryInv, Colliding, PhaseInv, HolderInv,
         OriginInv, TableInv, Shared, Holds, HasPtr, Labels

(* AllocatorInv is inductive: every action keeps it, whoever takes it. *)
LEMMA NextInductive == AllocatorInv /\ [AllocatorNext]_allocatorVars => AllocatorInv'
<1> SUFFICES ASSUME AllocatorInv, [AllocatorNext]_allocatorVars PROVE AllocatorInv'
  OBVIOUS
<1>1. ASSUME NEW t \in Threads, Step(t) PROVE AllocatorInv'
  BY <1>1, TestInductive, ClaimInductive, TryLockInductive, MakeTableInductive,
     PublishInductive, ReleaseInductive, SmallBlockInductive, LargeBlockInductive,
     LockToMapInductive, MapInductive, GrowBucketInductive, ShedBucketInductive, UnlockMappedInductive, EnterInductive,
     LookupInductive, EmptyCheckInductive, ExchangeReadInductive, ExchangeWriteInductive,
     DestroyInductive, LeaveInductive, RelockInductive
     DEF Step
<1>2. ASSUME NEW t \in Threads, NEW k \in {"large", "small"}, CallMalloc(t, k) PROVE AllocatorInv'
  BY <1>2, CallMallocInductive
<1>3. ASSUME NEW t \in Threads, NEW b \in Blocks \cup {Null}, CallFree(t, b) PROVE AllocatorInv'
  BY <1>3, CallFreeInductive
<1>4. ASSUME NEW l \in Loops, Spawn(l) \/ Join(l) PROVE AllocatorInv'
  BY <1>4, SpawnInductive, JoinInductive
<1>5. CASE UNCHANGED allocatorVars
  BY <1>5 DEF allocatorVars, AllocatorTypeOK, NoFault, LockInv, CalmInv, RegistryInv, Colliding, PhaseInv, HolderInv,
         OriginInv, TableInv, Usable, Shared, Holds, HasPtr
<1>6. QED
  BY <1>1, <1>2, <1>3, <1>4, <1>5 DEF AllocatorNext

(* The allocator's inductive invariant holds in every reachable state. *)
THEOREM AllocatorInvariant == AllocatorSpec => []AllocatorInv
  BY InitEstablishes, NextInductive, PTL DEF AllocatorSpec

(* Every variable keeps its type, for any number of threads and addresses. *)
THEOREM TypeCorrect == AllocatorSpec => []AllocatorTypeOK
<1>1. AllocatorInv => AllocatorTypeOK
  OBVIOUS
<1>2. QED
  BY <1>1, AllocatorInvariant, PTL

(* fb_malloc and fb_free never use a wild table and never reach the assert with a *)
(* foreign block, however many FUSE loops call them.                              *)
THEOREM AllocatorNeverFaults == AllocatorSpec => []NoFault
<1>1. AllocatorInv => NoFault
  OBVIOUS
<1>2. QED
  BY <1>1, AllocatorInvariant, PTL

(* Outside the mutex the registry lists exactly the mapped blocks. *)
THEOREM RegistryIsExact == AllocatorSpec => []RegistryExact
<1>1. AllocatorInv => RegistryExact
  <2>1. ASSUME AllocatorInv, owner = Null, NEW t \in running  PROVE ~Colliding(t)
    <3>1. t \in Threads /\ t # owner
      BY <2>1 DEF AllocatorTypeOK
    <3>2. ~Holds(t)
      BY <2>1, <3>1 DEF LockInv
    <3>3. QED
      BY <3>2 DEF Holds, Colliding
  <2>2. ASSUME AllocatorInv, owner = Null
        PROVE  mapped = IF ht_mm \in Tables THEN entries[ht_mm] ELSE {}
    BY <2>1, <2>2 DEF RegistryInv
  <2>3. QED
    BY <2>2 DEF RegistryExact
<1>2. QED
  BY <1>1, AllocatorInvariant, PTL

(* Every block a caller or a running userfs holds is backed by memory. *)
THEOREM HeldBlocksAreBacked == AllocatorSpec => []HeldIsBacked
<1>1. AllocatorInv => HeldIsBacked
  <2>1. ASSUME AllocatorInv, NEW l \in running \ {Main} PROVE buffer[l] \in mapped
    BY <2>1 DEF HolderInv, AllocatorTypeOK
  <2>2. QED
    BY <2>1 DEF HolderInv, HeldIsBacked
<1>2. QED
  BY <1>1, AllocatorInvariant, PTL

(* No table is left behind. *)
THEOREM TablesAreNotLost == AllocatorSpec => []NoTableLost
<1>1. AllocatorInv => NoTableLost
  BY DEF TableInv, NoTableLost, CalmInv
<1>2. QED
  BY <1>1, AllocatorInvariant, PTL

(* While a FUSE loop runs, no step of any thread changes ht_mm. *)
THEOREM TableStays == AllocatorSpec => TableStaysWhileShared
<1>1. AllocatorInv /\ [AllocatorNext]_allocatorVars => [running \cap Loops # {} => UNCHANGED ht_mm]_allocatorVars
  <2> SUFFICES ASSUME AllocatorInv, AllocatorNext, running \cap Loops # {}
               PROVE  UNCHANGED ht_mm
    OBVIOUS
  <2>1. \A t \in Threads : pc[t] \in Calm
    BY DEF CalmInv, Shared
  <2>2. ASSUME NEW t \in Threads, Step(t) PROVE UNCHANGED ht_mm
    BY <2>1, <2>2 DEF Step, Calm, Die, Test, Claim, TryLock, MakeTable, Publish, Release,
       SmallBlock, LargeBlock, LockToMap, Map, GrowBucket, ShedBucket, UnlockMapped, Enter, Lookup, EmptyCheck,
       ExchangeRead, ExchangeWrite, Destroy, Leave, Relock
  <2>3. QED
    BY <2>2 DEF AllocatorNext, CallMalloc, CallFree, Spawn, Join
<1>2. QED
  BY <1>1, AllocatorInvariant, PTL DEF AllocatorSpec, TableStaysWhileShared

==============================================================================
