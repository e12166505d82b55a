----------------------------- MODULE Allocator -----------------------------
(***************************************************************************)
(* The allocator of src/src/core/util.c: fb_malloc and fb_free, the table  *)
(* ht_mm of mapped blocks they keep, and the recursive mutex ht_mutex.     *)
(*                                                                         *)
(* A block of at least malloc_threshold bytes is mapped and registered in  *)
(* ht_mm; a smaller one comes from the heap.  fb_free asks ht_mm which of  *)
(* the two a pointer is.  The table is created by the first fb_malloc that *)
(* finds none and destroyed by the fb_free that empties it, and both of    *)
(* those steps touch ht_mm without the mutex.                              *)
(*                                                                         *)
(* The threads are the main one and the FUSE loops of userfs.c: a loop is  *)
(* started after its userfs has allocated a buffer of exactly              *)
(* malloc_threshold bytes and joined before that buffer is freed.  A loop  *)
(* reads into that buffer; what it allocates itself are the paths of walk, *)
(* all of them small.                                                      *)
(*                                                                         *)
(* The table is a set of registered blocks here: how it hashes them is the *)
(* subject of HashTable, so any insertion into a table that is not empty   *)
(* may collide and grow it.  The heap blocks a table consists of are two:  *)
(* the ht_t, an address, and the bucket, of which the model keeps whose    *)
(* heap it comes from; both are allocated and freed through fb_malloc and  *)
(* fb_free.  A bucket is smaller than malloc_threshold.                    *)
(***************************************************************************)
EXTENDS Naturals, FiniteSets

CONSTANTS
  Main,     \* the thread that runs main()
  Loops,    \* the FUSE threads, one per mounted userfs
  Large,    \* addresses mmap may return
  Small,    \* addresses malloc may return for a caller's block
  Tables,   \* addresses malloc may return for a table
  Null,     \* nullptr
  One       \* (void*)1, the mark of a table under construction

ASSUME AddressAssumption ==
  /\ Main \notin Loops
  /\ Null \notin {Main} \cup Loops
  /\ Large \cap Small = {} /\ Large \cap Tables = {} /\ Small \cap Tables = {}
  /\ {Null, One} \cap (Large \cup Small \cup Tables) = {}
  /\ Null # One

Threads == {Main} \cup Loops
Blocks  == Large \cup Small

VARIABLES
  ht_mm,    \* Null, One or the address of a table
  entries,  \* the blocks registered in each table
  buckets,  \* the threads whose heaps the bucket of each table comes from
  mapped,   \* blocks mapped and not yet unmapped
  heap,     \* addresses malloc handed out and free has not taken back
  origin,   \* the thread each of them was handed to: the heap it belongs to
  owner,    \* the thread that holds ht_mutex, or Null
  depth,    \* how often the owner has locked it
  pc,       \* the next step of each thread's call; "idle" between calls
  kind,     \* what an fb_malloc was asked for: "large" or "small"
  ptr,      \* the block an fb_free was given, or an fb_malloc obtained
  table,    \* the table a thread is about to publish or destroy
  nest,     \* calls of this thread that wait for a call they made themselves
  live,     \* blocks callers hold
  running,  \* threads that exist
  buffer,   \* the buffer of each running loop's userfs
  fault     \* "none", or how the process died

state == <<ht_mm, entries, buckets, mapped, heap, origin>>
lock == <<owner, depth>>
locals == <<pc, kind, ptr, table, nest>>
callers == <<live, running, buffer>>
allocatorVars == <<state, lock, locals, callers, fault>>

Labels == { "idle", "test", "claim", "try", "size", "publish", "release", "lock",
            "map", "grow", "shed", "unlock", "enter", "lookup", "empty", "old", "clear", "destroy",
            "leave", "relock" }

AllocatorInit ==
  /\ ht_mm = Null
  /\ entries = [t \in Tables |-> {}]
  /\ buckets = [t \in Tables |-> {}]
  /\ mapped = {} /\ heap = {} /\ live = {}
  /\ origin = [a \in Small \cup Tables |-> Null]
  /\ owner = Null /\ depth = 0
  /\ pc    = [t \in Threads |-> "idle"]
  /\ kind  = [t \in Threads |-> "small"]
  /\ ptr   = [t \in Threads |-> Null]
  /\ table = [t \in Threads |-> Null]
  /\ nest  = [t \in Threads |-> 0]
  /\ running = {Main}
  /\ buffer  = [l \in Loops |-> Null]
  /\ fault = "none"

----------------------------------------------------------------------------
(* Helpers *)

At(t, l) == fault = "none" /\ t \in running /\ pc[t] = l
Goto(t, l) == pc' = [pc EXCEPT ![t] = l]

\* A pointer is a table the code may use if malloc handed it out and free has
\* not taken it back.
Usable(p) == p \in Tables \cap heap

\* Dereferencing anything else ends the process.
Die(why) ==
  /\ fault' = why
  /\ UNCHANGED <<state, lock, locals, callers>>

CanLock(t) == owner \in {Null, t}
Lock(t) == owner' = t /\ depth' = depth + 1
Unlock(t) ==
  /\ depth' = depth - 1
  /\ owner' = IF depth = 1 THEN Null ELSE owner

----------------------------------------------------------------------------
(* fb_malloc *)

\* ht_find, which every lookup and insertion calls, sizes the bucket of an empty table:
\* its slots come from the heap of the thread that gets there.
Sized(t) ==
  IF ht_mm \in Tables /\ entries[ht_mm] = {} THEN [buckets EXCEPT ![ht_mm] = @ \cup {t}]
                                             ELSE buckets

\* Room bounds the model: no call starts when the addresses are used up.
Asking(k) == { t \in running : pc[t] \in {"test", "claim", "try", "size", "publish",
                                         "release", "lock", "map"} /\ kind[t] = k }
Room(k) ==
  IF k = "large" THEN Cardinality(Asking(k)) < Cardinality(Large \ mapped)
                 ELSE Cardinality(Asking(k)) < Cardinality(Small \ heap)

\* Mutant: a FUSE loop asks for a large block, a buffer of its own for instance.
LoopMallocs(t, k) ==
  /\ At(t, "idle") /\ Room(k)
  /\ kind' = [kind EXCEPT ![t] = k]
  /\ Goto(t, "test")
  /\ UNCHANGED <<state, lock, ptr, table, nest, callers, fault>>

CallMalloc(t, k) ==
  /\ At(t, "idle") /\ Room(k)
  /\ t \in Loops => k = "small"
  /\ kind' = [kind EXCEPT ![t] = k]
  /\ Goto(t, "test")
  /\ UNCHANGED <<state, lock, ptr, table, nest, callers, fault>>

\* if (unlikely(!ht_mm)): read without the mutex
Test(t) ==
  /\ At(t, "test")
  /\ Goto(t, IF ht_mm = Null THEN "claim" ELSE "size")
  /\ UNCHANGED <<state, lock, kind, ptr, table, nest, callers, fault>>

\* ht_mm = (void*)1
Claim(t) ==
  /\ At(t, "claim")
  /\ ht_mm' = One
  /\ Goto(t, "try")
  /\ UNCHANGED <<entries, buckets, mapped, heap, origin, lock, kind, ptr, table, nest, callers, fault>>

\* pthread_mutex_trylock, then ht_create, whose own fb_malloc starts over
TryLock(t) ==
  /\ At(t, "try")
  /\ \/ /\ CanLock(t)
        /\ Lock(t)
        /\ nest' = [nest EXCEPT ![t] = @ + 1]
        /\ Goto(t, "test")
     \/ /\ ~CanLock(t)
        /\ Goto(t, "size")
        /\ UNCHANGED <<lock, nest>>
  /\ UNCHANGED <<state, kind, ptr, table, callers, fault>>

\* The fb_malloc of ht_create returns the memory of the new, empty table.
MakeTable(t) ==
  /\ At(t, "size") /\ nest[t] > 0
  /\ \E m \in Tables \ heap :
       /\ heap' = heap \cup {m}
       /\ origin' = [origin EXCEPT ![m] = t]
       /\ entries' = [entries EXCEPT ![m] = {}]
       /\ buckets' = [buckets EXCEPT ![m] = {t}]
       /\ table' = [table EXCEPT ![t] = m]
  /\ nest' = [nest EXCEPT ![t] = @ - 1]
  /\ Goto(t, "publish")
  /\ UNCHANGED <<ht_mm, mapped, lock, kind, ptr, callers, fault>>

\* ht_mm = ht_create(...)
Publish(t) ==
  /\ At(t, "publish")
  /\ ht_mm' = table[t]
  /\ Goto(t, "release")
  /\ UNCHANGED <<entries, buckets, mapped, heap, origin, lock, kind, ptr, table, nest, callers, fault>>

\* Mutant: the unlock after ht_create is forgotten.
ReleaseForgotten(t) ==
  /\ At(t, "release")
  /\ Goto(t, "size")
  /\ UNCHANGED <<state, lock, kind, ptr, table, nest, callers, fault>>

Release(t) ==
  /\ At(t, "release")
  /\ Unlock(t)
  /\ Goto(t, "size")
  /\ UNCHANGED <<state, kind, ptr, table, nest, callers, fault>>

\* Below the threshold: malloc, zero, return.
SmallBlock(t) ==
  /\ At(t, "size") /\ nest[t] = 0 /\ kind[t] = "small"
  /\ \E b \in Small \ heap :
       /\ heap' = heap \cup {b}
       /\ origin' = [origin EXCEPT ![b] = t]
       /\ live' = live \cup {b}
  /\ Goto(t, "idle")
  /\ UNCHANGED <<ht_mm, entries, buckets, mapped, lock, kind, ptr, table, nest, running, buffer,
                 fault>>

LargeBlock(t) ==
  /\ At(t, "size") /\ nest[t] = 0 /\ kind[t] = "large"
  /\ Goto(t, "lock")
  /\ UNCHANGED <<state, lock, kind, ptr, table, nest, callers, fault>>

LockToMap(t) ==
  /\ At(t, "lock") /\ CanLock(t)
  /\ Lock(t)
  /\ Goto(t, "map")
  /\ UNCHANGED <<state, kind, ptr, table, nest, callers, fault>>

\* mmap, and ht_insert(ht_mm, ...): the block's slot is free, or taken by another one.
Map(t) ==
  /\ At(t, "map")
  /\ \/ /\ Usable(ht_mm)
        /\ buckets' = Sized(t)
        /\ \E b \in Large \ mapped :
             /\ mapped' = mapped \cup {b}
             /\ ptr' = [ptr EXCEPT ![t] = b]
             /\ \/ /\ entries' = [entries EXCEPT ![ht_mm] = @ \cup {b}]
                   /\ Goto(t, "unlock")
                \/ /\ entries[ht_mm] # {}
                   /\ Goto(t, "grow")
                   /\ UNCHANGED entries
        /\ UNCHANGED <<ht_mm, heap, origin, lock, kind, table, nest, callers, fault>>
     \/ /\ ~Usable(ht_mm)
        /\ Die("wild table")

\* ht_grow has moved the entries to a bucket of this thread's; vector_destroy gives the
\* old one to fb_free, which locks the mutex its thread holds already.
GrowBucket(t) ==
  /\ At(t, "grow") /\ CanLock(t)
  /\ Lock(t)
  /\ Goto(t, "shed")
  /\ UNCHANGED <<state, kind, ptr, table, nest, callers, fault>>

\* The nested fb_free asserts that the old bucket is of this thread's heap; the table is
\* not empty, so it does no more than free it.  Then the block is inserted; the buckets
\* of a growth nested in this one, or of another after it, are this thread's own.
ShedBucket(t) ==
  /\ At(t, "shed")
  /\ \/ /\ Usable(ht_mm) /\ buckets[ht_mm] \subseteq {t}
        /\ buckets' = [buckets EXCEPT ![ht_mm] = {t}]
        /\ entries' = [entries EXCEPT ![ht_mm] = @ \cup {ptr[t]}]
        /\ Unlock(t)
        /\ Goto(t, "unlock")
        /\ UNCHANGED <<ht_mm, mapped, heap, origin, kind, ptr, table, nest, callers, fault>>
     \/ /\ Usable(ht_mm) /\ ~(buckets[ht_mm] \subseteq {t})
        /\ Die("not owned")
     \/ /\ ~Usable(ht_mm)
        /\ Die("wild table")

UnlockMapped(t) ==
  /\ At(t, "unlock")
  /\ Unlock(t)
  /\ live' = live \cup {ptr[t]}
  /\ Goto(t, "idle")
  /\ UNCHANGED <<state, kind, ptr, table, nest, running, buffer, fault>>

----------------------------------------------------------------------------
(* fb_free *)

\* fb_free(nullptr) is legal and does everything but the free.  A caller frees a heap
\* block on the thread that allocated it: the walk of userfs.c its own paths, which are
\* all a loop frees, the main thread everything else.
CallFree(t, b) ==
  /\ At(t, "idle") /\ b \in live \cup {Null}
  /\ b \in Small => origin[b] = t
  /\ t \in Loops => b \in Small
  /\ ptr' = [ptr EXCEPT ![t] = b]
  /\ live' = live \ {b}
  /\ Goto(t, "enter")
  /\ UNCHANGED <<state, lock, kind, table, nest, running, buffer, fault>>

Enter(t) ==
  /\ At(t, "enter") /\ CanLock(t)
  /\ Lock(t)
  /\ Goto(t, "lookup")
  /\ UNCHANGED <<state, kind, ptr, table, nest, callers, fault>>

Registered(b) == ht_mm # Null /\ b \in entries[ht_mm]

\* Mutant: ht_erase is forgotten.
LookupWithoutErase(t) ==
  /\ At(t, "lookup") /\ (ht_mm = Null \/ Usable(ht_mm))
  /\ IF Registered(ptr[t]) THEN mapped' = mapped \ {ptr[t]} /\ UNCHANGED heap
                            ELSE heap' = heap \ {ptr[t]} /\ UNCHANGED mapped
  /\ Goto(t, "empty")
  /\ UNCHANGED <<ht_mm, entries, buckets, origin, lock, kind, ptr, table, nest, callers, fault>>

\* free takes a block only from its own thread's heap: mi_check_owned asserts it.  A
\* table goes with its bucket.
Owned(t, a) ==
  /\ a \in heap /\ origin[a] = t
  /\ a \in Tables => buckets[a] \subseteq {t}

\* size = ht_mm ? ht_get(ht_mm, ptr) : 0, and what follows from it
Lookup(t) ==
  /\ At(t, "lookup")
  /\ \/ /\ ht_mm # Null /\ ~Usable(ht_mm)
        /\ Die("wild table")
     \/ /\ ht_mm = Null \/ Usable(ht_mm)
        /\ buckets' = Sized(t)
        /\ \/ /\ Registered(ptr[t])
              /\ mapped' = mapped \ {ptr[t]}
              /\ entries' = [entries EXCEPT ![ht_mm] = @ \ {ptr[t]}]
              /\ Goto(t, "empty")
              /\ UNCHANGED <<ht_mm, heap, origin, lock, kind, ptr, table, nest, callers, fault>>
           \/ /\ ~Registered(ptr[t]) /\ Owned(t, ptr[t])
              /\ heap' = heap \ {ptr[t]}
              /\ origin' = [origin EXCEPT ![ptr[t]] = Null]
              /\ Goto(t, "empty")
              /\ UNCHANGED <<ht_mm, entries, mapped, lock, kind, ptr, table, nest, callers, fault>>
           \/ /\ ptr[t] = Null
              /\ Goto(t, "empty")
              /\ UNCHANGED <<ht_mm, entries, mapped, heap, origin, lock, kind, ptr, table, nest,
                             callers, fault>>
     \/ /\ ht_mm = Null \/ Usable(ht_mm)
        /\ ~Registered(ptr[t]) /\ ptr[t] # Null /\ ~Owned(t, ptr[t])
        /\ Die("not owned")

\* Mutant: the table is destroyed although blocks are registered in it.
DestroyAlways(t) ==
  /\ At(t, "empty")
  /\ IF ht_mm = Null THEN Goto(t, "leave") /\ UNCHANGED lock
                     ELSE Goto(t, "old") /\ Unlock(t)
  /\ UNCHANGED <<state, kind, ptr, table, nest, callers, fault>>

\* if (ht_mm && !ht_size(ht_mm)): the mutex is given up before the exchange
EmptyCheck(t) ==
  /\ At(t, "empty")
  /\ \/ /\ ht_mm = Null \/ (Usable(ht_mm) /\ entries[ht_mm] # {})
        /\ Goto(t, "leave")
        /\ UNCHANGED <<state, lock, kind, ptr, table, nest, callers, fault>>
     \/ /\ Usable(ht_mm) /\ entries[ht_mm] = {}
        /\ Unlock(t)
        /\ Goto(t, "old")
        /\ UNCHANGED <<state, kind, ptr, table, nest, callers, fault>>
     \/ /\ ht_mm # Null /\ ~Usable(ht_mm)
        /\ Die("wild table")

\* exchange: read the old value, then write nullptr
ExchangeRead(t) ==
  /\ At(t, "old")
  /\ table' = [table EXCEPT ![t] = ht_mm]
  /\ Goto(t, "clear")
  /\ UNCHANGED <<state, lock, kind, ptr, nest, callers, fault>>

ExchangeWrite(t) ==
  /\ At(t, "clear")
  /\ ht_mm' = Null
  /\ Goto(t, "destroy")
  /\ UNCHANGED <<entries, buckets, mapped, heap, origin, lock, kind, ptr, table, nest, callers, fault>>

\* Mutant: the exchanged table is not destroyed.
DestroyForgotten(t) ==
  /\ At(t, "destroy")
  /\ Goto(t, "relock")
  /\ UNCHANGED <<state, lock, kind, ptr, table, nest, callers, fault>>

\* ht_destroy frees the table through fb_free, within the outer fb_free
Destroy(t) ==
  /\ At(t, "destroy")
  /\ \/ /\ Usable(table[t])
        /\ ptr' = [ptr EXCEPT ![t] = table[t]]
        /\ nest' = [nest EXCEPT ![t] = @ + 1]
        /\ Goto(t, "enter")
        /\ UNCHANGED <<state, lock, kind, table, callers, fault>>
     \/ /\ ~Usable(table[t])
        /\ Die("wild table")

\* The last unlock: back to the caller, or to the fb_free that called ht_destroy
Leave(t) ==
  /\ At(t, "leave")
  /\ Unlock(t)
  /\ \/ /\ nest[t] > 0
        /\ nest' = [nest EXCEPT ![t] = @ - 1]
        /\ Goto(t, "relock")
     \/ /\ nest[t] = 0
        /\ Goto(t, "idle")
        /\ UNCHANGED nest
  /\ UNCHANGED <<state, kind, ptr, table, callers, fault>>

\* Mutant: the mutex is not taken again after ht_destroy.
RelockForgotten(t) ==
  /\ At(t, "relock")
  /\ Goto(t, "leave")
  /\ UNCHANGED <<state, lock, kind, ptr, table, nest, callers, fault>>

Relock(t) ==
  /\ At(t, "relock") /\ CanLock(t)
  /\ Lock(t)
  /\ Goto(t, "leave")
  /\ UNCHANGED <<state, kind, ptr, table, nest, callers, fault>>

----------------------------------------------------------------------------
(* userfs_create and userfs_destroy, as far as threads and buffers go *)

\* The buffer exists before pthread_create.
Spawn(l) ==
  /\ At(Main, "idle") /\ l \notin running
  /\ \E b \in live \cap Large :
       /\ buffer' = [buffer EXCEPT ![l] = b]
       /\ live' = live \ {b}
  /\ running' = running \cup {l}
  /\ UNCHANGED <<state, lock, locals, fault>>

\* Mutant: the buffer goes before the loop has ended.
JoinTooLate(l) ==
  /\ At(Main, "idle") /\ l \in running /\ buffer[l] \in mapped \ live
  /\ live' = live \cup {buffer[l]}
  /\ UNCHANGED <<state, lock, locals, running, buffer, fault>>

\* pthread_join waits for the loop to end; only then may the buffer be freed.
Join(l) ==
  /\ At(Main, "idle") /\ At(l, "idle")
  /\ running' = running \ {l}
  /\ live' = live \cup {buffer[l]}
  /\ buffer' = [buffer EXCEPT ![l] = Null]
  /\ UNCHANGED <<state, lock, locals, fault>>

----------------------------------------------------------------------------
Step(t) ==
  \/ Test(t) \/ Claim(t) \/ TryLock(t) \/ MakeTable(t) \/ Publish(t) \/ Release(t)
  \/ SmallBlock(t) \/ LargeBlock(t) \/ LockToMap(t) \/ Map(t) \/ GrowBucket(t) \/ ShedBucket(t)
  \/ UnlockMapped(t)
  \/ Enter(t) \/ Lookup(t) \/ EmptyCheck(t) \/ ExchangeRead(t) \/ ExchangeWrite(t)
  \/ Destroy(t) \/ Leave(t) \/ Relock(t)

AllocatorNext ==
  \/ \E t \in Threads : Step(t)
  \/ \E t \in Threads, k \in {"large", "small"} : CallMalloc(t, k)
  \/ \E t \in Threads, b \in Blocks \cup {Null} : CallFree(t, b)
  \/ \E l \in Loops : Spawn(l) \/ Join(l)

\* A thread inside a call goes on; nothing makes it start one.
Fairness == \A t \in Threads : WF_allocatorVars(Step(t))

AllocatorSpec == AllocatorInit /\ [][AllocatorNext]_allocatorVars /\ Fairness

----------------------------------------------------------------------------
(* Properties *)

\* Every variable has its type: ht_mm is null, the mark or a table address.
AllocatorTypeOK ==
  /\ ht_mm \in Tables \cup {Null, One}
  /\ entries \in [Tables -> SUBSET Large]
  /\ buckets \in [Tables -> SUBSET Threads]
  /\ mapped \in SUBSET Large
  /\ heap \in SUBSET (Small \cup Tables)
  /\ origin \in [Small \cup Tables -> Threads \cup {Null}]
  /\ owner \in Threads \cup {Null} /\ depth \in Nat
  /\ pc \in [Threads -> Labels]
  /\ kind \in [Threads -> {"large", "small"}]
  /\ ptr \in [Threads -> Blocks \cup Tables \cup {Null}]
  /\ table \in [Threads -> Tables \cup {Null, One}]
  /\ nest \in [Threads -> Nat]
  /\ live \in SUBSET Blocks
  /\ running \in SUBSET Threads
  /\ buffer \in [Loops -> Large \cup {Null}]
  /\ fault \in {"none", "wild table", "not owned"}

\* The parts of the inductive invariant behind the safety properties.
Shared == running \cap Loops # {}
Holds(t) ==
  \/ pc[t] \in {"publish", "release", "map", "grow", "shed", "unlock", "lookup", "empty", "leave"}
  \/ nest[t] = 1 /\ pc[t] \in {"test", "size"}

\* The mutex is locked twice while a bucket is freed and never else, and its owner is
\* where the code holds it.
LockInv ==
  /\ owner = Null => depth = 0
  /\ owner # Null => depth = IF pc[owner] = "shed" THEN 2 ELSE 1
  /\ \A t \in Threads : owner = t <=> Holds(t)

\* While a loop runs, nobody creates or destroys the table.
Calm == {"idle", "test", "size", "lock", "map", "grow", "shed", "unlock", "enter", "lookup",
         "empty", "leave"}
CalmInv ==
  /\ Main \in running
  /\ \A t \in Threads \ running : pc[t] = "idle"
  /\ \A t \in Threads : pc[t] = "idle" => nest[t] = 0
  /\ Shared => /\ ht_mm \in Tables
               /\ \A t \in Threads : pc[t] \in Calm /\ nest[t] = 0

\* The registry is exact at every step, but for the block whose insertion collided.
Colliding(t) == pc[t] \in {"grow", "shed"}
RegistryInv ==
  /\ ht_mm \notin Tables => mapped = {}
  /\ ht_mm \in Tables => entries[ht_mm] \subseteq mapped
  /\ \A b \in mapped : b \in entries[ht_mm] \/ \E t \in running : Colliding(t) /\ ptr[t] = b
  /\ ht_mm \in Tables => ht_mm \in heap

\* What ht_mm and the local table are at each step of a thread that runs.
PhaseInv ==
  \A t \in running :
    /\ nest[t] \in {0, 1}
    /\ nest[t] = 1 => pc[t] \in {"test", "size", "enter", "lookup", "empty", "leave"}
    /\ pc[t] \in {"test", "size"} /\ nest[t] = 1 => ht_mm = One
    /\ pc[t] \in {"try", "publish"} => ht_mm = One
    /\ pc[t] = "size" /\ nest[t] = 0 => ht_mm \in Tables
    /\ pc[t] \in {"release", "lock", "map", "grow", "shed", "unlock", "old", "clear"} => ht_mm \in Tables
    /\ pc[t] \in {"idle", "test"} /\ nest[t] = 0 => ht_mm # One
    /\ pc[t] \in {"enter", "lookup", "empty", "leave"} /\ nest[t] = 0 => ht_mm # One
    /\ pc[t] \in {"enter", "lookup", "empty", "leave"} /\ nest[t] = 1 => ht_mm = Null
    /\ pc[t] \in {"claim", "destroy", "relock"} => ht_mm = Null
    /\ pc[t] \in {"grow", "shed"} => entries[ht_mm] # {}
    /\ pc[t] \in {"old", "clear"} => entries[ht_mm] = {}
    /\ pc[t] = "clear" => table[t] = ht_mm
    /\ pc[t] \in {"publish", "destroy"} => table[t] \in Tables \cap heap
    /\ pc[t] = "publish" => entries[table[t]] = {}
    /\ pc[t] \in {"enter", "lookup"} /\ nest[t] = 1 => ptr[t] \in Tables \cap heap
    /\ pc[t] \in {"enter", "lookup"} /\ nest[t] = 0 => ptr[t] \in Blocks \cup {Null}

\* A block has one holder: the callers, a call in progress, or a userfs.
HasPtr(t) == pc[t] \in {"grow", "shed", "unlock", "enter", "lookup"} /\ ptr[t] # Null
HolderInv ==
  /\ live \subseteq mapped \cup heap
  /\ \A t \in running : HasPtr(t) => ptr[t] \in (mapped \cup heap) \ live
  /\ \A t, u \in running : HasPtr(t) /\ HasPtr(u) /\ t # u => ptr[t] # ptr[u]
  /\ \A t \in running : pc[t] \in {"grow", "shed", "unlock"} => ptr[t] \in mapped
  /\ \A l \in running \cap Loops :
       /\ buffer[l] \in mapped \ live
       /\ \A t \in running : HasPtr(t) => ptr[t] # buffer[l]
       /\ \A m \in running \cap Loops : m # l => buffer[m] # buffer[l]

\* What a thread is about to free comes from its own heap: tables are made, grown and
\* freed by the main thread only, which alone asks for large blocks.
OriginInv ==
  /\ \A m \in heap \cap Tables : origin[m] = Main /\ buckets[m] \subseteq {Main}
  /\ \A t \in Loops :
       /\ kind[t] = "small"
       /\ pc[t] \notin {"lock", "map", "grow", "shed", "unlock"}
  /\ \A t \in running : HasPtr(t) /\ ptr[t] \in Small => origin[ptr[t]] = t

\* Every table in memory is published, about to be, or about to be freed.
TableInv ==
  \A m \in heap \cap Tables :
    \/ m = ht_mm
    \/ pc[Main] \in {"publish", "destroy"} /\ m = table[Main]
    \/ nest[Main] = 1 /\ pc[Main] \in {"enter", "lookup"} /\ m = ptr[Main]

\* No call of fb_malloc or fb_free ever dereferences (void*)1, a null or a freed
\* table, and fb_free never reaches the assert of util.c with a block its thread does
\* not own, although the table is created and destroyed outside the mutex.
NoFault == fault = "none"

\* The inductive invariant, proved in StorageProofs.
AllocatorInv ==
  /\ AllocatorTypeOK /\ NoFault
  /\ LockInv /\ CalmInv /\ RegistryInv /\ PhaseInv /\ HolderInv /\ OriginInv /\ TableInv

\* Whenever nobody is inside the mutex the table lists exactly the mapped blocks,
\* so the next fb_free tells a mapped block from a heap one; without a table
\* nothing is mapped.
RegistryExact ==
  owner = Null => mapped = IF ht_mm \in Tables THEN entries[ht_mm] ELSE {}

\* A block a caller holds, and the buffer of a running userfs, is still backed by
\* memory: no other thread's fb_free has given it back.
HeldIsBacked ==
  live \cup { buffer[l] : l \in running \ {Main} } \subseteq mapped \cup heap

\* Between calls the only table in memory is the published one: the creation and
\* destruction races never leave one behind.
NoTableLost ==
  (\A t \in Threads : pc[t] = "idle") => heap \cap Tables \subseteq {ht_mm}

\* Neither fb_malloc's creation nor fb_free's destruction of the table happens
\* while a FUSE loop runs: the loop's own buffer keeps the table from emptying.
TableStaysWhileShared == [][running \cap Loops # {} => UNCHANGED ht_mm]_allocatorVars

\* A thread that holds ht_mutex lets go of it, however often it locked it.
MutexReleased == \A t \in Threads : owner = t ~> owner # t
=============================================================================
