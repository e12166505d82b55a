------------------------------- MODULE Vector -------------------------------
(***************************************************************************)
(* The growable array of src/src/core/algo/vector.c.  With a type it holds *)
(* elements of that many bytes; with type 0 strings, one after the other,  *)
(* each ended by a zero.  size and capacity count bytes, the argument of   *)
(* vector_resize counts elements if there is a type, and the block behind  *)
(* data may be longer than capacity says.  fb_malloc gives zeroed memory,  *)
(* and no block for a length of zero.  The sum of a vector's sizes does not*)
(* reach the width of size_t.  No caller emplaces a null pointer or sets   *)
(* the size of a vector of strings.                                        *)
(***************************************************************************)
EXTENDS Naturals, Sequences, FiniteSetsExt

CONSTANTS
  Types,          \* the element sizes in use, 0 for strings
  Bytes,          \* the values of a byte
  Strings,        \* the strings
  Counts,         \* the element counts vector_create and vector_setsize are given
  MinForStrings,  \* minforstrings, PATH_MAX
  MaxPushes,      \* bound on the elements emplaced in one vector
  MaxSize         \* bound on the bytes in use after an emplacement

ASSUME TypeAssumption == Types \subseteq Nat /\ Counts \subseteq Nat
ASSUME ByteAssumption == 0 \in Bytes /\ Strings \subseteq Seq(Bytes \ {0})
ASSUME BoundAssumption == MinForStrings \in Nat \ {0} /\ MaxPushes \in Nat /\ MaxSize \in Nat

VARIABLES
  type,      \* the size of an element, 0 for strings
  size,      \* the bytes in use
  capacity,  \* the bytes the vector believes it may use
  alloc,     \* the length of the block, 0 for a null pointer
  data,      \* the block
  pushes     \* how many elements have been emplaced since vector_create

vars == <<type, size, capacity, alloc, data, pushes>>

Null == [i \in 1 .. 0 |-> 0]

\* The bytes vector_resize makes room for.
Wanted(count) ==
  IF type # 0 THEN count * type ELSE IF count = 0 THEN MinForStrings ELSE count

\* vector_realloc: a zeroed block of n bytes that starts with the bytes in use
Moved(n) == [i \in 1 .. n |-> IF i <= size THEN data[i] ELSE 0]

\* vector_resize: the block and capacity it leaves.  A block is never made smaller.
Resized(count) ==
  IF size < Wanted(count)
    THEN [capacity |-> Wanted(count), alloc |-> Wanted(count), data |-> Moved(Wanted(count))]
    ELSE [capacity |-> Wanted(count), alloc |-> alloc, data |-> data]

Unresized == [capacity |-> capacity, alloc |-> alloc, data |-> data]

Items == IF type = 0 THEN Strings ELSE [1 .. type -> Bytes]

\* The bytes an element takes, and the i-th of them.
RealSize(d) == IF type = 0 THEN Len(d) + 1 ELSE type
ByteOf(d, i) == IF type = 0 /\ i = RealSize(d) THEN 0 ELSE d[i]

\* Mutant: the new element is not counted.
RoomForOld(d) ==
  IF capacity = 0 \/ capacity < size THEN Resized(2 * capacity + RealSize(d)) ELSE Unresized

\* The block and capacity vector_emplace writes to: the capacity in bytes, doubled, is
\* passed on as a number of elements.
RoomFor(d) ==
  IF capacity = 0 \/ capacity < size + RealSize(d)
    THEN Resized(2 * capacity + RealSize(d)) ELSE Unresized

----------------------------------------------------------------------------
(* Operations *)

\* vector_create, with the number of elements to make room for
Init ==
  /\ type \in Types /\ size = 0 /\ pushes = 0
  /\ \E n \in Counts \cup {0} : capacity = n * type
  /\ alloc = capacity
  /\ data = [i \in 1 .. alloc |-> 0]

\* vector_emplace
Emplace(d) ==
  /\ size + RealSize(d) <= MaxSize /\ pushes < MaxPushes
  /\ LET room == RoomFor(d)
     IN  /\ data' = [i \in 1 .. room.alloc |->
                       IF i \in size + 1 .. size + RealSize(d) THEN ByteOf(d, i - size)
                       ELSE room.data[i]]
         /\ capacity' = room.capacity
         /\ alloc' = room.alloc
  /\ size' = size + RealSize(d)
  /\ pushes' = pushes + 1
  /\ UNCHANGED type

\* Mutant: a vector that has room is not resized.
SetSizeInRoom(n) ==
  /\ type # 0
  /\ LET room == IF n * type <= alloc THEN Unresized ELSE Resized(n)
     IN  /\ capacity' = room.capacity /\ alloc' = room.alloc /\ data' = room.data
         /\ size' = n * type
  /\ UNCHANGED <<type, pushes>>

\* vector_setsize
SetSize(n) ==
  /\ type # 0
  /\ LET room == Resized(n)
     IN  /\ capacity' = room.capacity /\ alloc' = room.alloc /\ data' = room.data
         /\ size' = IF room.capacity >= n THEN n * type ELSE size
  /\ UNCHANGED <<type, pushes>>

\* vector_clone, of a vector that has a block; what follows happens to the clone
Clone ==
  /\ data # Null
  /\ alloc' = capacity
  /\ data' = [i \in 1 .. capacity |-> IF i <= size THEN data[i] ELSE 0]
  /\ UNCHANGED <<type, size, capacity, pushes>>

Next ==
  \/ \E d \in Items : Emplace(d)
  \/ \E n \in Counts : SetSize(n)
  \/ Clone

Spec == Init /\ [][Next]_vars

----------------------------------------------------------------------------
(* What the readers see *)

\* The places of the zeros that end strings.
Ends == { p \in 1 .. size : data[p] = 0 }

\* vector_size
Count == IF type = 0 THEN Cardinality(Ends) ELSE size \div type

\* vector_get: how many bytes come before element i
Start(i) ==
  IF type # 0 THEN i * type
  ELSE CHOOSE p \in Ends \cup {0} : Cardinality({ q \in Ends : q <= p }) = i

\* The element at the pointer vector_get returns, as its callers read it.
Get(i) ==
  LET from == Start(i)
      to == IF type # 0 THEN from + type ELSE Min({ p \in Ends : p > from }) - 1
  IN  SubSeq(data, from + 1, to)

----------------------------------------------------------------------------
(* Properties *)

TypeOK ==
  /\ type \in Types
  /\ size \in Nat /\ capacity \in Nat /\ alloc \in Nat /\ pushes \in Nat
  /\ data \in [1 .. alloc -> Bytes]

\* Every variable has its type, and the bytes in use, and those the vector believes to have, lie in its block: vector_emplace
\* writes inside it, vector_realloc and vector_clone copy from and to inside a block, also
\* after vector_resize has lowered the capacity of a block it keeps.
FitsBlock == TypeOK /\ size <= capacity /\ capacity <= alloc

\* No call changes or loses a byte that was in use and still is: growing, cutting and
\* cloning carry all of them over, and an emplacement writes behind them.
BytesStay == [][\A i \in 1 .. size : i <= size' => data'[i] = data[i]]_vars

\* Read through vector_size and vector_get, the bytes are an array of the items emplaced,
\* strings as well as elements, and the elements vector_setsize adds are zero.
Array == INSTANCE ItemArray WITH
  Items <- Strings \cup UNION { [1 .. t -> Bytes] : t \in Types \ {0} },
  items <- [k \in 1 .. Count |-> Get(k - 1)],
  blank <- [i \in 1 .. type |-> 0]
IsAnArray == Array!Init /\ [][Array!Next]_Array!vars
=============================================================================
