-------------------------------- MODULE List --------------------------------
(***************************************************************************)
(* The linked list of src/src/core/algo/list.c, cell by cell.  tail is the *)
(* first cell and head the last: a push links the new cell behind head.    *)
(* Cells come from the list's own heap and live until list_destroy.        *)
(* list_emplace, whose item lies in the cell, links it like list_push.     *)
(***************************************************************************)
EXTENDS Naturals, Sequences, SequencesExt, FiniteSetsExt

CONSTANTS
  ListItems,  \* the items
  NoItem,     \* the null pointer, which is no item
  MaxCells    \* bound on the cells of one list

ASSUME NoItemAssumption == NoItem \notin ListItems

VARIABLES
  cells,  \* the cells allocated: data and next, 0 for the end
  tail,   \* the first cell, 0 for none
  head    \* the last cell, 0 for none

listVars == <<cells, tail, head>>

Cells == DOMAIN cells

ListInit == cells = <<>> /\ tail = 0 /\ head = 0

\* The cell after i steps from tail, 0 beyond the end.
At(i) ==
  LET at[j \in 0 .. i] == IF j = 0 THEN tail
                          ELSE IF at[j - 1] = 0 THEN 0 ELSE cells[at[j - 1]].next
  IN  at[i]

\* list_push, list_emplace and insert
Push(d) ==
  /\ Len(cells) < MaxCells
  /\ LET new == Len(cells) + 1
         linked == IF head = 0 THEN cells ELSE [cells EXCEPT ![head].next = new]
     IN  /\ cells' = Append(linked, [data |-> d, next |-> 0])
         /\ head' = new
         /\ tail' = IF tail = 0 THEN new ELSE tail

\* Mutant: head is left on the cell that was dropped.
DropKeepsHead(i) ==
  /\ tail # 0
  /\ LET node == At(i)
         prev == IF i = 0 THEN 0 ELSE CHOOSE c \in Cells : \E j \in 0 .. i - 1 :
                                                 At(j) = c /\ At(j + 1) \in {0, node}
         after == IF node = 0 THEN 0 ELSE cells[node].next
     IN  /\ cells' = IF prev = 0 THEN cells ELSE [cells EXCEPT ![prev].next = after]
         /\ tail' = IF tail = node THEN cells[tail].next ELSE tail
  /\ UNCHANGED head

\* list_drop, of a list that is not empty: the loop stops at the index or past the end,
\* with prev on the cell before.
Drop(i) ==
  /\ tail # 0
  /\ LET node == At(i)
         prev == IF i = 0 THEN 0 ELSE CHOOSE c \in Cells : \E j \in 0 .. i - 1 :
                                                 At(j) = c /\ At(j + 1) \in {0, node}
         after == IF node = 0 THEN 0 ELSE cells[node].next
     IN  /\ cells' = IF prev = 0 THEN cells ELSE [cells EXCEPT ![prev].next = after]
         /\ head' = IF head = node THEN prev ELSE head
         /\ tail' = IF tail = node THEN cells[tail].next ELSE tail

\* list_destroy, and a list_create after it
Renew == cells # <<>> /\ cells' = <<>> /\ tail' = 0 /\ head' = 0

ListNext ==
  \/ \E d \in ListItems : Push(d)
  \/ \E i \in 0 .. Len(cells) : Drop(i)
  \/ Renew

ListSpec == ListInit /\ [][ListNext]_listVars

----------------------------------------------------------------------------
(* What the readers see *)

\* list_get
ListGet(i) == IF At(i) = 0 THEN NoItem ELSE cells[At(i)].data

\* list_size
ListSize == Cardinality({ i \in 0 .. Len(cells) : ListGet(i) # NoItem })

\* list_locate: 0 also for an item that is not in the list
ListLocate(d) ==
  LET hits == { i \in 0 .. Len(cells) : ListGet(i) = d }
  IN  IF hits = {} THEN 0 ELSE Min(hits)

----------------------------------------------------------------------------
(* Properties *)

Contents == [i \in 1 .. ListSize |-> ListGet(i - 1)]

\* The chain is a sequence: in particular every push, also one after drops of the last
\* cell or of the only one, comes at the end and is not lost, an index past the end drops
\* nothing, a loop over list_get up to list_size meets every item and no null, and
\* list_locate finds an item at its first index.  Each push allocates one cell.
Sequence == INSTANCE ItemSequence WITH
  Items <- ListItems, items <- Contents, pushes <- Len(cells),
  located <- [d \in ListItems |-> ListLocate(d)]
IsASequence == Sequence!Spec
=============================================================================
