------------------------------- MODULE RakList -------------------------------
(***************************************************************************)
(* DataStructures::List of DS_List.h, the array under most containers of   *)
(* RakNet's headers: it grows by doubling, and its elements are the first  *)
(* list_size of the allocated ones.  Next to the array the model keeps the *)
(* sequence that a caller takes the list for.  Positions count from 0.     *)
(***************************************************************************)
EXTENDS Integers, Sequences, SequencesExt

CONSTANTS
  Items,            \* what is stored
  Unassigned,       \* an allocated element nothing was assigned to
  FirstAllocation,  \* elements of the first block (16)
  KeptAllocation,   \* the largest block Clear keeps for "small" (512)
  MaxListSize       \* bound on the elements

ASSUME RakListAssumption ==
  /\ Unassigned \notin Items /\ FirstAllocation \in Nat \ {0}
  /\ KeptAllocation \in Nat /\ MaxListSize \in Nat

VARIABLES
  listArray,   \* the allocation_size allocated elements
  list_size,
  block,       \* what the pointer is: "null", "new", or "wild", never assigned
  wildDelete,  \* a pointer that was never assigned has been deleted: undefined from there
  contents

listVars == <<listArray, list_size, block, wildDelete, contents>>

listAllocated == Len(listArray)
ListElements == SubSeq(listArray, 1, list_size)
Allocated(n) == [k \in 1 .. n |-> IF k <= list_size THEN listArray[k] ELSE Unassigned]

ListInit == /\ listArray = << >> /\ list_size = 0 /\ block = "null"
            /\ wildDelete = FALSE /\ contents = << >>

\* A new block; the old one is deleted, whatever pointer it is.  A pointer that was
\* never assigned may happen to be null, and is then deleted without harm.
Reallocated == block' = "new" /\ wildDelete' \in IF block = "wild" THEN BOOLEAN ELSE {wildDelete}
Kept == UNCHANGED <<block, wildDelete>>

Room == IF list_size < listAllocated THEN listArray
        ELSE Allocated(IF listAllocated = 0 THEN FirstAllocation ELSE 2 * listAllocated)

-----------------------------------------------------------------------------
\* Mutant of Shifted: the elements are moved from the front, over one another.
ShiftedOver(array, position) ==
  [k \in DOMAIN array |-> IF k > position + 1 /\ k <= list_size + 1
                            THEN array[position + 1] ELSE array[k]]
\* The elements from position on move up by one.
Shifted(array, position) ==
  [k \in DOMAIN array |-> IF k > position + 1 /\ k <= list_size + 1
                            THEN array[k - 1] ELSE array[k]]

\* Insert; without a position it is at the end, and Push is the same.
ListInsert(x, position) ==
  /\ position <= list_size /\ list_size < MaxListSize
  /\ listArray' = [Shifted(Room, position) EXCEPT ![position + 1] = x]
  /\ list_size' = list_size + 1
  /\ IF list_size = listAllocated THEN Reallocated ELSE Kept
  /\ contents' = InsertAt(contents, position + 1, x)

\* Replace past the end fills the hole.
ListReplace(x, filler, position) ==
  /\ position < MaxListSize
  /\ LET array == IF position >= listAllocated THEN Allocated(position + 1) ELSE listArray
     IN  /\ listArray' = [k \in DOMAIN array |->
                            IF k = position + 1 THEN x
                            ELSE IF k > list_size /\ k <= position THEN filler ELSE array[k]]
         /\ IF position >= listAllocated THEN Reallocated ELSE Kept
  /\ list_size' = IF position < list_size THEN list_size ELSE position + 1
  /\ contents' = IF position < Len(contents) THEN ReplaceAt(contents, position + 1, x)
                 ELSE contents \o [k \in 1 .. position - Len(contents) |-> filler] \o <<x>>

\* Pop and RemoveFromEnd: the elements stay where they are, out of the list.
ListRemoveFromEnd(num) ==
  /\ num <= list_size
  /\ list_size' = list_size - num
  /\ contents' = SubSeq(contents, 1, Len(contents) - num)
  /\ UNCHANGED listArray /\ Kept

ListRemoveAtIndex(position) ==
  /\ position < list_size
  /\ listArray' = [k \in DOMAIN listArray |->
                     IF k > position /\ k < list_size THEN listArray[k + 1] ELSE listArray[k]]
  /\ list_size' = list_size - 1
  /\ contents' = RemoveAt(contents, position + 1)
  /\ Kept

\* The last element takes the place of the one removed.
ListRemoveAtIndexFast(position) ==
  /\ position < list_size
  /\ listArray' = [listArray EXCEPT ![position + 1] = listArray[list_size]]
  /\ list_size' = list_size - 1
  /\ contents' = [k \in 1 .. Len(contents) - 1 |->
                    IF k = position + 1 THEN Last(contents) ELSE contents[k]]
  /\ Kept

ListClear(doNotDeallocateSmallBlocks) ==
  /\ listAllocated > 0
  /\ IF listAllocated > KeptAllocation \/ ~doNotDeallocateSmallBlocks
       THEN listArray' = << >> /\ block' = "null"
       ELSE UNCHANGED <<listArray, block>>
  /\ list_size' = 0 /\ contents' = << >>
  /\ UNCHANGED wildDelete

\* Preallocate doubles until there is room; Compress keeps the size it has.
ListPreallocate(countNeeded) ==
  LET Doubled[n \in Nat] == IF n < countNeeded THEN Doubled[2 * n] ELSE n
      amount == Doubled[IF listAllocated = 0 THEN FirstAllocation ELSE listAllocated]
  IN  /\ listAllocated < amount
      /\ listArray' = Allocated(amount)
      /\ Reallocated
      /\ UNCHANGED <<list_size, contents>>
ListCompress ==
  /\ listAllocated > 0
  /\ listArray' = Allocated(listAllocated)
  /\ Reallocated
  /\ UNCHANGED <<list_size, contents>>

\* operator=: an allocated list is cleared first; an empty one is kept as it is.
ListAssign(original) ==
  /\ listArray' = original
  /\ list_size' = Len(original) /\ contents' = original
  /\ block' = IF original # << >> THEN "new" ELSE IF listAllocated > 0 THEN "null" ELSE block
  /\ UNCHANGED wildDelete

\* The copy constructor assigns the pointer only when there is an element to copy.
ListCopy(original) ==
  /\ listArray' = original
  /\ list_size' = Len(original) /\ contents' = original
  /\ block' = IF original # << >> THEN "new" ELSE "wild"
  /\ UNCHANGED wildDelete

ListStep ==
  \/ \E x \in Items, position \in 0 .. MaxListSize :
       \/ ListInsert(x, position)
       \/ \E filler \in Items : ListReplace(x, filler, position)
  \/ \E n \in 0 .. MaxListSize :
       \/ ListRemoveFromEnd(n) \/ ListRemoveAtIndex(n) \/ ListRemoveAtIndexFast(n)
       \/ ListPreallocate(n)
  \/ \E small \in BOOLEAN : ListClear(small)
  \/ ListCompress
  \/ \E original \in {<< >>} \union {<<x>> : x \in Items} : ListAssign(original) \/ ListCopy(original)

\* What the program does after the deletion of a wild pointer is anybody's guess, so
\* nothing is said of it: the steps end there.
ListNext == ~wildDelete /\ ListStep

ListSpec == ListInit /\ [][ListNext]_listVars

-----------------------------------------------------------------------------
\* Whatever was inserted, removed, kept for later or copied, the elements are the
\* sequence a caller expects, no element that was never assigned is among them,
\* and none is outside the block.  But only until a copy of an empty list has to grow
\* (DS_List.h:156, 273, 320, 355): its pointer was never assigned, and is deleted.
ListKeepsItems ==
  ~wildDelete =>
    /\ list_size <= listAllocated
    /\ ListElements = contents
    /\ Unassigned \notin ToSet(ListElements)
    /\ block = "wild" => listAllocated = 0
    /\ (block = "null") = (listAllocated = 0 /\ block # "wild")
=============================================================================
