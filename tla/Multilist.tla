---------------------------- MODULE Multilist -----------------------------
(***************************************************************************)
(* DS_Multilist.h: one array that is an unordered list, a stack, a queue   *)
(* (a ring in the array) or an ordered list, and may change its kind.  A   *)
(* cell outside of the list is BlankCell.  Calls that leave the array      *)
(* wrong are steps that say so in `broken', where the model stops.         *)
(***************************************************************************)
EXTENDS Integers, Sequences, SequencesExt, BinarySearch

CONSTANTS
  MLItems, BlankCell,
  FirstBlock,   \* cells of the first allocation: 32 in the code
  SmallBlock,   \* ClearAll gives back none but smaller arrays: 128
  LargeBlock,   \* larger arrays grow by as much, smaller ones double: 65536
  ShrinkFrom,   \* smaller arrays are never shrunk: 512 in the code
  BlockSizes,   \* what Reallocate is called with
  MaxListed     \* bound of the model on the elements

ASSUME MultilistAssumption ==
  /\ MLItems \subseteq Int /\ BlankCell \in Int \ MLItems
  /\ FirstBlock \in Nat \ {0, 1} /\ LargeBlock \in Nat \ {0} /\ BlockSizes \subseteq Nat

VARIABLES ml,      \* the members of the class
          kept,    \* the list its caller has built
          broken   \* the call that left the array wrong, or "no"
mlVars == <<ml, kept, broken>>

Types == {"unordered", "stack", "queue", "ordered"}
MultilistInit ==
  /\ \E t \in Types : ml = [data |-> << >>, dataSize |-> 0, queueHead |-> 0, queueTail |-> 0,
                            preallocationSize |-> 0, sorted |-> FALSE, ascending |-> TRUE,
                            type |-> t]
  /\ kept = << >> /\ broken = "no"

-----------------------------------------------------------------------------
allocationSize(m) == Len(m.data)
\* IsSorted.
KeepsOrder(m) == m.type = "ordered" \/ m.sorted
IsQueue(m) == m.type = "queue"
CellOf(m, position) ==
  IF ~IsQueue(m) THEN position
  ELSE IF m.queueHead + position >= allocationSize(m)
         THEN m.queueHead + position - allocationSize(m) ELSE m.queueHead + position
Value(m, position) == m.data[CellOf(m, position) + 1]
Shown(m) == [k \in 1 .. m.dataSize |-> Value(m, k - 1)]
\* The array with the items at the positions from 0 on.
Holding(m, items) ==
  [m EXCEPT !.dataSize = Len(items),
            !.data = [c \in 1 .. allocationSize(m) |->
              LET ks == {k \in 1 .. Len(items) : CellOf(m, k - 1) = c - 1}
              IN  IF ks = {} THEN BlankCell ELSE items[CHOOSE k \in ks : TRUE]]]

ReallocToSize(m, size) ==
  LET moved == [m EXCEPT !.data = [c \in 1 .. size |-> IF c <= m.dataSize THEN Shown(m)[c]
                                                       ELSE BlankCell]]
  IN  IF m.dataSize > 0 /\ IsQueue(m) THEN [moved EXCEPT !.queueHead = 0, !.queueTail = m.dataSize]
      ELSE moved
ReallocateIfNeeded(m) ==
  IF m.dataSize < allocationSize(m) THEN m
  ELSE ReallocToSize(m, IF allocationSize(m) < FirstBlock \div 2 THEN FirstBlock
                        ELSE IF allocationSize(m) > LargeBlock THEN allocationSize(m) + LargeBlock
                        ELSE 2 * allocationSize(m))
DeallocateIfNeeded(m) ==
  IF \/ allocationSize(m) < ShrinkFrom \/ m.dataSize >= allocationSize(m) \div 3
     \/ m.dataSize <= m.preallocationSize THEN m
  ELSE ReallocToSize(m, 2 * m.dataSize)

Ascending(a, b, asc) == IF asc THEN a <= b ELSE a >= b
InOrder(items, asc) == \A i \in 1 .. Len(items) - 1 : Ascending(items[i], items[i + 1], asc)

Sorted(items, asc) ==
  LET p == CHOOSE p \in Bijection(DOMAIN items, DOMAIN items) :
             \A i, j \in DOMAIN items : i < j => Ascending(items[p[i]], items[p[j]], asc)
  IN  [k \in DOMAIN items |-> items[p[k]]]

\* The place of a key in a sorted list; in another, the first equal element.
Place(m, key) ==
  GetIndexFromKey(m.dataSize, [i \in 0 .. m.dataSize - 1 |->
    IF m.ascending THEN Compare(key, Value(m, i)) ELSE Compare(Value(m, i), key)])
FirstOf(items, x) ==
  LET places == {k \in 1 .. Len(items) : items[k] = x}
  IN  IF places = {} THEN -1 ELSE (CHOOSE k \in places : \A l \in places : k <= l) - 1
IndexOfKey(m, key) == IF KeepsOrder(m) THEN IF Place(m, key).exists THEN Place(m, key).index ELSE -1
                      ELSE FirstOf(Shown(m), key)

\* QSortAscending and QSortDescending, of the cells from left to right.  The first
\* cell is the pivot; what belongs after it is exchanged with the right end.
Exchanged(d, i, j) == [d EXCEPT ![i] = d[j], ![j] = d[i]]
Passed(t, pivot, asc) ==
  IF Ascending(t.d[t.left], t.d[pivot], asc) THEN [t EXCEPT !.left = @ + 1]
  ELSE [t EXCEPT !.d = Exchanged(@, t.left, t.right), !.right = @ - 1]
Partition(d, leftEdge, rightEdge, asc) ==
  LET turn[n \in 0 .. rightEdge - leftEdge - 1] ==
        IF n = 0 THEN [d |-> d, left |-> leftEdge + 1, right |-> rightEdge]
        ELSE Passed(turn[n - 1], leftEdge, asc)
  IN  turn[rightEdge - leftEdge - 1]

\* A call puts its pivot in its place and leaves two ranges to the calls it makes,
\* the left one first; a range of one cell needs none.
QSortCall(s, asc) ==
  LET range == CHOOSE r \in s.ranges : \A other \in s.ranges : r[1] <= other[1]
      p == Partition(s.d, range[1], range[2], asc)
      center == IF Ascending(p.d[p.left], p.d[range[1]], asc) THEN p.left ELSE p.left - 1
      halves == {<<range[1], p.left - 1>>, <<p.right, range[2]>>}
  IN  [d |-> Exchanged(p.d, range[1], center),
       ranges |-> (s.ranges \ {range}) \union {h \in halves : h[1] < h[2]}]
\* Every call cuts one range in two: there are as many as there are cuts.
QSort(d, size, asc) ==
  LET call[n \in 0 .. size - 1] ==
        IF n = 0 THEN [d |-> d, ranges |-> {<<1, size>>}] ELSE QSortCall(call[n - 1], asc)
  IN  call[size - 1].d

SortedCells(m) == IF m.dataSize > 1 THEN [m EXCEPT !.data = QSort(@, m.dataSize, m.ascending)]
                  ELSE m

-----------------------------------------------------------------------------
\* What a call leaves, or which call broke it.
Leaves(m, list) == ml' = m /\ kept' = list /\ UNCHANGED broken
Breaks(what) == broken' = what /\ UNCHANGED <<ml, kept>>
HasSpace(m) == m.dataSize < MaxListed
\* The sort state no longer says that the list is sorted.  Mutant: it still does.
StillTagged(m) == m
Untagged(m) == [m EXCEPT !.sorted = FALSE]

\* A queue whose tail is at the end of the array instead of at its beginning
\* writes behind the array, or looks for the tail for ever.
TailPast(m) == IsQueue(m) /\ m.queueTail >= allocationSize(m)

AfterTail(m) == IF m.queueTail + 1 = allocationSize(m) THEN 0 ELSE m.queueTail + 1
BeforeTail(m) == IF m.queueTail = 0 THEN allocationSize(m) - 1 ELSE m.queueTail - 1

Appended(m, x) ==
  IF IsQueue(m) THEN [Holding(m, Append(Shown(m), x)) EXCEPT !.queueTail = AfterTail(m)]
  ELSE Holding(m, Append(Shown(m), x))
InsertInOrderedList(m, x) == Holding(m, InsertAt(Shown(m), Place(m, x).index + 1, x))

MLPush(x) ==
  LET m == ReallocateIfNeeded(ml) IN
  /\ HasSpace(ml)
  /\ IF TailPast(m) THEN Breaks("a write behind the array")
     ELSE IF m.type = "ordered" THEN Leaves(InsertInOrderedList(m, x), Sorted(Append(kept, x), m.ascending))
     ELSE Leaves(IF m.dataSize > 0 THEN Untagged(Appended(m, x)) ELSE Appended(m, x),
                 Append(kept, x))

MLPop ==
  LET m == DeallocateIfNeeded(ml)
      left == IF IsQueue(m) THEN Tail(kept) ELSE Front(kept) IN
  /\ ml.dataSize > 0
  /\ IF ~IsQueue(m) THEN Leaves(Holding(m, left), left)
     ELSE IF m.queueHead + 1 = allocationSize(m) THEN Breaks("a pop of the array's last cell")
     ELSE Leaves(Holding([m EXCEPT !.queueHead = @ + 1], left), left)

\* InsertAtIndex; in a queue the items from there on move one cell on.
InsertedAt(m, x, index) ==
  LET made == Holding(m, InsertAt(Shown(m), index + 1, x))
  IN  IF IsQueue(m) THEN [made EXCEPT !.queueTail = AfterTail(m)] ELSE made

\* In an empty queue it returns before it would take back the sort state; that of an
\* ordered list is not looked at until SetMultilistType has set it.
InsertedAtIndex(m, x, index) ==
  LET made == InsertedAt(m, x, index)
  IN  IF m.type = "ordered" \/ (IsQueue(m) /\ m.dataSize = 0) THEN made ELSE Untagged(made)

InsertAtIndex(x, index) ==
  LET m == ReallocateIfNeeded(ml)
      made == InsertedAtIndex(m, x, index) IN
  /\ HasSpace(ml)
  /\ IF TailPast(m) THEN Breaks("a write behind the array")
     ELSE IF KeepsOrder(made) /\ ~InOrder(Shown(made), made.ascending)
            THEN Breaks("an insertion at an index of an ordered list")
     ELSE Leaves(made, InsertAt(kept, index + 1, x))

\* PushOpposite, which is Push for an ordered list, compares with the second
\* element, also where it has put the new one at the end.
PushOpposite(x) ==
  LET m    == ReallocateIfNeeded(ml)
      made == IF m.type = "unordered" THEN Appended(m, x) ELSE InsertedAtIndex(m, x, 0)
      after == IF /\ made.sorted /\ made.dataSize > 1
                  /\ ~Ascending(x, Value(made, 1), made.ascending) THEN Untagged(made) ELSE made IN
  /\ HasSpace(ml) /\ ml.type # "ordered"
  /\ IF TailPast(m) THEN Breaks("a write behind the array")
     ELSE IF KeepsOrder(after) /\ ~InOrder(Shown(after), after.ascending)
            THEN Breaks("a sort state kept by PushOpposite")
     ELSE Leaves(after, IF m.type = "unordered" THEN Append(kept, x) ELSE <<x>> \o kept)

PopOpposite ==
  /\ ml.dataSize > 0 /\ (IsQueue(ml) \/ HasSpace(ml))
  /\ IF IsQueue(ml)
     THEN LET m == DeallocateIfNeeded(ml)
          IN  Leaves([Holding(m, Front(Shown(m))) EXCEPT !.queueTail = BeforeTail(m)], Front(kept))
     ELSE LET m == ReallocateIfNeeded(ml)
          IN  Leaves(DeallocateIfNeeded(Holding(m, Tail(Shown(m)))), Tail(kept))

\* RemoveAtIndex, and RemoveAtKey of a key that is there; the last element takes
\* the place of one removed from an unordered list.
Removed(items, index, type) ==
  IF type = "unordered" THEN Front([items EXCEPT ![index + 1] = Last(items)])
  ELSE RemoveAt(items, index + 1)

MLRemoveAtIndex(index) ==
  LET made == Holding(ml, Removed(Shown(ml), index, ml.type)) IN
  IF TailPast(ml) THEN Breaks("a search for the tail that does not end")
  ELSE IF KeepsOrder(made) /\ ~InOrder(Shown(made), made.ascending)
         THEN Breaks("a sort state kept by RemoveAtIndex")
  ELSE Leaves(DeallocateIfNeeded(IF IsQueue(ml) THEN [made EXCEPT !.queueTail = BeforeTail(ml)]
                                 ELSE made),
              Removed(kept, index, ml.type))

ClearAll(deallocateSmallBlocks) ==
  LET small == allocationSize(ml) < SmallBlock
  IN  Leaves([Holding(ml, << >>) EXCEPT
                !.queueHead = 0, !.queueTail = 0, !.sorted = (ml.type = "ordered"),
                !.data = IF deallocateSmallBlocks /\ small THEN << >> ELSE @],
             << >>)

ReverseList == Leaves([Holding(ml, Reverse(Shown(ml))) EXCEPT
                         !.ascending = IF KeepsOrder(ml) THEN ~@ ELSE @],
                      Reverse(kept))

Reallocate(size) == Leaves([ReallocToSize(ml, IF size < ml.dataSize THEN ml.dataSize ELSE size)
                              EXCEPT !.preallocationSize = size], kept)

SortedFrom(m, list, force) ==
  IF KeepsOrder(m) /\ ~force THEN Leaves(m, list)
  ELSE IF IsQueue(m) /\ m.queueHead # 0 /\ m.dataSize > 1
         THEN Breaks("a sort of a queue that does not begin at cell 0")
  ELSE Leaves([SortedCells(m) EXCEPT !.sorted = TRUE], Sorted(list, m.ascending))
Sort(force) == SortedFrom(ml, kept, force)

\* TagSorted, of a list its caller knows to be sorted.
TagSorted == /\ InOrder(Shown(ml), ml.ascending) /\ Leaves([ml EXCEPT !.sorted = TRUE], kept)

Turned(ascending) == ml.ascending # ascending /\ KeepsOrder(ml)
InSortOrder(ascending) ==
  [(IF Turned(ascending) THEN Holding(ml, Reverse(Shown(ml))) ELSE ml) EXCEPT !.ascending = ascending]
KeptInSortOrder(ascending) == IF Turned(ascending) THEN Reverse(kept) ELSE kept
SetSortOrder(ascending) == Leaves(InSortOrder(ascending), KeptInSortOrder(ascending))

\* FindIntersection sorts both sources and goes through them side by side.
FindIntersection == SortedFrom(InSortOrder(TRUE), KeptInSortOrder(TRUE), FALSE)

FromSource1(items1, c) == [c EXCEPT !.index1 = @ + 1,
                               !.uniqueToSource1 = Append(@, items1[c.index1 + 1])]
FromSource2(items2, c) == [c EXCEPT !.index2 = @ + 1,
                               !.uniqueToSource2 = Append(@, items2[c.index2 + 1])]
FromBoth(items1, c) == [c EXCEPT !.index1 = @ + 1, !.index2 = @ + 1,
                                  !.intersection = Append(@, items1[c.index1 + 1])]
\* A turn of the loop that compares, or of the two that take what is left.
ComparedOnce(items1, items2, c) ==
  LET more1 == c.index1 < Len(items1)
      more2 == c.index2 < Len(items2)
      x == items1[c.index1 + 1]
      y == items2[c.index2 + 1]
  IN  IF more1 /\ (more2 => x < y) THEN FromSource1(items1, c)
      ELSE IF more1 /\ x = y THEN FromBoth(items1, c)
      ELSE IF more2 THEN FromSource2(items2, c)
      ELSE c
Compared(items1, items2) ==
  LET turn[n \in 0 .. Len(items1) + Len(items2)] ==
        IF n = 0 THEN [index1 |-> 0, index2 |-> 0, intersection |-> << >>,
                       uniqueToSource1 |-> << >>, uniqueToSource2 |-> << >>]
        ELSE ComparedOnce(items1, items2, turn[n - 1])
  IN  turn[Len(items1) + Len(items2)]

\* SetMultilistType.  A ring that wraps round is made straight; one that fills the
\* array is taken for one that does not wrap.
Straight(m) == IF m.queueTail < m.queueHead THEN ReallocToSize(m, m.dataSize)
               ELSE Holding([m EXCEPT !.queueHead = 0], Shown(m))
SetMultilistType(new) ==
  LET old  == ml.type
      m    == IF old = "queue" THEN Straight(ml) ELSE ml
      sorts == new = "ordered" /\ ~ml.sorted
      tags  == old = "ordered" \/ new = "ordered"
      made == [(IF sorts THEN SortedCells(m) ELSE m) EXCEPT
                 !.type = new, !.sorted = @ \/ tags,
                 !.queueHead = IF new = "queue" THEN 0 ELSE @,
                 !.queueTail = IF new = "queue" THEN m.dataSize ELSE @] IN
  /\ new # old
  /\ IF old = "queue" /\ ml.dataSize > 0 /\ ml.queueHead > 0 /\ ml.queueTail = ml.queueHead
       THEN Breaks("a full ring made straight in place")
     ELSE Leaves(made, IF sorts THEN Sorted(kept, ml.ascending)
                       ELSE kept)

\* A copy takes the list's place: an array without a spare cell.
CopySource == Leaves([ml EXCEPT !.data = Shown(ml), !.queueHead = 0, !.queueTail = ml.dataSize],
                     kept)

MultilistNext ==
  /\ broken = "no"
  /\ \/ \E x \in MLItems : \/ MLPush(x) \/ PushOpposite(x)
                           \/ \E index \in 0 .. ml.dataSize : InsertAtIndex(x, index)
     \/ MLPop \/ PopOpposite \/ ReverseList \/ TagSorted \/ CopySource \/ FindIntersection
     \/ \E index \in 0 .. ml.dataSize - 1 : MLRemoveAtIndex(index)
     \/ \E size \in BlockSizes : Reallocate(size)
     \/ \E flag \in BOOLEAN : ClearAll(flag) \/ Sort(flag) \/ SetSortOrder(flag)
     \/ \E new \in Types : SetMultilistType(new)
MultilistSpec == MultilistInit /\ [][MultilistNext]_mlVars

-----------------------------------------------------------------------------
\* Until a call leaves the array wrong, and however the list changes its kind, order and
\* array: it shows exactly its caller's list, a list it says is sorted is, and
\* the search finds every element there is and no other.  Of a list in ascending
\* order and any other of two, FindIntersection finds each item as often as both
\* have it, and leaves the rest of each.
Sources == {<<x, y>> : x, y \in MLItems}
Count(items, x) == Cardinality({k \in 1 .. Len(items) : items[k] = x})
FoundIn(items, other) ==
  LET found == Compared(items, other)
  IN  \A x \in MLItems :
        LET both == Count(found.intersection, x)
        IN  /\ both = Count(items, x) \/ both = Count(other, x)
            /\ both + Count(found.uniqueToSource1, x) = Count(items, x)
            /\ both + Count(found.uniqueToSource2, x) = Count(other, x)
ShowsTheList ==
  broken = "no" =>
    /\ Shown(ml) = kept
    /\ KeepsOrder(ml) => InOrder(kept, ml.ascending)
    /\ \A x \in MLItems : LET index == IndexOfKey(ml, x)
                          IN  IF x \in ToSet(kept) THEN kept[index + 1] = x ELSE index = -1
    /\ KeepsOrder(ml) /\ ml.ascending =>
         \A other \in Sources : FoundIn(Shown(ml), Sorted(other, TRUE))
=============================================================================
