----------------------------- MODULE ListProofs -----------------------------
(***************************************************************************)
(* Proofs about RakNet's arrays, chains and graph, of any size: RakList,   *)
(* OrderedMap and RangeList, Heap, RakHash and WeightedGraph.              *)
(* A list is the first elements of an array; the heap's order is broken in *)
(* one place at most, and its loops move that place; a key's stack is the  *)
(* nodes of its chain that hold it, and a chain cut in two cuts the stack; *)
(* Dijkstra's rounds settle the nodes in the order of their costs, and a   *)
(* path traced back through the rows costs what the last row says.         *)
(***************************************************************************)
EXTENDS RakList, RangeList, Heap, RakHash, WeightedGraph, Induction, SequenceTheorems

-----------------------------------------------------------------------------
(***************************************************************************)
(* The list of DS_List.h.  Its elements are the first of an array's, and   *)
(* they are the contents a caller expects; the pointer to the array is     *)
(* null, or what new returned, or, for a copy of an empty list, wild.      *)
(***************************************************************************)
Slots == Items \union {Unassigned}
Holds(slots, n, c) ==
  /\ slots \in Seq(Slots) /\ n \in Nat /\ n <= Len(slots)
  /\ c \in Seq(Items) /\ Len(c) = n
  /\ \A k \in 1 .. n : slots[k] = c[k]
PointsTo(slots, b, deleted) ==
  /\ b \in {"null", "new", "wild"} /\ deleted \in BOOLEAN
  /\ b = "wild" => Len(slots) = 0
  /\ (b = "null") = (Len(slots) = 0 /\ b # "wild")
ListInv ==
  Holds(listArray, list_size, contents) /\ PointsTo(listArray, block, wildDelete)

LEMMA AllocatedHolds ==
  ASSUME Holds(listArray, list_size, contents), NEW n \in Nat, list_size <= n
  PROVE  Holds(Allocated(n), list_size, contents) /\ Len(Allocated(n)) = n
<1>1. /\ list_size \in Nat /\ list_size <= Len(listArray) /\ Len(listArray) \in Nat
      /\ \A k \in 1 .. Len(listArray) : listArray[k] \in Slots
      /\ contents \in Seq(Items) /\ Len(contents) = list_size
      /\ \A k \in 1 .. list_size : listArray[k] = contents[k]
  BY DEF Holds
<1>2. \A k \in 1 .. n : Allocated(n)[k] = IF k <= list_size THEN listArray[k] ELSE Unassigned
  BY DEF Allocated
<1>3. \A k \in 1 .. n : Allocated(n)[k] \in Slots
  BY <1>1, <1>2 DEF Slots
<1>4. Allocated(n) = [k \in 1 .. n |-> Allocated(n)[k]]
  BY DEF Allocated
<1>5. Allocated(n) \in [1 .. n -> Slots]
  BY <1>3, <1>4
<1>6. Allocated(n) \in Seq(Slots) /\ Len(Allocated(n)) = n
  BY <1>5
<1> QED BY <1>1, <1>2, <1>6 DEF Holds

LEMMA RoomHolds ==
  ASSUME ListInv
  PROVE  /\ Holds(Room, list_size, contents) /\ list_size < Len(Room)
         /\ list_size < Len(listArray) => Room = listArray
<1>1. Holds(listArray, list_size, contents)
  BY DEF ListInv
<1>2. list_size \in Nat /\ list_size <= Len(listArray) /\ Len(listArray) \in Nat
  BY <1>1 DEF Holds
<1>3. CASE list_size < Len(listArray)
  BY <1>1, <1>3 DEF Room, listAllocated
<1>4. CASE ~(list_size < Len(listArray))
  <2> DEFINE n == IF Len(listArray) = 0 THEN FirstAllocation ELSE 2 * Len(listArray)
  <2>1. n \in Nat /\ list_size < n
    BY <1>2, RakListAssumption
  <2>2. Room = Allocated(n)
    BY <1>4 DEF Room, listAllocated
  <2> HIDE DEF n
  <2>3. Holds(Allocated(n), list_size, contents) /\ Len(Allocated(n)) = n
    BY <1>1, <1>2, <2>1, AllocatedHolds
  <2> QED BY <1>4, <2>1, <2>2, <2>3
<1> QED BY <1>3, <1>4

\* A block that is new, and one that is kept.
LEMMA NewBlock ==
  ASSUME ListInv, Reallocated, Len(listArray') > 0
  PROVE  PointsTo(listArray', block', wildDelete')
<1>1. block' = "new" /\ wildDelete' \in BOOLEAN
  BY DEF Reallocated, ListInv, PointsTo
<1> QED BY <1>1 DEF PointsTo

LEMMA KeptBlock ==
  ASSUME ListInv, Kept, Len(listArray') = Len(listArray)
  PROVE  PointsTo(listArray', block', wildDelete')
  BY DEF ListInv, Kept, PointsTo

LEMMA InsertHolds ==
  ASSUME ListInv, NEW x \in Items, NEW position \in Nat, ListInsert(x, position)
  PROVE  ListInv'
<1> DEFINE slots == Room
           shifted == Shifted(slots, position)
<1>1. /\ position <= list_size
      /\ listArray' = [shifted EXCEPT ![position + 1] = x]
      /\ list_size' = list_size + 1
      /\ IF list_size = Len(listArray) THEN Reallocated ELSE Kept
      /\ contents' = InsertAt(contents, position + 1, x)
  BY DEF ListInsert, listAllocated
<1>2. Holds(slots, list_size, contents) /\ list_size < Len(slots)
      /\ (list_size < Len(listArray) => slots = listArray)
  BY RoomHolds
<1> HIDE DEF slots
<1>3. /\ slots \in Seq(Slots) /\ list_size \in Nat /\ Len(slots) \in Nat
      /\ contents \in Seq(Items) /\ Len(contents) = list_size
      /\ \A k \in 1 .. list_size : slots[k] = contents[k]
      /\ DOMAIN slots = 1 .. Len(slots)
  BY <1>2 DEF Holds
<1>4. \A k \in 1 .. Len(slots) :
        shifted[k] = IF k > position + 1 /\ k <= list_size + 1 THEN slots[k - 1] ELSE slots[k]
  BY <1>3 DEF Shifted
<1>5. shifted = [k \in 1 .. Len(slots) |-> shifted[k]]
  BY <1>3 DEF Shifted
<1> HIDE DEF shifted
<1>6. position + 1 \in 1 .. Len(slots) /\ x \in Slots
  BY <1>1, <1>2, <1>3 DEF Slots
<1>7. \A k \in 1 .. Len(slots) : listArray'[k] = IF k = position + 1 THEN x ELSE shifted[k]
  BY <1>1, <1>5
<1>8. listArray' \in Seq(Slots) /\ Len(listArray') = Len(slots)
  <2>1. \A k \in 1 .. Len(slots) : listArray'[k] \in Slots
    <3>1. \A k \in 1 .. Len(slots) : slots[k] \in Slots
      BY <1>3
    <3>2. \A k \in 1 .. Len(slots) : k > position + 1 => k - 1 \in 1 .. Len(slots)
      OBVIOUS
    <3> QED BY <1>4, <1>6, <1>7, <3>1, <3>2
  <2>2. listArray' = [k \in 1 .. Len(slots) |-> listArray'[k]]
    BY <1>1, <1>5
  <2>3. listArray' \in [1 .. Len(slots) -> Slots]
    BY <2>1, <2>2
  <2> QED BY <1>3, <2>3
<1>9. /\ contents' \in Seq(Items) /\ Len(contents') = list_size + 1
      /\ \A k \in 1 .. list_size + 1 :
           contents'[k] = IF k <= position THEN contents[k]
                          ELSE IF k = position + 1 THEN x ELSE contents[k - 1]
  <2>1. position \in 0 .. Len(contents)
    BY <1>1, <1>3
  <2>2. contents \in Seq(Items)
    BY <1>3
  <2>3. IsPut(Items, InsertAt(contents, position + 1, x), contents, position, x)
    BY <2>1, <2>2, InsertedIsPut
  <2> QED BY <1>1, <1>3, <2>3 DEF IsPut
<1>10. ASSUME NEW k \in 1 .. list_size + 1 PROVE listArray'[k] = contents'[k]
  <2>1. k \in 1 .. Len(slots)
    BY <1>2, <1>3
  <2>2. CASE k <= position
    <3>1. k \in 1 .. list_size /\ ~(k > position + 1) /\ k # position + 1
      BY <1>1, <1>3, <2>2
    <3> QED BY <1>3, <1>4, <1>7, <1>9, <2>1, <2>2, <3>1
  <2>3. CASE k = position + 1
    BY <1>7, <1>9, <2>1, <2>3
  <2>4. CASE k > position + 1
    <3>1. k - 1 \in 1 .. list_size /\ ~(k <= position) /\ k # position + 1 /\ k <= list_size + 1
      BY <1>3, <2>4
    <3> QED BY <1>3, <1>4, <1>7, <1>9, <2>1, <2>4, <3>1
  <2> QED BY <2>2, <2>3, <2>4
<1>11. Holds(listArray', list_size', contents')
  BY <1>1, <1>2, <1>3, <1>8, <1>9, <1>10 DEF Holds
<1>12. PointsTo(listArray', block', wildDelete')
  <2>1. CASE list_size = Len(listArray)
    BY <1>1, <1>2, <1>3, <1>8, <2>1, NewBlock
  <2>2. CASE list_size # Len(listArray)
    <3>1. list_size < Len(listArray)
      BY <2>2 DEF ListInv, Holds
    <3> QED BY <1>1, <1>2, <1>8, <2>2, <3>1, KeptBlock
  <2> QED BY <2>1, <2>2
<1> QED BY <1>11, <1>12 DEF ListInv

LEMMA ReplaceHolds ==
  ASSUME ListInv, NEW x \in Items, NEW filler \in Items, NEW position \in Nat,
         ListReplace(x, filler, position)
  PROVE  ListInv'
<1> DEFINE slots == IF position >= Len(listArray) THEN Allocated(position + 1) ELSE listArray
<1>1. /\ Holds(listArray, list_size, contents)
      /\ list_size \in Nat /\ list_size <= Len(listArray) /\ Len(listArray) \in Nat
      /\ contents \in Seq(Items) /\ Len(contents) = list_size
  BY DEF ListInv, Holds
<1>2. /\ listArray' = [k \in DOMAIN slots |->
                         IF k = position + 1 THEN x
                         ELSE IF k > list_size /\ k <= position THEN filler ELSE slots[k]]
      /\ IF position >= Len(listArray) THEN Reallocated ELSE Kept
      /\ list_size' = IF position < list_size THEN list_size ELSE position + 1
      /\ contents' = IF position < Len(contents) THEN ReplaceAt(contents, position + 1, x)
                     ELSE contents \o [k \in 1 .. position - Len(contents) |-> filler] \o <<x>>
  BY DEF ListReplace, listAllocated
<1>3. Holds(slots, list_size, contents) /\ position < Len(slots)
  <2>1. CASE position >= Len(listArray)
    <3>1. position + 1 \in Nat /\ list_size <= position + 1
      BY <1>1, <2>1
    <3>2. Holds(Allocated(position + 1), list_size, contents) /\ Len(Allocated(position + 1)) = position + 1
      BY <1>1, <3>1, AllocatedHolds
    <3> QED BY <2>1, <3>2
  <2>2. CASE ~(position >= Len(listArray))
    BY <1>1, <2>2
  <2> QED BY <2>1, <2>2
<1>4. position < Len(listArray) => slots = listArray
  BY <1>1
<1> HIDE DEF slots
<1>5. /\ slots \in Seq(Slots) /\ Len(slots) \in Nat /\ DOMAIN slots = 1 .. Len(slots)
      /\ \A k \in 1 .. Len(slots) : slots[k] \in Slots
      /\ \A k \in 1 .. list_size : slots[k] = contents[k]
  BY <1>3 DEF Holds
<1>6. /\ \A k \in 1 .. Len(slots) :
           listArray'[k] = IF k = position + 1 THEN x
                           ELSE IF k > list_size /\ k <= position THEN filler ELSE slots[k]
      /\ listArray' = [k \in 1 .. Len(slots) |-> listArray'[k]]
  BY <1>2, <1>5
<1>7. listArray' \in Seq(Slots) /\ Len(listArray') = Len(slots)
  <2>1. \A k \in 1 .. Len(slots) : listArray'[k] \in Slots
    BY <1>5, <1>6 DEF Slots
  <2>2. listArray' \in [1 .. Len(slots) -> Slots]
    BY <1>6, <2>1
  <2> QED BY <1>5, <2>2
<1>8. ASSUME position < list_size PROVE Holds(listArray', list_size', contents')
  <2>1. contents' = [contents EXCEPT ![position + 1] = x] /\ list_size' = list_size
    BY <1>1, <1>2, <1>8 DEF ReplaceAt
  <2>2. contents' \in Seq(Items) /\ Len(contents') = list_size
        /\ \A k \in 1 .. list_size : contents'[k] = IF k = position + 1 THEN x ELSE contents[k]
    BY <1>1, <1>8, <2>1
  <2>3. ASSUME NEW k \in 1 .. list_size PROVE listArray'[k] = contents'[k]
    <3>1. k \in 1 .. Len(slots) /\ ~(k > list_size /\ k <= position)
      BY <1>1, <1>3, <1>5 DEF Holds
    <3> QED BY <1>5, <1>6, <2>2, <3>1
  <2>4. list_size <= Len(slots)
    BY <1>3 DEF Holds
  <2> QED BY <1>1, <1>7, <2>1, <2>2, <2>3, <2>4 DEF Holds
<1>9. ASSUME ~(position < list_size) PROVE Holds(listArray', list_size', contents')
  <2> DEFINE fill == [k \in 1 .. position - list_size |-> filler]
  <2>1. contents' = contents \o fill \o <<x>> /\ list_size' = position + 1
    BY <1>1, <1>2, <1>9
  <2>2. position - list_size \in Nat
    BY <1>1, <1>9
  <2>3. fill \in Seq(Items) /\ Len(fill) = position - list_size
        /\ \A k \in 1 .. position - list_size : fill[k] = filler
    BY <2>2
  <2> HIDE DEF fill
  <2>4. contents \o fill \in Seq(Items) /\ Len(contents \o fill) = position
        /\ \A k \in 1 .. position : (contents \o fill)[k] = IF k <= list_size THEN contents[k] ELSE filler
    BY <1>1, <2>2, <2>3
  <2>5. contents' \in Seq(Items) /\ Len(contents') = position + 1
        /\ \A k \in 1 .. position + 1 :
             contents'[k] = IF k <= list_size THEN contents[k] ELSE IF k = position + 1 THEN x ELSE filler
    <3>1. \A k \in 1 .. position + 1 : k <= list_size => k # position + 1
      BY <1>1, <1>9
    <3> DEFINE long == contents \o fill
    <3> HIDE DEF long
    <3>2. long \in Seq(Items) /\ Len(long) = position /\ contents' = long \o <<x>>
          /\ \A k \in 1 .. position : long[k] = IF k <= list_size THEN contents[k] ELSE filler
      BY <2>1, <2>4 DEF long
    <3>3. /\ contents' \in Seq(Items) /\ Len(contents') = position + 1
          /\ \A k \in 1 .. position + 1 : contents'[k] = IF k <= position THEN long[k] ELSE x
      BY <3>2
    <3> QED BY <3>1, <3>2, <3>3
  <2>6. ASSUME NEW k \in 1 .. position + 1 PROVE listArray'[k] = contents'[k]
    <3>1. k \in 1 .. Len(slots) /\ (k <= list_size => k # position + 1)
      BY <1>1, <1>3, <1>5, <1>9
    <3>2. CASE k <= list_size
      <4>1. k \in 1 .. list_size
        BY <1>1, <3>2
      <4> QED BY <1>1, <1>5, <1>6, <2>5, <3>1, <3>2, <4>1
    <3>3. CASE ~(k <= list_size)
      <4>1. k > list_size /\ (k = position + 1 \/ k <= position)
        BY <1>1, <3>3
      <4> QED BY <1>6, <2>5, <3>1, <3>3, <4>1
    <3> QED BY <3>2, <3>3
  <2>7. position + 1 \in Nat /\ position + 1 <= Len(slots)
    BY <1>3, <1>5
  <2> QED BY <1>7, <2>1, <2>5, <2>6, <2>7 DEF Holds
<1>10. Holds(listArray', list_size', contents')
  BY <1>8, <1>9
<1>11. PointsTo(listArray', block', wildDelete')
  <2>1. CASE position >= Len(listArray)
    BY <1>2, <1>3, <1>5, <1>7, <2>1, NewBlock
  <2>2. CASE ~(position >= Len(listArray))
    BY <1>1, <1>2, <1>4, <1>7, <2>2, KeptBlock
  <2> QED BY <2>1, <2>2
<1> QED BY <1>10, <1>11 DEF ListInv

LEMMA RemoveFromEndHolds ==
  ASSUME ListInv, NEW num \in Nat, ListRemoveFromEnd(num)
  PROVE  ListInv'
<1>1. /\ list_size \in Nat /\ list_size <= Len(listArray)
      /\ contents \in Seq(Items) /\ Len(contents) = list_size
      /\ \A k \in 1 .. list_size : listArray[k] = contents[k]
      /\ listArray \in Seq(Slots)
  BY DEF ListInv, Holds
<1>2. /\ num <= list_size /\ list_size' = list_size - num
      /\ contents' = SubSeq(contents, 1, list_size - num)
      /\ listArray' = listArray /\ Kept
  BY <1>1 DEF ListRemoveFromEnd
<1>3. list_size - num \in Nat /\ list_size - num <= list_size
  BY <1>1, <1>2
<1>4. contents' \in Seq(Items) /\ Len(contents') = list_size - num
      /\ \A k \in 1 .. list_size - num : contents'[k] = contents[k]
  BY <1>1, <1>2, <1>3
<1>5. Holds(listArray', list_size', contents')
  BY <1>1, <1>2, <1>3, <1>4 DEF Holds
<1> QED BY <1>2, <1>5, KeptBlock DEF ListInv

LEMMA RemoveAtIndexHolds ==
  ASSUME ListInv, NEW position \in Nat, ListRemoveAtIndex(position)
  PROVE  ListInv'
<1>1. /\ list_size \in Nat /\ list_size <= Len(listArray) /\ Len(listArray) \in Nat
      /\ contents \in Seq(Items) /\ Len(contents) = list_size
      /\ \A k \in 1 .. list_size : listArray[k] = contents[k]
      /\ \A k \in 1 .. Len(listArray) : listArray[k] \in Slots
      /\ DOMAIN listArray = 1 .. Len(listArray)
  BY DEF ListInv, Holds
<1>2. /\ position < list_size /\ list_size' = list_size - 1
      /\ contents' = RemoveAt(contents, position + 1) /\ Kept
      /\ listArray' = [k \in 1 .. Len(listArray) |->
                         IF k > position /\ k < list_size THEN listArray[k + 1] ELSE listArray[k]]
  BY <1>1 DEF ListRemoveAtIndex
<1>3. listArray' \in Seq(Slots) /\ Len(listArray') = Len(listArray)
  <2>1. \A k \in 1 .. Len(listArray) : listArray'[k] \in Slots
    <3>1. \A k \in 1 .. Len(listArray) : k < list_size => k + 1 \in 1 .. Len(listArray)
      BY <1>1
    <3> QED BY <1>1, <1>2, <3>1
  <2>2. listArray' \in [1 .. Len(listArray) -> Slots]
    BY <1>2, <2>1
  <2> QED BY <1>1, <2>2
<1>4. /\ contents' \in Seq(Items) /\ Len(contents') = list_size - 1
      /\ \A k \in 1 .. list_size - 1 :
           contents'[k] = IF k <= position THEN contents[k] ELSE contents[k + 1]
  <2>1. position \in 0 .. Len(contents) - 1 /\ contents \in Seq(Items)
    BY <1>1, <1>2
  <2>2. IsTaken(Items, RemoveAt(contents, position + 1), contents, position)
    BY <2>1, RemovedIsTaken
  <2> QED BY <1>1, <1>2, <2>2 DEF IsTaken
<1>5. ASSUME NEW k \in 1 .. list_size - 1 PROVE listArray'[k] = contents'[k]
  <2>1. k \in 1 .. Len(listArray) /\ k \in 1 .. list_size /\ k + 1 \in 1 .. list_size /\ k < list_size
    BY <1>1
  <2>2. listArray[k] = contents[k] /\ listArray[k + 1] = contents[k + 1]
    BY <1>1, <2>1
  <2>3. listArray'[k] = IF k > position THEN listArray[k + 1] ELSE listArray[k]
    BY <1>2, <2>1
  <2>4. contents'[k] = IF k <= position THEN contents[k] ELSE contents[k + 1]
    BY <1>4
  <2>5. (k > position) <=> ~(k <= position)
    BY <2>1
  <2> QED BY <2>2, <2>3, <2>4, <2>5
<1>6. list_size - 1 \in Nat /\ list_size - 1 <= Len(listArray)
  BY <1>1, <1>2
<1>7. Holds(listArray', list_size', contents')
  BY <1>2, <1>3, <1>4, <1>5, <1>6 DEF Holds
<1> QED BY <1>2, <1>3, <1>7, KeptBlock DEF ListInv

LEMMA RemoveAtIndexFastHolds ==
  ASSUME ListInv, NEW position \in Nat, ListRemoveAtIndexFast(position)
  PROVE  ListInv'
<1>1. /\ list_size \in Nat /\ list_size <= Len(listArray) /\ Len(listArray) \in Nat
      /\ contents \in Seq(Items) /\ Len(contents) = list_size
      /\ \A k \in 1 .. list_size : listArray[k] = contents[k]
      /\ listArray \in Seq(Slots)
  BY DEF ListInv, Holds
<1>2. /\ position < list_size /\ list_size' = list_size - 1 /\ Kept
      /\ contents' = [k \in 1 .. list_size - 1 |->
                        IF k = position + 1 THEN contents[list_size] ELSE contents[k]]
      /\ listArray' = [listArray EXCEPT ![position + 1] = listArray[list_size]]
  BY <1>1 DEF ListRemoveAtIndexFast, Last
<1>3. list_size \in 1 .. Len(listArray) /\ list_size \in 1 .. list_size
      /\ list_size - 1 \in Nat /\ list_size - 1 <= Len(listArray)
  BY <1>1, <1>2
<1>4. listArray' \in Seq(Slots) /\ Len(listArray') = Len(listArray)
      /\ \A k \in 1 .. Len(listArray) :
           listArray'[k] = IF k = position + 1 THEN listArray[list_size] ELSE listArray[k]
  <2>1. listArray[list_size] \in Slots
    BY <1>1, <1>3
  <2> QED BY <1>1, <1>2, <2>1
<1>5. contents' \in Seq(Items) /\ Len(contents') = list_size - 1
  <2>1. \A k \in 1 .. list_size : contents[k] \in Items
    BY <1>1
  <2>2. \A k \in 1 .. list_size - 1 : contents'[k] \in Items
    BY <1>1, <1>2, <1>3, <2>1
  <2>3. contents' \in [1 .. list_size - 1 -> Items]
    BY <1>2, <2>2
  <2> QED BY <1>3, <2>3
<1>6. ASSUME NEW k \in 1 .. list_size - 1 PROVE listArray'[k] = contents'[k]
  <2>1. k \in 1 .. Len(listArray) /\ k \in 1 .. list_size
    BY <1>1
  <2> QED BY <1>1, <1>2, <1>3, <1>4, <2>1
<1>7. Holds(listArray', list_size', contents')
  BY <1>2, <1>3, <1>4, <1>5, <1>6 DEF Holds
<1> QED BY <1>2, <1>4, <1>7, KeptBlock DEF ListInv

\* The loop of Preallocate ends for every number that is not 0, at one no lower.
LEMMA DoublingEnds ==
  ASSUME NEW c \in Nat
  PROVE  \E f : f = [n \in Nat |-> IF n < c THEN f[2 * n] ELSE n]
<1> DEFINE Doubles(f, n) == f[n] = IF n < c THEN f[2 * n] ELSE n
           From(f, d) == f[0] = 0 /\ \A n \in Nat : n # 0 /\ n >= c - d => Doubles(f, n)
           S == {d \in Nat : \E f \in [Nat -> Nat] : From(f, d)}
<1>1. 0 \in S
  <2> DEFINE f == [n \in Nat |-> n]
  <2>1. f \in [Nat -> Nat] /\ From(f, 0)
    OBVIOUS
  <2> HIDE DEF From, f
  <2> QED BY <2>1
<1>2. ASSUME NEW d \in Nat, d \in S PROVE d + 1 \in S
  <2>1. PICK f \in [Nat -> Nat] : From(f, d)
    BY <1>2
  <2> DEFINE g == [n \in Nat |-> IF n = 0 \/ n >= c - d THEN f[n] ELSE f[2 * n]]
  <2>2. g \in [Nat -> Nat] /\ g[0] = 0
    BY <2>1
  <2>3. \A n \in Nat : g[n] = IF n = 0 \/ n >= c - d THEN f[n] ELSE f[2 * n]
    OBVIOUS
  <2> HIDE DEF g
  <2>4. ASSUME NEW n \in Nat, n # 0, n >= c - (d + 1) PROVE Doubles(g, n)
    <3>1. 2 * n \in Nat /\ 2 * n # 0 /\ 2 * n >= c - d
      BY <2>4
    <3>2. g[2 * n] = f[2 * n]
      BY <2>3, <3>1
    <3>3. CASE n >= c - d
      <4>1. Doubles(f, n)
        BY <2>1, <2>4, <3>3
      <4> QED BY <2>3, <3>2, <3>3, <4>1
    <3>4. CASE ~(n >= c - d)
      <4>1. n < c
        BY <3>4
      <4> QED BY <2>3, <2>4, <3>2, <3>4, <4>1
    <3> QED BY <3>3, <3>4
  <2>5. From(g, d + 1)
    BY <2>2, <2>4
  <2> HIDE DEF From
  <2> QED BY <2>2, <2>5
<1>3. c \in S
  <2> HIDE DEF S
  <2> QED BY <1>1, <1>2, NatInSet
<1>4. PICK f \in [Nat -> Nat] : From(f, c)
  BY <1>3
<1>5. \A n \in Nat : n # 0 => Doubles(f, n)
  BY <1>4
<1>6. Doubles(f, 0)
  BY <1>4
<1>7. f = [n \in Nat |-> f[n]]
  OBVIOUS
<1> QED BY <1>5, <1>6, <1>7

LEMMA DoublingGrows ==
  ASSUME NEW c \in Nat, NEW f, \A n \in Nat : f[n] = IF n < c THEN f[2 * n] ELSE n,
         NEW start \in Nat \ {0}
  PROVE  f[start] \in Nat /\ f[start] >= start
<1> DEFINE S == {d \in Nat : \A n \in Nat : n # 0 /\ n >= c - d => f[n] \in Nat /\ f[n] >= n}
<1>1. 0 \in S
  OBVIOUS
<1>2. ASSUME NEW d \in Nat, d \in S PROVE d + 1 \in S
  <2>1. ASSUME NEW n \in Nat, n # 0, n >= c - (d + 1) PROVE f[n] \in Nat /\ f[n] >= n
    <3>1. 2 * n \in Nat /\ 2 * n # 0 /\ 2 * n >= c - d /\ 2 * n >= n
      BY <2>1
    <3>2. f[2 * n] \in Nat /\ f[2 * n] >= 2 * n
      BY <1>2, <3>1
    <3>3. CASE n < c
      BY <3>1, <3>2, <3>3
    <3>4. CASE ~(n < c)
      BY <3>4
    <3> QED BY <3>3, <3>4
  <2> QED BY <2>1
<1>3. c \in S
  <2> HIDE DEF S
  <2> QED BY <1>1, <1>2, NatInSet
<1> QED BY <1>3

LEMMA PreallocateHolds ==
  ASSUME ListInv, NEW countNeeded \in Nat, ListPreallocate(countNeeded)
  PROVE  ListInv'
<1> DEFINE Steps(f) == f = [n \in Nat |-> IF n < countNeeded THEN f[2 * n] ELSE n]
           doubled == CHOOSE f : Steps(f)
           start == IF Len(listArray) = 0 THEN FirstAllocation ELSE Len(listArray)
           amount == doubled[start]
<1>1. /\ Len(listArray) < amount /\ listArray' = Allocated(amount) /\ Reallocated
      /\ list_size' = list_size /\ contents' = contents
  BY DEF ListPreallocate, listAllocated
<1>2. Steps(doubled)
  <2>1. \E f : Steps(f)
    BY DoublingEnds
  <2> HIDE DEF Steps
  <2> QED BY <2>1
<1>3. \A n \in Nat : doubled[n] = IF n < countNeeded THEN doubled[2 * n] ELSE n
  <2> HIDE DEF doubled
  <2> QED BY <1>2
<1> HIDE DEF doubled
<1>4. /\ Holds(listArray, list_size, contents)
      /\ list_size \in Nat /\ list_size <= Len(listArray) /\ Len(listArray) \in Nat
  BY DEF ListInv, Holds
<1>5. start \in Nat \ {0} /\ start >= Len(listArray)
  BY <1>4, RakListAssumption
<1>6. amount \in Nat /\ amount >= start
  <2> HIDE DEF start
  <2> QED BY <1>3, <1>5, DoublingGrows
<1> HIDE DEF start, amount
<1>7. list_size <= amount
  BY <1>4, <1>5, <1>6
<1>8. Holds(Allocated(amount), list_size, contents) /\ Len(Allocated(amount)) = amount
  BY <1>4, <1>6, <1>7, AllocatedHolds
<1>9. Len(listArray') > 0
  BY <1>1, <1>4, <1>6, <1>8
<1> QED BY <1>1, <1>8, <1>9, NewBlock DEF ListInv

LEMMA CompressHolds ==
  ASSUME ListInv, ListCompress
  PROVE  ListInv'
<1>1. /\ Len(listArray) > 0 /\ listArray' = Allocated(Len(listArray)) /\ Reallocated
      /\ list_size' = list_size /\ contents' = contents
  BY DEF ListCompress, listAllocated
<1>2. /\ Holds(listArray, list_size, contents)
      /\ list_size <= Len(listArray) /\ Len(listArray) \in Nat
  BY DEF ListInv, Holds
<1>3. Holds(listArray', list_size, contents) /\ Len(listArray') = Len(listArray)
  BY <1>1, <1>2, AllocatedHolds
<1> QED BY <1>1, <1>3, NewBlock DEF ListInv

LEMMA EmptyHolds ==
  ASSUME NEW slots \in Seq(Slots)
  PROVE  Holds(slots, 0, << >>)
<1>1. << >> \in Seq(Items) /\ Len(<< >>) = 0 /\ Len(slots) \in Nat
  BY EmptySeq
<1>2. \A k \in 1 .. 0 : FALSE
  OBVIOUS
<1> QED BY <1>1, <1>2 DEF Holds

LEMMA ClearHolds ==
  ASSUME ListInv, NEW small \in BOOLEAN, ListClear(small)
  PROVE  ListInv'
<1>1. /\ Len(listArray) > 0 /\ list_size' = 0 /\ contents' = << >> /\ wildDelete' = wildDelete
      /\ \/ listArray' = << >> /\ block' = "null"
         \/ listArray' = listArray /\ block' = block
  BY DEF ListClear, listAllocated
<1>2. listArray \in Seq(Slots) /\ << >> \in Seq(Slots) /\ Len(<< >>) = 0
  BY EmptySeq DEF ListInv, Holds
<1>3. Holds(listArray', list_size', contents')
  BY <1>1, <1>2, EmptyHolds
<1>4. PointsTo(listArray', block', wildDelete')
  BY <1>1, <1>2 DEF ListInv, PointsTo
<1> QED BY <1>3, <1>4 DEF ListInv

LEMMA CopiedHolds ==
  ASSUME ListInv, NEW original \in Seq(Items), ListAssign(original) \/ ListCopy(original)
  PROVE  ListInv'
<1>1. /\ listArray' = original /\ list_size' = Len(original) /\ contents' = original
      /\ wildDelete' = wildDelete
      /\ \/ block' = IF original # << >> THEN "new"
                     ELSE IF Len(listArray) > 0 THEN "null" ELSE block
         \/ block' = IF original # << >> THEN "new" ELSE "wild"
  BY DEF ListAssign, ListCopy, listAllocated
<1>2. original \in Seq(Slots) /\ Len(original) \in Nat /\ (original # << >> <=> Len(original) # 0)
  BY DEF Slots
<1>3. Holds(listArray', list_size', contents')
  BY <1>1, <1>2 DEF Holds
<1>4. /\ Len(listArray) \in Nat /\ wildDelete \in BOOLEAN
      /\ block \in {"null", "new", "wild"}
      /\ (block = "new" => Len(listArray) # 0)
  BY DEF ListInv, Holds, PointsTo
<1>5. PointsTo(listArray', block', wildDelete')
  <2>1. wildDelete' \in BOOLEAN
    BY <1>1, <1>4, Zenon
  <2>2. CASE original # << >>
    BY <1>1, <1>2, <2>1, <2>2 DEF PointsTo
  <2>3. CASE original = << >>
    <3>1. block' \in {"null", "wild"}
      <4>1. CASE Len(listArray) > 0 /\ block' = "null"
        BY <4>1
      <4>2. CASE ~(Len(listArray) > 0) /\ block' = block
        BY <1>4, <4>2
      <4>3. CASE block' = "wild"
        BY <4>3
      <4> QED BY <1>1, <2>3, <4>1, <4>2, <4>3
    <3> QED BY <1>1, <1>2, <2>1, <2>3, <3>1 DEF PointsTo
  <2> QED BY <2>2, <2>3
<1> QED BY <1>3, <1>5 DEF ListInv

THEOREM ListInvariance == ListSpec => []ListInv
<1>1. ListInit => ListInv
  <2> SUFFICES ASSUME ListInit PROVE ListInv
    OBVIOUS
  <2>1. << >> \in Seq(Slots) /\ Len(<< >>) = 0
    BY EmptySeq
  <2>2. Holds(listArray, list_size, contents)
    BY <2>1, EmptyHolds DEF ListInit
  <2>3. PointsTo(listArray, block, wildDelete)
    BY <2>1 DEF ListInit, PointsTo
  <2> QED BY <2>2, <2>3 DEF ListInv
<1>2. ListInv /\ [ListNext]_listVars => ListInv'
  <2> SUFFICES ASSUME ListInv, [ListNext]_listVars PROVE ListInv'
    OBVIOUS
  <2>1. CASE UNCHANGED listVars
    BY <2>1 DEF ListInv, listVars
  <2>2. 0 .. MaxListSize \subseteq Nat
    BY RakListAssumption
  <2>3. ASSUME NEW x \in Items, NEW position \in 0 .. MaxListSize,
               \/ ListInsert(x, position)
               \/ \E filler \in Items : ListReplace(x, filler, position)
        PROVE  ListInv'
    BY <2>2, <2>3, InsertHolds, ReplaceHolds
  <2>4. ASSUME NEW n \in 0 .. MaxListSize,
               \/ ListRemoveFromEnd(n) \/ ListRemoveAtIndex(n) \/ ListRemoveAtIndexFast(n)
               \/ ListPreallocate(n)
        PROVE  ListInv'
    BY <2>2, <2>4, RemoveFromEndHolds, RemoveAtIndexHolds, RemoveAtIndexFastHolds, PreallocateHolds
  <2>5. ASSUME NEW original \in {<< >>} \union {<<x>> : x \in Items},
               ListAssign(original) \/ ListCopy(original)
        PROVE  ListInv'
    <3>1. \A x \in Items : <<x>> \in Seq(Items)
      OBVIOUS
    <3>2. original \in Seq(Items)
      BY <3>1, EmptySeq
    <3> QED BY <2>5, <3>2, CopiedHolds
  <2> QED BY <2>1, <2>3, <2>4, <2>5, ClearHolds, CompressHolds DEF ListNext, ListStep
<1> QED BY <1>1, <1>2, PTL DEF ListSpec

\* For blocks of any size: until a pointer that was never assigned is deleted, as the
\* first block of a copy of an empty list does, the elements of a list are those a
\* caller expects, all of them assigned and in the block.
THEOREM ListCorrect == ListSpec => []ListKeepsItems
<1>1. ListInv => ListKeepsItems
  <2> SUFFICES ASSUME ListInv PROVE ListKeepsItems
    OBVIOUS
  <2>1. /\ list_size \in Nat /\ list_size <= Len(listArray)
        /\ contents \in Seq(Items) /\ Len(contents) = list_size
        /\ \A k \in 1 .. list_size : listArray[k] = contents[k]
        /\ listArray \in Seq(Slots)
    BY DEF ListInv, Holds
  <2>2. /\ ListElements \in Seq(Slots) /\ Len(ListElements) = list_size
        /\ \A k \in 1 .. list_size : ListElements[k] = listArray[k]
    BY <2>1 DEF ListElements
  <2>3. ListElements = contents
    BY <2>1, <2>2, SeqEqual
  <2>4. Unassigned \notin ToSet(contents)
    BY <2>1, RakListAssumption DEF ToSet
  <2> QED BY <2>1, <2>3, <2>4 DEF ListInv, PointsTo, ListKeepsItems, listAllocated
<1> QED BY <1>1, ListInvariance, PTL

-----------------------------------------------------------------------------
\* Pairs or ranges in order of their first members.
IsPlace(s, n, key, r) ==
  /\ r = [index |-> r.index, exists |-> r.exists] /\ r.exists \in BOOLEAN
  /\ r.index \in 0 .. n
  /\ r.exists => r.index < n /\ s[r.index + 1][1] = key
  /\ ~r.exists => \A i \in 1 .. n : /\ i <= r.index => s[i][1] < key
                                    /\ i > r.index => key < s[i][1]

LEMMA PlaceInOrder ==
  ASSUME NEW s, NEW n \in Nat, NEW key \in Int,
         \A i \in 1 .. n : s[i][1] \in Int,
         \A i, j \in 1 .. n : i <= j => s[i][1] <= s[j][1]
  PROVE  IsPlace(s, n, key, GetIndexFromKey(n, [i \in 0 .. n - 1 |-> Compare(key, s[i + 1][1])]))
<1> DEFINE cf == [i \in 0 .. n - 1 |-> Compare(key, s[i + 1][1])]
           r == GetIndexFromKey(n, cf)
<1>1. \A a, b \in Int : /\ Compare(a, b) \in Int
                        /\ (Compare(a, b) = 0) <=> (a = b)
                        /\ (Compare(a, b) > 0) <=> (a > b)
                        /\ (Compare(a, b) < 0) <=> (a < b)
                        /\ \A c \in Int : b <= c => Compare(a, c) <= Compare(a, b)
  BY DEF Compare
<1>2. \A i \in 0 .. n - 1 : i + 1 \in 1 .. n /\ s[i + 1][1] \in Int
  OBVIOUS
<1>3. \A i \in 0 .. n - 1 : cf[i] = Compare(key, s[i + 1][1])
  OBVIOUS
<1>4. Falling(n, cf)
  <2>1. cf \in [0 .. n - 1 -> Int]
    BY <1>1, <1>2
  <2>2. ASSUME NEW i \in 0 .. n - 1, NEW j \in 0 .. n - 1, i <= j PROVE cf[j] <= cf[i]
    <3>1. i + 1 <= j + 1
      BY <2>2
    <3>2. s[i + 1][1] <= s[j + 1][1]
      BY <1>2, <3>1
    <3> QED BY <1>1, <1>2, <1>3, <3>2
  <2> HIDE DEF cf
  <2> QED BY <2>1, <2>2 DEF Falling
<1> HIDE DEF cf
<1>5. IsAnswer(n, cf, r)
  BY <1>4, SearchAnswers
<1> HIDE DEF r
<1>6. r.exists => r.index < n /\ s[r.index + 1][1] = key
  <2> SUFFICES ASSUME r.exists PROVE r.index < n /\ s[r.index + 1][1] = key
    OBVIOUS
  <2>1. r.index \in 0 .. n - 1 /\ cf[r.index] = 0
    BY <1>5 DEF IsAnswer
  <2>2. Compare(key, s[r.index + 1][1]) = 0 /\ s[r.index + 1][1] \in Int
    BY <1>2, <1>3, <2>1
  <2>3. key = s[r.index + 1][1]
    BY <1>1, <2>2
  <2> QED BY <2>1, <2>3
<1>7. ASSUME ~r.exists, NEW i \in 1 .. n
      PROVE  (i <= r.index => s[i][1] < key) /\ (i > r.index => key < s[i][1])
  <2>1. i - 1 \in 0 .. n - 1 /\ (i - 1) + 1 = i /\ r.index \in Nat
    BY <1>5 DEF IsAnswer
  <2>2. cf[i - 1] = Compare(key, s[i][1]) /\ s[i][1] \in Int
    BY <1>3, <2>1
  <2>3. (i - 1 < r.index => cf[i - 1] > 0) /\ (i - 1 >= r.index => cf[i - 1] < 0)
    BY <1>5, <1>7, <2>1 DEF IsAnswer
  <2>4. (i <= r.index => cf[i - 1] > 0) /\ (i > r.index => cf[i - 1] < 0)
    BY <2>1, <2>3
  <2> DEFINE x == s[i][1]
             c == Compare(key, x)
  <2>5. x \in Int /\ c = cf[i - 1]
    BY <2>2
  <2> HIDE DEF x
  <2>6. c > 0 => key > x
    BY <1>1, <2>5
  <2>7. c < 0 => key < x
    BY <1>1, <2>5
  <2> HIDE DEF c
  <2>8. (i <= r.index => x < key) /\ (i > r.index => key < x)
    BY <2>4, <2>5, <2>6, <2>7
  <2> QED BY <2>8 DEF x
<1>8. IsPlace(s, n, key, r)
  BY <1>5, <1>6, <1>7 DEF IsPlace, IsAnswer
<1> QED BY <1>8 DEF r, cf

-----------------------------------------------------------------------------
(***************************************************************************)
(* The map: its keys rise, and they are the dictionary's.                  *)
(***************************************************************************)
Pairs == MapKeys \X MapData
Rising(s) == \A i, j \in 1 .. Len(s) : i < j => s[i][1] < s[j][1]
Lists(s, d) ==
  /\ \A i \in 1 .. Len(s) : s[i][1] \in DOMAIN d /\ d[s[i][1]] = s[i][2]
  /\ \A k \in DOMAIN d : \E i \in 1 .. Len(s) : s[i][1] = k
\* d with the key set to data, and a place for a key that is not in the list.
SetTo(d, e, key, data) ==
  /\ DOMAIN e = DOMAIN d \union {key} /\ e[key] = data
  /\ \A k \in DOMAIN d : k # key => e[k] = d[k]
Between(s, index, key) ==
  \A i \in 1 .. Len(s) : /\ i <= index => s[i][1] < key
                         /\ i > index => key < s[i][1]
MapInv ==
  mapNodeList \in Seq(Pairs) /\ Rising(mapNodeList) /\ Lists(mapNodeList, dictionary)

LEMMA PairsHaveKeys ==
  ASSUME NEW s \in Seq(Pairs)
  PROVE  /\ Len(s) \in Nat
         /\ \A i \in 1 .. Len(s) : /\ s[i] = <<s[i][1], s[i][2]>> /\ s[i] \in Pairs
                                   /\ s[i][1] \in MapKeys /\ s[i][1] \in Int
<1>1. \A i \in 1 .. Len(s) : s[i] \in Pairs
  OBVIOUS
<1>2. ASSUME NEW p \in Pairs PROVE p = <<p[1], p[2]>> /\ p[1] \in MapKeys /\ p[1] \in Int
  <2>1. p = <<p[1], p[2]>> /\ p[1] \in MapKeys
    BY DEF Pairs
  <2> QED BY <2>1, OrderedMapAssumption
<1> QED BY <1>1, <1>2

LEMMA MapSearch ==
  ASSUME MapInv, NEW key \in MapKeys
  PROVE  IsPlace(mapNodeList, Len(mapNodeList), key, Found(key))
<1>1. /\ Len(mapNodeList) \in Nat
      /\ \A i \in 1 .. Len(mapNodeList) : mapNodeList[i][1] \in Int
  BY PairsHaveKeys DEF MapInv
<1>2. ASSUME NEW i \in 1 .. Len(mapNodeList), NEW j \in 1 .. Len(mapNodeList), i <= j
      PROVE  mapNodeList[i][1] <= mapNodeList[j][1]
  <2>1. CASE i = j
    BY <1>1, <2>1
  <2>2. CASE i # j
    <3>1. i < j
      BY <1>2, <2>2
    <3> QED BY <1>1, <3>1 DEF MapInv, Rising
  <2> QED BY <2>1, <2>2
<1>3. key \in Int
  BY OrderedMapAssumption
<1> QED BY <1>1, <1>2, <1>3, PlaceInOrder DEF Found

\* A key put at its place, and an element taken, with the dictionary that follows.
LEMMA PutInOrder ==
  ASSUME NEW s \in Seq(Pairs), Rising(s), NEW d, Lists(s, d), NEW key \in MapKeys, NEW data \in MapData,
         NEW index \in 0 .. Len(s), NEW t, IsPut(Pairs, t, s, index, <<key, data>>),
         Between(s, index, key), NEW e, SetTo(d, e, key, data)
  PROVE  t \in Seq(Pairs) /\ Rising(t) /\ Lists(t, e)
<1>1. /\ t \in Seq(Pairs) /\ Len(t) = Len(s) + 1 /\ Len(s) \in Nat /\ index \in Nat
      /\ \A k \in 1 .. Len(t) :
           t[k] = IF k <= index THEN s[k] ELSE IF k = index + 1 THEN <<key, data>> ELSE s[k - 1]
  BY DEF IsPut
<1>0. /\ DOMAIN e = DOMAIN d \union {key} /\ e[key] = data
      /\ \A k \in DOMAIN d : k # key => e[k] = d[k]
      /\ \A i \in 1 .. Len(s) : /\ i <= index => s[i][1] < key
                                /\ i > index => key < s[i][1]
  BY DEF SetTo, Between
<1>2. /\ \A i \in 1 .. Len(s) : s[i][1] \in Int /\ s[i][1] \in DOMAIN d /\ d[s[i][1]] = s[i][2]
      /\ \A i, j \in 1 .. Len(s) : i < j => s[i][1] < s[j][1]
      /\ key \in Int
  BY PairsHaveKeys, OrderedMapAssumption DEF Rising, Lists
<1>3. \A i \in 1 .. Len(s) : s[i][1] # key
  BY <1>1, <1>2, <1>0
\* What stands in each place.
<1>4. \A k \in 1 .. Len(t) : \/ k <= index /\ k \in 1 .. Len(s) /\ t[k] = s[k]
                             \/ k = index + 1 /\ t[k] = <<key, data>>
                             \/ k > index + 1 /\ k - 1 \in 1 .. Len(s) /\ k - 1 > index /\ t[k] = s[k - 1]
  BY <1>1
<1>5. Rising(t)
  <2> SUFFICES ASSUME NEW i \in 1 .. Len(t), NEW j \in 1 .. Len(t), i < j
               PROVE  t[i][1] < t[j][1]
    BY DEF Rising
  <2>1. CASE i <= index /\ j <= index
    BY <1>1, <1>2, <1>4, <2>1
  <2>2. CASE i <= index /\ j = index + 1
    <3>1. t[i] = s[i] /\ i \in 1 .. Len(s)
      BY <1>1, <1>4, <2>2
    <3>2. t[j] = <<key, data>>
      BY <1>1, <1>4, <2>2
    <3> QED BY <1>0, <2>2, <3>1, <3>2
  <2>3. CASE i <= index /\ j > index + 1
    <3>1. t[i] = s[i] /\ t[j] = s[j - 1] /\ i \in 1 .. Len(s) /\ j - 1 \in 1 .. Len(s) /\ i < j - 1
      BY <1>1, <1>4, <2>3
    <3> QED BY <1>2, <3>1
  <2>4. CASE i = index + 1 /\ j > index + 1
    <3>1. t[i] = <<key, data>> /\ t[j] = s[j - 1] /\ j - 1 \in 1 .. Len(s) /\ j - 1 > index
      BY <1>1, <1>4, <2>4
    <3> QED BY <1>0, <3>1
  <2>5. CASE i > index + 1 /\ j > index + 1
    <3>1. t[i] = s[i - 1] /\ t[j] = s[j - 1] /\ i - 1 \in 1 .. Len(s) /\ j - 1 \in 1 .. Len(s) /\ i - 1 < j - 1
      BY <1>1, <1>4, <2>5
    <3> QED BY <1>2, <3>1
  <2> QED BY <1>1, <2>1, <2>2, <2>3, <2>4, <2>5
<1>6. ASSUME NEW k \in 1 .. Len(t) PROVE t[k][1] \in DOMAIN e /\ e[t[k][1]] = t[k][2]
  <2>1. CASE t[k] = <<key, data>>
    BY <1>0, <2>1
  <2>2. ASSUME NEW i \in 1 .. Len(s), t[k] = s[i] PROVE t[k][1] \in DOMAIN e /\ e[t[k][1]] = t[k][2]
    BY <1>2, <1>3, <1>0, <2>2
  <2> QED BY <1>4, <2>1, <2>2
<1>7. ASSUME NEW k \in DOMAIN e PROVE \E i \in 1 .. Len(t) : t[i][1] = k
  <2>1. CASE k = key
    <3>1. index + 1 \in 1 .. Len(t) /\ t[index + 1] = <<key, data>>
      BY <1>1
    <3> QED BY <2>1, <3>1
  <2>2. CASE k # key
    <3>1. PICK i \in 1 .. Len(s) : s[i][1] = k
      BY <1>0, <2>2 DEF Lists
    <3>2. CASE i <= index
      <4>1. i \in 1 .. Len(t) /\ t[i] = s[i]
        BY <1>1, <3>2
      <4> QED BY <3>1, <4>1
    <3>3. CASE i > index
      <4>1. i + 1 \in 1 .. Len(t) /\ ~(i + 1 <= index) /\ i + 1 # index + 1 /\ (i + 1) - 1 = i
        BY <1>1, <3>3
      <4>2. t[i + 1] = s[i]
        BY <1>1, <4>1
      <4> QED BY <3>1, <4>1, <4>2
    <3> QED BY <1>1, <3>2, <3>3
  <2> QED BY <2>1, <2>2
<1> QED BY <1>1, <1>5, <1>6, <1>7 DEF Lists

LEMMA TakenInOrder ==
  ASSUME NEW s \in Seq(Pairs), Rising(s), NEW d, Lists(s, d),
         NEW index \in 0 .. Len(s) - 1, NEW t, IsTaken(Pairs, t, s, index),
         NEW e, DOMAIN e = DOMAIN d \ {s[index + 1][1]}, \A k \in DOMAIN e : e[k] = d[k]
  PROVE  t \in Seq(Pairs) /\ Rising(t) /\ Lists(t, e)
<1>1. /\ t \in Seq(Pairs) /\ Len(t) = Len(s) - 1 /\ Len(s) \in Nat /\ index \in Nat /\ index < Len(s)
      /\ \A k \in 1 .. Len(t) : t[k] = IF k <= index THEN s[k] ELSE s[k + 1]
  BY DEF IsTaken
<1>2. /\ \A i \in 1 .. Len(s) : s[i][1] \in Int /\ s[i][1] \in DOMAIN d /\ d[s[i][1]] = s[i][2]
      /\ \A i, j \in 1 .. Len(s) : i < j => s[i][1] < s[j][1]
  BY PairsHaveKeys DEF Rising, Lists
<1> DEFINE from(k) == IF k <= index THEN k ELSE k + 1
<1>3. \A k \in 1 .. Len(t) : from(k) \in 1 .. Len(s) /\ from(k) # index + 1 /\ t[k] = s[from(k)]
  BY <1>1
<1>4. \A i, j \in 1 .. Len(t) : i < j => from(i) < from(j)
  BY <1>1
<1>5. \A i \in 1 .. Len(s) : i # index + 1 => \E k \in 1 .. Len(t) : from(k) = i
  <2> SUFFICES ASSUME NEW i \in 1 .. Len(s), i # index + 1 PROVE \E k \in 1 .. Len(t) : from(k) = i
    OBVIOUS
  <2>1. CASE i <= index
    <3>1. i \in 1 .. Len(t) /\ from(i) = i
      BY <1>1, <2>1
    <3> HIDE DEF from
    <3> QED BY <3>1
  <2>2. CASE ~(i <= index)
    <3>1. i - 1 \in 1 .. Len(t) /\ from(i - 1) = i
      BY <1>1, <2>2
    <3> HIDE DEF from
    <3> QED BY <3>1
  <2> QED BY <2>1, <2>2
<1> HIDE DEF from
<1>6. Rising(t)
  <2> SUFFICES ASSUME NEW i \in 1 .. Len(t), NEW j \in 1 .. Len(t), i < j
               PROVE  t[i][1] < t[j][1]
    BY DEF Rising
  <2> QED BY <1>2, <1>3, <1>4
<1>7. \A i \in 1 .. Len(s) : i # index + 1 => s[i][1] # s[index + 1][1]
  <2> SUFFICES ASSUME NEW i \in 1 .. Len(s), i # index + 1 PROVE s[i][1] # s[index + 1][1]
    OBVIOUS
  <2>1. index + 1 \in 1 .. Len(s) /\ (i < index + 1 \/ index + 1 < i)
    BY <1>1
  <2>2. s[i][1] < s[index + 1][1] \/ s[index + 1][1] < s[i][1]
    BY <1>2, <2>1
  <2> QED BY <1>2, <2>1, <2>2
<1>8. ASSUME NEW k \in 1 .. Len(t) PROVE t[k][1] \in DOMAIN e /\ e[t[k][1]] = t[k][2]
  BY <1>2, <1>3, <1>7, SMTT(30)
<1>9. ASSUME NEW k \in DOMAIN e PROVE \E i \in 1 .. Len(t) : t[i][1] = k
  <2>1. PICK i \in 1 .. Len(s) : s[i][1] = k
    BY DEF Lists
  <2>2. i # index + 1
    BY <2>1
  <2>3. PICK j \in 1 .. Len(t) : from(j) = i
    BY <1>5, <2>2
  <2> QED BY <1>3, <2>1, <2>3
<1> QED BY <1>1, <1>6, <1>8, <1>9 DEF Lists

\* The same keys, and another value for one of them.
LEMMA ReplacedInOrder ==
  ASSUME NEW s \in Seq(Pairs), Rising(s), NEW d, Lists(s, d), NEW key \in MapKeys, NEW data \in MapData,
         NEW place \in 1 .. Len(s), s[place][1] = key, NEW e, SetTo(d, e, key, data),
         NEW t, t = [s EXCEPT ![place] = <<key, data>>]
  PROVE  t \in Seq(Pairs) /\ Rising(t) /\ Lists(t, e)
<1>0. /\ DOMAIN e = DOMAIN d \union {key} /\ e[key] = data
      /\ \A k \in DOMAIN d : k # key => e[k] = d[k]
  BY DEF SetTo
<1>1. /\ Len(s) \in Nat
      /\ \A i \in 1 .. Len(s) : s[i][1] \in Int /\ s[i][1] \in DOMAIN d /\ d[s[i][1]] = s[i][2]
      /\ \A i, j \in 1 .. Len(s) : i < j => s[i][1] < s[j][1]
  BY PairsHaveKeys DEF Rising, Lists
<1>2. <<key, data>> \in Pairs /\ <<key, data>>[1] = key /\ <<key, data>>[2] = data
  BY DEF Pairs
<1>3. t \in Seq(Pairs) /\ Len(t) = Len(s)
      /\ \A i \in 1 .. Len(s) : t[i] = IF i = place THEN <<key, data>> ELSE s[i]
  BY <1>2
<1>4. \A i \in 1 .. Len(s) : t[i][1] = s[i][1]
  BY <1>2, <1>3
<1>5. \A i \in 1 .. Len(s) : i # place => s[i][1] # key
  <2> SUFFICES ASSUME NEW i \in 1 .. Len(s), i # place PROVE s[i][1] # key
    OBVIOUS
  <2>1. i < place \/ place < i
    OBVIOUS
  <2>2. s[i][1] < s[place][1] \/ s[place][1] < s[i][1]
    BY <1>1, <2>1
  <2> QED BY <1>1, <2>2
<1>6. Rising(t)
  BY <1>1, <1>3, <1>4 DEF Rising
<1>7. ASSUME NEW i \in 1 .. Len(t) PROVE t[i][1] \in DOMAIN e /\ e[t[i][1]] = t[i][2]
  <2>1. CASE i = place
    BY <1>2, <1>3, <1>0, <2>1
  <2>2. CASE i # place
    BY <1>1, <1>3, <1>5, <1>0, <2>2
  <2> QED BY <2>1, <2>2
<1>8. \A k \in DOMAIN e : \E i \in 1 .. Len(t) : t[i][1] = k
  <2> SUFFICES ASSUME NEW k \in DOMAIN e PROVE \E i \in 1 .. Len(t) : t[i][1] = k
    OBVIOUS
  <2>1. PICK i \in 1 .. Len(s) : s[i][1] = k
    BY <1>0 DEF Lists
  <2> QED BY <1>3, <1>4, <2>1
<1> QED BY <1>3, <1>6, <1>7, <1>8 DEF Lists

LEMMA SetKeeps ==
  ASSUME MapInv, NEW key \in MapKeys, NEW data \in MapData, MapSet(key, data)
  PROVE  MapInv'
<1> DEFINE f == Found(key)
<1>1. mapNodeList \in Seq(Pairs) /\ Rising(mapNodeList) /\ Lists(mapNodeList, dictionary)
  BY DEF MapInv
<1>2. IsPlace(mapNodeList, Len(mapNodeList), key, f)
  BY MapSearch
<1>3. /\ mapNodeList' = IF f.exists THEN ReplaceAt(mapNodeList, f.index + 1, <<key, data>>)
                        ELSE InsertAt(mapNodeList, f.index + 1, <<key, data>>)
      /\ SetTo(dictionary, dictionary', key, data)
  BY DEF MapSet, Assigned, SetTo
<1> HIDE DEF f
<1>4. Len(mapNodeList) \in Nat /\ f.index \in 0 .. Len(mapNodeList) /\ <<key, data>> \in Pairs
  BY <1>1, <1>2 DEF IsPlace, Pairs
<1>5. CASE f.exists
  <2>1. f.index + 1 \in 1 .. Len(mapNodeList) /\ mapNodeList[f.index + 1][1] = key
    BY <1>2, <1>4, <1>5 DEF IsPlace
  <2>2. mapNodeList' = [mapNodeList EXCEPT ![f.index + 1] = <<key, data>>]
    BY <1>3, <1>5 DEF ReplaceAt
  <2>3. mapNodeList' \in Seq(Pairs) /\ Rising(mapNodeList') /\ Lists(mapNodeList', dictionary')
    BY <1>1, <1>3, <2>1, <2>2, ReplacedInOrder
  <2> QED BY <2>3 DEF MapInv
<1>6. CASE ~f.exists
  <2>1. IsPut(Pairs, mapNodeList', mapNodeList, f.index, <<key, data>>)
    BY <1>1, <1>3, <1>4, <1>6, InsertedIsPut
  <2>2. Between(mapNodeList, f.index, key)
    BY <1>2, <1>6 DEF IsPlace, Between
  <2>3. mapNodeList' \in Seq(Pairs) /\ Rising(mapNodeList') /\ Lists(mapNodeList', dictionary')
    BY <1>1, <1>3, <1>4, <2>1, <2>2, PutInOrder
  <2> QED BY <2>3 DEF MapInv
<1> QED BY <1>5, <1>6

LEMMA RemovalKeeps ==
  ASSUME MapInv, NEW index \in 0 .. Len(mapNodeList) - 1,
         mapNodeList' = RemoveAt(mapNodeList, index + 1),
         dictionary' = [k \in DOMAIN dictionary \ {mapNodeList[index + 1][1]} |-> dictionary[k]]
  PROVE  MapInv'
<1>1. mapNodeList \in Seq(Pairs) /\ Rising(mapNodeList) /\ Lists(mapNodeList, dictionary)
  BY DEF MapInv
<1>2. IsTaken(Pairs, mapNodeList', mapNodeList, index)
  BY <1>1, RemovedIsTaken
<1>3. /\ DOMAIN dictionary' = DOMAIN dictionary \ {mapNodeList[index + 1][1]}
      /\ \A k \in DOMAIN dictionary' : dictionary'[k] = dictionary[k]
  OBVIOUS
<1>4. mapNodeList' \in Seq(Pairs) /\ Rising(mapNodeList') /\ Lists(mapNodeList', dictionary')
  BY <1>1, <1>2, <1>3, TakenInOrder
<1> QED BY <1>4 DEF MapInv

LEMMA DeleteKeeps ==
  ASSUME MapInv, NEW key \in MapKeys, MapDelete(key) \/ MapPopMissing(key)
  PROVE  MapInv'
<1> DEFINE f == Found(key)
<1>1. IsPlace(mapNodeList, Len(mapNodeList), key, f) /\ Len(mapNodeList) \in Nat
  BY MapSearch DEF MapInv
<1>2. /\ f.exists \/ f.index < Len(mapNodeList)
      /\ mapNodeList' = RemoveAt(mapNodeList, f.index + 1)
      /\ dictionary' = [k \in DOMAIN dictionary
                            \ {IF f.exists THEN key ELSE mapNodeList[f.index + 1][1]} |-> dictionary[k]]
  BY DEF MapDelete, MapPopMissing
<1> HIDE DEF f
<1>3. f.index \in 0 .. Len(mapNodeList) - 1 /\ (f.exists => mapNodeList[f.index + 1][1] = key)
  BY <1>1, <1>2 DEF IsPlace
<1>4. dictionary' = [k \in DOMAIN dictionary \ {mapNodeList[f.index + 1][1]} |-> dictionary[k]]
  BY <1>2, <1>3
<1> QED BY <1>2, <1>3, <1>4, RemovalKeeps

LEMMA EmptyMap ==
  ASSUME NEW d, d = << >>
  PROVE  << >> \in Seq(Pairs) /\ Rising(<< >>) /\ Lists(<< >>, d)
<1>1. << >> \in Seq(Pairs) /\ Len(<< >>) = 0 /\ DOMAIN << >> = {}
  BY EmptySeq
<1>2. \A i \in 1 .. 0 : FALSE
  OBVIOUS
<1>3. Rising(<< >>)
  BY <1>1, <1>2 DEF Rising
<1> QED BY <1>1, <1>2, <1>3 DEF Lists

THEOREM MapInvariance == MapSpec => []MapInv
<1>1. MapInit => MapInv
  BY EmptyMap DEF MapInit, MapInv
<1>2. MapInv /\ [MapNext]_mapVars => MapInv'
  <2> SUFFICES ASSUME MapInv, [MapNext]_mapVars PROVE MapInv'
    OBVIOUS
  <2>1. CASE UNCHANGED mapVars
    BY <2>1 DEF MapInv, mapVars
  <2>2. ASSUME NEW key \in MapKeys, MapSetNewAgain(key) PROVE MapInv'
    BY <2>2 DEF MapSetNewAgain, MapInv, mapVars
  <2>3. CASE MapClear
    BY <2>3, EmptyMap DEF MapClear, MapInv
  <2> QED BY <2>1, <2>2, <2>3, SetKeeps, DeleteKeeps DEF MapNext
<1> QED BY <1>1, <1>2, PTL DEF MapSpec

\* The keys below another are as many as the places before its.
LEMMA KeysBelow ==
  ASSUME NEW s \in Seq(Pairs), Rising(s), NEW d, Lists(s, d), NEW key \in Int,
         NEW index \in 0 .. Len(s),
         \A i \in 1 .. Len(s) : (s[i][1] < key) <=> (i <= index)
  PROVE  Cardinality({k \in DOMAIN d : k < key}) = index
<1> DEFINE P == {k \in DOMAIN d : k < key}
           c == [i \in 0 .. index - 1 |-> s[i + 1][1]]
<1>1. /\ Len(s) \in Nat /\ index \in Nat /\ index <= Len(s)
      /\ \A i \in 1 .. Len(s) : s[i][1] \in Int /\ s[i][1] \in DOMAIN d
      /\ \A i, j \in 1 .. Len(s) : i < j => s[i][1] < s[j][1]
  <2>1. Len(s) \in Nat /\ \A i \in 1 .. Len(s) : s[i][1] \in Int
    BY PairsHaveKeys
  <2>2. index \in Nat /\ index <= Len(s)
    BY <2>1
  <2>3. \A i \in 1 .. Len(s) : s[i][1] \in DOMAIN d
    BY DEF Lists
  <2>4. \A i, j \in 1 .. Len(s) : i < j => s[i][1] < s[j][1]
    BY DEF Rising
  <2> QED BY <2>1, <2>2, <2>3, <2>4
<1>2. \A i \in 0 .. index - 1 : i + 1 \in 1 .. Len(s) /\ i + 1 <= index /\ c[i] = s[i + 1][1]
  BY <1>1
<1> HIDE DEF c
<1>3. \A i \in 0 .. index - 1 : c[i] \in P
  BY <1>1, <1>2
<1>4. ASSUME NEW i \in 0 .. index - 1, NEW j \in 0 .. index - 1, c[i] = c[j] PROVE i = j
  <2>1. s[i + 1][1] = s[j + 1][1] /\ s[i + 1][1] \in Int
    BY <1>1, <1>2, <1>4
  <2>2. i + 1 \in 1 .. Len(s) /\ j + 1 \in 1 .. Len(s)
    BY <1>2
  <2>3. i + 1 < j + 1 => s[i + 1][1] < s[j + 1][1]
    BY <1>1, <2>2
  <2>4. j + 1 < i + 1 => s[j + 1][1] < s[i + 1][1]
    BY <1>1, <2>2
  <2>5. ~(i + 1 < j + 1) /\ ~(j + 1 < i + 1)
    BY <2>1, <2>3, <2>4
  <2> QED BY <2>5
<1>5. ASSUME NEW k \in P PROVE \E i \in 0 .. index - 1 : c[i] = k
  <2>1. PICK i \in 1 .. Len(s) : s[i][1] = k
    BY DEF Lists
  <2>2. i <= index
    BY <2>1
  <2>3. i - 1 \in 0 .. index - 1 /\ (i - 1) + 1 = i
    BY <1>1, <2>2
  <2> QED BY <1>2, <2>1, <2>3
<1> HIDE DEF P
<1>6. Cardinality(P) = index
  BY <1>1, <1>3, <1>4, <1>5, CountedByNumbers
<1> QED BY <1>6 DEF P

\* For any keys: the list is the dictionary in order, and the binary search finds
\* every key in it and for every other one the place that keeps the order.
THEOREM MapCorrect == MapSpec => []MapIsDictionary
<1>1. MapInv => MapIsDictionary
  <2> SUFFICES ASSUME MapInv PROVE MapIsDictionary
    OBVIOUS
  <2>1. mapNodeList \in Seq(Pairs) /\ Rising(mapNodeList) /\ Lists(mapNodeList, dictionary)
    BY DEF MapInv
  <2>2. /\ Len(mapNodeList) \in Nat /\ DOMAIN mapNodeList = 1 .. Len(mapNodeList)
        /\ \A i \in 1 .. Len(mapNodeList) :
             mapNodeList[i] = <<mapNodeList[i][1], mapNodeList[i][2]>> /\ mapNodeList[i][1] \in Int
        /\ \A i, j \in 1 .. Len(mapNodeList) : i < j => mapNodeList[i][1] < mapNodeList[j][1]
    BY <2>1, PairsHaveKeys DEF Rising
  <2>3. \A i \in 1 .. Len(mapNodeList) - 1 : mapNodeList[i][1] < mapNodeList[i + 1][1]
    <3>1. \A i \in 1 .. Len(mapNodeList) - 1 :
            i \in 1 .. Len(mapNodeList) /\ i + 1 \in 1 .. Len(mapNodeList) /\ i < i + 1
      BY <2>2
    <3> QED BY <2>2, <3>1
  <2>4. ToSet(mapNodeList) = {<<k, dictionary[k]>> : k \in DOMAIN dictionary}
    <3>1. ASSUME NEW i \in 1 .. Len(mapNodeList)
          PROVE  \E k \in DOMAIN dictionary : mapNodeList[i] = <<k, dictionary[k]>>
      <4>1. /\ mapNodeList[i] = <<mapNodeList[i][1], mapNodeList[i][2]>>
            /\ mapNodeList[i][1] \in DOMAIN dictionary
            /\ dictionary[mapNodeList[i][1]] = mapNodeList[i][2]
        BY <2>1, <2>2 DEF Lists
      <4> QED BY <4>1
    <3>2. ASSUME NEW k \in DOMAIN dictionary
          PROVE  \E i \in 1 .. Len(mapNodeList) : mapNodeList[i] = <<k, dictionary[k]>>
      <4>1. PICK i \in 1 .. Len(mapNodeList) : mapNodeList[i][1] = k
        BY <2>1 DEF Lists
      <4>2. dictionary[mapNodeList[i][1]] = mapNodeList[i][2]
        BY <2>1 DEF Lists
      <4> QED BY <2>2, <4>1, <4>2
    <3>3. ToSet(mapNodeList) = {mapNodeList[i] : i \in 1 .. Len(mapNodeList)}
      BY <2>2 DEF ToSet
    <3>4. ToSet(mapNodeList) \subseteq {<<k, dictionary[k]>> : k \in DOMAIN dictionary}
      BY <3>1, <3>3
    <3>5. {<<k, dictionary[k]>> : k \in DOMAIN dictionary} \subseteq ToSet(mapNodeList)
      BY <3>2, <3>3, Zenon
    <3> QED BY <3>4, <3>5
  <2>5. ASSUME NEW key \in MapKeys
        PROVE  Found(key) = [index  |-> Cardinality({k \in DOMAIN dictionary : k < key}),
                             exists |-> key \in DOMAIN dictionary]
    <3> DEFINE f == Found(key)
    <3>1. IsPlace(mapNodeList, Len(mapNodeList), key, f)
      BY MapSearch
    <3> HIDE DEF f
    <3>2. /\ f = [index |-> f.index, exists |-> f.exists] /\ f.exists \in BOOLEAN
          /\ f.index \in 0 .. Len(mapNodeList) /\ key \in Int
      BY <3>1, OrderedMapAssumption DEF IsPlace
    <3>3. ASSUME NEW i \in 1 .. Len(mapNodeList)
          PROVE  (mapNodeList[i][1] < key) <=> (i <= f.index)
      <4>1. CASE f.exists
        <5>1. f.index + 1 \in 1 .. Len(mapNodeList) /\ mapNodeList[f.index + 1][1] = key
          BY <2>2, <3>1, <3>2, <4>1 DEF IsPlace
        <5>2. CASE i <= f.index
          <6>1. i < f.index + 1
            BY <3>2, <5>2
          <6> QED BY <2>2, <5>1, <5>2, <6>1
        <5>3. CASE i = f.index + 1
          BY <2>2, <3>2, <5>1, <5>3
        <5>4. CASE i > f.index + 1
          <6>1. mapNodeList[f.index + 1][1] < mapNodeList[i][1]
            BY <2>2, <5>1, <5>4
          <6>2. ~(i <= f.index) /\ mapNodeList[i][1] \in Int
            BY <2>2, <3>2, <5>4
          <6> QED BY <3>2, <5>1, <6>1, <6>2
        <5> QED BY <2>2, <3>2, <5>2, <5>3, <5>4
      <4>2. CASE ~f.exists
        <5>1. (i <= f.index => mapNodeList[i][1] < key) /\ (i > f.index => key < mapNodeList[i][1])
          BY <3>1, <4>2 DEF IsPlace
        <5>2. mapNodeList[i][1] \in Int /\ (i <= f.index \/ i > f.index)
          BY <2>2, <3>2
        <5> QED BY <3>2, <5>1, <5>2
      <4> QED BY <4>1, <4>2
    <3>4. Cardinality({k \in DOMAIN dictionary : k < key}) = f.index
      BY <2>1, <3>2, <3>3, KeysBelow
    <3>5. f.exists = (key \in DOMAIN dictionary)
      <4>1. ASSUME f.exists PROVE key \in DOMAIN dictionary
        <5>1. f.index + 1 \in 1 .. Len(mapNodeList) /\ mapNodeList[f.index + 1][1] = key
          BY <2>2, <3>1, <3>2, <4>1 DEF IsPlace
        <5> QED BY <2>1, <5>1 DEF Lists
      <4>2. ASSUME ~f.exists, key \in DOMAIN dictionary PROVE FALSE
        <5>1. PICK i \in 1 .. Len(mapNodeList) : mapNodeList[i][1] = key
          BY <2>1, <4>2 DEF Lists
        <5>2. i <= f.index \/ i > f.index
          BY <2>2, <3>2
        <5>3. key < key
          BY <3>1, <4>2, <5>1, <5>2 DEF IsPlace
        <5> QED BY <3>2, <5>3
      <4>3. f.exists <=> (key \in DOMAIN dictionary)
        BY <4>1, <4>2
      <4> QED BY <3>2, <4>3
    <3> QED BY <3>2, <3>4, <3>5, Zenon DEF f
  <2> QED BY <2>3, <2>4, <2>5 DEF MapIsDictionary
<1> QED BY <1>1, MapInvariance, PTL

-----------------------------------------------------------------------------
(***************************************************************************)
(* The ranges.  Their first numbers do not fall, and an insertion adds the *)
(* number inserted and no other, wherever the search has put it.           *)
(***************************************************************************)
Numbers == 0 .. Modulus - 1
Ranges == {r \in Numbers \X Numbers : r[1] <= r[2]}
Covers(s, x) == \E i \in 1 .. Len(s) : s[i][1] <= x /\ x <= s[i][2]
InOrder(s) == \A i, j \in 1 .. Len(s) : i <= j => s[i][1] <= s[j][1]
Apart(s) == \A i, j \in 1 .. Len(s) : i < j => s[i][2] < s[j][1]
\* t is s with one number more.
WithNumber(t, s, x) ==
  /\ t \in Seq(Ranges) /\ InOrder(t)
  /\ \A y \in Int : Covers(t, y) <=> (Covers(s, y) \/ y = x)
  /\ Apart(s) /\ ~Covers(s, x) => Apart(t)
IsRanges(s) ==
  /\ Len(s) \in Nat /\ DOMAIN s = 1 .. Len(s)
  /\ \A i \in 1 .. Len(s) : /\ s[i][1] \in Int /\ s[i][2] \in Int
                            /\ 0 <= s[i][1] /\ s[i][1] <= s[i][2] /\ s[i][2] < Modulus

LEMMA RangesAre ==
  ASSUME NEW s \in Seq(Ranges)
  PROVE  IsRanges(s)
<1>1. Modulus \in Nat
  BY RangeListAssumption
<1>2. ASSUME NEW r \in Ranges
      PROVE  /\ r[1] \in Int /\ r[2] \in Int
             /\ 0 <= r[1] /\ r[1] <= r[2] /\ r[2] < Modulus
  BY <1>1 DEF Ranges, Numbers
<1>3. \A i \in 1 .. Len(s) : s[i] \in Ranges
  OBVIOUS
<1> QED BY <1>2, <1>3 DEF IsRanges

LEMMA CoveredIs ==
  ASSUME NEW s \in Seq(Ranges)
  PROVE  Covered(s) = {x \in Int : Covers(s, x)}
<1>1. IsRanges(s)
  BY RangesAre
<1>2. ToSet(s) = {s[i] : i \in 1 .. Len(s)}
  BY <1>1 DEF ToSet, IsRanges
<1>3. \A x : x \in Covered(s) <=> \E i \in 1 .. Len(s) : x \in s[i][1] .. s[i][2]
  BY <1>2, Zenon DEF Covered
<1>4. \A x : \A i \in 1 .. Len(s) : x \in s[i][1] .. s[i][2] <=> x \in Int /\ s[i][1] <= x /\ x <= s[i][2]
  BY <1>1 DEF IsRanges
<1>5. \A x : x \in Covered(s) <=> x \in Int /\ Covers(s, x)
  BY <1>3, <1>4, Zenon DEF Covers
<1> QED BY <1>5, Zenon

LEMMA PutGrows ==
  ASSUME NEW s \in Seq(Ranges), InOrder(s), NEW x \in Numbers, NEW n \in 0 .. Len(s), NEW t,
         IsPut(Ranges, t, s, n, <<x, x>>),
         \A i \in 1 .. Len(s) : (i <= n => s[i][1] <= x) /\ (i > n => x <= s[i][1])
  PROVE  WithNumber(t, s, x)
<1>1. IsRanges(s) /\ t \in Seq(Ranges) /\ Len(t) = Len(s) + 1 /\ IsRanges(t)
  BY RangesAre DEF IsPut
<1>2. /\ \A k \in 1 .. n : k \in 1 .. Len(s) /\ k \in 1 .. Len(t) /\ t[k] = s[k]
      /\ n + 1 \in 1 .. Len(t) /\ t[n + 1] = <<x, x>>
      /\ \A k \in n + 2 .. Len(t) : k - 1 \in n + 1 .. Len(s) /\ k - 1 \in 1 .. Len(s) /\ t[k] = s[k - 1]
      /\ \A k \in n + 1 .. Len(s) : k + 1 \in n + 2 .. Len(t) /\ k + 1 \in 1 .. Len(t) /\ t[k + 1] = s[k]
      /\ \A k \in 1 .. Len(s) : k <= n \/ k \in n + 1 .. Len(s)
      /\ \A k \in 1 .. Len(t) : k \in 1 .. n \/ k = n + 1 \/ k \in n + 2 .. Len(t)
  BY <1>1 DEF IsRanges, IsPut
<1>3. InOrder(t)
  <2> SUFFICES ASSUME NEW i \in 1 .. Len(t), NEW j \in 1 .. Len(t), i <= j
               PROVE  t[i][1] <= t[j][1]
    BY DEF InOrder
  <2>1. CASE i \in 1 .. n /\ j \in 1 .. n
    BY <1>2, <2>1 DEF InOrder
  <2>2. CASE i \in 1 .. n /\ j = n + 1
    <3>1. i \in 1 .. Len(s) /\ i <= n /\ t[i] = s[i] /\ t[j] = <<x, x>>
      BY <1>2, <2>2
    <3> QED BY <3>1
  <2>3. CASE i \in 1 .. n /\ j \in n + 2 .. Len(t)
    <3>1. i <= j - 1
      BY <2>3
    <3>2. i \in 1 .. Len(s) /\ j - 1 \in 1 .. Len(s) /\ t[i] = s[i] /\ t[j] = s[j - 1]
      BY <1>2, <2>3
    <3>3. s[i][1] <= s[j - 1][1]
      BY <3>1, <3>2 DEF InOrder
    <3> QED BY <3>2, <3>3
  <2>4. CASE i = n + 1 /\ j = n + 1
    <3>1. t[n + 1][1] = x /\ x <= x
      BY <1>1, <1>2 DEF Numbers
    <3> QED BY <2>4, <3>1
  <2>5. CASE i = n + 1 /\ j \in n + 2 .. Len(t)
    <3>1. j - 1 \in 1 .. Len(s) /\ j - 1 > n /\ t[j] = s[j - 1] /\ t[i] = <<x, x>>
      BY <1>1, <1>2, <2>5 DEF IsRanges
    <3> QED BY <3>1
  <2>6. CASE i \in n + 2 .. Len(t) /\ j \in n + 2 .. Len(t)
    <3>1. i - 1 <= j - 1
      BY <2>6
    <3>2. i - 1 \in 1 .. Len(s) /\ j - 1 \in 1 .. Len(s) /\ t[i] = s[i - 1] /\ t[j] = s[j - 1]
      BY <1>2, <2>6
    <3>3. s[i - 1][1] <= s[j - 1][1]
      BY <3>1, <3>2 DEF InOrder
    <3> QED BY <3>2, <3>3
  <2>7. i > n => j > n
    BY <1>1
  <2> QED BY <1>1, <1>2, <2>1, <2>2, <2>3, <2>4, <2>5, <2>6, <2>7
<1>4. ASSUME NEW y \in Int PROVE Covers(t, y) <=> (Covers(s, y) \/ y = x)
  <2>1. ASSUME Covers(t, y) PROVE Covers(s, y) \/ y = x
    <3>1. PICK k \in 1 .. Len(t) : t[k][1] <= y /\ y <= t[k][2]
      BY <2>1 DEF Covers
    <3>2. CASE k \in 1 .. n
      BY <1>2, <3>1, <3>2 DEF Covers
    <3>3. CASE k = n + 1
      BY <1>2, <3>1, <3>3 DEF Numbers
    <3>4. CASE k \in n + 2 .. Len(t)
      BY <1>2, <3>1, <3>4 DEF Covers
    <3> QED BY <1>2, <3>2, <3>3, <3>4
  <2>2. ASSUME y = x PROVE Covers(t, y)
    <3>1. t[n + 1][1] <= y /\ y <= t[n + 1][2]
      BY <1>2, <2>2
    <3> QED BY <1>2, <3>1 DEF Covers
  <2>3. ASSUME Covers(s, y) PROVE Covers(t, y)
    <3>1. PICK k \in 1 .. Len(s) : s[k][1] <= y /\ y <= s[k][2]
      BY <2>3 DEF Covers
    <3>2. CASE k <= n
      <4>1. k \in 1 .. n
        BY <3>2
      <4> QED BY <1>2, <3>1, <4>1 DEF Covers
    <3>3. CASE k \in n + 1 .. Len(s)
      BY <1>2, <3>1, <3>3 DEF Covers
    <3> QED BY <1>2, <3>2, <3>3
  <2> QED BY <2>1, <2>2, <2>3
<1>5. ASSUME Apart(s), ~Covers(s, x) PROVE Apart(t)
  <2> SUFFICES ASSUME NEW i \in 1 .. Len(t), NEW j \in 1 .. Len(t), i < j
               PROVE  t[i][2] < t[j][1]
    BY DEF Apart
  <2>1. CASE i \in 1 .. n /\ j \in 1 .. n
    BY <1>2, <1>5, <2>1 DEF Apart
  <2>2. CASE i \in 1 .. n /\ j = n + 1
    <3>1. s[i][1] <= x /\ ~(s[i][1] <= x /\ x <= s[i][2])
      BY <1>2, <1>5, <2>2 DEF Covers
    <3>2. s[i][2] < x
      BY <1>1, <1>2, <2>2, <3>1 DEF IsRanges, Numbers
    <3>3. t[i] = s[i] /\ t[j] = <<x, x>>
      BY <1>2, <2>2
    <3>4. t[i][2] = s[i][2] /\ t[j][1] = x
      BY <3>3
    <3> QED BY <3>2, <3>4
  <2>3. CASE i \in 1 .. n /\ j \in n + 2 .. Len(t)
    <3>1. i < j - 1
      BY <2>3
    <3>2. i \in 1 .. Len(s) /\ j - 1 \in 1 .. Len(s) /\ t[i] = s[i] /\ t[j] = s[j - 1]
      BY <1>2, <2>3
    <3>3. s[i][2] < s[j - 1][1]
      BY <1>5, <3>1, <3>2 DEF Apart
    <3> QED BY <3>2, <3>3
  <2>4. CASE i = n + 1 /\ j \in n + 2 .. Len(t)
    <3>1. j - 1 \in 1 .. Len(s) /\ j - 1 > n /\ t[j] = s[j - 1]
      BY <1>2, <2>4
    <3>2. x <= s[j - 1][1] /\ ~(s[j - 1][1] <= x /\ x <= s[j - 1][2])
      BY <1>5, <3>1 DEF Covers
    <3>3. x < s[j - 1][1]
      BY <1>1, <3>1, <3>2 DEF IsRanges, Numbers
    <3> QED BY <1>2, <2>4, <3>1, <3>3
  <2>5. CASE i \in n + 2 .. Len(t) /\ j \in n + 2 .. Len(t)
    <3>1. i - 1 < j - 1
      BY <2>5
    <3>2. i - 1 \in 1 .. Len(s) /\ j - 1 \in 1 .. Len(s) /\ t[i] = s[i - 1] /\ t[j] = s[j - 1]
      BY <1>2, <2>5
    <3>3. s[i - 1][2] < s[j - 1][1]
      BY <1>5, <3>1, <3>2 DEF Apart
    <3> QED BY <3>2, <3>3
  <2>6. (i > n => j > n) /\ (i = n + 1 => j # n + 1) /\ (i \in n + 2 .. Len(t) => j \in n + 2 .. Len(t))
    BY <1>1
  <2> QED BY <1>1, <1>2, <2>1, <2>2, <2>3, <2>4, <2>5, <2>6
<1> QED BY <1>1, <1>3, <1>4, <1>5 DEF WithNumber

\* A range with one number more, at its end or before its first one.
IsWidened(t, s, p, first, last) ==
  /\ t \in Seq(Ranges) /\ Len(t) = Len(s) /\ p \in 1 .. Len(s)
  /\ t[p] = <<first, last>>
  /\ \A i \in 1 .. Len(s) : i # p => t[i] = s[i]

LEMMA WidenedIs ==
  ASSUME NEW s \in Seq(Ranges), NEW p \in 1 .. Len(s), NEW first \in Numbers, NEW last \in Numbers,
         first <= last
  PROVE  IsWidened([s EXCEPT ![p] = <<first, last>>], s, p, first, last)
<1>1. <<first, last>> \in Ranges
  BY DEF Ranges
<1> DEFINE t == [s EXCEPT ![p] = <<first, last>>]
<1>2. t \in Seq(Ranges) /\ Len(t) = Len(s) /\ t[p] = <<first, last>>
  BY <1>1
<1>3. \A i \in 1 .. Len(s) : i # p => t[i] = s[i]
  OBVIOUS
<1> QED BY <1>2, <1>3 DEF IsWidened

LEMMA WidenedGrows ==
  ASSUME NEW s \in Seq(Ranges), InOrder(s), NEW x \in Numbers, NEW p, NEW first, NEW last, NEW t,
         IsWidened(t, s, p, first, last),
         \/ p = Len(s) /\ first = s[p][1] /\ x = s[p][2] + 1 /\ last = x
         \/ first = x /\ x = s[p][1] - 1 /\ last = s[p][2] /\ \A i \in 1 .. p - 1 : s[i][1] < x
  PROVE  WithNumber(t, s, x)
<1>1. IsRanges(s) /\ t \in Seq(Ranges) /\ Len(t) = Len(s) /\ IsRanges(t) /\ p \in 1 .. Len(s)
  BY RangesAre DEF IsWidened
<1>2. /\ \A i \in 1 .. Len(s) : i # p => t[i] = s[i]
      /\ t[p][1] = first /\ t[p][2] = last
  BY DEF IsWidened
<1>0. /\ \A i \in 1 .. Len(s) : s[i][1] \in Int /\ s[i][2] \in Int /\ s[i][1] <= s[i][2]
      /\ Len(s) \in Nat /\ p \in 1 .. Len(s) /\ Len(t) = Len(s) /\ x \in Int
  <2>1. /\ \A i \in 1 .. Len(s) : s[i][1] \in Int /\ s[i][2] \in Int /\ s[i][1] <= s[i][2]
        /\ Len(s) \in Nat
    BY RangesAre DEF IsRanges
  <2> QED BY <1>1, <2>1 DEF Numbers
<1> DEFINE a == s[p][1]
           b == s[p][2]
<1>7. a \in Int /\ b \in Int /\ a <= b
  BY <1>0
<1>8. \/ p = Len(s) /\ first = a /\ x = b + 1 /\ last = x
      \/ first = x /\ x = a - 1 /\ last = b /\ \A i \in 1 .. p - 1 : s[i][1] < x
  OBVIOUS
<1>9. \A i \in 1 .. Len(s) : i < p => s[i][1] <= a
  BY <1>0 DEF InOrder
<1> HIDE DEF a, b
<1>3. /\ first <= a /\ b <= last
      /\ \A y \in Int : (first <= y /\ y <= last) <=> ((a <= y /\ y <= b) \/ y = x)
      /\ p < Len(s) => last = b
      /\ first \in Int /\ last \in Int /\ x \in Int
  BY <1>0, <1>7, <1>8
<1>10. ASSUME NEW i \in 1 .. Len(s), i < p PROVE s[i][1] <= first
  <2>1. i \in 1 .. p - 1 /\ s[i][1] \in Int
    BY <1>0, <1>10
  <2> QED BY <1>0, <1>7, <1>8, <1>9, <1>10, <2>1
<1> USE DEF a, b
<1>4. InOrder(t)
  <2> SUFFICES ASSUME NEW i \in 1 .. Len(t), NEW j \in 1 .. Len(t), i <= j
               PROVE  t[i][1] <= t[j][1]
    BY DEF InOrder
  <2>1. s[i][1] <= s[j][1] /\ s[i][1] \in Int /\ s[j][1] \in Int
    <3>1. s[i][2] \in Int /\ s[i][1] \in Int /\ s[j][1] \in Int
      BY <1>0
    <3>2. s[i][1] <= s[j][1]
      BY <1>0 DEF InOrder
    <3> QED BY <3>1, <3>2
  <2>2. CASE i = p /\ j = p
    BY <1>2, <1>3, <2>2
  <2>3. CASE i = p /\ j # p
    BY <1>0, <1>2, <1>3, <2>1, <2>3
  <2>4. CASE i # p /\ j = p
    <3>1. i < p
      BY <1>0, <2>4
    <3> QED BY <1>0, <1>2, <1>10, <2>4, <3>1
  <2>5. CASE i # p /\ j # p
    BY <1>1, <1>2, <2>1, <2>5
  <2> QED BY <2>2, <2>3, <2>4, <2>5
<1>5. ASSUME NEW y \in Int PROVE Covers(t, y) <=> (Covers(s, y) \/ y = x)
  <2>1. ASSUME Covers(t, y) PROVE Covers(s, y) \/ y = x
    <3>1. PICK k \in 1 .. Len(s) : t[k][1] <= y /\ y <= t[k][2]
      BY <1>1, <2>1 DEF Covers
    <3>2. CASE k = p
      BY <1>1, <1>2, <1>3, <3>1, <3>2 DEF Covers
    <3>3. CASE k # p
      BY <1>2, <3>1, <3>3 DEF Covers
    <3> QED BY <3>2, <3>3
  <2>2. ASSUME y = x PROVE Covers(t, y)
    BY <1>1, <1>2, <1>3, <2>2 DEF Covers
  <2>3. ASSUME Covers(s, y) PROVE Covers(t, y)
    <3>1. PICK k \in 1 .. Len(s) : s[k][1] <= y /\ y <= s[k][2]
      BY <2>3 DEF Covers
    <3>2. CASE k = p
      BY <1>1, <1>2, <1>3, <3>1, <3>2 DEF Covers
    <3>3. CASE k # p
      BY <1>1, <1>2, <3>1, <3>3 DEF Covers
    <3> QED BY <3>2, <3>3
  <2> QED BY <2>1, <2>2, <2>3
<1>6. ASSUME Apart(s), ~Covers(s, x) PROVE Apart(t)
  <2> SUFFICES ASSUME NEW i \in 1 .. Len(t), NEW j \in 1 .. Len(t), i < j
               PROVE  t[i][2] < t[j][1]
    BY DEF Apart
  <2>1. s[i][2] < s[j][1] /\ s[i][2] \in Int /\ s[j][1] \in Int
    <3>1. s[i][2] \in Int /\ s[i][1] \in Int /\ s[j][1] \in Int
      BY <1>0
    <3>2. s[i][2] < s[j][1]
      BY <1>0, <1>6 DEF Apart
    <3> QED BY <3>1, <3>2
  <2>2. CASE i = p
    <3>1. p < Len(s) /\ j # p
      BY <1>1, <2>2
    <3> QED BY <1>1, <1>2, <1>3, <2>1, <2>2, <3>1
  <2>3. CASE i # p /\ j = p
    <3>1. CASE first = s[p][1]
      BY <1>1, <1>2, <2>1, <2>3, <3>1
    <3>2. CASE first = x
      <4>1. ~(s[i][1] <= x /\ x <= s[i][2]) /\ s[i][1] <= x
        BY <1>0, <1>3, <1>6, <1>10, <2>3, <3>2 DEF Covers
      <4>2. s[i][2] < x
        BY <1>1, <1>3, <2>1, <4>1
      <4> QED BY <1>1, <1>2, <2>3, <3>2, <4>2
    <3> QED BY <3>1, <3>2
  <2>4. CASE i # p /\ j # p
    BY <1>1, <1>2, <2>1, <2>4
  <2> QED BY <2>2, <2>3, <2>4
<1> QED BY <1>1, <1>4, <1>5, <1>6 DEF WithNumber

\* Two ranges that the number between them joins.
IsJoined(t, s, p) ==
  /\ t \in Seq(Ranges) /\ Len(t) = Len(s) - 1 /\ p \in 2 .. Len(s)
  /\ t[p - 1] = <<s[p - 1][1], s[p][2]>>
  /\ \A i \in 1 .. p - 2 : t[i] = s[i]
  /\ \A i \in p .. Len(s) - 1 : t[i] = s[i + 1]

LEMMA JoinedIs ==
  ASSUME ranges \in Seq(Ranges), InOrder(ranges), NEW p \in 2 .. Len(ranges)
  PROVE  IsJoined(Joined(p), ranges, p)
<1> DEFINE u == [ranges EXCEPT ![p - 1] = <<@[1], ranges[p][2]>>]
           a == ranges[p - 1][1]
           b == ranges[p][2]
<1>1. IsRanges(ranges) /\ p - 1 \in 1 .. Len(ranges) /\ p \in 1 .. Len(ranges) /\ p - 1 \in Nat
  BY RangesAre DEF IsRanges
<1>2. a \in Numbers /\ b \in Numbers /\ a <= b
  <2>1. a <= ranges[p][1]
    BY <1>1 DEF InOrder
  <2>2. /\ a \in Int /\ ranges[p][1] \in Int /\ b \in Int
        /\ 0 <= a /\ ranges[p][1] <= b /\ b < Modulus
    BY <1>1 DEF IsRanges
  <2> QED BY <2>1, <2>2, RangeListAssumption DEF Numbers
<1>3. u = [ranges EXCEPT ![p - 1] = <<a, b>>]
  OBVIOUS
<1> HIDE DEF a, b, u
<1>4. IsWidened(u, ranges, p - 1, a, b)
  BY <1>1, <1>2, <1>3, WidenedIs
<1>5. u \in Seq(Ranges) /\ Len(u) = Len(ranges) /\ p - 1 \in 0 .. Len(u) - 1 /\ (p - 1) + 1 = p
  BY <1>1, <1>4 DEF IsWidened, IsRanges
<1>6. IsTaken(Ranges, RemoveAt(u, (p - 1) + 1), u, p - 1)
  BY <1>5, RemovedIsTaken
<1>7. Joined(p) = RemoveAt(u, p)
  BY DEF Joined, u
<1>8. IsTaken(Ranges, Joined(p), u, p - 1)
  BY <1>5, <1>6, <1>7
<1>9. Joined(p)[p - 1] = <<a, b>>
  <2>1. p - 1 \in 1 .. Len(u) - 1
    BY <1>1, <1>5 DEF IsRanges
  <2>2. Joined(p)[p - 1] = u[p - 1]
    BY <1>8, <2>1 DEF IsTaken
  <2> QED BY <1>4, <2>2 DEF IsWidened
<1>10. ASSUME NEW i \in 1 .. p - 2 PROVE Joined(p)[i] = ranges[i]
  <2>1. i \in 1 .. Len(u) - 1 /\ i <= p - 1 /\ i # p - 1 /\ i \in 1 .. Len(ranges)
    BY <1>1, <1>5 DEF IsRanges
  <2> QED BY <1>4, <1>8, <2>1 DEF IsWidened, IsTaken
<1>11. ASSUME NEW i \in p .. Len(ranges) - 1 PROVE Joined(p)[i] = ranges[i + 1]
  <2>1. i \in 1 .. Len(u) - 1 /\ ~(i <= p - 1) /\ i + 1 # p - 1 /\ i + 1 \in 1 .. Len(ranges)
    BY <1>1, <1>5 DEF IsRanges
  <2> QED BY <1>4, <1>8, <2>1 DEF IsWidened, IsTaken
<1> QED BY <1>5, <1>8, <1>9, <1>10, <1>11 DEF IsJoined, IsTaken, a, b

LEMMA JoinedGrows ==
  ASSUME NEW s \in Seq(Ranges), InOrder(s), NEW x \in Numbers, NEW p, NEW t,
         IsJoined(t, s, p), x = s[p - 1][2] + 1, x = s[p][1] - 1
  PROVE  WithNumber(t, s, x)
<1>1. IsRanges(s) /\ t \in Seq(Ranges) /\ Len(t) = Len(s) - 1 /\ IsRanges(t) /\ p \in 2 .. Len(s)
  BY RangesAre DEF IsJoined
<1>2. /\ \A k \in 1 .. p - 2 : k \in 1 .. Len(s) /\ k \in 1 .. Len(t) /\ t[k] = s[k]
      /\ p - 1 \in 1 .. Len(t) /\ p - 1 \in 1 .. Len(s) /\ p \in 1 .. Len(s)
      /\ t[p - 1][1] = s[p - 1][1] /\ t[p - 1][2] = s[p][2]
      /\ \A k \in p .. Len(t) : k + 1 \in p + 1 .. Len(s) /\ k + 1 \in 1 .. Len(s) /\ t[k] = s[k + 1]
      /\ \A k \in p + 1 .. Len(s) : k - 1 \in p .. Len(t) /\ k - 1 \in 1 .. Len(t) /\ t[k - 1] = s[k]
      /\ \A k \in 1 .. Len(s) : k \in 1 .. p - 2 \/ k = p - 1 \/ k = p \/ k \in p + 1 .. Len(s)
      /\ \A k \in 1 .. Len(t) : k \in 1 .. p - 2 \/ k = p - 1 \/ k \in p .. Len(t)
  <2>1. Len(s) \in Nat
    BY <1>1 DEF IsRanges
  <2> QED BY <1>1, <2>1 DEF IsJoined
<1> DEFINE a == s[p - 1][1]
           b == s[p - 1][2]
           c == s[p][1]
           d == s[p][2]
<1>3. /\ a \in Int /\ b \in Int /\ c \in Int /\ d \in Int /\ x \in Int
      /\ a <= b /\ b + 1 = x /\ x = c - 1 /\ c <= d
  <2>1. a \in Int /\ b \in Int /\ c \in Int /\ d \in Int /\ a <= b /\ c <= d
    BY <1>1, <1>2 DEF IsRanges
  <2>2. x = b + 1 /\ x = c - 1
    OBVIOUS
  <2> HIDE DEF a, b, c, d
  <2> QED BY <2>1, <2>2
<1>4. t[p - 1][1] = a /\ t[p - 1][2] = d
  BY <1>2
<1>5. InOrder(t)
  <2> SUFFICES ASSUME NEW i \in 1 .. Len(t), NEW j \in 1 .. Len(t), i <= j
               PROVE  t[i][1] <= t[j][1]
    BY DEF InOrder
  <2> DEFINE at(k) == IF k <= p - 1 THEN k ELSE k + 1
  <2>1. ASSUME NEW k \in 1 .. Len(t) PROVE at(k) \in 1 .. Len(s) /\ t[k][1] = s[at(k)][1]
    <3>1. CASE k \in 1 .. p - 2
      <4>1. at(k) = k
        BY <1>1, <3>1
      <4> QED BY <1>2, <3>1, <4>1
    <3>2. CASE k = p - 1
      <4>1. at(k) = k
        BY <3>2
      <4> QED BY <1>2, <3>2, <4>1
    <3>3. CASE k \in p .. Len(t)
      <4>1. at(k) = k + 1
        BY <1>1, <3>3
      <4> QED BY <1>2, <3>3, <4>1
    <3> QED BY <1>2, <3>1, <3>2, <3>3
  <2>2. at(i) <= at(j)
    BY <1>1
  <2> HIDE DEF at
  <2> QED BY <2>1, <2>2 DEF InOrder
<1>6. ASSUME NEW y \in Int PROVE Covers(t, y) <=> (Covers(s, y) \/ y = x)
  <2>1. ASSUME Covers(t, y) PROVE Covers(s, y) \/ y = x
    <3>1. PICK k \in 1 .. Len(t) : t[k][1] <= y /\ y <= t[k][2]
      BY <2>1 DEF Covers
    <3>2. CASE k \in 1 .. p - 2
      BY <1>2, <3>1, <3>2 DEF Covers
    <3>3. CASE k = p - 1
      <4>1. a <= y /\ y <= d
        BY <1>4, <3>1, <3>3
      <4>2. (a <= y /\ y <= b) \/ y = x \/ (c <= y /\ y <= d)
        BY <1>3, <4>1, SMTT(30)
      <4> QED BY <1>2, <4>2 DEF Covers
    <3>4. CASE k \in p .. Len(t)
      BY <1>2, <3>1, <3>4 DEF Covers
    <3> QED BY <1>2, <3>2, <3>3, <3>4
  <2>2. ASSUME (a <= y /\ y <= b) \/ y = x \/ (c <= y /\ y <= d) PROVE Covers(t, y)
    <3> HIDE DEF a, b, c, d
    <3>1. a <= y /\ y <= d
      BY <1>3, <2>2
    <3>2. t[p - 1][1] <= y /\ y <= t[p - 1][2]
      BY <1>4, <3>1
    <3> QED BY <1>2, <3>2 DEF Covers
  <2>3. ASSUME Covers(s, y) PROVE Covers(t, y)
    <3>1. PICK k \in 1 .. Len(s) : s[k][1] <= y /\ y <= s[k][2]
      BY <2>3 DEF Covers
    <3>2. CASE k \in 1 .. p - 2
      BY <1>2, <3>1, <3>2 DEF Covers
    <3>3. CASE k = p - 1
      BY <2>2, <3>1, <3>3
    <3>4. CASE k = p
      BY <2>2, <3>1, <3>4
    <3>5. CASE k \in p + 1 .. Len(s)
      BY <1>2, <3>1, <3>5 DEF Covers
    <3> QED BY <1>2, <3>2, <3>3, <3>4, <3>5
  <2> QED BY <2>1, <2>2, <2>3
<1>7. ASSUME Apart(s) PROVE Apart(t)
  <2> SUFFICES ASSUME NEW i \in 1 .. Len(t), NEW j \in 1 .. Len(t), i < j
               PROVE  t[i][2] < t[j][1]
    BY DEF Apart
  <2> DEFINE from(k) == IF k <= p - 1 THEN k ELSE k + 1
             to(k) == IF k < p - 1 THEN k ELSE k + 1
  <2>1. \A k \in 1 .. Len(t) : /\ from(k) \in 1 .. Len(s) /\ t[k][1] = s[from(k)][1]
                               /\ to(k) \in 1 .. Len(s) /\ t[k][2] = s[to(k)][2]
    BY <1>1, <1>2, SMTT(30)
  <2>2. to(i) < from(j)
    BY <1>1
  <2> HIDE DEF from, to
  <2> QED BY <1>7, <2>1, <2>2 DEF Apart
<1> QED BY <1>1, <1>5, <1>6, <1>7 DEF WithNumber

\* The numbers next to a number, in their type.
LEMMA NeighboursAre ==
  ASSUME NEW x \in Numbers
  PROVE  /\ Below(x) = IF x = 0 THEN Modulus - 1 ELSE x - 1
         /\ Above(x) = IF x = Modulus - 1 THEN 0 ELSE x + 1
<1>1. Modulus \in Nat /\ Modulus > 1
  BY RangeListAssumption
<1>2. \A y \in 0 .. Modulus - 1 : y % Modulus = y
  BY <1>1, ModAdds, 0 \in Int
<1>3. CASE x = 0
  <2>1. (Modulus * (-1) + (Modulus - 1)) % Modulus = Modulus - 1
    <3>1. -1 \in Int /\ Modulus - 1 \in 0 .. Modulus - 1
      BY <1>1
    <3> QED BY <1>1, <3>1, ModUnique
  <2>2. Modulus * (-1) + (Modulus - 1) = x - 1
    BY <1>1, <1>3
  <2>3. Below(x) = Modulus - 1
    BY <2>1, <2>2 DEF Below
  <2>4. x + 1 \in 0 .. Modulus - 1 /\ x # Modulus - 1
    BY <1>1, <1>3
  <2> QED BY <1>2, <1>3, <2>3, <2>4 DEF Above
<1>4. CASE x # 0
  <2>1. x - 1 \in 0 .. Modulus - 1 /\ x \in Int
    BY <1>1, <1>4 DEF Numbers
  <2>2. Below(x) = x - 1
    BY <1>2, <2>1 DEF Below
  <2>3. CASE x = Modulus - 1
    <3>1. (Modulus * 1 + 0) % Modulus = 0
      <4>1. 1 \in Int /\ 0 \in 0 .. Modulus - 1
        BY <1>1
      <4> QED BY <1>1, <4>1, ModUnique
    <3>2. Modulus * 1 + 0 = x + 1
      BY <1>1, <2>3
    <3> QED BY <1>4, <2>2, <2>3, <3>1, <3>2 DEF Above
  <2>4. CASE x # Modulus - 1
    <3>1. x + 1 \in 0 .. Modulus - 1
      BY <1>1, <2>4 DEF Numbers
    <3> QED BY <1>2, <1>4, <2>2, <2>4, <3>1 DEF Above
  <2> QED BY <2>3, <2>4
<1> QED BY <1>3, <1>4

\* A number that is in the list already may leave it as it is.
LEMMA SameGrows ==
  ASSUME NEW s \in Seq(Ranges), InOrder(s), NEW x \in Numbers, Covers(s, x)
  PROVE  WithNumber(s, s, x)
  BY DEF WithNumber

LEMMA InsertGrows ==
  ASSUME ranges \in Seq(Ranges), InOrder(ranges), NEW index \in Numbers
  PROVE  WithNumber(Inserted(index), ranges, index)
<1> DEFINE at == PlaceOf(index)
           last == Len(ranges)
           one == <<index, index>>
           r == GetIndexFromKey(last, [i \in 0 .. last - 1 |-> Compare(index, ranges[i + 1][1])])
<1>1. /\ IsRanges(ranges) /\ last \in Nat /\ index \in Int /\ 0 <= index /\ index < Modulus
      /\ \A i \in 1 .. last : /\ ranges[i][1] \in Int /\ ranges[i][2] \in Int
                              /\ 0 <= ranges[i][1] /\ ranges[i][1] <= ranges[i][2]
                              /\ ranges[i][2] < Modulus
      /\ Modulus \in Int /\ Modulus > 1
  <2>1. IsRanges(ranges)
    BY RangesAre
  <2>2. Modulus \in Int /\ Modulus > 1
    BY RangeListAssumption
  <2> QED BY <2>1, <2>2 DEF IsRanges, Numbers
<1>2. one \in Ranges
  BY <1>1 DEF Ranges
<1>3. \A i \in 1 .. last : /\ ranges[i][1] \in Numbers /\ ranges[i][2] \in Numbers
  BY <1>1 DEF Numbers
<1>4. CASE last = 0
  <2>1. Inserted(index) = <<one>>
    BY <1>4 DEF Inserted
  <2>2. IsPut(Ranges, <<one>>, ranges, 0, one)
    <3>1. /\ <<one>> \in Seq(Ranges) /\ Len(<<one>>) = 1 /\ <<one>>[1] = one
      BY <1>2
    <3> QED BY <1>4, <3>1 DEF IsPut
  <2>3. \A i \in 1 .. last : (i <= 0 => ranges[i][1] <= index) /\ (i > 0 => index <= ranges[i][1])
    BY <1>4
  <2>4. 0 \in 0 .. last
    BY <1>4
  <2> HIDE DEF one
  <2> QED BY <2>1, <2>2, <2>3, <2>4, PutGrows DEF one
<1>5. CASE last > 0
  <2>1. IsPlace(ranges, last, index, r)
    <3>1. \A i, j \in 1 .. last : i <= j => ranges[i][1] <= ranges[j][1]
      BY DEF InOrder
    <3> QED BY <1>1, <3>1, PlaceInOrder
  <2>2. at = r.index + 1
    BY DEF PlaceOf
  <2> HIDE DEF r, at
  <2>3. /\ at \in 1 .. last + 1 /\ r.index = at - 1
        /\ r.exists \in BOOLEAN
        /\ r.exists => at \in 1 .. last /\ ranges[at][1] = index
        /\ ~r.exists => \A i \in 1 .. last : /\ i < at => ranges[i][1] < index
                                             /\ i >= at => index < ranges[i][1]
    BY <1>1, <2>1, <2>2 DEF IsPlace
  <2>4. Inserted(index) =
          IF at > last
            THEN IF index = Above(ranges[last][2]) THEN [ranges EXCEPT ![last] = <<@[1], index>>]
                 ELSE IF index > Above(ranges[last][2]) THEN Append(ranges, one)
                 ELSE ranges
          ELSE IF index < Below(ranges[at][1]) THEN InsertAt(ranges, at, one)
          ELSE IF index = Below(ranges[at][1])
            THEN IF at > 1 /\ Above(ranges[at - 1][2]) = index THEN Joined(at)
                 ELSE [ranges EXCEPT ![at] = <<index, @[2]>>]
          ELSE ranges
    <3>1. last # 0
      BY <1>5
    <3> QED BY <3>1, Zenon DEF Inserted, at
  <2>5. ASSUME NEW n \in 0 .. last, NEW t, IsPut(Ranges, t, ranges, n, one),
               \A i \in 1 .. last : (i <= n => ranges[i][1] <= index) /\ (i > n => index <= ranges[i][1])
        PROVE  WithNumber(t, ranges, index)
    BY <2>5, PutGrows
  <2> HIDE DEF one, last
  <2>6. CASE r.exists
    <3>1. at \in 1 .. last /\ ~(at > last) /\ ranges[at][1] = index
      BY <1>1, <2>3, <2>6
    <3>2. CASE index = 0
      <4>1. Below(ranges[at][1]) = Modulus - 1 /\ index < Modulus - 1
        BY <1>1, <3>1, <3>2, NeighboursAre
      <4>2. Inserted(index) = InsertAt(ranges, at, one)
        BY <2>4, <3>1, <4>1
      <4>3. at - 1 \in 0 .. last /\ (at - 1) + 1 = at
        BY <1>1, <3>1
      <4>4. IsPut(Ranges, InsertAt(ranges, (at - 1) + 1, one), ranges, at - 1, one)
        BY <1>2, <4>3, InsertedIsPut DEF last
      <4>5. IsPut(Ranges, Inserted(index), ranges, at - 1, one)
        BY <4>2, <4>3, <4>4
      <4>6. ASSUME NEW i \in 1 .. last
            PROVE  (i <= at - 1 => ranges[i][1] <= index) /\ (i > at - 1 => index <= ranges[i][1])
        <5>1. i <= at - 1 => ranges[i][1] <= ranges[at][1]
          BY <1>1, <3>1 DEF InOrder, last
        <5> QED BY <1>1, <3>1, <3>2, <5>1
      <4> QED BY <2>5, <4>3, <4>5, <4>6
    <3>3. CASE index # 0
      <4>1. Below(ranges[at][1]) = index - 1 /\ ~(index < index - 1) /\ index # index - 1
        BY <1>1, <3>1, <3>3, NeighboursAre
      <4>2. Inserted(index) = ranges
        BY <2>4, <3>1, <4>1
      <4>3. Covers(ranges, index)
        BY <1>1, <3>1 DEF Covers, last
      <4> QED BY <4>2, <4>3, SameGrows
    <3> QED BY <3>2, <3>3
  <2>7. CASE ~r.exists /\ at > last
    <3> DEFINE x == ranges[last][1]
               y == ranges[last][2]
    <3>1. last \in 1 .. last /\ at = last + 1
      BY <1>1, <1>5, <2>3, <2>7
    <3>2. x < index /\ x \in Int /\ 0 <= x /\ x <= y /\ y < Modulus /\ y \in Numbers /\ y \in Int
      <4>1. last < at
        BY <3>1
      <4> QED BY <1>1, <1>3, <2>3, <2>7, <3>1, <4>1
    <3>3. Inserted(index) = IF index = Above(y) THEN [ranges EXCEPT ![last] = <<@[1], index>>]
                            ELSE IF index > Above(y) THEN Append(ranges, one)
                            ELSE ranges
      BY <2>4, <2>7
    <3>4. CASE index = Above(y)
      <4>1. index = y + 1
        BY <1>1, <3>2, <3>4, NeighboursAre
      <4> DEFINE t == [ranges EXCEPT ![last] = <<x, index>>]
      <4>2. Inserted(index) = t
        BY <3>3, <3>4
      <4>3. x \in Numbers /\ x <= index
        BY <1>1, <3>2 DEF Numbers
      <4>4. IsWidened(t, ranges, last, x, index)
        BY <3>1, <4>3, WidenedIs DEF last
      <4> HIDE DEF t
      <4> QED BY <4>1, <4>2, <4>4, WidenedGrows DEF last
    <3>5. CASE index # Above(y) /\ index > Above(y)
      <4>1. Inserted(index) = Append(ranges, one)
        BY <3>3, <3>5, Zenon
      <4>2. IsPut(Ranges, Append(ranges, one), ranges, last, one)
        BY <1>1, <1>2 DEF IsPut, last
      <4>3. \A i \in 1 .. last : (i <= last => ranges[i][1] <= index) /\ (i > last => index <= ranges[i][1])
        <5>1. \A i \in 1 .. last : i < at
          BY <1>1, <3>1
        <5> QED BY <1>1, <2>3, <2>7, <5>1
      <4>4. last \in 0 .. last
        BY <1>1
      <4> QED BY <2>5, <4>1, <4>2, <4>3, <4>4
    <3>6. CASE index # Above(y) /\ ~(index > Above(y))
      <4>1. Inserted(index) = ranges
        BY <3>3, <3>6, Zenon
      <4>2. x <= index /\ index <= y
        BY <1>1, <3>2, <3>6, NeighboursAre, SMTT(30)
      <4>3. Covers(ranges, index)
        BY <3>1, <4>2 DEF Covers, last
      <4> QED BY <4>1, <4>3, SameGrows
    <3> QED BY <3>4, <3>5, <3>6
  <2>8. CASE ~r.exists /\ ~(at > last)
    <3> DEFINE x == ranges[at][1]
               y == ranges[at][2]
    <3>1. at \in 1 .. last /\ at \in Int
      BY <1>1, <2>3, <2>8
    <3>2. /\ index < x /\ x \in Int /\ x <= y /\ y < Modulus /\ y \in Int
          /\ x \in Numbers /\ y \in Numbers
      BY <1>1, <1>3, <2>3, <2>8, <3>1
    <3>3. Below(x) = x - 1
      <4>1. x # 0
        BY <1>1, <3>2
      <4> QED BY <3>2, <4>1, NeighboursAre
    <3>4. Inserted(index) =
            IF index < x - 1 THEN InsertAt(ranges, at, one)
            ELSE IF index = x - 1
              THEN IF at > 1 /\ Above(ranges[at - 1][2]) = index THEN Joined(at)
                   ELSE [ranges EXCEPT ![at] = <<index, @[2]>>]
            ELSE ranges
      BY <2>4, <2>8, <3>3
    <3>5. \A i \in 1 .. last : (i <= at - 1 => ranges[i][1] < index) /\ (i > at - 1 => index < ranges[i][1])
      <4>1. \A i \in 1 .. last : (i <= at - 1 => i < at) /\ (i > at - 1 => i >= at)
        BY <1>1, <3>1
      <4> QED BY <2>3, <2>8, <4>1
    <3>6. CASE index < x - 1
      <4>1. Inserted(index) = InsertAt(ranges, at, one)
        BY <3>4, <3>6, Zenon
      <4>2. at - 1 \in 0 .. last /\ (at - 1) + 1 = at
        BY <1>1, <3>1
      <4>3. IsPut(Ranges, InsertAt(ranges, (at - 1) + 1, one), ranges, at - 1, one)
        BY <1>2, <4>2, InsertedIsPut DEF last
      <4>4. IsPut(Ranges, Inserted(index), ranges, at - 1, one)
        BY <4>1, <4>2, <4>3
      <4>5. \A i \in 1 .. last : (i <= at - 1 => ranges[i][1] <= index) /\ (i > at - 1 => index <= ranges[i][1])
        BY <1>1, <3>5
      <4> QED BY <2>5, <4>2, <4>4, <4>5
    <3>7. CASE index = x - 1 /\ at > 1 /\ Above(ranges[at - 1][2]) = index
      <4>1. Inserted(index) = Joined(at)
        BY <3>2, <3>4, <3>7
      <4>2. at \in 2 .. last /\ at - 1 \in 1 .. last
        BY <1>1, <3>1, <3>7
      <4>3. index = ranges[at - 1][2] + 1
        <5> DEFINE z == ranges[at - 1][2]
        <5>1. ranges[at - 1][1] < index /\ 0 <= ranges[at - 1][1] /\ ranges[at - 1][1] \in Int
          BY <1>1, <3>5, <4>2
        <5>2. index # 0
          BY <1>1, <5>1
        <5>3. z \in Numbers
          BY <1>3, <4>2
        <5> HIDE DEF z
        <5> QED BY <3>7, <5>2, <5>3, NeighboursAre DEF z
      <4>4. IsJoined(Joined(at), ranges, at)
        BY <4>2, JoinedIs DEF last
      <4> QED BY <3>7, <4>1, <4>3, <4>4, JoinedGrows
    <3>8. CASE index = x - 1 /\ ~(at > 1 /\ Above(ranges[at - 1][2]) = index)
      <4> DEFINE t == [ranges EXCEPT ![at] = <<index, y>>]
      <4>1. Inserted(index) = t
        BY <3>2, <3>4, <3>8
      <4>2. index <= y
        BY <1>1, <3>2
      <4>3. IsWidened(t, ranges, at, index, y)
        BY <3>1, <3>2, <4>2, WidenedIs DEF last
      <4>4. \A i \in 1 .. at - 1 : ranges[i][1] < index
        <5>1. \A i \in 1 .. at - 1 : i \in 1 .. last /\ i <= at - 1
          BY <1>1, <3>1
        <5> QED BY <3>5, <5>1
      <4> HIDE DEF t
      <4> QED BY <3>8, <4>1, <4>3, <4>4, WidenedGrows
    <3>9. index < x - 1 \/ index = x - 1
      BY <1>1, <3>2
    <3> QED BY <3>6, <3>7, <3>8, <3>9, Zenon
  <2> QED BY <2>3, <2>6, <2>7, <2>8
<1>6. last = 0 \/ last > 0
  BY <1>1
<1> QED BY <1>4, <1>5, <1>6

RangeInv ==
  /\ ranges \in Seq(Ranges) /\ InOrder(ranges) /\ repeats \in Nat
  /\ repeats = 0 => Apart(ranges)
  /\ Covered(ranges) \union sent = reported

LEMMA InsertKeepsRanges ==
  ASSUME RangeInv, NEW index \in Indices, RangeInsert(index)
  PROVE  RangeInv'
<1>1. index \in Numbers /\ index \in Int
  BY RangeListAssumption DEF Numbers
<1> DEFINE t == Inserted(index)
<1>2. ranges' = t /\ sent' = sent /\ reported' = reported \union {index}
      /\ repeats' = repeats + (IF index \in Covered(ranges) THEN 1 ELSE 0)
  BY DEF RangeInsert
<1>3. WithNumber(t, ranges, index)
  BY <1>1, InsertGrows DEF RangeInv
<1> HIDE DEF t
<1>4. Covered(ranges) = {x \in Int : Covers(ranges, x)} /\ Covered(t) = {x \in Int : Covers(t, x)}
  BY <1>3, CoveredIs DEF RangeInv, WithNumber
<1>5. Covered(t) = Covered(ranges) \union {index}
  <2>1. \A x \in Int : Covers(t, x) <=> (Covers(ranges, x) \/ x = index)
    BY <1>3 DEF WithNumber
  <2> QED BY <1>1, <1>4, <2>1
<1>6. repeats' = 0 => Apart(t)
  <2>1. ASSUME repeats' = 0 PROVE repeats = 0 /\ index \notin Covered(ranges)
    BY <1>2, <2>1 DEF RangeInv
  <2>2. index \notin Covered(ranges) => ~Covers(ranges, index)
    BY <1>1, <1>4
  <2> QED BY <1>3, <2>1, <2>2 DEF WithNumber, RangeInv
<1>7. repeats' \in Nat
  BY <1>2 DEF RangeInv
<1>8. t \in Seq(Ranges) /\ InOrder(t)
  BY <1>3 DEF WithNumber
<1>9. Covered(t) \union sent = reported \union {index}
  BY <1>5 DEF RangeInv
<1> QED BY <1>2, <1>6, <1>7, <1>8, <1>9 DEF RangeInv, Apart, InOrder, Covered, ToSet

\* A message holds the first ranges, as many as fit.
LEMMA SomeFit ==
  ASSUME NEW maxBits, Len(ranges) \in Nat
  PROVE  /\ CountWritten(maxBits) \in 0 .. Len(ranges)
         /\ Fits(CountWritten(maxBits), maxBits)
<1>1. \E n \in 0 .. Len(ranges) :
        Fits(n, maxBits) /\ (n < Len(ranges) => ~Fits(n + 1, maxBits))
  <2> DEFINE S == {n \in 0 .. Len(ranges) : ~Fits(n, maxBits)}
  <2>1. CASE Fits(Len(ranges), maxBits)
    BY <2>1
  <2>2. CASE ~Fits(Len(ranges), maxBits)
    <3>1. S # {} /\ S \in SUBSET Nat
      BY <2>2
    <3>2. PICK m \in S : \A n \in S : m <= n
      <4> HIDE DEF S
      <4> QED BY <3>1, LeastNatural
    <3>3. Fits(0, maxBits)
      BY DEF Fits
    <3>4. m # 0 /\ m \in 0 .. Len(ranges)
      BY <3>2, <3>3
    <3>5. m - 1 \in 0 .. Len(ranges) /\ ~(m <= m - 1) /\ (m - 1) + 1 = m
      BY <3>4
    <3>6. Fits(m - 1, maxBits) /\ ~Fits((m - 1) + 1, maxBits)
      BY <3>2, <3>5
    <3> QED BY <3>5, <3>6
  <2> QED BY <2>1, <2>2
<1> QED BY <1>1, Zenon DEF CountWritten

LEMMA WrittenIsRead ==
  ASSUME ranges \in Seq(Ranges), NEW n \in 0 .. Len(ranges)
  PROVE  /\ DOMAIN Deserialized(Written(n)) = 1 .. n
         /\ \A k \in 1 .. n : Deserialized(Written(n))[k] = ranges[k]
<1>1. DOMAIN Written(n) = 1 .. n /\ DOMAIN Deserialized(Written(n)) = 1 .. n
  BY DEF Written, Deserialized
<1>2. ASSUME NEW k \in 1 .. n PROVE Deserialized(Written(n))[k] = ranges[k]
  <2> DEFINE w == Written(n)[k]
             a == ranges[k][1]
             b == ranges[k][2]
  <2>1. ranges[k] = <<a, b>>
    <3>1. ranges[k] \in Ranges
      OBVIOUS
    <3> QED BY <3>1 DEF Ranges
  <2>2. w = IF a = b THEN <<1, a>> ELSE <<0, a, b>>
    BY DEF Written
  <2>3. Deserialized(Written(n))[k] = <<w[2], w[IF w[1] = 1 THEN 2 ELSE 3]>>
    BY <1>1 DEF Deserialized
  <2> HIDE DEF w, a, b
  <2>4. CASE a = b
    BY <2>1, <2>2, <2>3, <2>4
  <2>5. CASE a # b
    BY <2>1, <2>2, <2>3, <2>5
  <2> QED BY <2>4, <2>5
<1> QED BY <1>1, <1>2

LEMMA SerializeKeepsRanges ==
  ASSUME RangeInv, NEW maxBits \in BitLimits, RangeSerialize(maxBits)
  PROVE  RangeInv'
<1>1. Len(ranges) \in Nat /\ ranges \in Seq(Ranges) /\ IsRanges(ranges)
  BY RangesAre DEF RangeInv
<1>2. PICK n : n = CountWritten(maxBits)
  OBVIOUS
<1>3. n \in 0 .. Len(ranges) /\ n > 0
  BY <1>1, <1>2, SomeFit DEF RangeSerialize
<1> DEFINE t == SubSeq(ranges, n + 1, Len(ranges))
           d == Deserialized(Written(n))
<1>4. ranges' = t /\ sent' = sent \union Covered(d) /\ reported' = reported /\ repeats' = repeats
  BY <1>2 DEF RangeSerialize
<1>5. DOMAIN d = 1 .. n /\ \A k \in 1 .. n : d[k] = ranges[k]
  BY <1>1, <1>3, WrittenIsRead
<1>6. t \in Seq(Ranges) /\ Len(t) = Len(ranges) - n /\ \A k \in 1 .. Len(ranges) - n : t[k] = ranges[n + k]
  <2>1. \A k \in n + 1 .. Len(ranges) : ranges[k] \in Ranges
    BY <1>1, <1>3
  <2>2. /\ n + 1 \in Int /\ Len(ranges) \in Int
        /\ (IF n + 1 <= Len(ranges) THEN Len(ranges) - (n + 1) + 1 ELSE 0) = Len(ranges) - n
        /\ Len(ranges) - (n + 1) + 1 = Len(ranges) - n
        /\ \A k \in 1 .. Len(ranges) - n : n + 1 + k - 1 = n + k
    BY <1>1, <1>3
  <2>3. /\ t \in Seq(Ranges)
        /\ Len(t) = IF n + 1 <= Len(ranges) THEN Len(ranges) - (n + 1) + 1 ELSE 0
        /\ \A k \in 1 .. Len(ranges) - (n + 1) + 1 : t[k] = ranges[n + 1 + k - 1]
    BY <2>1, <2>2, SubSeqProperties
  <2> HIDE DEF t
  <2> QED BY <2>2, <2>3
<1> HIDE DEF t, d
<1>7. \A k \in 1 .. Len(t) : n + k \in 1 .. Len(ranges) /\ t[k] = ranges[n + k]
  BY <1>1, <1>3, <1>6
<1>8. InOrder(t) /\ (Apart(ranges) => Apart(t))
  <2>1. \A i, j \in 1 .. Len(t) : (i <= j => n + i <= n + j) /\ (i < j => n + i < n + j)
    BY <1>1, <1>3, <1>6
  <2> QED BY <1>7, <2>1 DEF RangeInv, InOrder, Apart
<1>9. Covered(ranges) = Covered(t) \union Covered(d)
  <2>1. Covered(ranges) = {x \in Int : Covers(ranges, x)} /\ Covered(t) = {x \in Int : Covers(t, x)}
    BY <1>1, <1>6, CoveredIs
  <2>2. \A x : x \in Covered(d) <=> \E k \in 1 .. n : x \in ranges[k][1] .. ranges[k][2]
    <3>1. ToSet(d) = {ranges[k] : k \in 1 .. n}
      BY <1>5 DEF ToSet
    <3> QED BY <3>1, Zenon DEF Covered
  <2>3. \A k \in 1 .. n : k \in 1 .. Len(ranges)
    BY <1>1, <1>3
  <2>4. ASSUME NEW x, x \in Covered(d) PROVE x \in Covered(ranges)
    <3>1. PICK k \in 1 .. n : x \in ranges[k][1] .. ranges[k][2]
      BY <2>2, <2>4
    <3>2. x \in Int /\ ranges[k][1] <= x /\ x <= ranges[k][2] /\ k \in 1 .. Len(ranges)
      BY <1>1, <2>3, <3>1 DEF IsRanges
    <3> QED BY <2>1, <3>2 DEF Covers
  <2>5. ASSUME NEW x, x \in Covered(t) PROVE x \in Covered(ranges)
    <3>1. PICK k \in 1 .. Len(t) : t[k][1] <= x /\ x <= t[k][2]
      BY <2>1, <2>5 DEF Covers
    <3>2. n + k \in 1 .. Len(ranges) /\ ranges[n + k][1] <= x /\ x <= ranges[n + k][2]
      BY <1>7, <3>1
    <3>3. Covers(ranges, x)
      BY <3>2, Zenon DEF Covers
    <3> QED BY <2>1, <2>5, <3>3
  <2>6. ASSUME NEW x, x \in Covered(ranges), x \notin Covered(d) PROVE x \in Covered(t)
    <3>1. PICK k \in 1 .. Len(ranges) : ranges[k][1] <= x /\ x <= ranges[k][2]
      BY <2>1, <2>6 DEF Covers
    <3>2. x \in Int
      BY <2>1, <2>6
    <3>3. x \in ranges[k][1] .. ranges[k][2]
      BY <1>1, <3>1, <3>2 DEF IsRanges
    <3>4. k \notin 1 .. n
      BY <2>2, <2>6, <3>3
    <3>5. k - n \in 1 .. Len(t) /\ n + (k - n) = k
      BY <1>1, <1>3, <1>6, <3>4
    <3>6. t[k - n] = ranges[k]
      BY <1>7, <3>5
    <3>7. Covers(t, x)
      BY <3>1, <3>5, <3>6 DEF Covers
    <3> QED BY <2>1, <3>2, <3>7
  <2> QED BY <2>4, <2>5, <2>6
<1>10. Covered(t) \union (sent \union Covered(d)) = reported
  BY <1>9 DEF RangeInv
<1> QED BY <1>4, <1>6, <1>8, <1>10, SMTT(30) DEF RangeInv, Apart, InOrder, Covered, ToSet

THEOREM RangeInvariance == RangeSpec => []RangeInv
<1>1. RangeInit => RangeInv
  <2> SUFFICES ASSUME RangeInit PROVE RangeInv
    OBVIOUS
  <2>1. ranges = << >> /\ reported = {} /\ sent = {} /\ repeats = 0
    BY DEF RangeInit
  <2>2. ranges \in Seq(Ranges) /\ Len(ranges) = 0 /\ \A k \in 1 .. 0 : FALSE
    BY <2>1, EmptySeq
  <2>3. Covered(ranges) = {}
    BY <2>2, CoveredIs DEF Covers
  <2> QED BY <2>1, <2>2, <2>3 DEF RangeInv, InOrder, Apart
<1>2. RangeInv /\ [RangeNext]_rangeVars => RangeInv'
  <2> SUFFICES ASSUME RangeInv, [RangeNext]_rangeVars PROVE RangeInv'
    OBVIOUS
  <2>1. ASSUME NEW index \in Indices, RangeInsert(index) PROVE RangeInv'
    BY <2>1, InsertKeepsRanges
  <2>2. ASSUME NEW maxBits \in BitLimits, RangeSerialize(maxBits) PROVE RangeInv'
    BY <2>2, SerializeKeepsRanges
  <2>3. CASE UNCHANGED rangeVars
    BY <2>3 DEF RangeInv, rangeVars, InOrder, Apart, Covered, ToSet
  <2> QED BY <2>1, <2>2, <2>3 DEF RangeNext
<1> QED BY <1>1, <1>2, PTL DEF RangeSpec

\* The sums of the bits exist, so they are what Bits says.
LEMMA BitsAre ==
  ASSUME Len(ranges) \in Nat, NEW n \in 1 .. Len(ranges)
  PROVE  Bits(n) = Bits(n - 1) + WrittenBits(ranges[n]) /\ Bits(n - 1) \in Int
<1> DEFINE a == [k \in 1 .. Len(ranges) |-> WrittenBits(ranges[k])]
           IsSum(f) == f = [k \in 0 .. Len(ranges) |->
                              IF k = 0 THEN 0 ELSE f[k - 1] + WrittenBits(ranges[k])]
           sum == CHOOSE f : IsSum(f)
<1>1. \A k \in 1 .. Len(ranges) : WrittenBits(ranges[k]) \in Int
  BY RangeListAssumption DEF WrittenBits
<1>2. PICK f : f = [k \in 0 .. Len(ranges) |-> IF k = 0 THEN 0 ELSE f[k - 1] + a[k]]
  <2>1. \A k \in 1 .. Len(ranges) : a[k] \in Int
    BY <1>1
  <2> HIDE DEF a
  <2> QED BY <2>1, SumsExist
<1>3. IsSum(f)
  <2>1. ASSUME NEW k \in 0 .. Len(ranges) PROVE k # 0 => a[k] = WrittenBits(ranges[k])
    OBVIOUS
  <2> HIDE DEF a
  <2> QED BY <1>2, <2>1
<1>4. IsSum(sum)
  <2> HIDE DEF IsSum
  <2> QED BY <1>3, Zenon
<1>5. \A m : Bits(m) = sum[m]
  BY Zenon DEF Bits
<1> HIDE DEF sum
<1>6. \A k \in 0 .. Len(ranges) : sum[k] = IF k = 0 THEN 0 ELSE sum[k - 1] + WrittenBits(ranges[k])
  BY <1>4, Zenon
<1> HIDE DEF IsSum
<1>7. \A k \in 0 .. Len(ranges) : sum[k] \in Int
  <2> DEFINE S == {k \in 0 .. Len(ranges) : sum[k] \in Int}
  <2>1. 0 \in S
    BY <1>6
  <2>2. ASSUME NEW k \in 0 .. Len(ranges) - 1, k \in S PROVE k + 1 \in S
    <3>1. k + 1 \in 0 .. Len(ranges) /\ k + 1 \in 1 .. Len(ranges) /\ (k + 1) - 1 = k /\ k + 1 # 0
      OBVIOUS
    <3>2. sum[k + 1] = sum[k] + WrittenBits(ranges[k + 1])
      BY <1>6, <3>1
    <3> QED BY <1>1, <2>2, <3>1, <3>2
  <2>3. 0 .. Len(ranges) \subseteq S
    <3> HIDE DEF S
    <3> QED BY <2>1, <2>2, UpToInSet
  <2> QED BY <2>3
<1>8. n # 0 /\ n \in 0 .. Len(ranges) /\ n - 1 \in 0 .. Len(ranges)
  OBVIOUS
<1> QED BY <1>5, <1>6, <1>7, <1>8

\* Acknowledgements (DS_RangeList.h:59-218) are neither lost nor made up between Insert
\* and the other end, however many ranges a message has extent for.
THEOREM RangesCorrect == RangeSpec => []RangesReport
<1>1. RangeInv => RangesReport
  <2> SUFFICES ASSUME RangeInv PROVE RangesReport
    OBVIOUS
  <2>1. Len(ranges) \in Nat
    BY DEF RangeInv
  <2>2. \A i \in 1 .. Len(ranges) - 1 : i \in 1 .. Len(ranges) /\ i + 1 \in 1 .. Len(ranges) /\ i < i + 1 /\ i <= i + 1
    BY <2>1
  <2>3. ASSUME NEW maxBits \in BitLimits, CountWritten(maxBits) > 0
        PROVE  16 + Bits(CountWritten(maxBits)) <= maxBits + 7
    <3>1. PICK n : n = CountWritten(maxBits)
      OBVIOUS
    <3>2. n \in 0 .. Len(ranges) /\ Fits(n, maxBits) /\ n > 0
      BY <2>1, <2>3, <3>1, SomeFit
    <3>3. n \in 1 .. Len(ranges) /\ n - 1 \in 0 .. n - 1
      BY <2>1, <3>2
    <3>4. 16 + Bits(n - 1) + 2 * RangeBits + 1 <= maxBits
      BY <3>2, <3>3 DEF Fits
    <3>5. Bits(n) = Bits(n - 1) + WrittenBits(ranges[n]) /\ Bits(n - 1) \in Int
      BY <2>1, <3>3, BitsAre
    <3>6. WrittenBits(ranges[n]) \in Int /\ WrittenBits(ranges[n]) <= 8 + 2 * RangeBits /\ RangeBits \in Int
      BY RangeListAssumption DEF WrittenBits
    <3>7. maxBits \in Int
      BY RangeListAssumption
    <3>8. 16 + Bits(n) <= maxBits + 7
      BY <3>4, <3>5, <3>6, <3>7
    <3> QED BY <3>1, <3>8
  <2> QED BY <2>2, <2>3 DEF RangesReport, RangeInv, InOrder, Apart
<1> QED BY <1>1, RangeInvariance, PTL

-----------------------------------------------------------------------------
(***************************************************************************)
(* The heap.  Push and Pop leave the order broken in one place, the        *)
(* element that moves, and every turn of their loops moves it on: up, it   *)
(* may come before its parent (RisesFrom); down, after its children        *)
(* (SinksFrom).  A turn swaps two elements, so how often a weight is in    *)
(* the heap stays what it was.                                             *)
(***************************************************************************)
LEMMA PrecedesOrders ==
  ASSUME NEW a \in Weights, NEW b \in Weights, NEW c \in Weights
  PROVE  /\ ~(Precedes(a, b) /\ Precedes(b, a))
         /\ ~Precedes(a, b) /\ ~Precedes(b, c) => ~Precedes(a, c)
<1>1. a \in Int /\ b \in Int /\ c \in Int
  BY HeapAssumption
<1>2. CASE IsMaxHeap
  BY <1>1, <1>2 DEF Precedes
<1>3. CASE ~IsMaxHeap
  BY <1>1, <1>3 DEF Precedes
<1> QED BY <1>2, <1>3

LEMMA ParentOf ==
  ASSUME NEW k \in Nat, k # 0
  PROVE  /\ Parent(k) \in Nat /\ Parent(k) < k
         /\ k = 2 * Parent(k) + 1 \/ k = 2 * Parent(k) + 2
         /\ \A i \in Nat : k = 2 * i + 1 \/ k = 2 * i + 2 => Parent(k) = i
  BY DEF Parent

\* The weights of a heap in order: none comes before its parent's.
Weighted(h) == h \in Seq(Weights)
Comes(h, k, i) == ~Precedes(h[k + 1], h[i + 1])  \* k stands rightly under i
Ordered(h) == \A k \in 1 .. Len(h) - 1 : Comes(h, k, Parent(k))
\* But for the element at i, which may have to go up, or down.
RisesFrom(h, i) ==
  /\ \A k \in 1 .. Len(h) - 1 : k # i => Comes(h, k, Parent(k))
  /\ \A k \in 1 .. Len(h) - 1 : Parent(k) = i /\ i # 0 => Comes(h, k, Parent(i))
SinksFrom(h, i) ==
  /\ \A k \in 1 .. Len(h) - 1 : Parent(k) # i => Comes(h, k, Parent(k))
  /\ \A k \in 1 .. Len(h) - 1 : Parent(k) = i /\ i # 0 => Comes(h, k, Parent(i))

LEMMA FirstOfAll ==
  ASSUME NEW h \in Seq(Weights), Ordered(h)
  PROVE  \A k \in 0 .. Len(h) - 1 : Comes(h, k, 0)
<1> DEFINE A == {n \in 0 .. Len(h) : \A k \in 0 .. n - 1 : Comes(h, k, 0)}
<1>0. Len(h) \in Nat /\ \A k \in 0 .. Len(h) - 1 : k + 1 \in 1 .. Len(h) /\ h[k + 1] \in Weights
  OBVIOUS
<1>1. 0 \in A
  BY <1>0
<1>2. ASSUME NEW n \in 0 .. Len(h) - 1, n \in A PROVE n + 1 \in A
  <2>1. Comes(h, n, 0)
    <3>1. CASE n = 0
      BY <1>0, <3>1, PrecedesOrders DEF Comes
    <3>2. CASE n # 0
      <4>1. n \in Nat /\ n \in 1 .. Len(h) - 1 /\ Len(h) - 1 \in Nat /\ 0 \in 0 .. Len(h) - 1
        BY <1>0, <3>2
      <4>2. Parent(n) \in 0 .. n - 1 /\ Parent(n) \in 0 .. Len(h) - 1
        BY <3>2, <4>1, ParentOf
      <4>3. Comes(h, n, Parent(n)) /\ Comes(h, Parent(n), 0)
        BY <1>2, <4>1, <4>2 DEF Ordered
      <4> QED BY <1>0, <4>1, <4>2, <4>3, PrecedesOrders DEF Comes
    <3> QED BY <3>1, <3>2
  <2>2. \A k \in 0 .. (n + 1) - 1 : k = n \/ k \in 0 .. n - 1
    BY <1>0
  <2>3. n + 1 \in 0 .. Len(h)
    BY <1>0
  <2> QED BY <1>2, <2>1, <2>2, <2>3
<1>3. Len(h) \in A
  <2>1. 0 .. Len(h) \subseteq A
    <3> HIDE DEF A
    <3> QED BY <1>0, <1>1, <1>2, UpToInSet
  <2> HIDE DEF A
  <2> QED BY <1>0, <2>1
<1> QED BY <1>3

LEMMA SwapIs ==
  ASSUME NEW h \in Seq(Weights), NEW i \in 0 .. Len(h) - 1, NEW j \in 0 .. Len(h) - 1
  PROVE  /\ Swap(h, i, j) \in Seq(Weights) /\ Len(Swap(h, i, j)) = Len(h)
         /\ \A k \in 0 .. Len(h) - 1 :
              Swap(h, i, j)[k + 1] = IF k = j THEN h[i + 1] ELSE IF k = i THEN h[j + 1] ELSE h[k + 1]
<1>1. Len(h) \in Nat /\ i + 1 \in 1 .. Len(h) /\ j + 1 \in 1 .. Len(h) /\ h[i + 1] \in Weights /\ h[j + 1] \in Weights
  OBVIOUS
<1>2. Swap(h, i, j) = [k \in 1 .. Len(h) |-> IF k = j + 1 THEN h[i + 1] ELSE IF k = i + 1 THEN h[j + 1] ELSE h[k]]
  BY <1>1, SMTT(30) DEF Swap
<1>3. Swap(h, i, j) \in [1 .. Len(h) -> Weights]
  BY <1>1, <1>2
<1>4. Swap(h, i, j) \in Seq(Weights) /\ Len(Swap(h, i, j)) = Len(h)
  BY <1>1, <1>3
<1>5. \A k \in 0 .. Len(h) - 1 : k + 1 \in 1 .. Len(h) /\ (k + 1 = j + 1 <=> k = j) /\ (k + 1 = i + 1 <=> k = i)
  BY <1>1
<1> QED BY <1>2, <1>4, <1>5

\* One turn up.
LEMMA RisesOn ==
  ASSUME NEW h \in Seq(Weights), NEW i \in Nat, RisesFrom(h, i), Rises(h, i)
  PROVE  RisesFrom(Swap(h, i, Parent(i)), Parent(i))
<1> DEFINE n == Len(h)
<1>0. n \in Nat /\ i \in 1 .. n - 1 /\ i # 0 /\ Precedes(h[i + 1], h[Parent(i) + 1])
  BY DEF Rises, At
<1>1. PICK p : p = Parent(i)
  OBVIOUS
<1>2. p \in Nat /\ p < i /\ p \in 0 .. n - 1 /\ i \in 0 .. n - 1 /\ p # i
  BY <1>0, <1>1, ParentOf
<1>3. \A k \in 0 .. n - 1 : k + 1 \in 1 .. n /\ h[k + 1] \in Weights
  OBVIOUS
<1>4. PICK g : g = Swap(h, i, p)
  OBVIOUS
<1>5. /\ Len(g) = n
      /\ \A k \in 0 .. n - 1 : g[k + 1] = IF k = p THEN h[i + 1] ELSE IF k = i THEN h[p + 1] ELSE h[k + 1]
  BY <1>2, <1>4, SwapIs
<1> HIDE DEF n
<1>6. ASSUME NEW k \in 1 .. n - 1, k # p PROVE Comes(g, k, Parent(k))
  <2>1. PICK q : q = Parent(k)
    OBVIOUS
  <2>2. k \in 0 .. n - 1 /\ q \in 0 .. n - 1 /\ q < k
    BY <1>0, <2>1, ParentOf
  <2>3. CASE k = i
    <3>1. q = p /\ g[k + 1] = h[p + 1] /\ g[q + 1] = h[i + 1]
      BY <1>1, <1>2, <1>5, <2>1, <2>2, <2>3
    <3> QED BY <1>0, <1>1, <1>2, <1>3, <2>1, <3>1, PrecedesOrders DEF Comes
  <2>4. CASE k # i
    <3>1. g[k + 1] = h[k + 1] /\ Comes(h, k, q)
      <4>1. g[k + 1] = h[k + 1]
        BY <1>5, <1>6, <2>2, <2>4
      <4>2. Comes(h, k, q)
        BY <1>0, <1>6, <2>1, <2>4 DEF RisesFrom, n
      <4> QED BY <4>1, <4>2
    <3>2. CASE q = p
      <4>1. g[q + 1] = h[i + 1] /\ ~Precedes(h[p + 1], h[i + 1])
        BY <1>0, <1>1, <1>2, <1>3, <1>5, <2>2, <3>2, PrecedesOrders
      <4> QED BY <1>2, <1>3, <2>1, <2>2, <3>1, <3>2, <4>1, PrecedesOrders DEF Comes
    <3>3. CASE q = i
      <4>1. g[q + 1] = h[p + 1]
        BY <1>2, <1>5, <2>2, <3>3
      <4>2. Comes(h, k, p)
        BY <1>0, <1>1, <2>1, <3>3 DEF RisesFrom, n
      <4> QED BY <2>1, <3>1, <4>1, <4>2 DEF Comes
    <3>4. CASE q # p /\ q # i
      <4>1. g[q + 1] = h[q + 1]
        BY <1>5, <2>2, <3>4
      <4> QED BY <2>1, <3>1, <4>1 DEF Comes
    <3> QED BY <3>2, <3>3, <3>4
  <2> QED BY <2>3, <2>4
<1>7. ASSUME NEW k \in 1 .. n - 1, Parent(k) = p, p # 0 PROVE Comes(g, k, Parent(p))
  <2>1. PICK q : q = Parent(p)
    OBVIOUS
  <2>2. k \in 0 .. n - 1 /\ q \in 0 .. n - 1 /\ q < p /\ p < k /\ p \in 1 .. n - 1
    BY <1>0, <1>2, <1>7, <2>1, ParentOf
  <2>3. g[q + 1] = h[q + 1] /\ Comes(h, p, q)
    BY <1>0, <1>2, <1>5, <2>1, <2>2 DEF RisesFrom, n
  <2>4. CASE k = i
    <3>1. g[k + 1] = h[p + 1]
      BY <1>2, <1>5, <2>2, <2>4
    <3> QED BY <2>1, <2>3, <3>1 DEF Comes
  <2>5. CASE k # i
    <3>1. g[k + 1] = h[k + 1] /\ Comes(h, k, p)
      <4>1. g[k + 1] = h[k + 1]
        BY <1>5, <2>2, <2>5
      <4>2. Comes(h, k, p)
        BY <1>0, <1>7, <2>5 DEF RisesFrom, n
      <4> QED BY <4>1, <4>2
    <3> QED BY <1>2, <1>3, <2>1, <2>2, <2>3, <3>1, PrecedesOrders DEF Comes
  <2> QED BY <2>4, <2>5
<1>8. RisesFrom(g, p)
  BY <1>5, <1>6, <1>7 DEF RisesFrom
<1> QED BY <1>1, <1>4, <1>8

\* One turn down.
LEMMA ChildIs ==
  ASSUME NEW h \in Seq(Weights), NEW i \in Nat, 2 * i + 1 < Len(h)
  PROVE  /\ Child(h, i) \in 1 .. Len(h) - 1 /\ Parent(Child(h, i)) = i /\ Child(h, i) > i
         /\ \A k \in 1 .. Len(h) - 1 : Parent(k) = i => Comes(h, k, Child(h, i))
<1> DEFINE l == 2 * i + 1
           r == 2 * i + 2
           n == Len(h)
<1>1. /\ n \in Nat /\ l \in 1 .. n - 1 /\ r \in Nat /\ r # 0 /\ l # 0 /\ l > i /\ r > i /\ l \in Nat
      /\ (r < n => r \in 1 .. n - 1)
  OBVIOUS
<1>2. Parent(l) = i /\ Parent(r) = i
  BY <1>1, ParentOf
<1>3. \A k \in 1 .. n - 1 : Parent(k) = i => k = l \/ k = r
  <2>1. \A k \in 1 .. n - 1 : k \in Nat /\ k # 0
    OBVIOUS
  <2> QED BY <2>1, ParentOf
<1>4. Child(h, i) = IF r >= n \/ Precedes(h[l + 1], h[r + 1]) THEN l ELSE r
  BY DEF Child, Favourite, At
<1>5. \A k \in 1 .. n - 1 : h[k + 1] \in Weights
  OBVIOUS
<1> HIDE DEF l, r, n
<1>6. CASE r >= n
  <2>1. \A k \in 1 .. n - 1 : k # r
    BY <1>1, <1>6
  <2>2. Child(h, i) = l /\ Comes(h, l, l)
    BY <1>1, <1>4, <1>5, <1>6, PrecedesOrders DEF Comes
  <2> QED BY <1>1, <1>2, <1>3, <2>1, <2>2 DEF n
<1>7. CASE r < n /\ Precedes(h[l + 1], h[r + 1])
  <2>1. Child(h, i) = l /\ Comes(h, l, l) /\ Comes(h, r, l)
    BY <1>1, <1>4, <1>5, <1>7, PrecedesOrders DEF Comes
  <2> QED BY <1>1, <1>2, <1>3, <2>1 DEF n
<1>8. CASE r < n /\ ~Precedes(h[l + 1], h[r + 1])
  <2>1. Child(h, i) = r
    BY <1>1, <1>4, <1>8
  <2>2. Comes(h, r, r) /\ Comes(h, l, r)
    BY <1>1, <1>5, <1>8, PrecedesOrders DEF Comes
  <2> QED BY <1>1, <1>2, <1>3, <1>8, <2>1, <2>2 DEF n
<1> QED BY <1>1, <1>6, <1>7, <1>8

LEMMA SinksOn ==
  ASSUME NEW h \in Seq(Weights), NEW i \in Nat, SinksFrom(h, i), Sinks(h, i)
  PROVE  SinksFrom(Swap(h, i, Child(h, i)), Child(h, i))
<1> DEFINE n == Len(h)
<1>1. PICK c : c = Child(h, i)
  OBVIOUS
<1>2. n \in Nat /\ 2 * i + 1 < n /\ Precedes(h[c + 1], h[i + 1])
  BY <1>1 DEF Sinks, At
<1>3. /\ c \in 1 .. n - 1 /\ Parent(c) = i /\ c > i /\ i \in 0 .. n - 1 /\ c \in 0 .. n - 1
      /\ \A k \in 1 .. n - 1 : Parent(k) = i => Comes(h, k, c)
  BY <1>1, <1>2, ChildIs
<1>4. \A k \in 0 .. n - 1 : k + 1 \in 1 .. n /\ h[k + 1] \in Weights
  OBVIOUS
<1>5. PICK g : g = Swap(h, i, c)
  OBVIOUS
<1>6. /\ Len(g) = n
      /\ \A k \in 0 .. n - 1 : g[k + 1] = IF k = c THEN h[i + 1] ELSE IF k = i THEN h[c + 1] ELSE h[k + 1]
  BY <1>3, <1>5, SwapIs
<1> HIDE DEF n
<1>7. ASSUME NEW k \in 1 .. n - 1, Parent(k) # c PROVE Comes(g, k, Parent(k))
  <2>1. PICK q : q = Parent(k)
    OBVIOUS
  <2>2. k \in 0 .. n - 1 /\ q \in 0 .. n - 1 /\ q < k
    BY <1>2, <2>1, ParentOf
  <2>3. CASE q = i
    <3>1. g[q + 1] = h[c + 1]
      BY <1>3, <1>6, <2>2, <2>3
    <3>2. CASE k = c
      <4>1. g[k + 1] = h[i + 1]
        BY <1>6, <2>2, <3>2
      <4> QED BY <1>2, <1>3, <1>4, <2>1, <3>1, <4>1, PrecedesOrders DEF Comes
    <3>3. CASE k # c
      <4>1. g[k + 1] = h[k + 1]
        BY <1>6, <2>2, <2>3, <3>3
      <4> QED BY <1>3, <2>1, <2>3, <3>1, <4>1 DEF Comes
    <3> QED BY <3>2, <3>3
  <2>4. CASE q # i
    <3>1. Comes(h, k, q) /\ g[q + 1] = h[q + 1] /\ k # c
      BY <1>3, <1>6, <1>7, <2>1, <2>2, <2>4 DEF SinksFrom, n
    <3>2. CASE k = i
      <4>0. k # c /\ i # 0
        BY <1>2, <1>3, <3>2
      <4>1. g[k + 1] = h[c + 1] /\ i # 0
        BY <1>6, <2>2, <3>2, <4>0
      <4>2. Comes(h, c, q)
        BY <1>3, <2>1, <3>2, <4>1 DEF SinksFrom, n
      <4> QED BY <2>1, <3>1, <4>1, <4>2 DEF Comes
    <3>3. CASE k # i
      <4>1. g[k + 1] = h[k + 1]
        BY <1>6, <2>2, <3>1, <3>3
      <4> QED BY <2>1, <3>1, <4>1 DEF Comes
    <3> QED BY <3>2, <3>3
  <2> QED BY <2>3, <2>4
<1>8. ASSUME NEW k \in 1 .. n - 1, Parent(k) = c PROVE Comes(g, k, Parent(c))
  <2>1. k \in 0 .. n - 1 /\ c < k
    BY <1>2, <1>3, <1>8, ParentOf
  <2>2. g[k + 1] = h[k + 1] /\ g[i + 1] = h[c + 1]
    <3>1. k # c /\ k # i /\ i \in 0 .. n - 1 /\ i # c
      BY <1>2, <1>3, <2>1
    <3>2. g[k + 1] = h[k + 1]
      BY <1>6, <2>1, <3>1
    <3>3. g[i + 1] = h[c + 1]
      BY <1>6, <3>1
    <3> QED BY <3>2, <3>3
  <2>3. Comes(h, k, c)
    BY <1>3, <1>8 DEF SinksFrom, n
  <2> QED BY <1>3, <2>2, <2>3 DEF Comes
<1>9. SinksFrom(g, c)
  BY <1>6, <1>7, <1>8 DEF SinksFrom
<1> QED BY <1>1, <1>5, <1>9

\* How often a weight is in the heap.
Copies(h, w) == Cardinality({k \in DOMAIN h : h[k] = w})
Is(x, w) == IF x = w THEN 1 ELSE 0

LEMMA CopiesApart ==
  ASSUME NEW n \in Nat, NEW A, A \subseteq 1 .. n, NEW p, p \notin A
  PROVE  /\ IsFiniteSet(A) /\ Cardinality(A) \in Nat
         /\ Cardinality(A \union {p}) = Cardinality(A) + 1
<1>1. IsFiniteSet(1 .. n)
  BY FS_Interval
<1>2. IsFiniteSet(A)
  BY <1>1, FS_Subset
<1> QED BY <1>2, FS_CardinalityType, FS_AddElement

LEMMA CopiesWith ==
  ASSUME NEW h \in Seq(Weights), NEW p \in 1 .. Len(h), NEW x \in Weights, NEW w
  PROVE  /\ Copies(h, w) \in Nat
         /\ [h EXCEPT ![p] = x] \in Seq(Weights) /\ Len([h EXCEPT ![p] = x]) = Len(h)
         /\ Copies([h EXCEPT ![p] = x], w) = (Copies(h, w) - Is(h[p], w)) + Is(x, w)
<1> DEFINE n == Len(h)
           g == [h EXCEPT ![p] = x]
           A == {k \in 1 .. n : k # p /\ h[k] = w}
           H == {k \in DOMAIN h : h[k] = w}
           G == {k \in DOMAIN g : g[k] = w}
<1>1. n \in Nat /\ DOMAIN h = 1 .. n /\ A \subseteq 1 .. n /\ p \notin A
  OBVIOUS
<1>2. g \in Seq(Weights) /\ Len(g) = n /\ DOMAIN g = 1 .. n
  OBVIOUS
<1>3. g[p] = x /\ \A k \in 1 .. n : k # p => g[k] = h[k]
  BY <1>1
<1>4. IsFiniteSet(A) /\ Cardinality(A) \in Nat /\ Cardinality(A \union {p}) = Cardinality(A) + 1
  <2> HIDE DEF A
  <2> QED BY <1>1, CopiesApart
<1> HIDE DEF g
<1>5. H = IF h[p] = w THEN A \union {p} ELSE A
  BY <1>1
<1>6. G = IF x = w THEN A \union {p} ELSE A
  BY <1>1, <1>2, <1>3
<1> HIDE DEF A, H, G
<1>7. Cardinality(H) = Cardinality(A) + Is(h[p], w) /\ Cardinality(G) = Cardinality(A) + Is(x, w)
  BY <1>4, <1>5, <1>6 DEF Is
<1>8. Copies(h, w) = Cardinality(H) /\ Copies(g, w) = Cardinality(G)
  BY DEF Copies, H, G
<1>9. Is(h[p], w) \in Int /\ Is(x, w) \in Int /\ Is(h[p], w) \in Nat
  BY DEF Is
<1>10. /\ Copies(h, w) \in Nat /\ Copies(g, w) = (Copies(h, w) - Is(h[p], w)) + Is(x, w)
  BY <1>4, <1>7, <1>8, <1>9
<1> QED BY <1>2, <1>10 DEF g, n

LEMMA CopiesOfSwap ==
  ASSUME NEW h \in Seq(Weights), NEW i \in 0 .. Len(h) - 1, NEW j \in 0 .. Len(h) - 1, NEW w
  PROVE  Copies(Swap(h, i, j), w) = Copies(h, w)
<1> DEFINE x == h[i + 1]
           y == h[j + 1]
           f == [h EXCEPT ![i + 1] = y]
           g == [f EXCEPT ![j + 1] = x]
<1>1. i + 1 \in 1 .. Len(h) /\ j + 1 \in 1 .. Len(h) /\ x \in Weights /\ y \in Weights
  OBVIOUS
<1>2. f[j + 1] = y
  BY <1>1
<1>3. Swap(h, i, j) = g
  BY DEF Swap
<1> HIDE DEF x, y
<1>4. /\ Copies(h, w) \in Nat /\ f \in Seq(Weights) /\ Len(f) = Len(h)
      /\ Copies(f, w) = (Copies(h, w) - Is(x, w)) + Is(y, w)
  BY <1>1, CopiesWith DEF x
<1> HIDE DEF f
<1>5. Copies(g, w) = (Copies(f, w) - Is(y, w)) + Is(x, w)
  BY <1>1, <1>2, <1>4, CopiesWith
<1>6. Is(x, w) \in Int /\ Is(y, w) \in Int
  BY DEF Is
<1> HIDE DEF g
<1> QED BY <1>3, <1>4, <1>5, <1>6

LEMMA CopiesOfAppend ==
  ASSUME NEW h \in Seq(Weights), NEW x \in Weights, NEW w
  PROVE  /\ Copies(h, w) \in Nat
         /\ Copies(Append(h, x), w) = Copies(h, w) + Is(x, w)
<1> DEFINE n == Len(h)
           g == Append(h, x)
           H == {k \in DOMAIN h : h[k] = w}
           G == {k \in DOMAIN g : g[k] = w}
<1>1. n \in Nat /\ DOMAIN h = 1 .. n
  OBVIOUS
<1>2. DOMAIN g = 1 .. n + 1 /\ g[n + 1] = x /\ \A k \in 1 .. n : g[k] = h[k]
  OBVIOUS
<1> HIDE DEF g
<1>3. H \subseteq 1 .. n /\ n + 1 \notin H /\ G = IF x = w THEN H \union {n + 1} ELSE H
  BY <1>1, <1>2
<1> HIDE DEF H, G
<1>4. Cardinality(H) \in Nat /\ Cardinality(H \union {n + 1}) = Cardinality(H) + 1
  BY <1>1, <1>3, CopiesApart
<1>5. Cardinality(G) = Cardinality(H) + Is(x, w)
  BY <1>3, <1>4 DEF Is
<1> QED BY <1>4, <1>5 DEF Copies, H, G, g

LEMMA CopiesOfFront ==
  ASSUME NEW h \in Seq(Weights), Len(h) > 0, NEW w
  PROVE  /\ Front(h) \in Seq(Weights) /\ Len(Front(h)) = Len(h) - 1
         /\ \A k \in 1 .. Len(h) - 1 : Front(h)[k] = h[k]
         /\ Copies(Front(h), w) = Copies(h, w) - Is(Last(h), w)
<1> DEFINE n == Len(h)
           g == Front(h)
           H == {k \in DOMAIN h : h[k] = w}
           G == {k \in DOMAIN g : g[k] = w}
<1>1. n \in Nat /\ n > 0 /\ DOMAIN h = 1 .. n /\ Last(h) = h[n]
  BY DEF Last
<1>2. g \in Seq(Weights) /\ Len(g) = n - 1 /\ \A k \in 1 .. n - 1 : g[k] = h[k]
  BY <1>1 DEF Front
<1>3. DOMAIN g = 1 .. n - 1
  BY <1>1, <1>2
<1> HIDE DEF g
<1>4. n - 1 \in Nat /\ G \subseteq 1 .. n - 1 /\ n \notin G /\ H = IF h[n] = w THEN G \union {n} ELSE G
  BY <1>1, <1>2, <1>3
<1> HIDE DEF H, G
<1>5. Cardinality(G) \in Nat /\ Cardinality(G \union {n}) = Cardinality(G) + 1
  BY <1>4, CopiesApart
<1>6. Cardinality(G) = Cardinality(H) - Is(h[n], w)
  BY <1>4, <1>5 DEF Is
<1> QED BY <1>1, <1>2, <1>6 DEF Copies, H, G, g

\* The loops.
Heads == [p \in Places |-> p[1]]
UpStop == {p \in Places : ~Rises(p[1], p[2])}
UpStep == [p \in Places |-> <<Swap(p[1], p[2], Parent(p[2])), Parent(p[2])>>]
UpRank == [p \in Places |-> p[2]]

LEMMA SiftUpLoops ==
  Ranked(Places, UpStop, UpStep, UpRank) /\ Loop(Places, UpStop, UpStep, Heads, SiftUp)
<1>1. ASSUME NEW p \in Places \ UpStop PROVE UpStep[p] \in Places /\ UpRank[UpStep[p]] < UpRank[p]
  <2> DEFINE h == p[1]
             i == p[2]
  <2>1. h \in Seq(Weights) /\ i \in Nat /\ i # 0 /\ i \in 0 .. Len(h) - 1
    BY DEF Places, UpStop, Rises
  <2> HIDE DEF h, i
  <2>2. Parent(i) \in Nat /\ Parent(i) < i /\ Parent(i) \in 0 .. Len(h) - 1
    BY <2>1, ParentOf
  <2>3. Swap(h, i, Parent(i)) \in Seq(Weights)
    BY <2>1, <2>2, SwapIs
  <2>4. UpStep[p] = <<Swap(h, i, Parent(i)), Parent(i)>> /\ UpRank[p] = i
    BY DEF UpStep, UpRank, h, i
  <2>5. UpStep[p] \in Places
    BY <2>2, <2>3, <2>4 DEF Places
  <2>6. UpRank[UpStep[p]] = Parent(i)
    BY <2>4, <2>5 DEF UpRank
  <2> QED BY <2>2, <2>4, <2>5, <2>6
<1>2. Ranked(Places, UpStop, UpStep, UpRank)
  BY <1>1 DEF Ranked, UpRank, Places
<1> DEFINE Def(f) == f = [p \in Places |-> IF Rises(p[1], p[2])
                            THEN f[<<Swap(p[1], p[2], Parent(p[2])), Parent(p[2])>>] ELSE p[1]]
<1>3. ASSUME NEW f PROVE Def(f) <=> Loop(Places, UpStop, UpStep, Heads, f)
  <2>1. \A p \in Places : (IF p \in UpStop THEN Heads[p] ELSE f[UpStep[p]])
          = IF Rises(p[1], p[2]) THEN f[<<Swap(p[1], p[2], Parent(p[2])), Parent(p[2])>>] ELSE p[1]
    BY Zenon DEF UpStop, UpStep, Heads
  <2>2. [p \in Places |-> IF p \in UpStop THEN Heads[p] ELSE f[UpStep[p]]]
        = [p \in Places |-> IF Rises(p[1], p[2])
                              THEN f[<<Swap(p[1], p[2], Parent(p[2])), Parent(p[2])>>] ELSE p[1]]
    BY <2>1, Zenon
  <2> QED BY <2>2, Zenon DEF Loop
<1>4. SiftUp = CHOOSE f : Def(f)
  BY Zenon DEF SiftUp
<1>5. \E f : Def(f)
  <2> HIDE DEF Def
  <2> QED BY <1>2, <1>3, LoopEnds, Zenon
<1>6. Def(SiftUp)
  <2> HIDE DEF Def
  <2> QED BY <1>4, <1>5, Zenon
<1> HIDE DEF Def
<1> QED BY <1>2, <1>3, <1>6

LEMMA SiftUpKeeps ==
  ASSUME NEW h \in Seq(Weights), NEW i \in 0 .. Len(h) - 1
  PROVE  \E g \in Seq(Weights) :
           /\ SiftUp[<<h, i>>] = g /\ Len(g) = Len(h)
           /\ \A w \in Weights : Copies(g, w) = Copies(h, w)
           /\ RisesFrom(h, i) => Ordered(g)
<1> DEFINE Good(f, j) == /\ j \in Nat /\ Len(f) = Len(h)
                         /\ \A w \in Weights : Copies(f, w) = Copies(h, w)
                         /\ RisesFrom(h, i) => RisesFrom(f, j)
           J == {p \in Places : Good(p[1], p[2])}
<1>1. ASSUME NEW p \in J \ UpStop PROVE UpStep[p] \in J
  <2> DEFINE f == p[1]
             j == p[2]
  <2>1. f \in Seq(Weights) /\ Good(f, j) /\ Rises(f, j) /\ j # 0 /\ j \in 0 .. Len(f) - 1
    BY DEF Places, UpStop, Rises
  <2>2. UpStep[p] = <<Swap(f, j, Parent(j)), Parent(j)>> /\ UpStep[p] \in Places
    <3>1. p \in Places \ UpStop
      OBVIOUS
    <3> QED BY <3>1, SiftUpLoops DEF Ranked, UpStep
  <2> HIDE DEF f, j
  <2>3. j \in Nat /\ Parent(j) \in Nat /\ Parent(j) \in 0 .. Len(f) - 1
    BY <2>1, ParentOf
  <2> DEFINE g == Swap(f, j, Parent(j))
  <2>4. Len(g) = Len(f) /\ \A w \in Weights : Copies(g, w) = Copies(f, w)
    <3>1. f \in Seq(Weights) /\ j \in 0 .. Len(f) - 1 /\ Parent(j) \in 0 .. Len(f) - 1
      BY <2>1, <2>3
    <3>2. Len(g) = Len(f)
      BY <3>1, SwapIs
    <3>3. \A w \in Weights : Copies(g, w) = Copies(f, w)
      BY <3>1, CopiesOfSwap
    <3> QED BY <3>2, <3>3
  <2>5. RisesFrom(f, j) => RisesFrom(g, Parent(j))
    BY <2>1, <2>3, RisesOn
  <2> HIDE DEF g
  <2>6. Good(g, Parent(j))
    BY <2>1, <2>3, <2>4, <2>5
  <2> HIDE DEF Good
  <2> QED BY <2>2, <2>6 DEF g
<1>2. <<h, i>> \in J
  BY DEF Places
<1>3. PICK p \in J : p \in UpStop /\ SiftUp[<<h, i>>] = Heads[p]
  <2>1. J \subseteq Places
    OBVIOUS
  <2> HIDE DEF J
  <2> QED BY <1>1, <1>2, <2>1, SiftUpLoops, LoopKeeps
<1> DEFINE g == p[1]
           j == p[2]
<1>4. g \in Seq(Weights) /\ Good(g, j) /\ ~Rises(g, j) /\ SiftUp[<<h, i>>] = g
  BY <1>3 DEF Places, UpStop, Heads
<1> HIDE DEF g, j
<1>5. RisesFrom(g, j) => Ordered(g)
  BY <1>4 DEF RisesFrom, Ordered, Rises, At, Comes
<1> QED BY <1>4, <1>5

DownStop == {p \in Places : ~Sinks(p[1], p[2])}
DownStep == [p \in Places |-> <<Swap(p[1], p[2], Child(p[1], p[2])), Child(p[1], p[2])>>]
DownRank == [p \in Places |-> IF p[2] < Len(p[1]) THEN Len(p[1]) - p[2] ELSE 0]

LEMMA SinksTo ==
  ASSUME NEW h \in Seq(Weights), NEW i \in Nat, Sinks(h, i)
  PROVE  /\ i \in 0 .. Len(h) - 1 /\ Child(h, i) \in 0 .. Len(h) - 1 /\ Child(h, i) > i
         /\ Swap(h, i, Child(h, i)) \in Seq(Weights)
         /\ Len(Swap(h, i, Child(h, i))) = Len(h)
<1>1. 2 * i + 1 < Len(h)
  BY DEF Sinks
<1>2. /\ Child(h, i) \in 1 .. Len(h) - 1 /\ Child(h, i) > i
  BY <1>1, ChildIs
<1>3. i \in 0 .. Len(h) - 1 /\ Child(h, i) \in 0 .. Len(h) - 1
  BY <1>1, <1>2
<1> QED BY <1>2, <1>3, SwapIs

LEMMA SiftDownLoops ==
  Ranked(Places, DownStop, DownStep, DownRank) /\ Loop(Places, DownStop, DownStep, Heads, SiftDown)
<1>1. ASSUME NEW p \in Places \ DownStop
      PROVE  DownStep[p] \in Places /\ DownRank[DownStep[p]] < DownRank[p]
  <2> DEFINE h == p[1]
             i == p[2]
             c == Child(h, i)
             g == Swap(h, i, c)
  <2>1. h \in Seq(Weights) /\ i \in Nat /\ Sinks(h, i)
    BY DEF Places, DownStop
  <2>2. DownStep[p] = <<g, c>> /\ DownRank[p] = IF i < Len(h) THEN Len(h) - i ELSE 0
    BY DEF DownStep, DownRank
  <2> HIDE DEF h, i
  <2>3. i \in 0 .. Len(h) - 1 /\ c \in 0 .. Len(h) - 1 /\ c > i /\ g \in Seq(Weights) /\ Len(g) = Len(h)
    BY <2>1, SinksTo
  <2> HIDE DEF c, g
  <2>4. DownStep[p] \in Places
    BY <2>2, <2>3 DEF Places
  <2>5. DownRank[DownStep[p]] = IF c < Len(g) THEN Len(g) - c ELSE 0
    BY <2>2, <2>4 DEF DownRank
  <2> QED BY <2>2, <2>3, <2>4, <2>5
<1>2. \A p \in Places : DownRank[p] \in Nat
  BY DEF DownRank, Places
<1>3. Ranked(Places, DownStop, DownStep, DownRank)
  BY <1>1, <1>2 DEF Ranked
<1> DEFINE Def(f) == f = [p \in Places |-> IF Sinks(p[1], p[2])
                            THEN f[<<Swap(p[1], p[2], Child(p[1], p[2])), Child(p[1], p[2])>>] ELSE p[1]]
<1>4. ASSUME NEW f PROVE Def(f) <=> Loop(Places, DownStop, DownStep, Heads, f)
  <2>1. \A p \in Places : (IF p \in DownStop THEN Heads[p] ELSE f[DownStep[p]])
          = IF Sinks(p[1], p[2])
              THEN f[<<Swap(p[1], p[2], Child(p[1], p[2])), Child(p[1], p[2])>>] ELSE p[1]
    BY Zenon DEF DownStop, DownStep, Heads
  <2>2. [p \in Places |-> IF p \in DownStop THEN Heads[p] ELSE f[DownStep[p]]]
        = [p \in Places |-> IF Sinks(p[1], p[2])
             THEN f[<<Swap(p[1], p[2], Child(p[1], p[2])), Child(p[1], p[2])>>] ELSE p[1]]
    BY <2>1, Zenon
  <2> QED BY <2>2, Zenon DEF Loop
<1>5. SiftDown = CHOOSE f : Def(f)
  BY Zenon DEF SiftDown
<1>6. \E f : Def(f)
  <2> HIDE DEF Def
  <2> QED BY <1>3, <1>4, LoopEnds, Zenon
<1>7. Def(SiftDown)
  <2> HIDE DEF Def
  <2> QED BY <1>5, <1>6, Zenon
<1> HIDE DEF Def
<1> QED BY <1>3, <1>4, <1>7

LEMMA SiftDownKeeps ==
  ASSUME NEW h \in Seq(Weights), NEW i \in Nat
  PROVE  \E g \in Seq(Weights) :
           /\ SiftDown[<<h, i>>] = g /\ Len(g) = Len(h)
           /\ \A w \in Weights : Copies(g, w) = Copies(h, w)
           /\ SinksFrom(h, i) => Ordered(g)
<1> DEFINE Good(f, j) == /\ j \in Nat /\ Len(f) = Len(h)
                         /\ \A w \in Weights : Copies(f, w) = Copies(h, w)
                         /\ SinksFrom(h, i) => SinksFrom(f, j)
           J == {p \in Places : Good(p[1], p[2])}
<1>1. ASSUME NEW p \in J \ DownStop PROVE DownStep[p] \in J
  <2> DEFINE f == p[1]
             j == p[2]
             c == Child(f, j)
             g == Swap(f, j, c)
  <2>1. f \in Seq(Weights) /\ Good(f, j) /\ Sinks(f, j)
    BY DEF Places, DownStop
  <2>2. DownStep[p] = <<g, c>> /\ DownStep[p] \in Places
    <3>1. p \in Places \ DownStop
      OBVIOUS
    <3> QED BY <3>1, SiftDownLoops DEF Ranked, DownStep
  <2> HIDE DEF f, j
  <2>3. j \in 0 .. Len(f) - 1 /\ c \in 0 .. Len(f) - 1 /\ c \in Nat /\ Len(g) = Len(f)
    BY <2>1, SinksTo
  <2>4. \A w \in Weights : Copies(g, w) = Copies(f, w)
    BY <2>1, <2>3, CopiesOfSwap
  <2>5. SinksFrom(f, j) => SinksFrom(g, c)
    BY <2>1, SinksOn
  <2> HIDE DEF c, g
  <2>6. Good(g, c)
    BY <2>1, <2>3, <2>4, <2>5
  <2> HIDE DEF Good
  <2> QED BY <2>2, <2>6
<1>2. <<h, i>> \in J
  BY DEF Places
<1>3. PICK p \in J : p \in DownStop /\ SiftDown[<<h, i>>] = Heads[p]
  <2>1. J \subseteq Places
    OBVIOUS
  <2> HIDE DEF J
  <2> QED BY <1>1, <1>2, <2>1, SiftDownLoops, LoopKeeps
<1> DEFINE g == p[1]
           j == p[2]
<1>4. g \in Seq(Weights) /\ Good(g, j) /\ ~Sinks(g, j) /\ SiftDown[<<h, i>>] = g
  BY <1>3 DEF Places, DownStop, Heads
<1> HIDE DEF g, j
<1>5. ASSUME SinksFrom(g, j) PROVE Ordered(g)
  <2>1. ASSUME NEW k \in 1 .. Len(g) - 1 PROVE Comes(g, k, Parent(k))
    <3>1. CASE Parent(k) # j
      BY <1>5, <3>1 DEF SinksFrom
    <3>2. CASE Parent(k) = j
      <4>1. k \in Nat /\ k # 0 /\ Len(g) \in Nat
        BY <1>4
      <4>2. 2 * j + 1 < Len(g)
        <5>1. k = 2 * j + 1 \/ k = 2 * j + 2
          BY <3>2, <4>1, ParentOf
        <5>2. j \in Nat /\ k < Len(g)
          BY <1>4, <4>1
        <5> QED BY <4>1, <5>1, <5>2
      <4>3. Child(g, j) \in 1 .. Len(g) - 1 /\ Child(g, j) > j /\ Comes(g, k, Child(g, j))
        BY <1>4, <3>2, <4>2, ChildIs
      <4>4. Comes(g, Child(g, j), j)
        BY <1>4, <4>2 DEF Sinks, At, Comes
      <4>5. g[k + 1] \in Weights /\ g[j + 1] \in Weights /\ g[Child(g, j) + 1] \in Weights
        BY <1>4, <4>1, <4>2, <4>3
      <4> QED BY <3>2, <4>3, <4>4, <4>5, PrecedesOrders DEF Comes
    <3> QED BY <3>1, <3>2
  <2> QED BY <2>1 DEF Ordered
<1> QED BY <1>4, <1>5

\* In a series whose pushes go straight to the end, the last element comes after all
\* that can get children.
LastFits(h) == h # << >> /\ \A i \in Parent(Len(h) - 1) .. Len(h) - 1 : i >= 0 => Comes(h, Len(h) - 1, i)
HeapInv ==
  /\ heap \in Seq(Weights) /\ heldWeights = [w \in Weights |-> Copies(heap, w)]
  /\ ~poppedInside => Ordered(heap)
  /\ inSeries /\ optimizeNextSeriesPush /\ ~poppedInside => LastFits(heap)
  /\ lastPop # << >> => \A w \in Weights : lastPop[2][w] > 0 => ~Precedes(w, lastPop[1])

LEMMA CopiesOfNone == \A w : Copies(<< >>, w) = 0
<1>1. \A w : {k \in DOMAIN << >> : << >>[k] = w} = {}
  OBVIOUS
<1> QED BY <1>1, FS_EmptySet, Zenon DEF Copies

LEMMA OrderedShort ==
  ASSUME NEW h \in Seq(Weights), Len(h) <= 1
  PROVE  Ordered(h)
<1>1. 1 .. Len(h) - 1 = {}
  OBVIOUS
<1> QED BY <1>1, Zenon DEF Ordered

\* What is put at the end may have to go up.
LEMMA AppendRises ==
  ASSUME NEW h \in Seq(Weights), NEW x \in Weights
  PROVE  /\ Append(h, x) \in Seq(Weights) /\ Len(Append(h, x)) = Len(h) + 1
         /\ Len(h) \in 0 .. Len(Append(h, x)) - 1
         /\ Append(h, x)[Len(h) + 1] = x /\ \A k \in 0 .. Len(h) - 1 : Append(h, x)[k + 1] = h[k + 1]
         /\ Ordered(h) => RisesFrom(Append(h, x), Len(h))
<1> DEFINE n == Len(h)
           g == Append(h, x)
<1>1. n \in Nat /\ g \in Seq(Weights) /\ Len(g) = n + 1 /\ g[n + 1] = x
  OBVIOUS
<1>2. \A k \in 0 .. n - 1 : g[k + 1] = h[k + 1]
  OBVIOUS
<1> HIDE DEF g, n
<1>3. \A k \in 1 .. (n + 1) - 1 : k \in Nat /\ k # 0 /\ Parent(k) \in 0 .. k - 1
  BY <1>1, ParentOf
<1>4. ASSUME Ordered(h) PROVE RisesFrom(g, n)
  <2>1. ASSUME NEW k \in 1 .. Len(g) - 1, k # n PROVE Comes(g, k, Parent(k))
    <3>1. k \in 1 .. n - 1 /\ k \in 0 .. n - 1 /\ Parent(k) \in 0 .. n - 1
      BY <1>1, <1>3, <2>1
    <3>2. Comes(h, k, Parent(k))
      BY <1>4, <3>1 DEF Ordered, n
    <3> QED BY <1>2, <3>1, <3>2 DEF Comes
  <2>2. ASSUME NEW k \in 1 .. Len(g) - 1 PROVE Parent(k) # n
    BY <1>1, <1>3
  <2> QED BY <2>1, <2>2 DEF RisesFrom
<1> QED BY <1>1, <1>2, <1>4 DEF g, n

LEMMA PushKeeps ==
  ASSUME NEW weight \in Weights, HeapInv
  PROVE  /\ Pushed(weight) \in Seq(Weights) /\ Append(heap, weight) \in Seq(Weights)
         /\ \A w \in Weights : Copies(Pushed(weight), w) = Copies(heap, w) + Is(weight, w)
         /\ ~poppedInside => Ordered(Pushed(weight))
<1> DEFINE h == Append(heap, weight)
           n == Len(heap)
<1>1. h \in Seq(Weights) /\ n \in 0 .. Len(h) - 1 /\ (Ordered(heap) => RisesFrom(h, n))
  BY AppendRises DEF HeapInv
<1>2. \A w \in Weights : Copies(h, w) = Copies(heap, w) + Is(weight, w)
  BY CopiesOfAppend DEF HeapInv
<1>3. Pushed(weight) = SiftUp[<<h, n>>]
  BY DEF Pushed
<1> HIDE DEF h, n
<1>4. PICK g \in Seq(Weights) : /\ SiftUp[<<h, n>>] = g
                                /\ \A w \in Weights : Copies(g, w) = Copies(h, w)
                                /\ RisesFrom(h, n) => Ordered(g)
  BY <1>1, SiftUpKeeps
<1>5. ~poppedInside => Ordered(g)
  BY <1>1, <1>4 DEF HeapInv
<1>6. Pushed(weight) = g
  BY <1>3, <1>4
<1> QED BY <1>1, <1>2, <1>4, <1>5, <1>6 DEF h

\* So much of a weight is held as before and one more.
LEMMA Held ==
  ASSUME NEW weight \in Weights, HeapInv, heldWeights' = [heldWeights EXCEPT ![weight] = @ + 1],
         \A w \in Weights : Copies(heap, w)' = Copies(heap, w) + Is(weight, w)
  PROVE  heldWeights' = [w \in Weights |-> Copies(heap, w)']
<1>1. \A w \in Weights : Copies(heap, w) \in Nat
  BY CopiesOfAppend DEF HeapInv
<1>2. \A w \in Weights : heldWeights'[w] = Copies(heap, w) + Is(weight, w)
  BY <1>1 DEF HeapInv, Is
<1>3. heldWeights' = [w \in Weights |-> heldWeights'[w]]
  BY DEF HeapInv
<1> QED BY <1>2, <1>3

LEMMA PushStep ==
  ASSUME NEW weight \in Weights, HeapInv, Push(weight)
  PROVE  HeapInv'
<1>1. /\ heap' = Pushed(weight) /\ heldWeights' = [heldWeights EXCEPT ![weight] = @ + 1]
      /\ inSeries' = FALSE /\ poppedInside' = poppedInside /\ lastPop' = lastPop
  BY DEF Push
<1>2. \A w \in Weights : Copies(heap, w)' = Copies(heap, w) + Is(weight, w)
  BY <1>1, PushKeeps DEF Copies
<1>3. heldWeights' = [w \in Weights |-> Copies(heap, w)']
  BY <1>1, <1>2, Held
<1>4. heap' \in Seq(Weights) /\ (~poppedInside' => Ordered(heap'))
  BY <1>1, PushKeeps
<1>5. lastPop' # << >> => \A w \in Weights : lastPop'[2][w] > 0 => ~Precedes(w, lastPop'[1])
  BY <1>1 DEF HeapInv
<1> QED BY <1>1, <1>3, <1>4, <1>5 DEF HeapInv

LEMMA StraightFits ==
  ASSUME NEW weight \in Weights, HeapInv, ~poppedInside, inSeries,
         \/ FitsAtTheEnd(weight)
         \/ optimizeNextSeriesPush /\ ~Precedes(weight, Last(heap))
  PROVE  LET h == Append(heap, weight) IN LastFits(h) /\ Ordered(h)
<1> DEFINE n == Len(heap)
           h == Append(heap, weight)
<1>1. /\ heap \in Seq(Weights) /\ Ordered(heap) /\ n \in Nat
      /\ \A k \in 0 .. n - 1 : k + 1 \in 1 .. n /\ heap[k + 1] \in Weights
  BY DEF HeapInv
<1>2. /\ h \in Seq(Weights) /\ Len(h) = n + 1 /\ h[n + 1] = weight
      /\ \A k \in 0 .. n - 1 : h[k + 1] = heap[k + 1]
      /\ RisesFrom(h, n)
  BY <1>1, AppendRises
<1>3. ASSUME NEW i \in Parent(n) .. n - 1, i >= 0 PROVE ~Precedes(weight, heap[i + 1])
  <2>1. CASE FitsAtTheEnd(weight)
    BY <1>3, <2>1 DEF FitsAtTheEnd, At
  <2>2. CASE optimizeNextSeriesPush /\ ~Precedes(weight, Last(heap))
    <3>1. LastFits(heap) /\ n > 0 /\ n - 1 \in 0 .. n - 1 /\ (n - 1) + 1 = n
      BY <1>1, <2>2 DEF HeapInv, LastFits
    <3>2. Parent(n - 1) <= Parent(n) /\ Parent(n - 1) \in Int /\ Parent(n) \in Int
      BY <1>1 DEF Parent
    <3>3. i \in Parent(n - 1) .. n - 1 /\ i \in 0 .. n - 1
      BY <1>3, <3>2
    <3>4. ~Precedes(heap[n], heap[i + 1])
      BY <1>3, <3>1, <3>3 DEF LastFits, Comes
    <3>5. ~Precedes(weight, heap[n])
      BY <2>2 DEF Last
    <3>6. heap[n] \in Weights /\ heap[i + 1] \in Weights
      BY <1>1, <3>1, <3>3
    <3> QED BY <3>4, <3>5, <3>6, PrecedesOrders
  <2> QED BY <2>1, <2>2
<1> HIDE DEF h, n
<1>4. ASSUME NEW i \in Parent(n) .. n, i >= 0 PROVE Comes(h, n, i)
  <2>1. CASE i = n
    BY <1>2, <2>1, PrecedesOrders DEF Comes
  <2>2. CASE i # n
    <3>1. i \in Parent(n) .. n - 1 /\ i \in 0 .. n - 1
      BY <1>1, <1>4, <2>2 DEF Parent
    <3> QED BY <1>2, <1>3, <1>4, <3>1 DEF Comes
  <2> QED BY <2>1, <2>2
<1>5. LastFits(h)
  <2>1. Len(h) - 1 = n /\ h # << >>
    BY <1>1, <1>2
  <2> QED BY <1>4, <2>1 DEF LastFits
<1>6. Ordered(h)
  <2>1. ASSUME NEW k \in 1 .. Len(h) - 1 PROVE Comes(h, k, Parent(k))
    <3>1. CASE k # n
      BY <1>2, <3>1 DEF RisesFrom
    <3>2. CASE k = n
      <4>1. n # 0 /\ Parent(n) \in Nat /\ Parent(n) < n
        BY <1>1, <3>2, ParentOf
      <4>2. Parent(n) \in Parent(n) .. n /\ Parent(n) >= 0
        BY <1>1, <4>1
      <4> QED BY <1>4, <3>2, <4>2
    <3> QED BY <3>1, <3>2
  <2> QED BY <2>1 DEF Ordered
<1> QED BY <1>5, <1>6 DEF h

LEMMA PushSeriesStep ==
  ASSUME NEW weight \in Weights, HeapInv, PushSeries(weight)
  PROVE  HeapInv'
<1>1. PICK straight : straight = (optimizeNextSeriesPush \/ FitsAtTheEnd(weight))
  OBVIOUS
<1>2. /\ inSeries /\ (optimizeNextSeriesPush => ~Precedes(weight, Last(heap)))
      /\ heap' = IF straight THEN Append(heap, weight) ELSE Pushed(weight)
      /\ optimizeNextSeriesPush' = straight
      /\ heldWeights' = [heldWeights EXCEPT ![weight] = @ + 1]
      /\ poppedInside' = poppedInside /\ lastPop' = lastPop
  BY <1>1, Zenon DEF PushSeries
<1>3. heap \in Seq(Weights)
  BY DEF HeapInv
<1>4. heap' \in Seq(Weights) /\ \A w \in Weights : Copies(heap, w)' = Copies(heap, w) + Is(weight, w)
  <2>1. CASE straight
    <3>1. heap' = Append(heap, weight)
      BY <1>2, <2>1
    <3>2. \A w \in Weights : Copies(Append(heap, weight), w) = Copies(heap, w) + Is(weight, w)
      BY <1>3, CopiesOfAppend
    <3> QED BY <3>1, <3>2, PushKeeps DEF Copies
  <2>2. CASE ~straight
    <3>1. heap' = Pushed(weight)
      BY <1>2, <2>2
    <3> QED BY <3>1, PushKeeps DEF Copies
  <2> QED BY <2>1, <2>2
<1>5. heldWeights' = [w \in Weights |-> Copies(heap, w)']
  BY <1>2, <1>4, Held
<1>6. ASSUME ~poppedInside PROVE Ordered(heap') /\ (straight => LastFits(heap'))
  <2>1. CASE straight
    <3>1. heap' = Append(heap, weight)
      BY <1>2, <2>1
    <3>2. FitsAtTheEnd(weight) \/ (optimizeNextSeriesPush /\ ~Precedes(weight, Last(heap)))
      BY <1>1, <1>2, <2>1, Zenon
    <3> QED BY <1>2, <1>6, <3>1, <3>2, StraightFits
  <2>2. CASE ~straight
    BY <1>2, <1>6, <2>2, PushKeeps
  <2> QED BY <2>1, <2>2
<1>7. lastPop' # << >> => \A w \in Weights : lastPop'[2][w] > 0 => ~Precedes(w, lastPop'[1])
  BY <1>2 DEF HeapInv
<1>8. ~poppedInside' => Ordered(heap')
  BY <1>2, <1>6, Zenon
<1>9. inSeries' /\ optimizeNextSeriesPush' /\ ~poppedInside' => LastFits(heap')
  BY <1>2, <1>6, Zenon
<1> QED BY <1>4, <1>5, <1>7, <1>8, <1>9, Zenon DEF HeapInv

LEMMA PopStep ==
  ASSUME NEW startingIndex \in Nat, HeapInv, Pop(startingIndex)
  PROVE  HeapInv'
<1> DEFINE n == Len(heap)
           popped == heap[startingIndex + 1]
           moved == ReplaceAt(heap, startingIndex + 1, Last(heap))
           left == Front(moved)
<1>1. /\ startingIndex < n /\ heap' = SiftDown[<<left, startingIndex>>]
      /\ heldWeights' = [heldWeights EXCEPT ![popped] = @ - 1]
      /\ lastPop' = IF startingIndex = 0 /\ ~poppedInside THEN <<popped, heldWeights>> ELSE << >>
      /\ poppedInside' = (n > 1 /\ (poppedInside \/ startingIndex > 0))
      /\ inSeries' = FALSE
  BY Zenon DEF Pop, At
<1>2. heap \in Seq(Weights) /\ n \in Nat /\ n > 0 /\ startingIndex + 1 \in 1 .. n /\ popped \in Weights
      /\ heap[n] \in Weights /\ Last(heap) = heap[n]
  BY <1>1 DEF HeapInv, Last
<1>3. /\ moved \in Seq(Weights) /\ Len(moved) = n /\ Last(moved) = heap[n]
      /\ \A k \in 1 .. n : k # startingIndex + 1 => moved[k] = heap[k]
  BY <1>2 DEF ReplaceAt, Last
<1>4. \A w : Copies(moved, w) = (Copies(heap, w) - Is(popped, w)) + Is(heap[n], w) /\ Copies(heap, w) \in Nat
  BY <1>2, CopiesWith DEF ReplaceAt
<1> HIDE DEF moved
<1>5. /\ left \in Seq(Weights) /\ Len(left) = n - 1 /\ \A k \in 1 .. n - 1 : left[k] = moved[k]
      /\ \A w : Copies(left, w) = Copies(moved, w) - Is(heap[n], w)
  BY <1>2, <1>3, CopiesOfFront
<1> HIDE DEF left, popped
<1>6. PICK g \in Seq(Weights) : /\ SiftDown[<<left, startingIndex>>] = g /\ Len(g) = Len(left)
                                /\ \A w \in Weights : Copies(g, w) = Copies(left, w)
                                /\ SinksFrom(left, startingIndex) => Ordered(g)
  BY <1>5, SiftDownKeeps
<1>7. heap' = g
  BY <1>1, <1>6
<1>8. \A w \in Weights : Copies(heap, w)' = Copies(heap, w) - Is(popped, w)
  <2>1. \A w : Is(popped, w) \in Int /\ Is(heap[n], w) \in Int
    BY DEF Is
  <2>2. \A w \in Weights : Copies(g, w) = Copies(heap, w) - Is(popped, w)
    BY <1>4, <1>5, <1>6, <2>1
  <2> QED BY <1>7, <2>2 DEF Copies
<1>9. heldWeights' = [w \in Weights |-> Copies(heap, w)']
  <2>1. \A w \in Weights : heldWeights'[w] = Copies(heap, w) - Is(popped, w)
    BY <1>1, <1>2, <1>4 DEF HeapInv, Is
  <2>2. heldWeights' = [w \in Weights |-> heldWeights'[w]]
    BY <1>1 DEF HeapInv
  <2> QED BY <1>8, <2>1, <2>2
<1>10. ASSUME ~poppedInside' PROVE Ordered(heap')
  <2>1. CASE n > 1
    <3>0. ~(poppedInside \/ startingIndex > 0)
      BY <1>1, <1>10, <2>1, Zenon
    <3>1. ~poppedInside /\ startingIndex = 0
      <4>1. ~(startingIndex > 0)
        BY <3>0
      <4>2. startingIndex = 0
        BY <4>1, SMT
      <4> QED BY <3>0, <4>2
    <3>2. SinksFrom(left, startingIndex)
      <4>1. ASSUME NEW k \in 1 .. (n - 1) - 1, Parent(k) # 0 PROVE Comes(left, k, Parent(k))
        <5>1. k \in Nat /\ k # 0 /\ Parent(k) \in Nat /\ Parent(k) < k
          BY <1>2, ParentOf
        <5>2. /\ k + 1 \in 1 .. n - 1 /\ k + 1 # 1 /\ Parent(k) + 1 \in 1 .. n - 1 /\ Parent(k) + 1 # 1
              /\ k + 1 \in 1 .. n /\ Parent(k) + 1 \in 1 .. n /\ k \in 1 .. n - 1
          BY <1>2, <4>1, <5>1
        <5>3. left[k + 1] = heap[k + 1] /\ left[Parent(k) + 1] = heap[Parent(k) + 1]
          BY <1>3, <1>5, <3>1, <5>2
        <5>4. Comes(heap, k, Parent(k))
          BY <3>1, <5>2 DEF HeapInv, Ordered
        <5> QED BY <5>3, <5>4 DEF Comes
      <4> QED BY <1>5, <3>1, <4>1 DEF SinksFrom
    <3> QED BY <1>6, <1>7, <3>2
  <2>2. CASE n <= 1
    <3>1. Len(g) <= 1
      BY <1>2, <1>5, <1>6, <2>2
    <3> QED BY <1>7, <3>1, OrderedShort
  <2> QED BY <1>2, <2>1, <2>2
<1>11. ASSUME lastPop' # << >>, NEW w \in Weights, lastPop'[2][w] > 0 PROVE ~Precedes(w, lastPop'[1])
  <2>1. startingIndex = 0 /\ ~poppedInside /\ lastPop' = <<popped, heldWeights>>
    BY <1>1, <1>11
  <2>2. Copies(heap, w) > 0 /\ lastPop'[1] = popped /\ popped = heap[1]
    BY <1>11, <2>1 DEF HeapInv, popped
  <2>3. {k \in DOMAIN heap : heap[k] = w} # {}
    <3>1. Cardinality({}) = 0
      BY FS_EmptySet
    <3>2. Cardinality({k \in DOMAIN heap : heap[k] = w}) > 0
      BY <2>2 DEF Copies
    <3>3. Cardinality({k \in DOMAIN heap : heap[k] = w}) # 0
      BY <3>2
    <3> QED BY <3>1, <3>3
  <2>4. PICK k \in DOMAIN heap : heap[k] = w
    BY <2>3
  <2>5. k - 1 \in 0 .. n - 1 /\ (k - 1) + 1 = k /\ 0 + 1 = 1
    BY <1>2
  <2>6. Comes(heap, k - 1, 0)
    BY <1>2, <2>1, <2>5, FirstOfAll DEF HeapInv
  <2> QED BY <2>2, <2>4, <2>5, <2>6 DEF Comes
<1> QED BY <1>1, <1>6, <1>7, <1>9, <1>10, <1>11, Zenon DEF HeapInv

THEOREM HeapInvariance == HeapSpec => []HeapInv
<1>1. HeapInit => HeapInv
  <2> SUFFICES ASSUME HeapInit PROVE HeapInv
    OBVIOUS
  <2>1. << >> \in Seq(Weights) /\ Len(<< >>) <= 1
    OBVIOUS
  <2>2. Ordered(<< >>)
    BY <2>1, OrderedShort
  <2>3. NoWeights = [w \in Weights |-> Copies(<< >>, w)]
    BY CopiesOfNone DEF NoWeights
  <2> QED BY <2>1, <2>2, <2>3 DEF HeapInit, HeapInv
<1>2. HeapInv /\ [HeapNext]_heapVars => HeapInv'
  <2> SUFFICES ASSUME HeapInv, [HeapNext]_heapVars PROVE HeapInv'
    OBVIOUS
  <2>1. ASSUME NEW weight \in Weights, Push(weight) PROVE HeapInv'
    BY <2>1, PushStep
  <2>2. ASSUME NEW weight \in Weights, PushSeries(weight) PROVE HeapInv'
    BY <2>2, PushSeriesStep
  <2>3. ASSUME NEW i \in 0 .. MaxHeapSize - 1, Pop(i) PROVE HeapInv'
    <3>1. i \in Nat
      OBVIOUS
    <3> QED BY <2>3, <3>1, PopStep
  <2>4. CASE StartSeries
    BY <2>4, Zenon DEF HeapInv, StartSeries
  <2>5. CASE HeapClear
    <3>1. << >> \in Seq(Weights) /\ Len(<< >>) <= 1
      OBVIOUS
    <3>2. Ordered(<< >>)
      BY <3>1, OrderedShort
    <3>3. NoWeights = [w \in Weights |-> Copies(<< >>, w)]
      BY CopiesOfNone DEF NoWeights
    <3> QED BY <2>5, <3>1, <3>2, <3>3, Zenon DEF HeapClear, HeapInv
  <2>6. CASE UNCHANGED heapVars
    BY <2>6, Zenon DEF HeapInv, heapVars
  <2> QED BY <2>1, <2>2, <2>3, <2>4, <2>5, <2>6, Zenon DEF HeapNext
<1> QED BY <1>1, <1>2, PTL DEF HeapSpec

\* Pushed and popped in any way (DS_Heap.h:81-243), for heaps of any size: the heap
\* holds what its caller has in it, and Pop(0) returns the first of it by weight.
THEOREM HeapCorrect == HeapSpec => []PopTakesTheFirst
<1>1. HeapInv => PopTakesTheFirst
  BY DEF HeapInv, PopTakesTheFirst, Copies
<1> QED BY <1>1, HeapInvariance, PTL

-----------------------------------------------------------------------------
(***************************************************************************)
(* The hash.  What a key owns of one list after another is what it owns of *)
(* the first, then of the second (OwnedConcat).  So the operations, which  *)
(* take a chain apart at one node, take its key's stack apart at one       *)
(* element, and GetAsList shows of a key what its one chain does.          *)
(***************************************************************************)
ChainNodes == [string : HashKeys, data : HashData]

OwnedUpTo(f, s, key) ==
  /\ f[0] = << >>
  /\ \A n \in 1 .. Len(s) : f[n] = IF s[n].string = key THEN Append(f[n - 1], s[n].data) ELSE f[n - 1]
  /\ \A n \in 0 .. Len(s) : f[n] \in Seq(HashData)

LEMMA OwnedBy ==
  ASSUME NEW s \in Seq(ChainNodes), NEW key
  PROVE  \E f : OwnedUpTo(f, s, key) /\ Owned(s, key) = f[Len(s)]
<1> DEFINE n == Len(s)
           Datas == Seq(HashData)
           Data(f) == f = [k \in 0 .. n |-> IF k = 0 THEN << >>
                             ELSE IF s[k].string = key THEN Append(f[k - 1], s[k].data) ELSE f[k - 1]]
           turn == [p \in (1 .. n) \X Datas |-> IF s[p[1]].string = key THEN Append(p[2], s[p[1]].data) ELSE p[2]]
<1>1. n \in Nat /\ \A k \in 1 .. n : s[k].data \in HashData
  <2>1. \A k \in 1 .. n : s[k] \in ChainNodes
    OBVIOUS
  <2> QED BY <2>1 DEF ChainNodes
<1>2. << >> \in Datas /\ \A q \in Datas : \A d \in HashData : Append(q, d) \in Datas
  OBVIOUS
<1> HIDE DEF Datas, n, Data
<1>3. turn \in [(1 .. n) \X Datas -> Datas]
  BY <1>1, <1>2
<1>4. \A k \in 1 .. n : \A q \in Datas : turn[<<k, q>>] = IF s[k].string = key THEN Append(q, s[k].data) ELSE q
  OBVIOUS
<1> HIDE DEF turn
<1>5. PICK f : f \in [0 .. n -> Datas] /\ f[0] = << >> /\ \A k \in 1 .. n : f[k] = turn[<<k, f[k - 1]>>]
  <2>1. Foldable(Datas, n, << >>, turn)
    BY <1>1, <1>2, <1>3 DEF Foldable
  <2>2. \E f : FoldOf(Datas, n, << >>, turn, f)
    BY <2>1, Folded, Zenon
  <2> QED BY <2>2, Zenon DEF FoldOf
<1>6. ASSUME NEW k \in 0 .. n
      PROVE  f[k] = IF k = 0 THEN << >>
                    ELSE IF s[k].string = key THEN Append(f[k - 1], s[k].data) ELSE f[k - 1]
  <2>1. CASE k # 0
    <3>1. k \in 1 .. n /\ k - 1 \in 0 .. n
      BY <1>1, <2>1
    <3>2. f[k - 1] \in Datas
      BY <1>5, <3>1
    <3> QED BY <1>4, <1>5, <2>1, <3>1, <3>2
  <2> QED BY <1>5, <2>1
<1>7. Data(f)
  <2>1. f = [k \in 0 .. n |-> f[k]]
    BY <1>5
  <2> QED BY <1>6, <2>1 DEF Data
<1> DEFINE g == CHOOSE h : Data(h)
<1>8. Data(g)
  BY <1>7
<1>9. Owned(s, key) = g[n]
  BY Zenon DEF Owned, n, Data
<1> HIDE DEF g
<1>10. /\ \A k \in 0 .. n : g[k] = IF k = 0 THEN << >>
                    ELSE IF s[k].string = key THEN Append(g[k - 1], s[k].data) ELSE g[k - 1]
  BY <1>8, Zenon DEF Data
<1>11. \A k \in 0 .. n : g[k] \in Datas
  <2> DEFINE A == {k \in 0 .. n : g[k] \in Datas}
  <2>1. 0 \in A
    BY <1>1, <1>2, <1>10
  <2>2. ASSUME NEW k \in 0 .. n - 1, k \in A PROVE k + 1 \in A
    <3>1. k + 1 \in 0 .. n /\ k + 1 # 0 /\ (k + 1) - 1 = k /\ k + 1 \in 1 .. n
      BY <1>1
    <3>2. g[k + 1] = IF s[k + 1].string = key THEN Append(g[k], s[k + 1].data) ELSE g[k]
      BY <1>10, <3>1
    <3> QED BY <1>1, <1>2, <2>2, <3>1, <3>2
  <2>3. 0 .. n \subseteq A
    <3> HIDE DEF A
    <3> QED BY <1>1, <2>1, <2>2, UpToInSet
  <2> QED BY <2>3
<1>12. OwnedUpTo(g, s, key)
  <2>1. \A k \in 1 .. n : k \in 0 .. n /\ k # 0
    BY <1>1
  <2>2. 0 \in 0 .. n
    BY <1>1
  <2> QED BY <1>10, <1>11, <2>1, <2>2 DEF OwnedUpTo, n, Datas
<1> QED BY <1>9, <1>12 DEF n

LEMMA OwnedType ==
  ASSUME NEW s \in Seq(ChainNodes), NEW key
  PROVE  Owned(s, key) \in Seq(HashData)
<1>1. PICK f : OwnedUpTo(f, s, key) /\ Owned(s, key) = f[Len(s)]
  BY OwnedBy
<1>2. Len(s) \in 0 .. Len(s)
  OBVIOUS
<1> QED BY <1>1, <1>2 DEF OwnedUpTo

LEMMA OwnedNone ==
  ASSUME NEW s \in Seq(ChainNodes), NEW key, \A n \in 1 .. Len(s) : s[n].string # key
  PROVE  Owned(s, key) = << >>
<1>1. PICK f : OwnedUpTo(f, s, key) /\ Owned(s, key) = f[Len(s)]
  BY OwnedBy
<1> DEFINE A == {k \in 0 .. Len(s) : f[k] = << >>}
<1>2. 0 \in A
  BY <1>1 DEF OwnedUpTo
<1>3. ASSUME NEW k \in 0 .. Len(s) - 1, k \in A PROVE k + 1 \in A
  <2>1. k + 1 \in 1 .. Len(s) /\ (k + 1) - 1 = k /\ k + 1 \in 0 .. Len(s)
    OBVIOUS
  <2> QED BY <1>1, <1>3, <2>1 DEF OwnedUpTo
<1>4. Len(s) \in Nat
  OBVIOUS
<1>5. 0 .. Len(s) \subseteq A
  <2> HIDE DEF A
  <2> QED BY <1>2, <1>3, <1>4, UpToInSet
<1> QED BY <1>1, <1>4, <1>5

LEMMA OwnedOne ==
  ASSUME NEW x \in ChainNodes, NEW key
  PROVE  Owned(<<x>>, key) = IF x.string = key THEN <<x.data>> ELSE << >>
<1>1. <<x>> \in Seq(ChainNodes) /\ Len(<<x>>) = 1 /\ <<x>>[1] = x
  OBVIOUS
<1>2. PICK f : OwnedUpTo(f, <<x>>, key) /\ Owned(<<x>>, key) = f[Len(<<x>>)]
  BY <1>1, OwnedBy
<1>3. 1 \in 1 .. Len(<<x>>) /\ 1 - 1 = 0
  BY <1>1
<1>4. f[1] = IF x.string = key THEN Append(f[0], x.data) ELSE f[0]
  BY <1>1, <1>2, <1>3 DEF OwnedUpTo
<1>5. f[0] = << >> /\ Append(<< >>, x.data) = <<x.data>>
  BY <1>2 DEF OwnedUpTo
<1> QED BY <1>1, <1>2, <1>4, <1>5

LEMMA OwnedConcat ==
  ASSUME NEW s \in Seq(ChainNodes), NEW t \in Seq(ChainNodes), NEW key
  PROVE  Owned(s \o t, key) = Owned(s, key) \o Owned(t, key)
<1> DEFINE u == s \o t
           m == Len(s)
           n == Len(t)
<1>1. u \in Seq(ChainNodes) /\ Len(u) = m + n /\ m \in Nat /\ n \in Nat
  OBVIOUS
<1>2. /\ \A k \in 1 .. m : k \in 1 .. Len(u) /\ u[k] = s[k]
      /\ \A k \in 1 .. n : m + k \in 1 .. Len(u) /\ u[m + k] = t[k]
  BY ConcatProperties
<1> HIDE DEF u
<1>3. PICK f : OwnedUpTo(f, s, key) /\ Owned(s, key) = f[Len(s)]
  BY OwnedBy
<1>4. PICK g : OwnedUpTo(g, t, key) /\ Owned(t, key) = g[Len(t)]
  BY OwnedBy
<1>5. PICK h : OwnedUpTo(h, u, key) /\ Owned(u, key) = h[Len(u)]
  BY <1>1, OwnedBy
<1>6. h[m] = f[m]
  <2> DEFINE A == {k \in 0 .. m : h[k] = f[k]}
  <2>1. 0 \in A
    BY <1>1, <1>3, <1>5 DEF OwnedUpTo
  <2>2. ASSUME NEW k \in 0 .. m - 1, k \in A PROVE k + 1 \in A
    <3>1. k + 1 \in 1 .. m /\ (k + 1) - 1 = k /\ k + 1 \in 0 .. m
      BY <1>1
    <3>2. f[k + 1] = IF s[k + 1].string = key THEN Append(f[k], s[k + 1].data) ELSE f[k]
      BY <1>3, <3>1 DEF OwnedUpTo
    <3>3. h[k + 1] = IF s[k + 1].string = key THEN Append(h[k], s[k + 1].data) ELSE h[k]
      BY <1>2, <1>5, <3>1 DEF OwnedUpTo
    <3> QED BY <2>2, <3>1, <3>2, <3>3
  <2>3. 0 .. m \subseteq A
    <3> HIDE DEF A
    <3> QED BY <1>1, <2>1, <2>2, UpToInSet
  <2> QED BY <1>1, <2>3
<1> DEFINE own == f[m]
<1>7. own \in Seq(HashData)
  BY <1>1, <1>3 DEF OwnedUpTo
<1> HIDE DEF own
<1>8. \A a \in Seq(HashData) : \A d \in HashData : own \o Append(a, d) = Append(own \o a, d)
  <2> SUFFICES ASSUME NEW a \in Seq(HashData), NEW d \in HashData
               PROVE  own \o Append(a, d) = Append(own \o a, d)
    OBVIOUS
  <2>1. Append(a, d) = a \o <<d>> /\ own \o a \in Seq(HashData) /\ <<d>> \in Seq(HashData)
    BY <1>7, AppendIsConcat
  <2>2. Append(own \o a, d) = (own \o a) \o <<d>>
    BY <2>1, AppendIsConcat
  <2>3. (own \o a) \o <<d>> = own \o (a \o <<d>>)
    BY <1>7, <2>1, ConcatAssociative, SMTT(30)
  <2> QED BY <2>1, <2>2, <2>3
<1>9. h[m + n] = own \o g[n]
  <2> DEFINE A == {k \in 0 .. n : h[m + k] = own \o g[k]}
  <2>1. 0 \in A
    <3>1. own \o << >> = own
      BY <1>7, ConcatEmptySeq
    <3>2. m + 0 = m /\ 0 \in 0 .. n
      BY <1>1
    <3> QED BY <1>4, <1>6, <3>1, <3>2 DEF OwnedUpTo, own
  <2>2. ASSUME NEW k \in 0 .. n - 1, k \in A PROVE k + 1 \in A
    <3>1. /\ k + 1 \in 1 .. n /\ (k + 1) - 1 = k /\ k + 1 \in 0 .. n /\ k \in 0 .. n
          /\ (m + (k + 1)) - 1 = m + k
      BY <1>1
    <3>2. g[k + 1] = IF t[k + 1].string = key THEN Append(g[k], t[k + 1].data) ELSE g[k]
      BY <1>4, <3>1 DEF OwnedUpTo
    <3>3. m + (k + 1) \in 1 .. Len(u) /\ u[m + (k + 1)] = t[k + 1]
      BY <1>2, <3>1
    <3>4. h[m + (k + 1)] = IF t[k + 1].string = key THEN Append(h[m + k], t[k + 1].data) ELSE h[m + k]
      BY <1>5, <3>1, <3>3 DEF OwnedUpTo
    <3>5. g[k] \in Seq(HashData) /\ t[k + 1].data \in HashData
      <4>1. t[k + 1] \in ChainNodes
        BY <3>1
      <4>2. t[k + 1].data \in HashData
        BY <4>1 DEF ChainNodes
      <4> QED BY <1>4, <3>1, <4>2 DEF OwnedUpTo
    <3>6. own \o Append(g[k], t[k + 1].data) = Append(own \o g[k], t[k + 1].data)
      BY <1>8, <3>5
    <3>7. h[m + k] = own \o g[k]
      BY <2>2
    <3>8. h[m + (k + 1)] = own \o g[k + 1]
      BY <3>2, <3>4, <3>6, <3>7
    <3> QED BY <3>1, <3>8
  <2>3. 0 .. n \subseteq A
    <3> HIDE DEF A
    <3> QED BY <1>1, <2>1, <2>2, UpToInSet
  <2>4. n \in 0 .. n
    BY <1>1
  <2> QED BY <2>3, <2>4
<1>10. Owned(u, key) = own \o Owned(t, key)
  BY <1>1, <1>4, <1>5, <1>9
<1>11. Owned(s, key) = own
  BY <1>3 DEF own
<1> QED BY <1>10, <1>11 DEF u

-----------------------------------------------------------------------------
\* The chains, and what GetAsList makes of them.
IsTable(lists) ==
  /\ lists \in [0 .. HASH_SIZE - 1 -> Seq(ChainNodes)]
  /\ \A h \in 0 .. HASH_SIZE - 1 : \A i \in 1 .. Len(lists[h]) : hashFunction(lists[h][i].string) = h

ListUpTo(f, lists) ==
  /\ f[0] = << >>
  /\ \A n \in 1 .. HASH_SIZE : f[n] = f[n - 1] \o lists[n - 1]
  /\ \A n \in 0 .. HASH_SIZE : f[n] \in Seq(ChainNodes)

LEMMA HashRange ==
  /\ HASH_SIZE \in Nat /\ HASH_SIZE > 0
  /\ \A key \in HashKeys : hashFunction(key) \in 0 .. HASH_SIZE - 1
<1>1. HASH_SIZE \in Nat /\ HASH_SIZE > 0 /\ \A key \in HashKeys : key \in Int
  BY HashAssumption
<1> QED BY <1>1, ModIs DEF hashFunction

LEMMA TableNotEmpty ==
  ASSUME NEW lists, IsTable(lists)
  PROVE  lists # << >>
<1>1. 0 \in DOMAIN lists
  BY HashRange DEF IsTable
<1>2. 0 \notin DOMAIN << >>
  OBVIOUS
<1> QED BY <1>1, <1>2

LEMMA AllBy ==
  ASSUME NEW lists, IsTable(lists)
  PROVE  \E f : ListUpTo(f, lists) /\ AllNodes(lists) = f[HASH_SIZE]
<1> DEFINE n == HASH_SIZE
           Chains == Seq(ChainNodes)
           All(f) == f = [k \in 0 .. n |-> IF k = 0 THEN << >> ELSE f[k - 1] \o lists[k - 1]]
           turn == [p \in (1 .. n) \X Chains |-> p[2] \o lists[p[1] - 1]]
<1>1. n \in Nat /\ \A k \in 1 .. n : lists[k - 1] \in Chains
  BY HashRange DEF IsTable
<1>2. << >> \in Chains /\ \A q, r \in Chains : q \o r \in Chains
  OBVIOUS
<1> HIDE DEF Chains, n, All
<1>3. turn \in [(1 .. n) \X Chains -> Chains]
  BY <1>1, <1>2
<1>4. \A k \in 1 .. n : \A q \in Chains : turn[<<k, q>>] = q \o lists[k - 1]
  OBVIOUS
<1> HIDE DEF turn
<1>5. PICK f : f \in [0 .. n -> Chains] /\ f[0] = << >> /\ \A k \in 1 .. n : f[k] = turn[<<k, f[k - 1]>>]
  <2>1. Foldable(Chains, n, << >>, turn)
    BY <1>1, <1>2, <1>3 DEF Foldable
  <2>2. \E f : FoldOf(Chains, n, << >>, turn, f)
    BY <2>1, Folded, Zenon
  <2> QED BY <2>2, Zenon DEF FoldOf
<1>6. ASSUME NEW k \in 0 .. n
      PROVE  f[k] = IF k = 0 THEN << >> ELSE f[k - 1] \o lists[k - 1]
  <2>1. CASE k # 0
    <3>1. k \in 1 .. n /\ k - 1 \in 0 .. n
      BY <1>1, <2>1
    <3>2. f[k - 1] \in Chains
      BY <1>5, <3>1
    <3> QED BY <1>4, <1>5, <2>1, <3>1, <3>2
  <2> QED BY <1>5, <2>1
<1>7. All(f)
  <2>1. f = [k \in 0 .. n |-> f[k]]
    BY <1>5
  <2> QED BY <1>6, <2>1 DEF All
<1> DEFINE g == CHOOSE h : All(h)
<1>8. All(g)
  BY <1>7
<1>9. AllNodes(lists) = g[n]
  BY Zenon DEF AllNodes, n, All
<1> HIDE DEF g
<1>10. \A k \in 0 .. n : g[k] = IF k = 0 THEN << >> ELSE g[k - 1] \o lists[k - 1]
  BY <1>8, Zenon DEF All
<1>11. \A k \in 0 .. n : g[k] \in Chains
  <2> DEFINE A == {k \in 0 .. n : g[k] \in Chains}
  <2>1. 0 \in A
    BY <1>1, <1>2, <1>10
  <2>2. ASSUME NEW k \in 0 .. n - 1, k \in A PROVE k + 1 \in A
    <3>1. k + 1 \in 0 .. n /\ k + 1 # 0 /\ (k + 1) - 1 = k /\ k + 1 \in 1 .. n
      BY <1>1
    <3>2. g[k + 1] = g[k] \o lists[k]
      BY <1>10, <3>1
    <3>3. lists[k] \in Chains
      BY <1>1, <3>1
    <3> QED BY <1>2, <2>2, <3>1, <3>2, <3>3
  <2>3. 0 .. n \subseteq A
    <3> HIDE DEF A
    <3> QED BY <1>1, <2>1, <2>2, UpToInSet
  <2> QED BY <2>3
<1>12. ListUpTo(g, lists)
  <2>1. \A k \in 1 .. n : k \in 0 .. n /\ k # 0
    BY <1>1
  <2>2. 0 \in 0 .. n
    BY <1>1
  <2> QED BY <1>10, <1>11, <2>1, <2>2 DEF ListUpTo, n, Chains
<1> QED BY <1>9, <1>12 DEF n

\* GetAsList shows of a key what its chain does.
LEMMA AllOwned ==
  ASSUME NEW lists, IsTable(lists), NEW key \in HashKeys
  PROVE  Owned(AllNodes(lists), key) = Owned(lists[hashFunction(key)], key)
<1> DEFINE n == HASH_SIZE
<1>1. PICK f : ListUpTo(f, lists) /\ AllNodes(lists) = f[HASH_SIZE]
  BY AllBy
<1>2. PICK h : h = hashFunction(key)
  OBVIOUS
<1>3. n \in Nat /\ h \in 0 .. n - 1
  BY <1>2, HashRange
<1>4. PICK own : own = Owned(lists[h], key)
  OBVIOUS
<1>5. \A k \in 0 .. n - 1 : lists[k] \in Seq(ChainNodes) /\ \A i \in 1 .. Len(lists[k]) : hashFunction(lists[k][i].string) = k
  BY DEF IsTable
<1>6. own \in Seq(HashData)
  BY <1>3, <1>4, <1>5, OwnedType
<1>7. \A k \in 0 .. n - 1 : k # h => Owned(lists[k], key) = << >>
  <2> SUFFICES ASSUME NEW k \in 0 .. n - 1, k # h PROVE Owned(lists[k], key) = << >>
    OBVIOUS
  <2>1. \A i \in 1 .. Len(lists[k]) : lists[k][i].string # key
    BY <1>2, <1>5
  <2> QED BY <1>5, <2>1, OwnedNone
<1> DEFINE A == {k \in 0 .. n : Owned(f[k], key) = IF h < k THEN own ELSE << >>}
<1>8. 0 \in A
  <2>1. << >> \in Seq(ChainNodes) /\ \A i \in 1 .. Len(<< >>) : << >>[i].string # key
    OBVIOUS
  <2>2. Owned(<< >>, key) = << >>
    BY <2>1, OwnedNone
  <2>3. f[0] = << >> /\ 0 \in 0 .. n /\ ~(h < 0)
    BY <1>1, <1>3 DEF ListUpTo
  <2> QED BY <2>2, <2>3
<1>9. ASSUME NEW k \in 0 .. n - 1, k \in A PROVE k + 1 \in A
  <2>1. k + 1 \in 1 .. n /\ (k + 1) - 1 = k /\ k + 1 \in 0 .. n /\ k \in 0 .. n
    BY <1>3
  <2>2. f[k + 1] = f[k] \o lists[k] /\ f[k] \in Seq(ChainNodes)
    BY <1>1, <2>1 DEF ListUpTo
  <2>3. Owned(f[k + 1], key) = Owned(f[k], key) \o Owned(lists[k], key)
    BY <1>5, <2>2, OwnedConcat
  <2>4. Owned(f[k], key) = IF h < k THEN own ELSE << >>
    BY <1>9
  <2>5. own \o << >> = own /\ << >> \o own = own /\ << >> \o << >> = << >>
    BY <1>6, ConcatEmptySeq
  <2>6. CASE k = h
    <3>1. ~(h < k) /\ h < k + 1
      BY <1>3, <2>6
    <3>2. Owned(lists[k], key) = own
      BY <1>4, <2>6
    <3> QED BY <2>1, <2>3, <2>4, <2>5, <3>1, <3>2
  <2>7. CASE k # h
    <3>1. h < k <=> h < k + 1
      BY <1>3, <2>7
    <3>2. Owned(lists[k], key) = << >>
      BY <1>7, <2>7
    <3> QED BY <2>1, <2>3, <2>4, <2>5, <3>1, <3>2
  <2> QED BY <2>6, <2>7
<1>10. n \in A
  <2>1. 0 .. n \subseteq A
    <3> HIDE DEF A
    <3> QED BY <1>3, <1>8, <1>9, UpToInSet
  <2>2. n \in 0 .. n
    BY <1>3
  <2> HIDE DEF A
  <2> QED BY <2>1, <2>2
<1>11. h < n
  BY <1>3
<1> QED BY <1>1, <1>2, <1>4, <1>10, <1>11

\* When one chain changes, all nodes are more or fewer by as many as that chain.
LEMMA AllSize ==
  ASSUME NEW lists, IsTable(lists), NEW after, IsTable(after), NEW h \in 0 .. HASH_SIZE - 1,
         \A k \in 0 .. HASH_SIZE - 1 : k # h => after[k] = lists[k]
  PROVE  Len(AllNodes(after)) = Len(AllNodes(lists)) + Len(after[h]) - Len(lists[h])
<1> DEFINE n == HASH_SIZE
<1>1. PICK f : ListUpTo(f, lists) /\ AllNodes(lists) = f[HASH_SIZE]
  BY AllBy
<1>2. PICK g : ListUpTo(g, after) /\ AllNodes(after) = g[HASH_SIZE]
  BY AllBy
<1>3. n \in Nat
  BY HashRange
<1>4. \A k \in 0 .. n - 1 : lists[k] \in Seq(ChainNodes) /\ after[k] \in Seq(ChainNodes)
  BY DEF IsTable
<1>5. PICK d : d = Len(after[h]) - Len(lists[h])
  OBVIOUS
<1>6. d = Len(after[h]) - Len(lists[h]) /\ d \in Int
  <2>1. Len(after[h]) \in Int /\ Len(lists[h]) \in Int
    BY <1>4
  <2> QED BY <1>5, <2>1
<1> DEFINE more == [k \in 0 .. n |-> IF h < k THEN d ELSE 0]
           F == [k \in 0 .. n |-> Len(f[k])]
           G == [k \in 0 .. n |-> Len(g[k])]
           a == [k \in 0 .. n - 1 |-> Len(lists[k])]
           b == [k \in 0 .. n - 1 |-> Len(after[k])]
           A == {k \in 0 .. n : G[k] = F[k] + more[k]}
<1>7. 0 \in A
  <2>1. f[0] = << >> /\ g[0] = << >> /\ Len(<< >>) = 0 /\ ~(h < 0) /\ 0 \in 0 .. n
    BY <1>1, <1>2, <1>3 DEF ListUpTo
  <2> QED BY <2>1
<1>8. ASSUME NEW k \in 0 .. n - 1, k \in A PROVE k + 1 \in A
  <2>1. k + 1 \in 1 .. n /\ (k + 1) - 1 = k /\ k + 1 \in 0 .. n /\ k \in 0 .. n
    BY <1>3
  <2>2. /\ f[k + 1] = f[k] \o lists[k] /\ f[k] \in Seq(ChainNodes)
        /\ g[k + 1] = g[k] \o after[k] /\ g[k] \in Seq(ChainNodes)
    BY <1>1, <1>2, <2>1 DEF ListUpTo
  <2>3. /\ F[k + 1] = F[k] + a[k] /\ G[k + 1] = G[k] + b[k]
        /\ F[k] \in Int /\ G[k] \in Int /\ a[k] \in Int /\ b[k] \in Int
    <3>1. /\ Len(f[k + 1]) = Len(f[k]) + Len(lists[k]) /\ Len(g[k + 1]) = Len(g[k]) + Len(after[k])
          /\ Len(f[k]) \in Int /\ Len(g[k]) \in Int /\ Len(lists[k]) \in Int /\ Len(after[k]) \in Int
      BY <1>4, <2>2, ConcatProperties, LenProperties
    <3> QED BY <2>1, <3>1
  <2>4. /\ more[k] \in Int /\ more[k + 1] \in Int
        /\ more[k] = (IF h < k THEN d ELSE 0) /\ more[k + 1] = IF h < k + 1 THEN d ELSE 0
    BY <1>6, <2>1
  <2>5. k = h => b[k] = a[k] + d
    BY <1>6, <2>3
  <2>6. k # h => b[k] = a[k]
    OBVIOUS
  <2> HIDE DEF more, F, G, a, b
  <2>7. more[k + 1] = more[k] + b[k] - a[k]
    <3>1. CASE k = h
      <4>1. ~(h < k) /\ h < k + 1
        BY <3>1
      <4>2. more[k] = 0 /\ more[k + 1] = d
        BY <2>4, <4>1
      <4>3. b[k] = a[k] + d
        BY <2>5, <3>1
      <4>4. d \in Int /\ a[k] \in Int
        BY <1>6, <2>3
      <4>5. a[k] + d - a[k] = d
        BY <4>4
      <4> QED BY <4>2, <4>3, <4>4, <4>5
    <3>2. CASE k # h
      <4>1. h < k <=> h < k + 1
        BY <1>3, <3>2
      <4>2. more[k + 1] = more[k]
        BY <2>4, <4>1
      <4> QED BY <2>3, <2>4, <2>6, <3>2, <4>2
    <3> QED BY <3>1, <3>2
  <2>8. G[k] = F[k] + more[k]
    BY <1>8
  <2>9. G[k + 1] = F[k + 1] + more[k + 1]
    BY <2>3, <2>4, <2>7, <2>8
  <2> QED BY <2>1, <2>9
<1>9. n \in A
  <2>1. 0 .. n \subseteq A
    <3> HIDE DEF A
    <3> QED BY <1>3, <1>7, <1>8, UpToInSet
  <2>2. n \in 0 .. n
    BY <1>3
  <2> HIDE DEF A
  <2> QED BY <2>1, <2>2
<1>10. h < n /\ Len(lists[h]) \in Int /\ Len(after[h]) \in Int
  BY <1>3, <1>4
<1>11. Len(g[n]) = Len(f[n]) + d
  BY <1>9, <1>10
<1>12. Len(f[n]) \in Int
  BY <1>1, <1>3 DEF ListUpTo
<1> QED BY <1>1, <1>2, <1>6, <1>10, <1>11, <1>12

-----------------------------------------------------------------------------
\* A sequence taken apart at a place.
Before(s, place) == SubSeq(s, 1, place - 1)
After(s, place) == SubSeq(s, place + 1, Len(s))

\* s is u, then one element at place, then v.
IsApart(S, s, place, u, v) ==
  /\ u \in Seq(S) /\ v \in Seq(S) /\ <<s[place]>> \in Seq(S)
  /\ SubSeq(s, 1, place) = u \o <<s[place]>>
  /\ s = SubSeq(s, 1, place) \o v
  /\ RemoveAt(s, place) = u \o v
  /\ Len(u) = place - 1 /\ Len(v) = Len(s) - place

LEMMA ApartAt ==
  ASSUME NEW S, NEW s \in Seq(S), NEW place \in 1 .. Len(s)
  PROVE  IsApart(S, s, place, Before(s, place), After(s, place))
<1>1. Len(s) \in Nat /\ place \in Nat /\ place >= 1 /\ s[place] \in S /\ \A k \in 1 .. Len(s) : s[k] \in S
  OBVIOUS
<1>2. Before(s, place) \in Seq(S) /\ Len(Before(s, place)) = place - 1
  <2>1. 1 \in Int /\ place - 1 \in Int /\ \A k \in 1 .. place - 1 : s[k] \in S
    BY <1>1
  <2>2. SubSeq(s, 1, place - 1) \in Seq(S) /\ Len(SubSeq(s, 1, place - 1)) = IF 1 <= place - 1 THEN place - 1 - 1 + 1 ELSE 0
    BY <2>1, SubSeqProperties
  <2> QED BY <1>1, <2>2 DEF Before
<1>3. After(s, place) \in Seq(S) /\ Len(After(s, place)) = Len(s) - place
  <2>1. place + 1 \in Int /\ Len(s) \in Int /\ \A k \in place + 1 .. Len(s) : s[k] \in S
    BY <1>1
  <2>2. SubSeq(s, place + 1, Len(s)) \in Seq(S)
        /\ Len(SubSeq(s, place + 1, Len(s))) = IF place + 1 <= Len(s) THEN Len(s) - (place + 1) + 1 ELSE 0
    BY <2>1, SubSeqProperties
  <2>3. place <= Len(s)
    OBVIOUS
  <2> QED BY <1>1, <2>2, <2>3 DEF After
<1>4. SubSeq(s, 1, place) = Before(s, place) \o <<s[place]>>
  <2>1. 1 \in 1 .. Len(s) /\ place \in 1 .. Len(s)
    BY <1>1
  <2> QED BY <2>1, SubSeqRecursiveSecond DEF Before
<1>5. s = SubSeq(s, 1, place) \o After(s, place)
  <2>1. /\ 1 \in 1 .. Len(s) + 1 /\ place \in 1 - 1 .. Len(s) /\ Len(s) \in place .. Len(s)
    BY <1>1
  <2>2. SubSeq(s, 1, place) \o SubSeq(s, place + 1, Len(s)) = SubSeq(s, 1, Len(s))
    BY <2>1, ConcatAdjacentSubSeq
  <2> QED BY <2>2, SubSeqFull DEF After
<1>6. RemoveAt(s, place) = Before(s, place) \o After(s, place)
  BY Zenon DEF RemoveAt, Before, After
<1>7. <<s[place]>> \in Seq(S)
  BY <1>1
<1> QED BY <1>2, <1>3, <1>4, <1>5, <1>6, <1>7, Zenon DEF IsApart

Rejoins(a, x, b) == RemoveAt((a \o <<x>>) \o b, Len(a) + 1) = a \o b
LEMMA RemovedBetween ==
  ASSUME NEW S, NEW a \in Seq(S), NEW x \in S, NEW b \in Seq(S)
  PROVE  Rejoins(a, x, b)
<1> DEFINE l == a \o <<x>>
           s == l \o b
           p == Len(a) + 1
           u == Before(s, p)
           v == After(s, p)
<1>1. /\ l \in Seq(S) /\ Len(l) = Len(a) + 1 /\ Len(a) \in Nat /\ Len(b) \in Nat
      /\ \A k \in 1 .. Len(a) : l[k] = a[k]
  OBVIOUS
<1> HIDE DEF l
<1>2. /\ s \in Seq(S) /\ Len(s) = Len(a) + 1 + Len(b)
      /\ \A k \in 1 .. Len(l) : s[k] = l[k]
      /\ \A k \in 1 .. Len(b) : s[Len(a) + 1 + k] = b[k]
  <2>1. /\ s \in Seq(S) /\ Len(s) = Len(l) + Len(b)
        /\ \A i \in 1 .. Len(l) + Len(b) : s[i] = IF i <= Len(l) THEN l[i] ELSE b[i - Len(l)]
    BY <1>1, ConcatProperties
  <2> HIDE DEF s
  <2>2. ASSUME NEW k \in 1 .. Len(b) PROVE s[Len(a) + 1 + k] = b[k]
    <3>1. /\ Len(a) + 1 + k \in 1 .. Len(l) + Len(b) /\ ~(Len(a) + 1 + k <= Len(l))
          /\ Len(a) + 1 + k - Len(l) = k
      BY <1>1
    <3> QED BY <2>1, <3>1
  <2>3. \A k \in 1 .. Len(l) : k \in 1 .. Len(l) + Len(b) /\ k <= Len(l)
    BY <1>1
  <2> QED BY <1>1, <2>1, <2>2, <2>3
<1> HIDE DEF s
<1>3. p \in 1 .. Len(s)
  BY <1>1, <1>2
<1>4. /\ u \in Seq(S) /\ v \in Seq(S) /\ Len(u) = Len(a) /\ Len(v) = Len(b)
      /\ RemoveAt(s, p) = u \o v
  <2>1. /\ u \in Seq(S) /\ v \in Seq(S) /\ Len(u) = p - 1 /\ Len(v) = Len(s) - p
        /\ RemoveAt(s, p) = u \o v
    <3>1. IsApart(S, s, p, u, v)
      BY <1>2, <1>3, ApartAt
    <3> HIDE DEF u, v, p
    <3> QED BY <3>1, Zenon DEF IsApart
  <2> HIDE DEF u, v
  <2> QED BY <1>1, <1>2, <2>1
<1>5. \A k \in 1 .. Len(a) : u[k] = a[k]
  <2>1. 1 \in Int /\ p - 1 \in Int /\ \A k \in 1 .. p - 1 : s[k] \in S
    BY <1>1, <1>2
  <2>2. \A k \in 1 .. p - 1 - 1 + 1 : SubSeq(s, 1, p - 1)[k] = s[1 + k - 1]
    BY <2>1, SubSeqProperties
  <2>3. \A k \in 1 .. Len(a) : k \in 1 .. p - 1 - 1 + 1 /\ 1 + k - 1 = k /\ k \in 1 .. Len(l)
    BY <1>1
  <2> QED BY <1>1, <1>2, <2>2, <2>3 DEF Before
<1>6. \A k \in 1 .. Len(b) : v[k] = b[k]
  <2>1. p + 1 \in Int /\ Len(s) \in Int /\ \A k \in p + 1 .. Len(s) : s[k] \in S
    BY <1>1, <1>2
  <2>2. \A k \in 1 .. Len(s) - (p + 1) + 1 : SubSeq(s, p + 1, Len(s))[k] = s[p + 1 + k - 1]
    BY <2>1, SubSeqProperties
  <2>3. \A k \in 1 .. Len(b) : k \in 1 .. Len(s) - (p + 1) + 1 /\ p + 1 + k - 1 = Len(a) + 1 + k
    BY <1>1, <1>2
  <2> QED BY <1>2, <2>2, <2>3 DEF After
<1> HIDE DEF u, v
<1>7. u = a /\ v = b
  BY <1>4, <1>5, <1>6, SeqEqual
<1> QED BY <1>4, <1>7, Zenon DEF s, l, p, Rejoins

-----------------------------------------------------------------------------
\* What the chains, the stacks and the size are to one another.
Shows(lists, st, n) ==
  /\ IsTable(lists) /\ st \in [HashKeys -> Seq(HashData)]
  /\ \A key \in HashKeys : Owned(lists[hashFunction(key)], key) = st[key]
  /\ n = Len(AllNodes(lists))

\* One chain changes, and with it one stack.
LEMMA ChainChanges ==
  ASSUME NEW lists, NEW st, NEW n, Shows(lists, st, n),
         NEW owner \in HashKeys, NEW h, h = hashFunction(owner), NEW chain \in Seq(ChainNodes),
         \A i \in 1 .. Len(chain) : hashFunction(chain[i].string) = h,
         \A key \in HashKeys \ {owner} : Owned(chain, key) = Owned(lists[h], key)
  PROVE  Shows([lists EXCEPT ![h] = chain], [st EXCEPT ![owner] = Owned(chain, owner)],
               n + Len(chain) - Len(lists[h]))
<1> DEFINE after == [lists EXCEPT ![h] = chain]
           own == Owned(chain, owner)
           stAfter == [st EXCEPT ![owner] = own]
<1>1. h \in 0 .. HASH_SIZE - 1 /\ \A key \in HashKeys : hashFunction(key) \in 0 .. HASH_SIZE - 1
  BY HashRange
<1>2. IsTable(lists) /\ st \in [HashKeys -> Seq(HashData)] /\ n = Len(AllNodes(lists))
  BY DEF Shows
<1>3. lists \in [0 .. HASH_SIZE - 1 -> Seq(ChainNodes)]
  BY <1>2 DEF IsTable
<1>4. own \in Seq(HashData)
  BY OwnedType
<1> HIDE DEF own
<1>5. /\ after \in [0 .. HASH_SIZE - 1 -> Seq(ChainNodes)] /\ after[h] = chain
      /\ \A k \in 0 .. HASH_SIZE - 1 : k # h => after[k] = lists[k]
  BY <1>1, <1>3
<1> HIDE DEF after
<1>6. IsTable(after)
  <2>1. ASSUME NEW k \in 0 .. HASH_SIZE - 1, NEW i \in 1 .. Len(after[k])
        PROVE  hashFunction(after[k][i].string) = k
    BY <1>2, <1>5, <2>1 DEF IsTable
  <2> QED BY <1>5, <2>1 DEF IsTable
<1>7. stAfter \in [HashKeys -> Seq(HashData)]
  BY <1>2, <1>4
<1>8. ASSUME NEW key \in HashKeys PROVE Owned(after[hashFunction(key)], key) = stAfter[key]
  <2>1. Owned(lists[hashFunction(key)], key) = st[key]
    BY DEF Shows
  <2>2. CASE key = owner
    BY <1>2, <1>5, <2>2 DEF own
  <2>3. CASE key # owner
    <3>1. stAfter[key] = st[key]
      BY <1>2, <2>3
    <3>2. CASE hashFunction(key) = h
      BY <1>5, <2>1, <2>3, <3>1, <3>2
    <3>3. CASE hashFunction(key) # h
      BY <1>1, <1>5, <2>1, <3>1, <3>3
    <3> QED BY <3>2, <3>3
  <2> QED BY <2>2, <2>3
<1>9. n + Len(chain) - Len(lists[h]) = Len(AllNodes(after))
  <2>1. Len(AllNodes(after)) = Len(AllNodes(lists)) + Len(after[h]) - Len(lists[h])
    BY <1>1, <1>2, <1>5, <1>6, AllSize
  <2> QED BY <1>2, <1>5, <2>1
<1> HIDE DEF stAfter
<1>10. Shows(after, stAfter, n + Len(chain) - Len(lists[h]))
  BY <1>6, <1>7, <1>8, <1>9 DEF Shows
<1> QED BY <1>10 DEF after, stAfter, own

\* A node goes: its key's stack is two pieces with its data between them, and they
\* join.
Going(lists, st, n, h, place, chain, owner, a) ==
  /\ Shows(lists, st, n) /\ h \in 0 .. HASH_SIZE - 1 /\ chain = lists[h]
  /\ place \in 1 .. Len(lists[h]) /\ owner = chain[place].string
  /\ a = Owned(Before(chain, place), owner)
Gone(lists, st, n, h, place, chain, owner, a) ==
  /\ owner \in HashKeys /\ hashFunction(owner) = h /\ a \in Seq(HashData) /\ st[owner] # << >>
  /\ Len(Owned(SubSeq(chain, 1, place), owner)) = Len(a) + 1
  /\ Shows([lists EXCEPT ![h] = WithoutNode(chain, place)],
           [st EXCEPT ![owner] = RemoveAt(st[owner], Len(a) + 1)], n - 1)

LEMMA NodeGone ==
  ASSUME NEW lists, NEW st, NEW n, NEW h, NEW place, NEW chain, NEW owner, NEW a,
         Going(lists, st, n, h, place, chain, owner, a)
  PROVE  Gone(lists, st, n, h, place, chain, owner, a)
<1>0. /\ Shows(lists, st, n) /\ h \in 0 .. HASH_SIZE - 1 /\ chain = lists[h]
      /\ place \in 1 .. Len(lists[h]) /\ owner = chain[place].string
      /\ a = Owned(Before(chain, place), owner)
  BY DEF Going
<1>1. /\ chain \in Seq(ChainNodes) /\ place \in 1 .. Len(chain) /\ IsTable(lists) /\ n = Len(AllNodes(lists))
      /\ st \in [HashKeys -> Seq(HashData)]
      /\ \A key \in HashKeys : Owned(lists[hashFunction(key)], key) = st[key]
  BY <1>0 DEF Shows, IsTable
<1> DEFINE u == Before(chain, place)
           x == chain[place]
           v == After(chain, place)
           l == SubSeq(chain, 1, place)
           b == Owned(v, owner)
           rest == WithoutNode(chain, place)
           q == st[owner]
<1>2. /\ u \in Seq(ChainNodes) /\ v \in Seq(ChainNodes) /\ <<x>> \in Seq(ChainNodes)
      /\ l = u \o <<x>> /\ chain = l \o v
      /\ RemoveAt(chain, place) = u \o v /\ Len(u) = place - 1 /\ Len(v) = Len(chain) - place
  <2>1. IsApart(ChainNodes, chain, place, u, v)
    BY <1>1, ApartAt
  <2> HIDE DEF u, v
  <2> QED BY <2>1, Zenon DEF IsApart
<1>3. x \in ChainNodes /\ owner \in HashKeys /\ x.data \in HashData /\ hashFunction(owner) = h
  <2>1. x \in ChainNodes
    BY <1>1
  <2>2. hashFunction(x.string) = h
    BY <1>0, <1>1 DEF IsTable
  <2> QED BY <1>0, <2>1, <2>2 DEF ChainNodes
<1>4. rest = u \o v
  <2>1. CASE Len(chain) = 1
    <3>1. Len(u) = 0 /\ Len(v) = 0
      BY <1>1, <1>2, <2>1
    <3> HIDE DEF u, v
    <3>2. u = << >> /\ v = << >>
      BY <1>2, <3>1
    <3>3. u \o v = << >>
      BY <3>2
    <3> QED BY <2>1, <3>3 DEF WithoutNode
  <2>2. CASE Len(chain) # 1
    BY <1>2, <2>2 DEF WithoutNode
  <2> QED BY <2>1, <2>2
<1> HIDE DEF u, v, x, l, rest
<1>5. l \in Seq(ChainNodes) /\ rest \in Seq(ChainNodes) /\ Len(rest) = Len(chain) - 1
  <2>1. place \in Int /\ Len(chain) \in Int /\ Len(rest) = Len(u) + Len(v)
    BY <1>1, <1>2, <1>4
  <2> QED BY <1>2, <1>4, <2>1
<1>6. l \in Seq(ChainNodes) /\ v \in Seq(ChainNodes) /\ chain = l \o v
  BY <1>2, <1>5
<1>7. a \in Seq(HashData) /\ b \in Seq(HashData) /\ Owned(<<x>>, owner) = <<x.data>>
  <2>1. a = Owned(u, owner)
    BY <1>0 DEF u
  <2>2. Owned(<<x>>, owner) = IF x.string = owner THEN <<x.data>> ELSE << >>
    BY <1>3, OwnedOne
  <2>3. x.string = owner
    BY <1>0 DEF x
  <2> QED BY <1>2, <2>1, <2>2, <2>3, OwnedType
<1>8. Owned(l, owner) = a \o <<x.data>> /\ Owned(rest, owner) = a \o b
  <2>1. a = Owned(u, owner)
    BY <1>0 DEF u
  <2>2. Owned(l, owner) = Owned(u, owner) \o Owned(<<x>>, owner)
    BY <1>2, OwnedConcat
  <2>3. Owned(u \o v, owner) = Owned(u, owner) \o Owned(v, owner)
    BY <1>2, OwnedConcat
  <2> QED BY <1>4, <1>7, <2>1, <2>2, <2>3
<1>9. q = (a \o <<x.data>>) \o b
  <2>1. Owned(l \o v, owner) = Owned(l, owner) \o Owned(v, owner)
    BY <1>6, OwnedConcat
  <2>2. q = Owned(chain, owner)
    BY <1>0, <1>1, <1>3
  <2> QED BY <1>2, <1>8, <2>1, <2>2
<1>10. RemoveAt(q, Len(a) + 1) = Owned(rest, owner)
  <2> HIDE DEF b, q
  <2>1. Rejoins(a, x.data, b)
    BY <1>3, <1>7, RemovedBetween
  <2> QED BY <1>8, <1>9, <2>1, Zenon DEF Rejoins
<1>11. q # << >> /\ Len(a \o <<x.data>>) = Len(a) + 1
  <2> HIDE DEF b, q
  <2>1. a \o <<x.data>> \in Seq(HashData) /\ Len(a \o <<x.data>>) = Len(a) + 1 /\ Len(a) \in Nat
    BY <1>3, <1>7
  <2>2. Len(q) = Len(a) + 1 + Len(b) /\ Len(b) \in Nat
    BY <1>7, <1>9, <2>1
  <2>3. Len(q) # 0
    BY <2>1, <2>2
  <2> QED BY <2>1, <2>3
<1>12. \A key \in HashKeys \ {owner} : Owned(rest, key) = Owned(lists[h], key)
  <2> SUFFICES ASSUME NEW key \in HashKeys \ {owner} PROVE Owned(rest, key) = Owned(chain, key)
    BY <1>0
  <2> DEFINE c == Owned(u, key)
             d == Owned(v, key)
  <2>1. c \in Seq(HashData) /\ d \in Seq(HashData)
    BY <1>2, OwnedType
  <2>2. Owned(<<x>>, key) = << >>
    <3>1. x.string # key
      BY <1>0 DEF x
    <3>2. Owned(<<x>>, key) = IF x.string = key THEN <<x.data>> ELSE << >>
      BY <1>3, OwnedOne
    <3> QED BY <3>1, <3>2
  <2>3. Owned(u \o v, key) = c \o d
    BY <1>2, OwnedConcat
  <2>4. Owned(l, key) = c \o Owned(<<x>>, key)
    BY <1>2, OwnedConcat
  <2>5. Owned(l \o v, key) = Owned(l, key) \o d
    BY <1>6, OwnedConcat
  <2> HIDE DEF c, d
  <2>6. c \o << >> = c
    BY <2>1, ConcatEmptySeq
  <2>7. Owned(l, key) = c
    BY <2>2, <2>4, <2>6
  <2>8. Owned(chain, key) = c \o d
    BY <1>6, <2>5, <2>7
  <2>9. Owned(rest, key) = c \o d
    BY <1>4, <2>3
  <2> QED BY <2>8, <2>9
<1>13. \A i \in 1 .. Len(rest) : hashFunction(rest[i].string) = h
  <2> SUFFICES ASSUME NEW i \in 1 .. Len(rest) PROVE \E k \in 1 .. Len(chain) : rest[i] = chain[k]
    BY <1>0, <1>1 DEF IsTable
  <2>1. Len(u) \in Nat /\ Len(v) \in Nat /\ Len(rest) = Len(u) + Len(v) /\ Len(chain) = Len(u) + 1 + Len(v)
    <3>1. Len(rest) = Len(u) + Len(v) /\ Len(u) \in Nat /\ Len(v) \in Nat
      BY <1>2, <1>4, ConcatProperties, LenProperties
    <3> QED BY <1>1, <1>2, <3>1
  <2>2. rest[i] = IF i <= Len(u) THEN u[i] ELSE v[i - Len(u)]
    BY <1>2, <1>4, <2>1, ConcatProperties, SMTT(30)
  <2>3. Len(l) = Len(u) + 1 /\ \A k \in 1 .. Len(u) : l[k] = u[k]
    BY <1>2, ConcatProperties
  <2>4. \A k \in 1 .. Len(chain) : chain[k] = IF k <= Len(u) + 1 THEN l[k] ELSE v[k - (Len(u) + 1)]
    <3>1. \A k \in 1 .. Len(l) + Len(v) : chain[k] = IF k <= Len(l) THEN l[k] ELSE v[k - Len(l)]
      BY <1>6, ConcatProperties
    <3>2. Len(chain) = Len(l) + Len(v)
      BY <2>1, <2>3
    <3> QED BY <2>3, <3>1, <3>2
  <2>5. CASE i <= Len(u)
    <3>1. i \in 1 .. Len(u) /\ i \in 1 .. Len(chain) /\ i <= Len(u) + 1
      BY <2>1, <2>5
    <3>2. chain[i] = u[i]
      BY <2>3, <2>4, <3>1
    <3> QED BY <2>2, <2>5, <3>1, <3>2
  <2>6. CASE ~(i <= Len(u))
    <3>1. i + 1 \in 1 .. Len(chain) /\ ~(i + 1 <= Len(u) + 1) /\ (i + 1) - (Len(u) + 1) = i - Len(u)
      BY <2>1, <2>6
    <3>2. chain[i + 1] = v[i - Len(u)]
      BY <2>4, <3>1
    <3> QED BY <2>2, <2>6, <3>1, <3>2
  <2> QED BY <2>5, <2>6
<1>14. Shows([lists EXCEPT ![h] = rest], [st EXCEPT ![owner] = Owned(rest, owner)],
             n + Len(rest) - Len(lists[h]))
  BY <1>0, <1>3, <1>5, <1>12, <1>13, ChainChanges
<1>15. n + Len(rest) - Len(lists[h]) = n - 1
  <2>1. AllNodes(lists) \in Seq(ChainNodes)
    <3>1. PICK f : ListUpTo(f, lists) /\ AllNodes(lists) = f[HASH_SIZE]
      BY <1>1, AllBy
    <3>2. HASH_SIZE \in 0 .. HASH_SIZE
      BY HashRange
    <3> QED BY <3>1, <3>2 DEF ListUpTo
  <2>2. n \in Int /\ Len(chain) \in Int
    BY <1>1, <2>1
  <2> QED BY <1>0, <1>5, <2>2
<1>16. Shows([lists EXCEPT ![h] = rest], [st EXCEPT ![owner] = RemoveAt(q, Len(a) + 1)], n - 1)
  BY <1>10, <1>14, <1>15, Zenon
<1>17. Owned(SubSeq(chain, 1, place), owner) = a \o <<x.data>>
  BY <1>8 DEF l
<1> QED BY <1>3, <1>7, <1>11, <1>16, <1>17, Zenon DEF rest, q, Gone

-----------------------------------------------------------------------------
HashInv ==
  \/ nodeList = << >> /\ size = 0 /\ stacks = [key \in HashKeys |-> << >>]
  \/ nodeList # << >> /\ Shows(nodeList, stacks, size)

NoNodes == [h \in 0 .. HASH_SIZE - 1 |-> << >>]

LEMMA NoNodesShow ==
  Shows(NoNodes, [key \in HashKeys |-> << >>], 0)
<1> DEFINE st == [key \in HashKeys |-> << >>]
<1>1. IsTable(NoNodes)
  <2>1. << >> \in Seq(ChainNodes) /\ \A i \in 1 .. Len(<< >>) : FALSE
    OBVIOUS
  <2>2. NoNodes \in [0 .. HASH_SIZE - 1 -> Seq(ChainNodes)] /\ \A h \in 0 .. HASH_SIZE - 1 : NoNodes[h] = << >>
    BY <2>1 DEF NoNodes
  <2> QED BY <2>1, <2>2 DEF IsTable
<1>2. st \in [HashKeys -> Seq(HashData)]
  OBVIOUS
<1>3. ASSUME NEW key \in HashKeys PROVE Owned(NoNodes[hashFunction(key)], key) = st[key]
  <2>1. NoNodes[hashFunction(key)] = << >>
    BY HashRange DEF NoNodes
  <2>2. << >> \in Seq(ChainNodes) /\ \A i \in 1 .. Len(<< >>) : << >>[i].string # key
    OBVIOUS
  <2> QED BY <2>1, <2>2, OwnedNone
<1>4. Len(AllNodes(NoNodes)) = 0
  <2>1. PICK f : ListUpTo(f, NoNodes) /\ AllNodes(NoNodes) = f[HASH_SIZE]
    BY <1>1, AllBy
  <2> DEFINE A == {k \in 0 .. HASH_SIZE : f[k] = << >>}
  <2>2. 0 \in A
    BY <2>1, HashRange DEF ListUpTo
  <2>3. ASSUME NEW k \in 0 .. HASH_SIZE - 1, k \in A PROVE k + 1 \in A
    <3>1. k + 1 \in 1 .. HASH_SIZE /\ (k + 1) - 1 = k /\ k + 1 \in 0 .. HASH_SIZE
      BY HashRange
    <3>2. f[k + 1] = f[k] \o NoNodes[k] /\ NoNodes[k] = << >> /\ f[k] = << >>
      BY <2>1, <2>3, <3>1 DEF ListUpTo, NoNodes
    <3>3. << >> \o << >> = << >>
      OBVIOUS
    <3> QED BY <3>1, <3>2, <3>3
  <2>4. 0 .. HASH_SIZE \subseteq A
    <3> HIDE DEF A
    <3> QED BY <2>2, <2>3, HashRange, UpToInSet
  <2>5. HASH_SIZE \in 0 .. HASH_SIZE
    BY HashRange
  <2>6. f[HASH_SIZE] = << >>
    BY <2>4, <2>5
  <2> QED BY <2>1, <2>6
<1> QED BY <1>1, <1>2, <1>3, <1>4 DEF Shows

LEMMA ShowsKeepsInv ==
  ASSUME Shows(nodeList', stacks', size')
  PROVE  HashInv'
<1>1. nodeList' # << >>
  BY TableNotEmpty DEF Shows
<1>2. HashInv' <=> \/ nodeList' = << >> /\ size' = 0 /\ stacks' = [key \in HashKeys |-> << >>]
                   \/ nodeList' # << >> /\ Shows(nodeList', stacks', size')
  BY DEF HashInv, Shows, IsTable, AllNodes, Owned, ChainNodes, hashFunction
<1> QED BY <1>1, <1>2

LEMMA HashPushStep ==
  ASSUME HashInv, NEW key \in HashKeys, NEW x \in HashData, HashPush(key, x)
  PROVE  HashInv'
<1>1. PICK lists : lists = IF nodeList = << >> THEN NoNodes ELSE nodeList
  OBVIOUS
<1>2. Shows(lists, stacks, size)
  BY <1>1, NoNodesShow, Zenon DEF HashInv
<1>3. PICK h : h = hashFunction(key)
  OBVIOUS
<1>4. /\ h \in 0 .. HASH_SIZE - 1 /\ lists[h] \in Seq(ChainNodes) /\ lists \in [0 .. HASH_SIZE - 1 -> Seq(ChainNodes)]
      /\ \A i \in 1 .. Len(lists[h]) : hashFunction(lists[h][i].string) = h
      /\ stacks \in [HashKeys -> Seq(HashData)]
  BY <1>2, <1>3, HashRange DEF Shows, IsTable
<1>5. PICK new : new = [string |-> key, data |-> x]
  OBVIOUS
<1>6. PICK chain : chain = <<new>> \o lists[h]
  OBVIOUS
<1>7. /\ nodeList' = [lists EXCEPT ![h] = chain]
      /\ size' = size + 1 /\ stacks' = [stacks EXCEPT ![key] = <<x>> \o @]
  BY <1>1, <1>3, <1>4, <1>5, <1>6, Zenon DEF HashPush, NoNodes
<1>8. new \in ChainNodes /\ new.string = key /\ new.data = x /\ <<new>> \in Seq(ChainNodes)
  BY <1>5 DEF ChainNodes
<1>9. /\ chain \in Seq(ChainNodes) /\ Len(chain) = 1 + Len(lists[h])
      /\ \A i \in 1 .. Len(chain) : chain[i] = IF i = 1 THEN new ELSE lists[h][i - 1]
  <2>1. Len(<<new>>) = 1 /\ <<new>>[1] = new /\ Len(lists[h]) \in Nat
    BY <1>4
  <2>2. /\ chain \in Seq(ChainNodes) /\ Len(chain) = 1 + Len(lists[h])
        /\ \A i \in 1 .. 1 + Len(lists[h]) : chain[i] = IF i <= 1 THEN <<new>>[i] ELSE lists[h][i - 1]
    BY <1>4, <1>6, <1>8, <2>1, ConcatProperties
  <2> QED BY <2>1, <2>2
<1>10. \A i \in 1 .. Len(chain) : hashFunction(chain[i].string) = h
  <2> SUFFICES ASSUME NEW i \in 1 .. Len(chain) PROVE hashFunction(chain[i].string) = h
    OBVIOUS
  <2>1. CASE i = 1
    BY <1>3, <1>8, <1>9, <2>1
  <2>2. CASE i # 1
    <3>1. i - 1 \in 1 .. Len(lists[h])
      BY <1>4, <1>9, <2>2
    <3> QED BY <1>4, <1>9, <2>2, <3>1
  <2> QED BY <2>1, <2>2
<1>11. \A k \in HashKeys : Owned(chain, k) = IF k = key THEN <<x>> \o Owned(lists[h], k) ELSE Owned(lists[h], k)
  <2> SUFFICES ASSUME NEW k \in HashKeys
               PROVE  Owned(chain, k) = IF k = key THEN <<x>> \o Owned(lists[h], k) ELSE Owned(lists[h], k)
    OBVIOUS
  <2> DEFINE own == Owned(lists[h], k)
  <2>1. Owned(chain, k) = Owned(<<new>>, k) \o own
    BY <1>4, <1>6, <1>8, OwnedConcat
  <2>2. Owned(<<new>>, k) = IF key = k THEN <<x>> ELSE << >>
    BY <1>8, OwnedOne
  <2>3. own \in Seq(HashData)
    BY <1>4, OwnedType
  <2> HIDE DEF own
  <2>4. << >> \o own = own
    BY <2>3, ConcatEmptySeq
  <2> QED BY <2>1, <2>2, <2>4 DEF own
<1>12. stacks' = [stacks EXCEPT ![key] = Owned(chain, key)]
  <2>1. Owned(lists[h], key) = stacks[key]
    BY <1>2, <1>3 DEF Shows
  <2> QED BY <1>7, <1>11, <2>1
<1>13. size' = size + Len(chain) - Len(lists[h])
  <2>1. PICK f : ListUpTo(f, lists) /\ AllNodes(lists) = f[HASH_SIZE]
    BY <1>2, AllBy DEF Shows
  <2>2. HASH_SIZE \in 0 .. HASH_SIZE
    BY HashRange
  <2>3. AllNodes(lists) \in Seq(ChainNodes)
    BY <2>1, <2>2 DEF ListUpTo
  <2>4. size \in Int /\ Len(lists[h]) \in Int
    BY <1>2, <1>4, <2>3 DEF Shows
  <2> QED BY <1>7, <1>9, <2>4
<1>14. Shows([lists EXCEPT ![h] = chain], [stacks EXCEPT ![key] = Owned(chain, key)],
             size + Len(chain) - Len(lists[h]))
  <2>1. \A k \in HashKeys \ {key} : Owned(chain, k) = Owned(lists[h], k)
    BY <1>11
  <2> QED BY <1>2, <1>3, <1>9, <1>10, <2>1, ChainChanges
<1>15. Shows(nodeList', stacks', size')
  BY <1>7, <1>12, <1>13, <1>14
<1> QED BY <1>15, ShowsKeepsInv

LEMMA RemoveStep ==
  ASSUME HashInv, NEW key \in HashKeys, NEW place, HashRemoveAtIndex(key, place)
  PROVE  HashInv'
<1>1. nodeList # << >> /\ Shows(nodeList, stacks, size)
  <2>1. Chain(key) # << >>
    BY DEF HashRemoveAtIndex
  <2> QED BY <2>1 DEF Chain, HashInv
<1>2. PICK h : h = hashFunction(key) /\ h \in 0 .. HASH_SIZE - 1
  BY HashRange
<1>3. PICK chain : chain = nodeList[h]
  OBVIOUS
<1>4. Chain(key) = chain /\ chain \in Seq(ChainNodes) /\ nodeList \in [0 .. HASH_SIZE - 1 -> Seq(ChainNodes)]
      /\ stacks \in [HashKeys -> Seq(HashData)]
  BY <1>1, <1>2, <1>3 DEF Chain, Shows, IsTable
<1>5. place \in 1 .. Len(nodeList[h])
  BY <1>3, <1>4 DEF HashRemoveAtIndex
<1>6. PICK owner : owner = chain[place].string
  OBVIOUS
<1>7. PICK a : a = Owned(Before(chain, place), owner)
  OBVIOUS
<1>8. /\ owner \in HashKeys /\ Len(Owned(SubSeq(chain, 1, place), owner)) = Len(a) + 1
      /\ Shows([nodeList EXCEPT ![h] = WithoutNode(chain, place)],
               [stacks EXCEPT ![owner] = RemoveAt(stacks[owner], Len(a) + 1)], size - 1)
  <2>1. Going(nodeList, stacks, size, h, place, chain, owner, a)
    BY <1>1, <1>2, <1>3, <1>5, <1>6, <1>7, Zenon DEF Going
  <2>2. Gone(nodeList, stacks, size, h, place, chain, owner, a)
    BY <2>1, NodeGone, Zenon
  <2> QED BY <2>2, Zenon DEF Gone
<1>9. /\ nodeList' = [nodeList EXCEPT ![h] = WithoutNode(chain, place)]
      /\ size' = size - 1
      /\ stacks' = [stacks EXCEPT ![owner] = RemoveAt(stacks[owner], Len(a) + 1)]
  <2>1. /\ nodeList' = [nodeList EXCEPT ![h] = WithoutNode(nodeList[h], place)] /\ size' = size - 1
        /\ stacks' = [stacks EXCEPT ![chain[place].string]
                        = RemoveAt(@, Len(Owned(SubSeq(chain, 1, place), chain[place].string)))]
    BY <1>2, <1>4, Zenon DEF HashRemoveAtIndex, RemoveHashNode
  <2> QED BY <1>3, <1>6, <1>8, <2>1
<1>10. Shows(nodeList', stacks', size')
  BY <1>8, <1>9
<1> QED BY <1>10, ShowsKeepsInv

LEMMA FirstOfKey ==
  ASSUME NEW key, GetSecondaryIndex(key) # 0, Chain(key) \in Seq(ChainNodes)
  PROVE  /\ GetSecondaryIndex(key) \in 1 .. Len(Chain(key))
         /\ Chain(key)[GetSecondaryIndex(key)].string = key
         /\ \A i \in 1 .. GetSecondaryIndex(key) - 1 : Chain(key)[i].string # key
<1> DEFINE s == Chain(key)
           I == {i \in 1 .. Len(s) : s[i].string = key}
           p == GetSecondaryIndex(key)
<1>1. p = IF I # {} THEN Min(I) ELSE 0
  BY DEF GetSecondaryIndex, SelectInSeq
<1>2. I # {} /\ p = CHOOSE x \in I : \A y \in I : x <= y
  BY <1>1 DEF Min
<1>3. I \in SUBSET Nat
  OBVIOUS
<1>4. \E x \in I : \A y \in I : x <= y
  <2> HIDE DEF I
  <2> QED BY <1>2, <1>3, LeastNatural
<1>5. p \in I /\ \A y \in I : p <= y
  <2> HIDE DEF I
  <2> QED BY <1>2, <1>4
<1>6. \A i \in 1 .. p - 1 : i \in 1 .. Len(s) /\ ~(p <= i)
  BY <1>5
<1>7. \A i \in 1 .. p - 1 : s[i].string # key
  BY <1>5, <1>6
<1> QED BY <1>5, <1>7

LEMMA PopHashStep ==
  ASSUME HashInv, NEW key \in HashKeys, HashPop(key)
  PROVE  HashInv'
<1>1. nodeList # << >> /\ Shows(nodeList, stacks, size)
  <2>1. CASE nodeList = << >>
    <3>1. Chain(key) = << >> /\ << >> \in Seq(ChainNodes) /\ Len(<< >>) = 0
      BY <2>1 DEF Chain
    <3>2. GetSecondaryIndex(key) # 0
      BY DEF HashPop
    <3>3. GetSecondaryIndex(key) \in 1 .. Len(Chain(key))
      BY <3>1, <3>2, FirstOfKey
    <3> QED BY <3>1, <3>3
  <2>2. CASE nodeList # << >>
    BY <2>2 DEF HashInv
  <2> QED BY <2>1, <2>2
<1>2. PICK h : h = hashFunction(key) /\ h \in 0 .. HASH_SIZE - 1
  BY HashRange
<1>3. PICK chain : chain = nodeList[h]
  OBVIOUS
<1>4. Chain(key) = chain /\ chain \in Seq(ChainNodes) /\ nodeList \in [0 .. HASH_SIZE - 1 -> Seq(ChainNodes)]
      /\ stacks \in [HashKeys -> Seq(HashData)]
  BY <1>1, <1>2, <1>3 DEF Chain, Shows, IsTable
<1>5. PICK place : place = GetSecondaryIndex(key)
  OBVIOUS
<1>6. /\ place \in 1 .. Len(nodeList[h]) /\ chain[place].string = key
      /\ \A i \in 1 .. place - 1 : chain[i].string # key
  <2>1. GetSecondaryIndex(key) # 0
    BY DEF HashPop
  <2>2. /\ GetSecondaryIndex(key) \in 1 .. Len(Chain(key))
        /\ Chain(key)[GetSecondaryIndex(key)].string = key
        /\ \A i \in 1 .. GetSecondaryIndex(key) - 1 : Chain(key)[i].string # key
    BY <1>4, <2>1, FirstOfKey
  <2> QED BY <1>3, <1>4, <1>5, <2>2
<1>7. PICK a : a = Owned(Before(chain, place), key)
  OBVIOUS
<1>8. a = << >>
  <2>1. IsApart(ChainNodes, chain, place, Before(chain, place), After(chain, place))
    BY <1>3, <1>4, <1>6, ApartAt
  <2>2. Before(chain, place) \in Seq(ChainNodes) /\ Len(Before(chain, place)) = place - 1
    BY <2>1, Zenon DEF IsApart
  <2>3. ASSUME NEW i \in 1 .. place - 1 PROVE Before(chain, place)[i].string # key
    <3>1. 1 \in Int /\ place - 1 \in Int /\ \A k \in 1 .. place - 1 : chain[k] \in ChainNodes
      BY <1>3, <1>4, <1>6
    <3>2. \A k \in 1 .. place - 1 - 1 + 1 : SubSeq(chain, 1, place - 1)[k] = chain[1 + k - 1]
      BY <3>1, SubSeqProperties
    <3>3. i \in 1 .. place - 1 - 1 + 1 /\ 1 + i - 1 = i
      BY <3>1
    <3> QED BY <1>6, <3>2, <3>3 DEF Before
  <2> QED BY <1>7, <2>2, <2>3, OwnedNone
<1>9. /\ stacks[key] # << >>
      /\ Shows([nodeList EXCEPT ![h] = WithoutNode(chain, place)],
               [stacks EXCEPT ![key] = RemoveAt(stacks[key], Len(a) + 1)], size - 1)
  <2>1. Going(nodeList, stacks, size, h, place, chain, key, a)
    BY <1>1, <1>2, <1>3, <1>6, <1>7, Zenon DEF Going
  <2>2. Gone(nodeList, stacks, size, h, place, chain, key, a)
    BY <2>1, NodeGone, Zenon
  <2> QED BY <2>2, Zenon DEF Gone
<1>10. RemoveAt(stacks[key], Len(a) + 1) = Tail(stacks[key])
  <2>1. PICK s : s = stacks[key] /\ s \in Seq(HashData) /\ s # << >>
    BY <1>4, <1>9
  <2>2. Len(a) + 1 = 1
    BY <1>8
  <2>3. SubSeq(s, 1, 1 - 1) = << >>
    BY SubSeqEmpty
  <2>4. SubSeq(s, 1 + 1, Len(s)) = Tail(s)
    BY <2>1, TailIsSubSeq
  <2>5. << >> \o Tail(s) = Tail(s)
    BY <2>1, HeadTailProperties, ConcatEmptySeq
  <2>6. RemoveAt(s, 1) = Tail(s)
    BY <2>3, <2>4, <2>5, Zenon DEF RemoveAt
  <2> QED BY <2>1, <2>2, <2>6
<1>11. /\ nodeList' = [nodeList EXCEPT ![h] = WithoutNode(chain, place)] /\ size' = size - 1
       /\ stacks' = [stacks EXCEPT ![key] = Tail(stacks[key])]
  <2>1. /\ nodeList' = [nodeList EXCEPT ![h] = WithoutNode(nodeList[h], place)] /\ size' = size - 1
        /\ stacks' = [stacks EXCEPT ![key] = Tail(@)]
    BY <1>2, <1>5, Zenon DEF HashPop, RemoveHashNode
  <2> QED BY <1>3, <2>1
<1>12. Shows(nodeList', stacks', size')
  BY <1>9, <1>10, <1>11
<1> QED BY <1>12, ShowsKeepsInv

THEOREM HashInvariance == HashSpec => []HashInv
<1>1. HashInit => HashInv
  BY DEF HashInit, HashInv
<1>2. HashInv /\ [HashNext]_hashVars => HashInv'
  <2> SUFFICES ASSUME HashInv, [HashNext]_hashVars PROVE HashInv'
    OBVIOUS
  <2>1. ASSUME NEW key \in HashKeys, NEW x \in HashData, HashPush(key, x) PROVE HashInv'
    BY <2>1, HashPushStep
  <2>2. ASSUME NEW key \in HashKeys, HashPop(key) PROVE HashInv'
    BY <2>2, PopHashStep
  <2>3. ASSUME NEW key \in HashKeys, NEW place \in 1 .. MaxHashed, HashRemoveAtIndex(key, place) PROVE HashInv'
    BY <2>3, RemoveStep
  <2>4. CASE HashClear
    BY <2>4 DEF HashClear, HashInv
  <2>5. CASE UNCHANGED hashVars
    <3>1. nodeList' = nodeList /\ size' = size /\ stacks' = stacks
      BY <2>5 DEF hashVars
    <3>2. CASE nodeList = << >>
      BY <3>1, <3>2 DEF HashInv
    <3>3. CASE nodeList # << >>
      <4>1. Shows(nodeList', stacks', size')
        BY <3>1, <3>3 DEF HashInv
      <4> QED BY <4>1, ShowsKeepsInv
    <3> QED BY <3>2, <3>3
  <2> QED BY <2>1, <2>2, <2>3, <2>4, <2>5, Zenon DEF HashNext
<1> QED BY <1>1, <1>2, PTL DEF HashSpec

\* For any keys, data and number of chains: the data under each key are the stack of
\* what was pushed there and not taken, in its chain and in GetAsList.
THEOREM HashCorrect == HashSpec => []EachKeyIsAStack
<1>1. HashInv => EachKeyIsAStack
  <2> SUFFICES ASSUME HashInv PROVE EachKeyIsAStack
    OBVIOUS
  <2>1. CASE nodeList = << >>
    <3>1. \A key : << >> \in Seq(ChainNodes) /\ (\A i \in 1 .. Len(<< >>) : << >>[i].string # key)
      OBVIOUS
    <3>2. \A key : Owned(<< >>, key) = << >>
      BY <3>1, OwnedNone
    <3> QED BY <2>1, <3>2 DEF HashInv, EachKeyIsAStack, GetAsList, Chain
  <2>2. CASE nodeList # << >>
    <3>1. Shows(nodeList, stacks, size)
      BY <2>2 DEF HashInv
    <3>2. ASSUME NEW key \in HashKeys
          PROVE  Owned(GetAsList, key) = stacks[key] /\ Owned(Chain(key), key) = stacks[key]
      <4>1. Owned(AllNodes(nodeList), key) = Owned(nodeList[hashFunction(key)], key)
        BY <3>1, AllOwned DEF Shows
      <4> QED BY <2>2, <3>1, <4>1 DEF Shows, GetAsList, Chain
    <3>3. size = Len(GetAsList)
      BY <2>2, <3>1 DEF Shows, GetAsList
    <3> QED BY <3>2, <3>3 DEF EachKeyIsAStack
  <2> QED BY <2>1, <2>2
<1> QED BY <1>1, HashInvariance, PTL

-----------------------------------------------------------------------------
(***************************************************************************)
(* WeightedGraph: a round of the matrix.  The nodes of D are settled; no   *)
(* cost is more than b.                                                    *)
(***************************************************************************)
GoodLists(L) ==
  /\ DOMAIN L \subseteq Nodes
  /\ \A a \in DOMAIN L : \A b \in DOMAIN L[a] :
       b \in DOMAIN L /\ b # a /\ a \in DOMAIN L[b] /\ L[a][b] \in EdgeWeights /\ L[b][a] = L[a][b]

RoundHolds(L, start, s, D, b) ==
  LET V == DOMAIN L IN
  /\ s = [current |-> s.current, open |-> s.open, costs |-> s.costs]
  /\ s.costs \in [V -> 0 .. INFINITE_WEIGHT]
  /\ D \subseteq V /\ s.open \subseteq V \ D
  /\ IF s.current = NoneLeft THEN s.open = {}
     ELSE /\ s.current \in V \ (D \union s.open)
          /\ \A n \in s.open : s.costs[s.current] <= s.costs[n]
  /\ \A n \in V : IF n \in D \union s.open \union {s.current} THEN s.costs[n] <= b
                  ELSE s.costs[n] = INFINITE_WEIGHT
  /\ \A u \in D, n \in V \ D : s.costs[u] <= s.costs[n]
  /\ \A u \in D : \A n \in DOMAIN L[u] : s.costs[n] <= s.costs[u] + L[u][n]
  /\ start \in D \union {s.current} /\ s.costs[start] = 0
SettledBy(s, D) == IF s.current = NoneLeft THEN D ELSE D \union {s.current}
\* What a round changes.
Improves(L, s, t) ==
  /\ \A n \in DOMAIN L : t.costs[n] # s.costs[n] =>
       /\ s.current \in DOMAIN L /\ n \in DOMAIN L[s.current]
       /\ t.costs[n] = s.costs[s.current] + L[s.current][n]
  /\ s.current # NoneLeft => t.costs[s.current] = s.costs[s.current]

LEMMA GraphFacts ==
  ASSUME NEW L, GoodLists(L)
  PROVE  /\ DOMAIN L \subseteq Nat /\ IsFiniteSet(DOMAIN L) /\ NoneLeft \notin DOMAIN L
         /\ Cardinality(DOMAIN L) \in Nat /\ Cardinality(DOMAIN L) <= Cardinality(Nodes)
         /\ LargestWeight \in Nat /\ INFINITE_WEIGHT \in Nat
         /\ \A a \in DOMAIN L : \A b \in DOMAIN L[a] :
              b \in DOMAIN L /\ b # a /\ L[a][b] \in 1 .. LargestWeight /\ L[b][a] = L[a][b]
         /\ Cardinality(Nodes) \in Nat /\ Cardinality(Nodes) * LargestWeight < INFINITE_WEIGHT
<1>1. /\ Nodes \subseteq Nat /\ IsFiniteSet(Nodes) /\ EdgeWeights \subseteq 1 .. LargestWeight
      /\ INFINITE_WEIGHT \in Nat \ {0} /\ Nodes # {}
  BY GraphAssumption
<1>2. DOMAIN L \subseteq Nodes
  BY DEF GoodLists
<1>3. Cardinality(Nodes) \in Nat /\ Cardinality(Nodes) # 0
  BY <1>1, FS_CardinalityType, FS_EmptySet
<1>4. LargestWeight \in Nat /\ Cardinality(Nodes) * LargestWeight < INFINITE_WEIGHT
  <2> DEFINE N == Cardinality(Nodes)
             x == INFINITE_WEIGHT - 1
  <2>1. N \in Nat /\ N > 0 /\ x \in Nat /\ LargestWeight = x \div N
    BY <1>1, <1>3 DEF LargestWeight
  <2> HIDE DEF N, x
  <2>2. x \div N \in Int /\ x = N * (x \div N) + (x % N) /\ x % N \in 0 .. N - 1
    BY <2>1
  <2>3. x \div N >= 0
    BY <2>1
  <2>4. N * (x \div N) \in Int /\ N * (x \div N) <= x
    BY <2>1, <2>2
  <2> QED BY <1>1, <2>1, <2>2, <2>3, <2>4 DEF N, x
<1>5. IsFiniteSet(DOMAIN L) /\ Cardinality(DOMAIN L) <= Cardinality(Nodes)
  BY <1>1, <1>2, FS_Subset
<1>6. Cardinality(DOMAIN L) \in Nat
  BY <1>5, FS_CardinalityType
<1>7. DOMAIN L \subseteq Nat /\ NoneLeft \notin DOMAIN L
  <2>1. NoneLeft \notin Nat
    BY DEF NoneLeft
  <2> QED BY <1>1, <1>2, <2>1
<1>8. \A a \in DOMAIN L : \A b \in DOMAIN L[a] :
        b \in DOMAIN L /\ b # a /\ L[a][b] \in 1 .. LargestWeight /\ L[b][a] = L[a][b]
  BY <1>1 DEF GoodLists
<1> QED BY <1>1, <1>3, <1>4, <1>5, <1>6, <1>7, <1>8

\* Of nodes that are left there is one of the least cost.
LEMMA LeastCost ==
  ASSUME NEW open, open # {}, NEW row, \A n \in open : row[n] \in Nat
  PROVE  \E n \in open : \A o \in open : row[n] <= row[o]
<1> DEFINE S == {row[n] : n \in open}
<1>1. S \subseteq Nat /\ S # {}
  OBVIOUS
<1>2. PICK x \in S : \A y \in S : x <= y
  <2> HIDE DEF S
  <2> QED BY <1>1, LeastNatural
<1> QED BY <1>2

LEMMA FirstHolds ==
  ASSUME NEW L, GoodLists(L), NEW start \in DOMAIN L
  PROVE  RoundHolds(L, start, FirstRound(L, start), {}, 0) /\ FirstRound(L, start).current = start
<1>1. start # NoneLeft /\ INFINITE_WEIGHT \in Nat /\ INFINITE_WEIGHT # 0
  BY GraphFacts, GraphAssumption
<1>2. /\ FirstRound(L, start).current = start /\ FirstRound(L, start).open = {}
      /\ FirstRound(L, start).costs = [n \in DOMAIN L |-> IF n = start THEN 0 ELSE INFINITE_WEIGHT]
      /\ FirstRound(L, start) = [current |-> FirstRound(L, start).current, open |-> FirstRound(L, start).open,
                                 costs |-> FirstRound(L, start).costs]
  BY DEF FirstRound
<1> DEFINE s == FirstRound(L, start)
<1> HIDE DEF s
<1> QED BY <1>1, <1>2 DEF RoundHolds, s

\* A round settles the current node; settled nodes keep their costs.
LEMMA NextHolds ==
  ASSUME NEW L, GoodLists(L), NEW start \in DOMAIN L, NEW s, NEW D, NEW b \in Nat,
         RoundHolds(L, start, s, D, b), b + LargestWeight < INFINITE_WEIGHT
  PROVE  /\ RoundHolds(L, start, NextRound(L, s), SettledBy(s, D), b + LargestWeight)
         /\ Improves(L, s, NextRound(L, s))
<1> DEFINE V == DOMAIN L
           t == NextRound(L, s)
           c == s.current
           list == ListOf(L, c)
           better == {n \in DOMAIN list : Cheaper(s.costs[c] + list[n], s.costs[n])}
           row == [n \in DOMAIN L |-> IF n \in better THEN s.costs[c] + list[n] ELSE s.costs[n]]
           open == s.open \union better
           least == IF open = {} THEN NoneLeft
                    ELSE CHOOSE n \in open : \A o \in open : row[n] <= row[o]
           E == SettledBy(s, D)
           W == LargestWeight
<1>1. /\ W \in Nat /\ INFINITE_WEIGHT \in Nat /\ NoneLeft \notin V
      /\ \A a \in V : \A n \in DOMAIN L[a] : n \in V /\ n # a /\ L[a][n] \in 1 .. W
  BY GraphFacts
<1>2. /\ s.costs \in [V -> 0 .. INFINITE_WEIGHT] /\ D \subseteq V /\ s.open \subseteq V \ D
      /\ c = NoneLeft => s.open = {}
      /\ c # NoneLeft => /\ c \in V /\ c \notin D /\ c \notin s.open
                         /\ \A n \in s.open : s.costs[c] <= s.costs[n]
      /\ \A n \in V : /\ n \in D \/ n \in s.open \/ n = c => s.costs[n] <= b
                      /\ ~(n \in D \/ n \in s.open \/ n = c) => s.costs[n] = INFINITE_WEIGHT
      /\ \A u \in D, n \in V \ D : s.costs[u] <= s.costs[n]
      /\ \A u \in D : \A n \in DOMAIN L[u] : s.costs[n] <= s.costs[u] + L[u][n]
      /\ start \in D \/ start = c
      /\ s.costs[start] = 0
  BY DEF RoundHolds
<1>3. t.current = least /\ t.open = open \ {least} /\ t.costs = row
      /\ t = [current |-> t.current, open |-> t.open, costs |-> t.costs]
  BY DEF NextRound
<1>4. \A n \in V : s.costs[n] \in Int /\ 0 <= s.costs[n] /\ s.costs[n] <= INFINITE_WEIGHT
  BY <1>1, <1>2
\* What the round finds.
<1>5. /\ \A n \in better : /\ c \in V /\ n \in DOMAIN L[c] /\ n \in V /\ n \notin E
                           /\ row[n] = s.costs[c] + L[c][n]
                           /\ row[n] < s.costs[n] /\ row[n] \in Int /\ s.costs[c] <= row[n]
                           /\ row[n] <= b + W
      /\ \A n \in V : n \notin better => row[n] = s.costs[n]
      /\ c \in V => \A n \in DOMAIN L[c] : row[n] <= s.costs[c] + L[c][n]
  <2>1. CASE c = NoneLeft
    <3>1. list = << >>
      BY <1>1, <2>1 DEF ListOf
    <3>2. better = {}
      <4>1. DOMAIN list = {}
        BY <3>1
      <4> HIDE DEF list
      <4> QED BY <4>1
    <3> HIDE DEF better, list, E
    <3> QED BY <1>1, <2>1, <3>2
  <2>2. CASE c # NoneLeft
    <3>1. c \in V /\ list = L[c]
      BY <1>2, <2>2 DEF ListOf
    <3>2. ASSUME NEW n \in better
          PROVE  /\ n \in DOMAIN L[c] /\ n \in V /\ n \notin E /\ row[n] = s.costs[c] + L[c][n]
                 /\ row[n] < s.costs[n] /\ row[n] \in Int /\ s.costs[c] <= row[n]
                 /\ row[n] <= b + W
      <4>1. n \in DOMAIN L[c] /\ s.costs[c] + L[c][n] < s.costs[n]
        BY <3>1 DEF Cheaper
      <4>2. n \in V /\ n # c /\ L[c][n] \in 1 .. W
        BY <1>1, <3>1, <4>1
      <4>3. row[n] = s.costs[c] + L[c][n]
        BY <3>1, <4>2
      <4>4. s.costs[c] \in Int /\ s.costs[n] \in Int /\ L[c][n] \in Int /\ 1 <= L[c][n]
            /\ L[c][n] <= W /\ s.costs[c] <= b /\ W \in Int /\ b \in Int
        BY <1>1, <1>2, <1>4, <3>1, <4>2
      <4> HIDE DEF row, better, list
      <4>5. s.costs[c] < s.costs[n]
        BY <4>1, <4>4
      <4>6. n \notin D
        <5>1. n \in D => s.costs[n] <= s.costs[c]
          BY <1>2, <2>2, <3>1
        <5> QED BY <4>4, <4>5, <5>1
      <4>7. n \notin E
        BY <2>2, <4>2, <4>6 DEF SettledBy
      <4> QED BY <4>1, <4>2, <4>3, <4>4, <4>7
    <3>3. \A n \in V : n \notin better => row[n] = s.costs[n]
      OBVIOUS
    <3>4. ASSUME NEW n \in DOMAIN L[c] PROVE row[n] <= s.costs[c] + L[c][n]
      <4>1. n \in V /\ s.costs[c] + L[c][n] \in Int
        BY <1>1, <1>4, <3>1
      <4>2. n \notin better => ~(s.costs[c] + L[c][n] < s.costs[n])
        BY <3>1 DEF Cheaper
      <4> HIDE DEF row, better, list
      <4> QED BY <1>4, <3>2, <3>3, <4>1, <4>2
    <3> HIDE DEF row, better, list
    <3> QED BY <3>1, <3>2, <3>3, <3>4
  <2> QED BY <2>1, <2>2
<1>6. row \in [V -> 0 .. INFINITE_WEIGHT]
  <2>1. \A n \in V : row[n] \in 0 .. INFINITE_WEIGHT
    <3> HIDE DEF row, better
    <3> QED BY <1>1, <1>4, <1>5
  <2>2. row = [n \in V |-> row[n]]
    OBVIOUS
  <2> HIDE DEF row
  <2> QED BY <2>1, <2>2
<1> HIDE DEF row, better, list
<1>7. /\ E \subseteq V /\ open \subseteq V \ E /\ start \in E
      /\ \A n \in E : row[n] = s.costs[n]
      /\ \A n \in V : n \in E \/ n \in open <=> n \in better \/ n \in D \/ n \in s.open \/ n = c
  <2>1. \A n \in E : n \notin better
    BY <1>5
  <2> QED BY <1>1, <1>2, <1>5, <2>1 DEF SettledBy
<1>8. IF open = {} THEN least = NoneLeft
      ELSE least \in open /\ \A o \in open : row[least] <= row[o]
  <2>1. \A n \in open : row[n] \in Nat
    BY <1>6, <1>7
  <2>2. open # {} => \E n \in open : \A o \in open : row[n] <= row[o]
    <3> HIDE DEF open
    <3> QED BY <2>1, LeastCost
  <2> HIDE DEF open
  <2> QED BY <2>2
<1> HIDE DEF least
<1>9. RoundHolds(L, start, t, E, b + W)
  <2>1. \A n \in V : IF n \in E \union t.open \union {t.current} THEN t.costs[n] <= b + W
                     ELSE t.costs[n] = INFINITE_WEIGHT
    <3> SUFFICES ASSUME NEW n \in V
                 PROVE  IF n \in E \union t.open \union {t.current} THEN t.costs[n] <= b + W
                        ELSE t.costs[n] = INFINITE_WEIGHT
      OBVIOUS
    <3>1. n \in E \union t.open \union {t.current} <=> n \in E \/ n \in open
      BY <1>1, <1>3, <1>8
    <3>2. n \in better => row[n] <= b + W
      BY <1>5
    <3>3. n \in D \/ n \in s.open \/ n = c => s.costs[n] <= b + W
      BY <1>1, <1>2, <1>4
    <3> HIDE DEF open, E, t
    <3> QED BY <1>2, <1>3, <1>5, <1>7, <3>1, <3>2, <3>3
  <2>2. IF t.current = NoneLeft THEN t.open = {}
        ELSE /\ t.current \in V \ (E \union t.open)
             /\ \A n \in t.open : t.costs[t.current] <= t.costs[n]
    <3> HIDE DEF open, E, t
    <3> QED BY <1>1, <1>3, <1>7, <1>8
  <2>3. ASSUME NEW u \in E, NEW n \in V \ E PROVE t.costs[u] <= t.costs[n]
    <3>1. u \in V /\ row[u] = s.costs[u] /\ (u \in D \/ (u = c /\ c # NoneLeft))
      BY <1>1, <1>7 DEF SettledBy
    <3>2. n \notin D /\ (n = c => c = NoneLeft)
      BY DEF SettledBy
    <3>3. n \notin better => row[n] = s.costs[n]
      BY <1>5
    <3>4. n \in better => c \in V /\ s.costs[c] <= row[n]
      BY <1>5
    <3>5. c \in V => s.costs[u] <= s.costs[c]
      BY <1>1, <1>2, <1>4, <3>1
    <3>6. s.costs[u] <= s.costs[n]
      <4>1. CASE u \in D
        BY <1>2, <3>2, <4>1
      <4>2. CASE u = c /\ c # NoneLeft
        <5>1. n # c
          BY <3>2, <4>2
        <5>2. n \in s.open \/ s.costs[n] = INFINITE_WEIGHT
          BY <1>2, <3>2, <5>1
        <5> QED BY <1>2, <1>4, <3>1, <4>2, <5>2
      <4> QED BY <3>1, <4>1, <4>2
    <3>7. row[n] \in Int /\ s.costs[u] \in Int
      BY <1>1, <1>4, <1>6, <3>1
    <3> HIDE DEF E, open, t
    <3> QED BY <1>3, <1>4, <3>1, <3>3, <3>4, <3>5, <3>6, <3>7
  <2>4. ASSUME NEW u \in E, NEW n \in DOMAIN L[u] PROVE t.costs[n] <= t.costs[u] + L[u][n]
    <3>1. u \in V /\ row[u] = s.costs[u] /\ (u \in D \/ u = c)
      BY <1>7 DEF SettledBy
    <3>2. n \in V /\ row[n] \in Int /\ s.costs[n] \in Int /\ s.costs[u] \in Int /\ L[u][n] \in Int
      BY <1>1, <1>4, <1>6, <3>1
    <3>3. row[n] <= s.costs[n]
      BY <1>5, <3>2
    <3>4. CASE u \in D
      <4>1. s.costs[n] <= s.costs[u] + L[u][n]
        BY <1>2, <3>4
      <4> QED BY <1>3, <3>1, <3>2, <3>3, <4>1
    <3>5. CASE u = c
      BY <1>3, <1>5, <3>1, <3>5
    <3> QED BY <3>1, <3>4, <3>5
  <2>5. t.costs[start] = 0
    BY <1>2, <1>3, <1>7
  <2> HIDE DEF E, open, t
  <2>6. t.costs \in [V -> 0 .. INFINITE_WEIGHT] /\ E \subseteq V /\ t.open \subseteq V \ E
    BY <1>3, <1>6, <1>7
  <2>7. start \in E \union {t.current}
    BY <1>7
  <2> QED BY <1>3, <2>1, <2>2, <2>3, <2>4, <2>5, <2>6, <2>7 DEF RoundHolds
<1>10. Improves(L, s, t)
  <2>1. \A n \in V : t.costs[n] # s.costs[n] => n \in better
    BY <1>3, <1>5
  <2>2. c # NoneLeft => t.costs[c] = s.costs[c]
    BY <1>3, <1>7 DEF SettledBy
  <2> HIDE DEF open, t, E
  <2> QED BY <1>3, <1>5, <2>1, <2>2 DEF Improves
<1> QED BY <1>9, <1>10

-----------------------------------------------------------------------------
\* All rounds, of a graph of n + 1 nodes.
RoundsAre(L, start, n, f) ==
  f = [r \in 0 .. n |-> IF r = 0 THEN FirstRound(L, start) ELSE NextRound(L, f[r - 1])]

LEMMA RoundsExist ==
  ASSUME NEW L, NEW start, NEW n \in Nat
  PROVE  \E f : RoundsAre(L, start, n, f)
<1> DEFINE S == {m \in 0 .. n : \E f : RoundsAre(L, start, m, f)}
<1>1. 0 \in S
  <2> DEFINE f == [r \in 0 .. 0 |-> FirstRound(L, start)]
  <2>1. f = [r \in 0 .. 0 |-> IF r = 0 THEN FirstRound(L, start) ELSE NextRound(L, f[r - 1])]
    OBVIOUS
  <2> HIDE DEF f
  <2>2. RoundsAre(L, start, 0, f)
    BY <2>1 DEF RoundsAre
  <2> QED BY <2>2
<1>2. ASSUME NEW m \in 0 .. n - 1, m \in S PROVE m + 1 \in S
  <2>1. PICK f : RoundsAre(L, start, m, f)
    BY <1>2
  <2> DEFINE g == [r \in 0 .. m + 1 |-> IF r = m + 1 THEN NextRound(L, f[m]) ELSE f[r]]
  <2>2. \A k \in 0 .. m : f[k] = IF k = 0 THEN FirstRound(L, start) ELSE NextRound(L, f[k - 1])
    BY <2>1, Zenon DEF RoundsAre
  <2>3. ASSUME NEW k \in 0 .. m + 1
        PROVE g[k] = IF k = 0 THEN FirstRound(L, start) ELSE NextRound(L, g[k - 1])
    <3>1. CASE k = m + 1
      <4>1. k # 0 /\ k - 1 = m /\ k - 1 \in 0 .. m + 1 /\ k - 1 # m + 1
        BY <3>1
      <4>2. g[k] = NextRound(L, f[m]) /\ g[k - 1] = f[m]
        BY <3>1, <4>1
      <4> HIDE DEF g
      <4> QED BY <4>1, <4>2
    <3>2. CASE k \in 0 .. m
      <4>1. g[k] = f[k]
        BY <3>2
      <4>2. k # 0 => k - 1 \in 0 .. m + 1 /\ k - 1 # m + 1
        BY <3>2
      <4>3. k # 0 => g[k - 1] = f[k - 1]
        BY <4>2
      <4> HIDE DEF g
      <4> QED BY <2>2, <3>2, <4>1, <4>3
    <3> QED BY <3>1, <3>2
  <2>4. g = [k \in 0 .. m + 1 |-> IF k = 0 THEN FirstRound(L, start) ELSE NextRound(L, g[k - 1])]
    <3>1. g = [k \in 0 .. m + 1 |-> g[k]]
      OBVIOUS
    <3> HIDE DEF g
    <3> QED BY <2>3, <3>1
  <2>5. m + 1 \in 0 .. n
    OBVIOUS
  <2> HIDE DEF g
  <2>6. RoundsAre(L, start, m + 1, g)
    BY <2>4 DEF RoundsAre
  <2> QED BY <2>5, <2>6
<1>3. n \in S
  <2> HIDE DEF S
  <2>1. 0 .. n \subseteq S
    BY <1>1, <1>2, UpToInSet
  <2> QED BY <2>1
<1> QED BY <1>3

LEMMA RoundsIs ==
  ASSUME NEW L, GoodLists(L), NEW start \in DOMAIN L
  PROVE  /\ Cardinality(DOMAIN L) \in Nat \ {0}
         /\ RoundsAre(L, start, Cardinality(DOMAIN L) - 1, Rounds(L, start))
<1> DEFINE n == Cardinality(DOMAIN L) - 1
<1>1. Cardinality(DOMAIN L) \in Nat \ {0}
  BY GraphFacts, FS_EmptySet
<1>2. n \in Nat
  BY <1>1
<1>3. Rounds(L, start) = CHOOSE f : RoundsAre(L, start, n, f)
  BY DEF Rounds, RoundsAre
<1> HIDE DEF n
<1>4. \E f : RoundsAre(L, start, n, f)
  BY <1>2, RoundsExist
<1>5. RoundsAre(L, start, n, Rounds(L, start))
  BY <1>3, <1>4
<1> QED BY <1>1, <1>5 DEF n

\* Round k has settled k nodes, or there is nothing left.
RoundIs(L, start, s, k) ==
  \E D : /\ RoundHolds(L, start, s, D, k * LargestWeight)
         /\ s.current # NoneLeft => Cardinality(D) = k
         /\ IF k = 0 THEN s.current = start ELSE start \in D

LEMMA Products ==
  ASSUME NEW W \in Nat, NEW m \in Nat, NEW n \in Nat, m <= n
  PROVE  m * W \in Nat /\ m * W <= n * W /\ (m + 1) * W = m * W + W
<1>1. PICK d \in Nat : n = m + d
  <2>1. n - m \in Nat /\ n = m + (n - m)
    OBVIOUS
  <2> QED BY <2>1
<1>2. (m + d) * W = m * W + d * W
  OBVIOUS
<1>3. m * W \in Nat /\ d * W \in Nat
  OBVIOUS
<1> QED BY <1>1, <1>2, <1>3

LEMMA RoundsHold ==
  ASSUME NEW L, GoodLists(L), NEW start \in DOMAIN L,
         NEW n, n = Cardinality(DOMAIN L) - 1, NEW f, f = Rounds(L, start)
  PROVE  /\ n \in Nat /\ \A k \in 0 .. n : RoundIs(L, start, f[k], k)
         /\ \A k \in 0 .. n - 1 : Improves(L, f[k], f[k + 1])
<1>1. /\ n \in Nat /\ n + 1 <= Cardinality(Nodes) /\ Cardinality(Nodes) \in Nat
      /\ LargestWeight \in Nat /\ Cardinality(Nodes) * LargestWeight < INFINITE_WEIGHT
      /\ INFINITE_WEIGHT \in Nat /\ NoneLeft \notin DOMAIN L /\ IsFiniteSet(DOMAIN L)
  <2>1. Cardinality(DOMAIN L) \in Nat \ {0}
    BY RoundsIs
  <2> QED BY <2>1, GraphFacts
<1>2. \A k \in 0 .. n : f[k] = IF k = 0 THEN FirstRound(L, start) ELSE NextRound(L, f[k - 1])
  <2>1. RoundsAre(L, start, n, f)
    BY RoundsIs
  <2> QED BY <2>1, Zenon DEF RoundsAre
<1>3. RoundIs(L, start, f[0], 0)
  <2>1. f[0] = FirstRound(L, start)
    BY <1>1, <1>2
  <2>2. 0 * LargestWeight = 0 /\ Cardinality({}) = 0
    BY <1>1, FS_EmptySet
  <2>3. RoundHolds(L, start, f[0], {}, 0 * LargestWeight) /\ f[0].current = start
    BY <2>1, <2>2, FirstHolds
  <2> QED BY <2>2, <2>3 DEF RoundIs
<1>4. ASSUME NEW k \in 0 .. n - 1, RoundIs(L, start, f[k], k)
      PROVE  RoundIs(L, start, f[k + 1], k + 1) /\ Improves(L, f[k], f[k + 1])
  <2>1. f[k + 1] = NextRound(L, f[k])
    <3>1. k + 1 \in 0 .. n /\ k + 1 # 0 /\ (k + 1) - 1 = k
      BY <1>1
    <3> QED BY <1>2, <3>1
  <2>2. PICK D : /\ RoundHolds(L, start, f[k], D, k * LargestWeight)
                 /\ f[k].current # NoneLeft => Cardinality(D) = k
                 /\ IF k = 0 THEN f[k].current = start ELSE start \in D
    BY <1>4 DEF RoundIs
  <2>3. /\ k * LargestWeight \in Nat /\ (k + 1) * LargestWeight = k * LargestWeight + LargestWeight
        /\ k * LargestWeight + LargestWeight < INFINITE_WEIGHT
    <3>1. k \in Nat /\ k + 1 \in Nat /\ k + 1 <= Cardinality(Nodes) /\ k <= Cardinality(Nodes)
      BY <1>1
    <3>2. /\ k * LargestWeight \in Nat /\ (k + 1) * LargestWeight = k * LargestWeight + LargestWeight
          /\ (k + 1) * LargestWeight \in Nat
          /\ (k + 1) * LargestWeight <= Cardinality(Nodes) * LargestWeight
      BY <1>1, <3>1, Products
    <3>3. Cardinality(Nodes) * LargestWeight \in Nat
      BY <1>1
    <3> QED BY <1>1, <3>2, <3>3
  <2> DEFINE E == SettledBy(f[k], D)
             t == f[k + 1]
  <2>4. RoundHolds(L, start, t, E, (k + 1) * LargestWeight) /\ Improves(L, f[k], t)
    BY <2>1, <2>2, <2>3, NextHolds
  <2>5. start \in E
    <3>1. start \in D \union {f[k].current} /\ start # NoneLeft
      BY <1>1, <2>2 DEF RoundHolds
    <3> QED BY <3>1 DEF SettledBy
  <2>6. t.current # NoneLeft => Cardinality(E) = k + 1
    <3>1. t.current # NoneLeft => f[k].current # NoneLeft
      <4> SUFFICES ASSUME f[k].current = NoneLeft PROVE NextRound(L, f[k]).current = NoneLeft
        BY <2>1
      <4>1. ListOf(L, f[k].current) = << >> /\ f[k].open = {}
        BY <1>1, <2>2 DEF ListOf, RoundHolds
      <4> DEFINE s == f[k]
                 better == {m \in DOMAIN ListOf(L, s.current) :
                              Cheaper(s.costs[s.current] + ListOf(L, s.current)[m], s.costs[m])}
      <4>2. better = {}
        <5>1. DOMAIN ListOf(L, s.current) = {}
          <6>1. DOMAIN << >> = {}
            OBVIOUS
          <6> QED BY <4>1, <6>1, Zenon
        <5> QED BY <5>1
      <4>3. s.open \union better = {}
        BY <4>1, <4>2
      <4> QED BY <4>3 DEF NextRound
    <3>2. f[k].current # NoneLeft =>
            f[k].current \notin D /\ E = D \union {f[k].current} /\ Cardinality(D) = k
      BY <2>2 DEF RoundHolds, SettledBy
    <3>3. IsFiniteSet(D)
      BY <1>1, <2>2, FS_Subset DEF RoundHolds
    <3> HIDE DEF E, t
    <3> QED BY <3>1, <3>2, <3>3, FS_AddElement
  <2>7. k + 1 # 0
    BY <1>1
  <2> HIDE DEF E, t
  <2> QED BY <2>4, <2>5, <2>6, <2>7 DEF RoundIs, t
<1>5. \A k \in 0 .. n : RoundIs(L, start, f[k], k)
  <2> DEFINE S == {k \in 0 .. n : RoundIs(L, start, f[k], k)}
  <2>1. 0 \in S /\ \A k \in 0 .. n - 1 : k \in S => k + 1 \in S
    BY <1>1, <1>3, <1>4
  <2>2. 0 .. n \subseteq S
    <3> HIDE DEF S
    <3> QED BY <1>1, <2>1, UpToInSet
  <2> QED BY <2>2
<1> QED BY <1>1, <1>4, <1>5

-----------------------------------------------------------------------------
\* The costs when all rounds are done: no edge could lower them.
Relaxed(L, start, final) ==
  /\ final \in [DOMAIN L -> 0 .. INFINITE_WEIGHT] /\ final[start] = 0
  /\ \A u \in DOMAIN L : \A v \in DOMAIN L[u] : final[v] <= final[u] + L[u][v]

LEMMA LastRelaxed ==
  ASSUME NEW L, GoodLists(L), NEW start \in DOMAIN L
  PROVE  Relaxed(L, start, Rounds(L, start)[Cardinality(DOMAIN L) - 1].costs)
<1> DEFINE V == DOMAIN L
           n == Cardinality(V) - 1
           s == Rounds(L, start)[n]
<1>1. n \in Nat /\ RoundIs(L, start, s, n)
  BY RoundsHold
<1>2. /\ NoneLeft \notin V /\ INFINITE_WEIGHT \in Nat /\ IsFiniteSet(V) /\ Cardinality(V) = n + 1
      /\ \A a \in V : \A b \in DOMAIN L[a] : b \in V /\ b # a /\ L[a][b] \in Nat
  BY <1>1, GraphFacts
<1> HIDE DEF s
<1>3. PICK D : /\ RoundHolds(L, start, s, D, n * LargestWeight)
               /\ s.current # NoneLeft => Cardinality(D) = n
  BY <1>1 DEF RoundIs
<1> HIDE DEF n
<1>4. /\ s.costs \in [V -> 0 .. INFINITE_WEIGHT] /\ D \subseteq V /\ s.costs[start] = 0
      /\ s.current = NoneLeft => s.open = {}
      /\ s.current # NoneLeft => s.current \in V /\ s.current \notin D
      /\ \A a \in V : a \in D \/ a \in s.open \/ a = s.current \/ s.costs[a] = INFINITE_WEIGHT
      /\ \A u \in D, a \in V \ D : s.costs[u] <= s.costs[a]
      /\ \A u \in D : \A a \in DOMAIN L[u] : s.costs[a] <= s.costs[u] + L[u][a]
  BY <1>3 DEF RoundHolds
<1>5. ASSUME s.current # NoneLeft PROVE V = D \union {s.current}
  <2> DEFINE c == s.current
             E == D \union {c}
  <2>1. c \in V /\ c \notin D /\ Cardinality(D) = n
    BY <1>3, <1>4, <1>5
  <2>2. IsFiniteSet(D) /\ E \subseteq V
    BY <1>2, <1>4, <2>1, FS_Subset
  <2>3. Cardinality(E) = Cardinality(D) + 1
    <3> HIDE DEF c
    <3> QED BY <2>1, <2>2, FS_AddElement
  <2> HIDE DEF E
  <2>4. Cardinality(V) = Cardinality(E)
    BY <1>2, <2>1, <2>3
  <2>5. V = E
    BY <1>2, <2>2, <2>4, FS_Subset
  <2> QED BY <2>5 DEF E
<1>6. ASSUME NEW u \in V, NEW v \in DOMAIN L[u] PROVE s.costs[v] <= s.costs[u] + L[u][v]
  <2>1. /\ v \in V /\ v # u /\ L[u][v] \in Nat
        /\ s.costs[u] \in Nat /\ s.costs[v] \in Nat /\ s.costs[v] <= INFINITE_WEIGHT
    BY <1>2, <1>4
  <2>2. CASE u \in D
    BY <1>4, <2>2
  <2>3. CASE u \notin D /\ s.current = NoneLeft
    <3>1. s.costs[u] = INFINITE_WEIGHT
      BY <1>2, <1>4, <2>3
    <3> QED BY <1>2, <2>1, <3>1
  <2>4. CASE u \notin D /\ s.current # NoneLeft
    <3>1. u = s.current /\ v \in D
      BY <1>5, <2>1, <2>4
    <3>2. s.costs[v] <= s.costs[u]
      BY <1>4, <2>4, <3>1
    <3> QED BY <2>1, <3>2
  <2> QED BY <2>2, <2>3, <2>4
<1>7. Relaxed(L, start, s.costs)
  BY <1>4, <1>6 DEF Relaxed
<1> QED BY <1>7 DEF s, n

-----------------------------------------------------------------------------
\* What a way costs, by a number for each of its nodes.
LEMMA CostIs ==
  ASSUME NEW L, GoodLists(L), NEW p, NEW from, NEW to, IsWay(L, p, from, to),
         Len(p) \in Nat \ {0}, NEW d, \A i \in 1 .. Len(p) : d[i] \in Int
  PROVE  /\ Cost(L, p) \in Int /\ Cost(L, p) <= (Len(p) - 1) * LargestWeight
         /\ (\A i \in 1 .. Len(p) - 1 : d[i + 1] <= d[i] + L[p[i]][p[i + 1]]) =>
              d[Len(p)] <= d[1] + Cost(L, p)
         /\ (\A i \in 1 .. Len(p) - 1 : d[i + 1] = d[i] + L[p[i]][p[i + 1]]) =>
              d[Len(p)] = d[1] + Cost(L, p)
<1> DEFINE n == Len(p) - 1
           a == [i \in 1 .. n |-> L[p[i]][p[i + 1]]]
           W == LargestWeight
           Sums(f) == f = [i \in 0 .. n |-> IF i = 0 THEN 0 ELSE f[i - 1] + a[i]]
           cost == CHOOSE f : Sums(f)
<1>1. /\ n \in Nat /\ Len(p) = n + 1 /\ W \in Nat
      /\ \A i \in 1 .. n : a[i] = L[p[i]][p[i + 1]] /\ a[i] \in Int /\ a[i] <= W
  <2>1. n \in Nat /\ Len(p) = n + 1
    OBVIOUS
  <2>2. W \in Nat /\ \A x \in DOMAIN L : \A y \in DOMAIN L[x] : L[x][y] \in 1 .. W
    BY GraphFacts
  <2>3. \A i \in 1 .. n : p[i] \in DOMAIN L /\ p[i + 1] \in DOMAIN L[p[i]]
    BY DEF IsWay
  <2> HIDE DEF n
  <2> QED BY <2>1, <2>2, <2>3
<1>2. Cost(L, p) = cost[n]
  <2> DEFINE Plain(f) == f = [i \in 0 .. n |-> IF i = 0 THEN 0 ELSE f[i - 1] + L[p[i]][p[i + 1]]]
  <2>1. Cost(L, p) = (CHOOSE f : Plain(f))[n]
    BY DEF Cost
  <2>2. ASSUME NEW f PROVE [i \in 0 .. n |-> IF i = 0 THEN 0 ELSE f[i - 1] + a[i]]
                           = [i \in 0 .. n |-> IF i = 0 THEN 0 ELSE f[i - 1] + L[p[i]][p[i + 1]]]
    <3>1. \A i \in 0 .. n : i # 0 => a[i] = L[p[i]][p[i + 1]]
      BY <1>1
    <3> HIDE DEF a, n
    <3> QED BY <3>1
  <2>3. \A f : Sums(f) <=> Plain(f)
    BY <2>2, Zenon
  <2> HIDE DEF Plain, Sums
  <2>4. (CHOOSE f : Plain(f)) = (CHOOSE f : Sums(f))
    BY <2>3, Zenon
  <2> QED BY <2>1, <2>4
<1> HIDE DEF a, n, W
<1>3. \A i \in 0 .. n : cost[i] = IF i = 0 THEN 0 ELSE cost[i - 1] + a[i]
  <2>1. \E f : Sums(f)
    BY <1>1, SumsExist
  <2>2. Sums(cost)
    <3> HIDE DEF Sums
    <3> QED BY <2>1, Zenon
  <2> HIDE DEF cost
  <2> QED BY <2>2, Zenon
<1> HIDE DEF cost
<1> DEFINE S == {i \in 0 .. n : /\ cost[i] \in Int /\ cost[i] <= i * W
                                /\ (\A j \in 1 .. n : d[j + 1] <= d[j] + a[j]) => d[i + 1] <= d[1] + cost[i]
                                /\ (\A j \in 1 .. n : d[j + 1] = d[j] + a[j]) => d[i + 1] = d[1] + cost[i]}
<1>4. \A i \in 0 .. n : i + 1 \in 1 .. n + 1 /\ d[i + 1] \in Int
  BY <1>1
<1>5. 0 \in S
  <2>1. cost[0] = 0 /\ d[0 + 1] = d[1] /\ d[1] \in Int /\ 0 * W = 0
    BY <1>1, <1>3, <1>4
  <2> QED BY <1>1, <2>1
<1>6. ASSUME NEW i \in 0 .. n - 1, i \in S PROVE i + 1 \in S
  <2> DEFINE k == i + 1
  <2>1. k \in 0 .. n /\ k \in 1 .. n /\ k # 0 /\ k - 1 = i /\ i \in Nat
    BY <1>1
  <2>2. cost[k] = cost[i] + a[k] /\ a[k] \in Int /\ a[k] <= W /\ cost[i] \in Int /\ cost[i] <= i * W
    BY <1>1, <1>3, <1>6, <2>1
  <2>3. k * W = i * W + W /\ i * W \in Nat
    BY <1>1, <2>1, Products
  <2>4. d[k + 1] \in Int /\ d[k] \in Int /\ d[1] \in Int
    BY <1>1, <1>4, <2>1
  <2>5. ASSUME \A j \in 1 .. n : d[j + 1] <= d[j] + a[j] PROVE d[k + 1] <= d[1] + cost[k]
    <3>1. d[k + 1] <= d[k] + a[k] /\ d[k] <= d[1] + cost[i]
      BY <1>6, <2>1, <2>5
    <3> HIDE DEF k
    <3> QED BY <2>2, <2>4, <3>1
  <2>6. ASSUME \A j \in 1 .. n : d[j + 1] = d[j] + a[j] PROVE d[k + 1] = d[1] + cost[k]
    <3>1. d[k + 1] = d[k] + a[k] /\ d[k] = d[1] + cost[i]
      BY <1>6, <2>1, <2>6
    <3> HIDE DEF k
    <3> QED BY <2>2, <2>4, <3>1
  <2>7. cost[k] \in Int /\ cost[k] <= k * W
    BY <1>1, <2>2, <2>3
  <2> HIDE DEF k
  <2>8. k \in S
    BY <2>1, <2>5, <2>6, <2>7
  <2> QED BY <2>8 DEF k
<1>7. n \in S
  <2>1. 0 .. n \subseteq S
    <3> HIDE DEF S
    <3> QED BY <1>1, <1>5, <1>6, UpToInSet
  <2> QED BY <1>1, <2>1
<1>8. \A i \in 1 .. Len(p) - 1 : i \in 1 .. n /\ a[i] = L[p[i]][p[i + 1]]
  BY <1>1
<1>9. Len(p) - 1 = n /\ d[n + 1] = d[Len(p)]
  BY <1>1
<1>10. \A j \in 1 .. n : j \in 1 .. Len(p) - 1
  BY <1>9
<1> QED BY <1>2, <1>7, <1>8, <1>9, <1>10 DEF W

-----------------------------------------------------------------------------
\* A way to a node whose costs, from c to x, rise by its edges.
Tight(L, p, d, c, x, to) ==
  /\ p \in Seq(DOMAIN L) /\ Len(p) \in Nat \ {0} /\ p[Len(p)] = to
  /\ d[1] = c /\ d[Len(p)] = x /\ \A j \in 1 .. Len(p) : d[j] \in Int
  /\ \A j \in 1 .. Len(p) - 1 : p[j + 1] \in DOMAIN L[p[j]] /\ d[j + 1] = d[j] + L[p[j]][p[j + 1]]

LEMMA TightBefore ==
  ASSUME NEW L, NEW p, NEW d, NEW c, NEW x, NEW to, Tight(L, p, d, c, x, to),
         NEW v \in DOMAIN L, p[1] \in DOMAIN L[v], NEW b \in Int, c = b + L[v][p[1]]
  PROVE  (<<v>> \o p)[1] = v /\ \E e : Tight(L, <<v>> \o p, e, b, x, to)
<1> DEFINE V == DOMAIN L
           n == Len(p)
           q == <<v>> \o p
           e == [j \in 1 .. n + 1 |-> IF j = 1 THEN b ELSE d[j - 1]]
<1>1. /\ p \in Seq(V) /\ n \in Nat \ {0} /\ p[n] = to /\ d[1] = c /\ d[n] = x
      /\ \A j \in 1 .. n : d[j] \in Int
      /\ \A j \in 1 .. n - 1 : p[j + 1] \in DOMAIN L[p[j]] /\ d[j + 1] = d[j] + L[p[j]][p[j + 1]]
  BY DEF Tight
<1>2. q \in Seq(V) /\ Len(q) = n + 1 /\ q[1] = v /\ \A j \in 2 .. n + 1 : q[j] = p[j - 1]
  <2>1. <<v>> \in Seq(V) /\ Len(<<v>>) = 1 /\ <<v>>[1] = v
    OBVIOUS
  <2> DEFINE a == <<v>>
  <2> HIDE DEF a
  <2>2. a \in Seq(V) /\ Len(a) = 1 /\ a[1] = v /\ q = a \o p
    BY <2>1 DEF a
  <2> HIDE DEF q
  <2>3. q \in Seq(V) /\ Len(q) = 1 + n /\ \A j \in 1 .. 1 + n : q[j] = IF j <= 1 THEN a[j] ELSE p[j - 1]
    <3>1. /\ a \o p \in Seq(V) /\ Len(a \o p) = Len(a) + Len(p)
          /\ \A j \in 1 .. Len(a) + Len(p) : (a \o p)[j] = IF j <= Len(a) THEN a[j] ELSE p[j - Len(a)]
      BY <1>1, <2>2, ConcatProperties
    <3> HIDE DEF V
    <3> QED BY <2>2, <3>1
  <2>4. \A j \in 2 .. n + 1 : j \in 1 .. 1 + n /\ ~(j <= 1)
    BY <1>1
  <2>5. 1 \in 1 .. 1 + n /\ 1 + n = n + 1
    BY <1>1
  <2> HIDE DEF V, n
  <2> QED BY <2>2, <2>3, <2>4, <2>5
<1> HIDE DEF q, n
<1>3. /\ e[1] = b /\ \A j \in 2 .. n + 1 : e[j] = d[j - 1]
      /\ \A j \in 2 .. n + 1 : j - 1 \in 1 .. n
  BY <1>1
<1> HIDE DEF e
<1>4. \A j \in 1 .. n + 1 : e[j] \in Int
  <2> SUFFICES ASSUME NEW j \in 1 .. n + 1 PROVE e[j] \in Int
    OBVIOUS
  <2>1. j = 1 \/ j \in 2 .. n + 1
    BY <1>1
  <2> QED BY <1>1, <1>3, <2>1
<1>5. ASSUME NEW j \in 1 .. n
      PROVE  q[j + 1] \in DOMAIN L[q[j]] /\ e[j + 1] = e[j] + L[q[j]][q[j + 1]]
  <2>1. j + 1 \in 2 .. n + 1 /\ (j + 1) - 1 = j
    BY <1>1
  <2>2. q[j + 1] = p[j] /\ e[j + 1] = d[j]
    BY <1>2, <1>3, <2>1
  <2>3. CASE j = 1
    BY <1>1, <1>2, <1>3, <2>2, <2>3
  <2>4. CASE j # 1
    <3> DEFINE i == j - 1
    <3>1. i \in 1 .. n - 1 /\ j = i + 1 /\ j \in 2 .. n + 1
      BY <1>1, <2>4
    <3>2. q[j] = p[i] /\ e[j] = d[i]
      BY <1>2, <1>3, <3>1
    <3>3. p[i + 1] \in DOMAIN L[p[i]] /\ d[i + 1] = d[i] + L[p[i]][p[i + 1]]
      BY <1>1, <3>1
    <3> QED BY <2>2, <3>1, <3>2, <3>3
  <2> QED BY <2>3, <2>4
<1>6. q[n + 1] = to /\ e[n + 1] = x
  <2>1. n + 1 \in 2 .. n + 1 /\ (n + 1) - 1 = n
    BY <1>1
  <2> QED BY <1>1, <1>2, <1>3, <2>1
<1>7. Tight(L, q, e, b, x, to)
  <2>1. Len(q) \in Nat \ {0} /\ Len(q) - 1 = n
    BY <1>1, <1>2
  <2> QED BY <1>2, <1>3, <1>4, <1>5, <1>6, <2>1 DEF Tight
<1> QED BY <1>2, <1>7 DEF q

-----------------------------------------------------------------------------
TraceIs(m, rows, to, n, f) ==
  f = [i \in 0 .. n |-> IF i = 0 THEN [weight |-> m.costMatrix[rows - 1][to], path |-> <<to>>]
                        ELSE TracedUp(m, (rows - 1) - i, f[i - 1])]

LEMMA TraceExists ==
  ASSUME NEW m, NEW rows, NEW to, NEW n \in Nat
  PROVE  \E f : TraceIs(m, rows, to, n, f)
<1> DEFINE first == [weight |-> m.costMatrix[rows - 1][to], path |-> <<to>>]
           S == {l \in 0 .. n : \E f : TraceIs(m, rows, to, l, f)}
<1>0. \A l, f : TraceIs(m, rows, to, l, f)
        <=> f = [i \in 0 .. l |-> IF i = 0 THEN first ELSE TracedUp(m, (rows - 1) - i, f[i - 1])]
  BY DEF TraceIs
<1> HIDE DEF first
<1>1. 0 \in S
  <2> DEFINE f == [i \in 0 .. 0 |-> first]
  <2>1. f = [i \in 0 .. 0 |-> IF i = 0 THEN first ELSE TracedUp(m, (rows - 1) - i, f[i - 1])]
    OBVIOUS
  <2> HIDE DEF f
  <2>2. TraceIs(m, rows, to, 0, f)
    BY <1>0, <2>1
  <2> QED BY <2>2
<1>2. ASSUME NEW l \in 0 .. n - 1, l \in S PROVE l + 1 \in S
  <2>1. PICK f : TraceIs(m, rows, to, l, f)
    BY <1>2
  <2> DEFINE g == [i \in 0 .. l + 1 |-> IF i = l + 1 THEN TracedUp(m, (rows - 1) - (l + 1), f[l])
                                        ELSE f[i]]
  <2>2. \A i \in 0 .. l : f[i] = IF i = 0 THEN first ELSE TracedUp(m, (rows - 1) - i, f[i - 1])
    <3>1. f = [i \in 0 .. l |-> IF i = 0 THEN first ELSE TracedUp(m, (rows - 1) - i, f[i - 1])]
      BY <1>0, <2>1
    <3> QED BY <3>1, Zenon
  <2>3. ASSUME NEW i \in 0 .. l + 1
        PROVE g[i] = IF i = 0 THEN first ELSE TracedUp(m, (rows - 1) - i, g[i - 1])
    <3>1. CASE i = l + 1
      <4>1. i # 0 /\ i - 1 = l /\ i - 1 \in 0 .. l + 1 /\ i - 1 # l + 1
        BY <3>1
      <4>2. g[i] = TracedUp(m, (rows - 1) - (l + 1), f[l]) /\ g[i - 1] = f[l]
        BY <3>1, <4>1
      <4> HIDE DEF g
      <4> QED BY <3>1, <4>1, <4>2
    <3>2. CASE i \in 0 .. l
      <4>1. g[i] = f[i]
        BY <3>2
      <4>2. i # 0 => i - 1 \in 0 .. l + 1 /\ i - 1 # l + 1
        BY <3>2
      <4>3. i # 0 => g[i - 1] = f[i - 1]
        BY <4>2
      <4> HIDE DEF g
      <4> QED BY <2>2, <3>2, <4>1, <4>3
    <3> QED BY <3>1, <3>2
  <2>4. g = [i \in 0 .. l + 1 |-> IF i = 0 THEN first ELSE TracedUp(m, (rows - 1) - i, g[i - 1])]
    <3>1. g = [i \in 0 .. l + 1 |-> g[i]]
      OBVIOUS
    <3> HIDE DEF g
    <3> QED BY <2>3, <3>1
  <2>5. l + 1 \in 0 .. n
    OBVIOUS
  <2> HIDE DEF g
  <2>6. TraceIs(m, rows, to, l + 1, g)
    BY <1>0, <2>4
  <2> QED BY <2>5, <2>6
<1>3. n \in S
  <2> HIDE DEF S
  <2>1. 0 .. n \subseteq S
    BY <1>1, <1>2, UpToInSet
  <2> QED BY <2>1
<1> QED BY <1>3

\* Where the loop of GetShortestPath is when it has come up to row k: its path leads
\* from a node that is not the start to the end, and the rest of the cost is that of
\* the node in this row.
TracedTo(L, from, to, round, x, t, k) ==
  /\ t = [weight |-> t.weight, path |-> t.path]
  /\ \E d : Tight(L, t.path, d, t.weight, x, to)
  /\ Head(t.path) # from /\ t.weight < INFINITE_WEIGHT
  /\ t.weight = round[k].costs[Head(t.path)]

LEMMA TightHead ==
  ASSUME NEW L, NEW p, NEW d, NEW c, NEW x, NEW to, Tight(L, p, d, c, x, to)
  PROVE  Head(p) = p[1] /\ Head(p) \in DOMAIN L /\ c \in Int
<1>1. p \in Seq(DOMAIN L) /\ Len(p) \in Nat \ {0} /\ d[1] = c /\ \A j \in 1 .. Len(p) : d[j] \in Int
  BY DEF Tight
<1>2. 1 \in 1 .. Len(p)
  BY <1>1
<1> QED BY <1>1, <1>2

\* A row in which the costs are the same, or the path gets a node longer.
LEMMA TracedUpIs ==
  ASSUME NEW L, GoodLists(L), NEW from \in DOMAIN L, NEW n, n = Cardinality(DOMAIN L) - 1,
         NEW round, round = Rounds(L, from), NEW m, m = Matrix(L, from),
         NEW to, NEW x, NEW k \in 1 .. n - 1, NEW t, TracedTo(L, from, to, round, x, t, k + 1)
  PROVE  TracedTo(L, from, to, round, x, TracedUp(m, k, t), k)
<1> DEFINE V == DOMAIN L
           v == Head(t.path)
           s == round[k]
           u == s.current
<1>1. /\ n \in Nat /\ RoundIs(L, from, s, k) /\ Improves(L, s, round[k + 1]) /\ k \in 1 .. n
  <2>1. n \in Nat
    BY RoundsHold
  <2>2. k \in 0 .. n /\ k \in 0 .. n - 1 /\ k \in 1 .. n
    BY <2>1
  <2> QED BY <2>1, <2>2, RoundsHold
<1>2. m.costMatrix[k] = s.costs /\ m.leastNodeArray[k] = u
  <2>1. n + 1 = Cardinality(V) /\ k \in 1 .. n + 1 /\ k # n + 1 /\ k \in 1 .. (n + 1) - 1
    <3>1. Cardinality(V) \in Nat
      BY GraphFacts
    <3> QED BY <1>1, <3>1
  <2>2. /\ m.costMatrix = [r \in 1 .. n + 1 |-> round[IF r = n + 1 THEN (n + 1) - 1 ELSE r].costs]
        /\ m.leastNodeArray = [r \in 1 .. (n + 1) - 1 |-> round[r].current]
    BY <2>1 DEF Matrix
  <2> QED BY <2>1, <2>2
<1>3. PICK D : RoundHolds(L, from, s, D, k * LargestWeight) /\ from \in D
  BY <1>1 DEF RoundIs
<1>4. /\ s.costs \in [V -> 0 .. INFINITE_WEIGHT] /\ INFINITE_WEIGHT \in Nat
      /\ u \in V => u \notin D
      /\ \A a \in V : \A b \in DOMAIN L[a] : b \in V /\ L[a][b] \in Nat /\ L[a][b] > 0
  <2>1. NoneLeft \notin V
    BY GraphFacts
  <2>2. u \in V => u \notin D
    BY <1>3, <2>1 DEF RoundHolds
  <2>3. /\ INFINITE_WEIGHT \in Nat /\ LargestWeight \in Nat
        /\ \A a \in V : \A b \in DOMAIN L[a] : b \in V /\ L[a][b] \in 1 .. LargestWeight
    BY GraphFacts
  <2> QED BY <1>3, <2>2, <2>3 DEF RoundHolds
<1>5. PICK d : Tight(L, t.path, d, t.weight, x, to)
  BY DEF TracedTo
<1>6. /\ v = t.path[1] /\ v \in V /\ t.weight \in Int
      /\ v # from /\ t.weight < INFINITE_WEIGHT /\ t.weight = round[k + 1].costs[v]
      /\ t = [weight |-> t.weight, path |-> t.path]
  BY <1>5, TightHead DEF TracedTo
<1>7. CASE s.costs[v] = t.weight
  <2>1. TracedUp(m, k, t) = t
    BY <1>2, <1>7 DEF TracedUp
  <2> HIDE DEF s
  <2> QED BY <1>5, <1>6, <1>7, <2>1 DEF TracedTo, s
<1>8. CASE s.costs[v] # t.weight
  <2> DEFINE z == TracedUp(m, k, t)
             b == s.costs[u]
  <2>1. u \in V /\ v \in DOMAIN L[u] /\ t.weight = b + L[u][v]
    BY <1>1, <1>6, <1>8 DEF Improves
  <2>2. z = [weight |-> b, path |-> <<u>> \o t.path]
    BY <1>2, <1>8 DEF TracedUp
  <2>3. b \in Int /\ b < INFINITE_WEIGHT
    <3>1. b \in Int /\ L[u][v] \in Nat
      BY <1>4, <2>1
    <3> HIDE DEF b
    <3> QED BY <1>4, <1>6, <2>1, <3>1
  <2>4. u # from
    BY <1>3, <1>4, <2>1
  <2> HIDE DEF b
  <2>5. (<<u>> \o t.path)[1] = u /\ \E e : Tight(L, <<u>> \o t.path, e, b, x, to)
    <3>1. t.path[1] \in DOMAIN L[u] /\ t.weight = b + L[u][t.path[1]]
      BY <1>6, <2>1
    <3> HIDE DEF u
    <3> QED BY <1>5, <2>1, <2>3, <3>1, TightBefore
  <2>6. PICK e : Tight(L, <<u>> \o t.path, e, b, x, to)
    BY <2>5
  <2>7. Head(<<u>> \o t.path) = u
    <3>1. Head(<<u>> \o t.path) = (<<u>> \o t.path)[1]
      <4> DEFINE q == <<u>> \o t.path
      <4>1. Tight(L, q, e, b, x, to)
        BY <2>6
      <4> HIDE DEF q
      <4>2. Head(q) = q[1]
        BY <4>1, TightHead
      <4> QED BY <4>2 DEF q
    <3> QED BY <2>5, <3>1, Zenon
  <2> DEFINE q == <<u>> \o t.path
  <2>8. z = [weight |-> b, path |-> q] /\ Head(q) = u /\ Tight(L, q, e, b, x, to) /\ b = round[k].costs[u]
    BY <2>2, <2>6, <2>7 DEF b
  <2> HIDE DEF z, q, u
  <2>9. z.weight = b /\ z.path = q
    BY <2>8
  <2>10. TracedTo(L, from, to, round, x, z, k)
    BY <2>3, <2>4, <2>8, <2>9 DEF TracedTo
  <2> QED BY <2>10 DEF z
<1> QED BY <1>7, <1>8

\* The loop: a way from a neighbour of the start, with the cost left of that edge.
LEMMA TraceEnds ==
  ASSUME NEW L, GoodLists(L), NEW from \in DOMAIN L, NEW n, n = Cardinality(DOMAIN L) - 1,
         n > 1, NEW round, round = Rounds(L, from), NEW m, m = Matrix(L, from),
         NEW to \in DOMAIN L, to # from, NEW x, x = round[n].costs[to], x # INFINITE_WEIGHT
  PROVE  \E t : TracedTo(L, from, to, round, x, t, 1) /\ Trace(m, n + 1, to) = t.path
<1> DEFINE f == CHOOSE g : TraceIs(m, n + 1, to, n - 1, g)
           V == DOMAIN L
<1>1. /\ n \in Nat /\ n - 1 \in Nat /\ (n + 1) - 2 = n - 1 /\ (n + 1) - 1 = n /\ Cardinality(V) = n + 1
      /\ n - 1 \in 0 .. n - 1
  <2>1. n \in Nat /\ Cardinality(V) \in Nat
    BY RoundsHold, GraphFacts
  <2> QED BY <2>1
<1>2. Trace(m, n + 1, to) = f[n - 1].path
  <2>1. Trace(m, n + 1, to) = (CHOOSE g : TraceIs(m, n + 1, to, (n + 1) - 2, g))[(n + 1) - 2].path
    BY DEF Trace, TraceIs
  <2> QED BY <1>1, <2>1
<1>3. \A i \in 0 .. n - 1 : f[i] = IF i = 0 THEN [weight |-> m.costMatrix[n][to], path |-> <<to>>]
                                   ELSE TracedUp(m, n - i, f[i - 1])
  <2>1. \E g : TraceIs(m, n + 1, to, n - 1, g)
    BY <1>1, TraceExists
  <2>2. TraceIs(m, n + 1, to, n - 1, f)
    BY <2>1
  <2> HIDE DEF f
  <2>3. f = [i \in 0 .. n - 1 |-> IF i = 0 THEN [weight |-> m.costMatrix[(n + 1) - 1][to], path |-> <<to>>]
                                  ELSE TracedUp(m, ((n + 1) - 1) - i, f[i - 1])]
    BY <2>2 DEF TraceIs
  <2>4. \A i \in 0 .. n - 1 : f[i] = IF i = 0 THEN [weight |-> m.costMatrix[(n + 1) - 1][to], path |-> <<to>>]
                                     ELSE TracedUp(m, ((n + 1) - 1) - i, f[i - 1])
    BY <2>3, Zenon
  <2> QED BY <1>1, <2>4
<1> HIDE DEF f
<1>4. /\ m.costMatrix[n] = round[n].costs /\ round[n].costs \in [V -> 0 .. INFINITE_WEIGHT]
      /\ INFINITE_WEIGHT \in Nat
  <2>1. m.costMatrix = [r \in 1 .. n + 1 |-> round[IF r = n + 1 THEN (n + 1) - 1 ELSE r].costs]
    BY <1>1 DEF Matrix
  <2>2. n \in 1 .. n + 1 /\ n # n + 1
    BY <1>1
  <2>3. Relaxed(L, from, round[n].costs)
    BY LastRelaxed
  <2>4. INFINITE_WEIGHT \in Nat
    BY GraphFacts
  <2> QED BY <2>1, <2>2, <2>3, <2>4 DEF Relaxed
<1> DEFINE S == {i \in 0 .. n - 1 : TracedTo(L, from, to, round, x, f[i], n - i)}
<1>5. 0 \in S
  <2>1. 0 \in 0 .. n - 1 /\ n - 0 = n
    BY <1>1
  <2>2. f[0] = [weight |-> x, path |-> <<to>>]
    BY <1>3, <1>4, <2>1
  <2>3. x \in Int /\ x < INFINITE_WEIGHT
    BY <1>4
  <2>4. Tight(L, <<to>>, [j \in 1 .. 1 |-> x], x, x, to)
    <3>1. <<to>> \in Seq(V) /\ Len(<<to>>) = 1 /\ <<to>>[1] = to
      OBVIOUS
    <3> DEFINE q == <<to>>
               d == [j \in 1 .. 1 |-> x]
    <3>2. d[1] = x /\ \A j \in 1 .. 1 : d[j] = x
      OBVIOUS
    <3>3. q \in Seq(V) /\ Len(q) = 1 /\ q[1] = to
      BY <3>1
    <3>4. \A j \in 1 .. 1 - 1 : FALSE
      OBVIOUS
    <3> HIDE DEF q, d
    <3>5. Tight(L, q, d, x, x, to)
      BY <2>3, <3>2, <3>3, <3>4 DEF Tight
    <3> QED BY <3>5 DEF q, d
  <2>5. Head(<<to>>) = to
    OBVIOUS
  <2>6. f[0].weight = x /\ f[0].path = <<to>>
    BY <2>2
  <2>7. TracedTo(L, from, to, round, x, f[0], n)
    BY <2>2, <2>3, <2>4, <2>5, <2>6 DEF TracedTo
  <2> QED BY <2>1, <2>7
<1>6. ASSUME NEW i \in 0 .. n - 1 - 1, i \in S PROVE i + 1 \in S
  <2> DEFINE k == n - (i + 1)
  <2>1. k \in 1 .. n - 1 /\ k + 1 = n - i /\ i + 1 \in 0 .. n - 1 /\ i + 1 # 0 /\ (i + 1) - 1 = i
    BY <1>1
  <2>2. TracedTo(L, from, to, round, x, f[i], n - i)
    BY <1>6
  <2>3. f[i + 1] = TracedUp(m, k, f[i])
    BY <1>3, <2>1
  <2> HIDE DEF k
  <2>4. TracedTo(L, from, to, round, x, TracedUp(m, k, f[i]), k)
    BY <2>1, <2>2, TracedUpIs
  <2>5. k = n - (i + 1)
    BY DEF k
  <2> QED BY <2>1, <2>3, <2>4, <2>5
<1>7. n - 1 \in S
  <2>1. 0 .. n - 1 \subseteq S
    <3> HIDE DEF S
    <3> QED BY <1>1, <1>5, <1>6, UpToInSet
  <2> QED BY <1>1, <2>1
<1>8. n - (n - 1) = 1
  BY <1>1
<1> QED BY <1>2, <1>7, <1>8

\* The path GetShortestPath finds is a way, as good as any; none if there is no way.
LEMMA PathIsShortest ==
  ASSUME NEW L, GoodLists(L), NEW from \in DOMAIN L, NEW to \in DOMAIN L, to # from,
         Cardinality(DOMAIN L) # 2, NEW p, p = PathIn(Matrix(L, from), from, to)
  PROVE  IF p = << >> THEN Ways(L, from, to) = {}
         ELSE IsWay(L, p, from, to) /\ \A q \in Ways(L, from, to) : Cost(L, p) <= Cost(L, q)
<1> DEFINE V == DOMAIN L
           n == Cardinality(V) - 1
           round == Rounds(L, from)
           m == Matrix(L, from)
           final == round[n].costs
           x == final[to]
<1>1. n \in Nat /\ n > 1 /\ Cardinality(V) = n + 1
  <2>1. IsFiniteSet(V) /\ Cardinality(V) \in Nat
    BY GraphFacts
  <2>2. V # {from} /\ V # {} /\ from \in V /\ to \in V
    OBVIOUS
  <2>3. Cardinality({from, to}) = 2
    <3>1. IsFiniteSet({from}) /\ Cardinality({from}) = 1
      BY FS_Singleton
    <3>2. to \notin {from} /\ {from, to} = {from} \union {to}
      OBVIOUS
    <3>3. Cardinality({from} \union {to}) = Cardinality({from}) + 1
      BY <3>1, <3>2, FS_AddElement
    <3> QED BY <3>1, <3>2, <3>3
  <2>4. 2 <= Cardinality(V)
    BY <2>1, <2>3, FS_Subset
  <2> QED BY <2>1, <2>4
<1>2. /\ final \in [V -> 0 .. INFINITE_WEIGHT] /\ final[from] = 0
      /\ \A u \in V : \A v \in DOMAIN L[u] : final[v] <= final[u] + L[u][v]
  <2>1. Relaxed(L, from, final)
    BY LastRelaxed
  <2> HIDE DEF final
  <2> QED BY <2>1 DEF Relaxed
<1>3. /\ INFINITE_WEIGHT \in Nat /\ LargestWeight \in Nat /\ n + 1 <= Cardinality(Nodes)
      /\ Cardinality(Nodes) \in Nat /\ Cardinality(Nodes) * LargestWeight < INFINITE_WEIGHT
  BY <1>1, GraphFacts
<1>4. m.costMatrix[n] = final
  <2>1. m.costMatrix = [r \in 1 .. n + 1 |-> round[IF r = n + 1 THEN (n + 1) - 1 ELSE r].costs]
    BY <1>1 DEF Matrix
  <2>2. n \in 1 .. n + 1 /\ n # n + 1
    BY <1>1
  <2> HIDE DEF n, m
  <2> QED BY <2>1, <2>2
<1>5. p = IF x = INFINITE_WEIGHT THEN << >> ELSE <<from>> \o Trace(m, n + 1, to)
  <2>1. Cardinality(V) # 2 /\ Cardinality(V) - 1 = n
    OBVIOUS
  <2> HIDE DEF m, n
  <2> HIDE DEF final
  <2>2. m.costMatrix[n][to] = x
    BY <1>4
  <2>3. p = IF m.costMatrix[n][to] = INFINITE_WEIGHT THEN << >> ELSE <<from>> \o Trace(m, n + 1, to)
    <3>1. m.filledFrom = L /\ p = PathIn(m, from, to)
      BY DEF Matrix, m
    <3> QED BY <1>1, <2>1, <3>1 DEF PathIn
  <2> QED BY <2>2, <2>3
\* No way is better than the costs.
<1>6. ASSUME NEW q \in Ways(L, from, to)
      PROVE  x <= Cost(L, q) /\ Cost(L, q) \in Int /\ Cost(L, q) < INFINITE_WEIGHT
  <2>1. PICK k \in 1 .. n + 1 : q \in [1 .. k -> V]
    BY <1>1 DEF Ways
  <2>2. IsWay(L, q, from, to)
    BY DEF Ways
  <2>3. Len(q) = k /\ k \in Nat \ {0}
    BY <1>1, <2>1
  <2> DEFINE d == [i \in 1 .. k |-> final[q[i]]]
  <2> HIDE DEF final, n
  <2>4. \A i \in 1 .. k : d[i] = final[q[i]] /\ d[i] \in Int
    BY <1>2, <1>3, <2>1
  <2>5. \A i \in 1 .. k - 1 : d[i + 1] <= d[i] + L[q[i]][q[i + 1]]
    <3> SUFFICES ASSUME NEW i \in 1 .. k - 1 PROVE d[i + 1] <= d[i] + L[q[i]][q[i + 1]]
      OBVIOUS
    <3>1. i \in 1 .. k /\ i + 1 \in 1 .. k
      BY <2>3
    <3>2. q[i] \in V /\ q[i + 1] \in DOMAIN L[q[i]]
      BY <2>2, <2>3 DEF IsWay
    <3> HIDE DEF d
    <3> QED BY <1>2, <2>4, <3>1, <3>2
  <2>6. 1 \in 1 .. k /\ k \in 1 .. k
    BY <2>3
  <2>7. d[1] = final[from] /\ d[k] = final[to]
    BY <2>2, <2>3, <2>4, <2>6 DEF IsWay
  <2> HIDE DEF d
  <2>8. Cost(L, q) \in Int /\ Cost(L, q) <= (k - 1) * LargestWeight /\ d[k] <= d[1] + Cost(L, q)
    BY <2>2, <2>3, <2>4, <2>5, CostIs
  <2>9. (k - 1) * LargestWeight < INFINITE_WEIGHT
    <3>1. k - 1 \in Nat /\ k - 1 <= Cardinality(Nodes)
      BY <1>1, <1>3, <2>3
    <3>2. (k - 1) * LargestWeight \in Nat /\ (k - 1) * LargestWeight <= Cardinality(Nodes) * LargestWeight
      BY <1>3, <3>1, Products
    <3>3. Cardinality(Nodes) * LargestWeight \in Nat
      BY <1>3
    <3> QED BY <1>3, <3>2, <3>3
  <2>10. (k - 1) * LargestWeight \in Int
    BY <1>3, <2>3
  <2> QED BY <1>2, <1>3, <2>7, <2>8, <2>9, <2>10
<1>7. CASE x = INFINITE_WEIGHT
  <2>1. p = << >>
    BY <1>5, <1>7
  <2>2. \A q \in Ways(L, from, to) : FALSE
    <3> HIDE DEF x
    <3> QED BY <1>3, <1>6, <1>7
  <2> QED BY <2>1, <2>2
<1>8. CASE x # INFINITE_WEIGHT
  <2>1. PICK t : TracedTo(L, from, to, round, x, t, 1) /\ Trace(m, n + 1, to) = t.path
    <3> HIDE DEF x
    <3>1. x = round[n].costs[to]
      BY DEF x
    <3> HIDE DEF final, n, round, m
    <3> QED BY <1>1, <1>8, <3>1, TraceEnds DEF n, round, m
  <2> DEFINE v == Head(t.path)
             r == t.path
             c == t.weight
  <2>2. PICK d : Tight(L, r, d, c, x, to)
    BY <2>1 DEF TracedTo
  <2>3. /\ v = r[1] /\ v \in V /\ c \in Int /\ v # from /\ c < INFINITE_WEIGHT
        /\ c = round[1].costs[v]
    BY <2>1, <2>2, TightHead DEF TracedTo
\* The first round goes through the edges of the start.
  <2>4. v \in DOMAIN L[from] /\ c = 0 + L[from][v]
    <3>1. 0 \in 0 .. n - 1 /\ 0 + 1 = 1 /\ 0 \in 0 .. n
      BY <1>1
    <3>2. Improves(L, round[0], round[0 + 1])
      BY <3>1, RoundsHold
    <3>3. round[0] = FirstRound(L, from)
      <4>1. RoundsAre(L, from, n, round)
        BY RoundsIs
      <4> HIDE DEF n, round
      <4>2. round = [k \in 0 .. n |-> IF k = 0 THEN FirstRound(L, from) ELSE NextRound(L, round[k - 1])]
        BY <4>1 DEF RoundsAre
      <4>3. \A k \in 0 .. n : round[k] = IF k = 0 THEN FirstRound(L, from) ELSE NextRound(L, round[k - 1])
        BY <4>2, Zenon
      <4> QED BY <3>1, <4>3
    <3> HIDE DEF round, v, c, n
    <3>4. round[0].current = from /\ round[0].costs[v] = INFINITE_WEIGHT /\ round[0].costs[from] = 0
      BY <2>3, <3>3 DEF FirstRound
    <3>5. round[1].costs[v] # round[0].costs[v]
      BY <1>3, <2>3, <3>4
    <3> QED BY <2>3, <3>1, <3>2, <3>4, <3>5 DEF Improves
  <2>5. p = <<from>> \o r
    BY <1>5, <1>8, <2>1
  <2>6. (<<from>> \o r)[1] = from /\ \E e : Tight(L, <<from>> \o r, e, 0, x, to)
    <3>1. r[1] \in DOMAIN L[from] /\ c = 0 + L[from][r[1]]
      BY <2>3, <2>4
    <3> HIDE DEF r, c, x, v
    <3> QED BY <2>2, <3>1, TightBefore
  <2>7. PICK e : Tight(L, p, e, 0, x, to)
    BY <2>5, <2>6
  <2>8. p[1] = from
    BY <2>5, <2>6
  <2> HIDE DEF r, c, v, x, n, round, m
  <2>9. /\ p \in Seq(V) /\ Len(p) \in Nat \ {0} /\ p[Len(p)] = to /\ e[1] = 0 /\ e[Len(p)] = x
        /\ \A j \in 1 .. Len(p) : e[j] \in Int
        /\ \A j \in 1 .. Len(p) - 1 : p[j + 1] \in DOMAIN L[p[j]] /\ e[j + 1] = e[j] + L[p[j]][p[j + 1]]
    BY <2>7 DEF Tight
  <2>10. IsWay(L, p, from, to)
    <3>1. \A j \in 1 .. Len(p) - 1 : p[j] \in V
      BY <2>9
    <3> QED BY <2>8, <2>9, <3>1 DEF IsWay
  <2>11. x = 0 + Cost(L, p) /\ Cost(L, p) \in Int
    BY <2>9, <2>10, CostIs
  <2>12. p # << >>
    BY <2>9
  <2>13. \A q \in Ways(L, from, to) : Cost(L, p) <= Cost(L, q)
    BY <1>6, <2>11
  <2> QED BY <2>10, <2>12, <2>13
<1> QED BY <1>7, <1>8

\* The graph of two nodes that are linked has one way from one to the other.
LEMMA LinkIsShortest ==
  ASSUME NEW L, GoodLists(L), NEW from \in DOMAIN L, NEW to \in DOMAIN L, to # from,
         Cardinality(DOMAIN L) = 2, Edges(L) # {}, NEW p, p = <<from, to>>
  PROVE  IsWay(L, p, from, to) /\ \A q \in Ways(L, from, to) : Cost(L, p) <= Cost(L, q)
<1>1. DOMAIN L = {from, to}
  <2>1. IsFiniteSet(DOMAIN L)
    BY GraphFacts
  <2>2. Cardinality({from, to}) = 2
    <3>1. IsFiniteSet({from}) /\ Cardinality({from}) = 1
      BY FS_Singleton
    <3>2. to \notin {from} /\ {from, to} = {from} \union {to}
      OBVIOUS
    <3>3. Cardinality({from} \union {to}) = Cardinality({from}) + 1
      BY <3>1, <3>2, FS_AddElement
    <3> QED BY <3>1, <3>2, <3>3
  <2>3. {from, to} \in SUBSET DOMAIN L
    OBVIOUS
  <2> QED BY <2>1, <2>2, <2>3, FS_Subset
<1>2. to \in DOMAIN L[from]
  <2>1. PICK a \in DOMAIN L : \E b \in DOMAIN L[a] : TRUE
    BY DEF Edges
  <2>2. PICK b \in DOMAIN L[a] : TRUE
    BY <2>1
  <2>3. b \in DOMAIN L /\ b # a /\ a \in DOMAIN L[b]
    BY DEF GoodLists
  <2> QED BY <1>1, <2>2, <2>3
<1>3. Len(p) = 2 /\ p[1] = from /\ p[2] = to /\ p \in [1 .. 2 -> DOMAIN L]
  OBVIOUS
<1>4. IsWay(L, p, from, to)
  BY <1>2, <1>3 DEF IsWay
<1>5. Cost(L, p) \in Int
  <2> DEFINE d == [i \in 1 .. 2 |-> 0]
  <2>1. \A i \in 1 .. Len(p) : d[i] \in Int
    BY <1>3
  <2> HIDE DEF d
  <2>2. Len(p) \in Nat \ {0}
    BY <1>3
  <2> QED BY <1>4, <2>1, <2>2, CostIs
<1>6. ASSUME NEW q \in Ways(L, from, to) PROVE q = p
  <2>1. PICK k \in 1 .. 2 : q \in [1 .. k -> DOMAIN L] /\ IsWay(L, q, from, to)
    BY DEF Ways
  <2>2. Len(q) = k /\ q[1] = from /\ q[k] = to
    BY <2>1 DEF IsWay
  <2>3. k = 2
    BY <2>2
  <2>4. q \in [1 .. 2 -> DOMAIN L] /\ \A i \in 1 .. 2 : q[i] = p[i]
    BY <1>3, <2>1, <2>2, <2>3
  <2> QED BY <1>3, <2>4
<1>7. \A q \in Ways(L, from, to) : Cost(L, p) <= Cost(L, q)
  BY <1>5, <1>6
<1> QED BY <1>4, <1>7

\* Nothing of F is missing in L.
Within(F, L) == /\ DOMAIN F \subseteq DOMAIN L
                /\ \A a \in DOMAIN F : DOMAIN F[a] \subseteq DOMAIN L[a]

\* The lists are those of a graph whose edges go both ways; a matrix is the one of the
\* graph it was filled from, which has grown since at most, and the path was found in it.
GraphInv ==
  /\ GoodLists(adjacencyLists)
  /\ dijkstra.isValidPath =>
       /\ GoodLists(dijkstra.filledFrom) /\ Within(dijkstra.filledFrom, adjacencyLists)
       /\ dijkstra.rootNode \in DOMAIN dijkstra.filledFrom
       /\ dijkstra = Matrix(dijkstra.filledFrom, dijkstra.rootNode)
  /\ lastPath \notin {NoPath, Misread} =>
       /\ dijkstra.isValidPath /\ lastPath.from = dijkstra.rootNode
       /\ lastPath.to \in DOMAIN dijkstra.filledFrom /\ lastPath.to # lastPath.from
       /\ lastPath.nodes = PathIn(dijkstra, lastPath.from, lastPath.to)

\* A matrix is thrown away, or kept where nothing is taken from the graph.
LEMMA MatrixGone ==
  ASSUME ClearDijkstra, GoodLists(adjacencyLists')
  PROVE  GraphInv'
<1>1. lastPath' = NoPath /\ dijkstra'.isValidPath = FALSE
  BY DEF ClearDijkstra, NoMatrix
<1> QED BY <1>1 DEF GraphInv

LEMMA MatrixKept ==
  ASSUME GraphInv, KeepDijkstra, GoodLists(adjacencyLists'),
         Within(adjacencyLists, adjacencyLists')
  PROVE  GraphInv'
<1>1. lastPath' = NoPath /\ dijkstra' = dijkstra
  BY DEF KeepDijkstra
<1>2. ASSUME dijkstra.isValidPath
      PROVE  Within(dijkstra.filledFrom, adjacencyLists')
  <2>1. Within(dijkstra.filledFrom, adjacencyLists)
    BY <1>2 DEF GraphInv
  <2> QED BY <2>1 DEF Within
<1> QED BY <1>1, <1>2 DEF GraphInv

LEMMA AddNodeKeeps ==
  ASSUME GraphInv, NEW n \in Nodes, AddNode(n)
  PROVE  GraphInv'
<1> DEFINE L == adjacencyLists
           M == adjacencyLists'
<1>1. GoodLists(L) /\ n \notin DOMAIN L /\ M = WithKeyAt(L, n, << >>)
  BY DEF GraphInv, AddNode, HasNode
<1> HIDE DEF L, M
<1>2. /\ DOMAIN M = DOMAIN L \union {n} /\ M[n] = << >>
      /\ \A a \in DOMAIN L : M[a] = L[a]
  BY <1>1 DEF WithKeyAt
<1>3. \A a \in DOMAIN M : \A b \in DOMAIN M[a] : a \in DOMAIN L /\ b \in DOMAIN L[a] /\ b \in DOMAIN L
  <2>1. DOMAIN << >> = {}
    OBVIOUS
  <2>2. DOMAIN M[n] = {}
    BY <1>2, <2>1
  <2> QED BY <1>1, <1>2, <2>2 DEF GoodLists
<1>4. GoodLists(M)
  BY <1>1, <1>2, <1>3 DEF GoodLists
<1>5. Within(L, M)
  BY <1>2 DEF Within
<1> QED BY <1>4, <1>5, MatrixKept DEF AddNode, L, M

LEMMA AddConnectionKeeps ==
  ASSUME GraphInv, NEW a \in Nodes, NEW b \in Nodes, NEW w \in EdgeWeights, AddConnection(a, b, w)
  PROVE  GraphInv'
<1> DEFINE L == adjacencyLists
           M == adjacencyLists'
           one == WithKeyAt(L, a, WithKeyAt(ListOf(L, a), b, w))
<1>1. /\ GoodLists(L) /\ a # b
      /\ M = WithKeyAt(one, b, WithKeyAt(ListOf(one, b), a, w))
  BY DEF GraphInv, AddConnection
<1> HIDE DEF L, M
<1>2. /\ DOMAIN one = DOMAIN L \union {a} /\ one[a] = WithKeyAt(ListOf(L, a), b, w)
      /\ \A n \in DOMAIN L : n # a => one[n] = L[n]
  <2>1. one = WithKeyAt(L, a, WithKeyAt(ListOf(L, a), b, w))
    OBVIOUS
  <2> HIDE DEF one
  <2> QED BY <2>1 DEF WithKeyAt
<1>3. /\ DOMAIN M = DOMAIN one \union {b} /\ M[b] = WithKeyAt(ListOf(one, b), a, w)
      /\ \A n \in DOMAIN one : n # b => M[n] = one[n]
  <2> HIDE DEF one
  <2> QED BY <1>1 DEF WithKeyAt
<1>4. ListOf(one, b) = ListOf(L, b)
  BY <1>1, <1>2 DEF ListOf
<1> HIDE DEF one
<1>5. \A n : DOMAIN ListOf(L, n) = IF n \in DOMAIN L THEN DOMAIN L[n] ELSE {}
  <2>1. DOMAIN << >> = {}
    OBVIOUS
  <2> QED BY <2>1 DEF ListOf
<1>6. /\ DOMAIN M[a] = DOMAIN ListOf(L, a) \union {b}
      /\ DOMAIN M[b] = DOMAIN ListOf(L, b) \union {a}
      /\ M[a][b] = w /\ M[b][a] = w
      /\ \A n \in DOMAIN ListOf(L, a) : n # b => M[a][n] = L[a][n]
      /\ \A n \in DOMAIN ListOf(L, b) : n # a => M[b][n] = L[b][n]
  <2>1. M[a] = WithKeyAt(ListOf(L, a), b, w) /\ M[b] = WithKeyAt(ListOf(L, b), a, w)
    BY <1>1, <1>2, <1>3, <1>4
  <2>2. \A n : n \in DOMAIN ListOf(L, a) => ListOf(L, a) = L[a]
    BY <1>5 DEF ListOf
  <2>3. \A n : n \in DOMAIN ListOf(L, b) => ListOf(L, b) = L[b]
    BY <1>5 DEF ListOf
  <2> DEFINE A == ListOf(L, a)
             B == ListOf(L, b)
  <2>4. M[a] = WithKeyAt(A, b, w) /\ M[b] = WithKeyAt(B, a, w)
    BY <2>1
  <2> HIDE DEF A, B
  <2>5. DOMAIN M[a] = DOMAIN A \union {b} /\ M[a][b] = w /\ \A n \in DOMAIN A : n # b => M[a][n] = A[n]
    BY <2>4 DEF WithKeyAt
  <2>6. DOMAIN M[b] = DOMAIN B \union {a} /\ M[b][a] = w /\ \A n \in DOMAIN B : n # a => M[b][n] = B[n]
    BY <2>4 DEF WithKeyAt
  <2>7. (\A n : n \in DOMAIN A => A = L[a]) /\ (\A n : n \in DOMAIN B => B = L[b])
    BY <2>2, <2>3 DEF A, B
  <2>8. /\ DOMAIN M[a] = DOMAIN A \union {b} /\ DOMAIN M[b] = DOMAIN B \union {a}
        /\ M[a][b] = w /\ M[b][a] = w
        /\ \A n \in DOMAIN A : n # b => M[a][n] = L[a][n]
        /\ \A n \in DOMAIN B : n # a => M[b][n] = L[b][n]
    BY <2>5, <2>6, <2>7
  <2> QED BY <2>8 DEF A, B
<1>7. /\ DOMAIN M = DOMAIN L \union {a, b}
      /\ \A n \in DOMAIN L : n # a /\ n # b => M[n] = L[n]
  BY <1>2, <1>3
\* An edge is the new one or was there.
<1>8. ASSUME NEW c \in DOMAIN M, NEW d \in DOMAIN M[c]
      PROVE  \/ (c = a /\ d = b) \/ (c = b /\ d = a)
             \/ /\ c \in DOMAIN L /\ d \in DOMAIN L[c] /\ ~(c = a /\ d = b) /\ ~(c = b /\ d = a)
  <2>1. CASE c = a
    BY <1>1, <1>5, <1>6, <2>1
  <2>2. CASE c = b
    BY <1>1, <1>5, <1>6, <2>2
  <2>3. CASE c # a /\ c # b
    BY <1>7, <2>3
  <2> QED BY <2>1, <2>2, <2>3
<1>9. ASSUME NEW c \in DOMAIN L, NEW d \in DOMAIN L[c], ~(c = a /\ d = b), ~(c = b /\ d = a)
      PROVE  d \in DOMAIN M[c] /\ M[c][d] = L[c][d]
  <2>1. CASE c = a
    BY <1>5, <1>6, <1>9, <2>1
  <2>2. CASE c = b
    BY <1>5, <1>6, <1>9, <2>2
  <2>3. CASE c # a /\ c # b
    BY <1>7, <2>3
  <2> QED BY <2>1, <2>2, <2>3
<1>10. GoodLists(M)
  <2>1. DOMAIN M \subseteq Nodes
    BY <1>1, <1>7 DEF GoodLists
  <2>2. ASSUME NEW c \in DOMAIN M, NEW d \in DOMAIN M[c]
        PROVE  /\ d \in DOMAIN M /\ d # c /\ c \in DOMAIN M[d]
               /\ M[c][d] \in EdgeWeights /\ M[d][c] = M[c][d]
    <3>1. CASE c = a /\ d = b
      BY <1>1, <1>6, <1>7, <3>1
    <3>2. CASE c = b /\ d = a
      BY <1>1, <1>6, <1>7, <3>2
    <3>3. CASE c \in DOMAIN L /\ d \in DOMAIN L[c] /\ ~(c = a /\ d = b) /\ ~(c = b /\ d = a)
      <4>1. /\ d \in DOMAIN L /\ d # c /\ c \in DOMAIN L[d]
            /\ L[c][d] \in EdgeWeights /\ L[d][c] = L[c][d]
        BY <1>1, <3>3 DEF GoodLists
      <4>2. M[c][d] = L[c][d]
        BY <1>9, <3>3
      <4>3. c \in DOMAIN M[d] /\ M[d][c] = L[d][c]
        BY <1>9, <3>3, <4>1
      <4> QED BY <1>7, <4>1, <4>2, <4>3
    <3> QED BY <1>8, <3>1, <3>2, <3>3
  <2> QED BY <2>1, <2>2 DEF GoodLists
<1>11. Within(L, M)
  <2>1. \A n \in DOMAIN L : DOMAIN ListOf(L, n) = DOMAIN L[n]
    BY <1>5
  <2>2. \A n \in DOMAIN L : DOMAIN L[n] \subseteq DOMAIN M[n]
    BY <1>6, <1>7, <2>1
  <2> QED BY <1>7, <2>2 DEF Within
<1> QED BY <1>10, <1>11, MatrixKept DEF AddConnection, L, M

\* Nodes without a neighbour may go, and no edge is lost with them.
LEMMA WithoutLonely ==
  ASSUME NEW L, GoodLists(L), NEW S \in SUBSET DOMAIN L, \A n \in S : DOMAIN L[n] = {}
  PROVE  GoodLists([n \in DOMAIN L \ S |-> L[n]])
<1> DEFINE M == [n \in DOMAIN L \ S |-> L[n]]
<1>1. DOMAIN M = DOMAIN L \ S /\ \A n \in DOMAIN L \ S : M[n] = L[n]
  OBVIOUS
<1> HIDE DEF M
<1>2. ASSUME NEW c \in DOMAIN L, NEW d \in DOMAIN L[c] PROVE d \in DOMAIN L \ S
  BY DEF GoodLists
<1>3. GoodLists(M)
  BY <1>1, <1>2 DEF GoodLists
<1> QED BY <1>3 DEF M

LEMMA RemoveNodeKeeps ==
  ASSUME GraphInv, NEW n \in Nodes, RemoveNode(n)
  PROVE  GraphInv'
<1> DEFINE L == adjacencyLists
           M == adjacencyLists'
           rest == Unlinked(L, n)
           lonely == {m \in DOMAIN rest : DOMAIN rest[m] = {}}
<1>1. GoodLists(L)
  BY DEF GraphInv
<1>2. M = rest \/ M = [m \in DOMAIN rest \ lonely |-> rest[m]]
  BY DEF RemoveNode
<1> HIDE DEF L, M
<1>3. /\ DOMAIN rest = DOMAIN L \ {n}
      /\ \A m \in DOMAIN L \ {n} : /\ DOMAIN rest[m] = DOMAIN L[m] \ {n}
                                   /\ \A k \in DOMAIN L[m] \ {n} : rest[m][k] = L[m][k]
  <2>1. DOMAIN rest = DOMAIN L \ {n} /\ \A m \in DOMAIN L \ {n} : rest[m] = WithoutKey(L[m], n)
    BY DEF Unlinked
  <2> HIDE DEF rest
  <2> QED BY <2>1 DEF WithoutKey
<1> HIDE DEF rest
<1>4. GoodLists(rest)
  BY <1>1, <1>3 DEF GoodLists
<1>5. GoodLists([m \in DOMAIN rest \ lonely |-> rest[m]])
  <2>1. lonely \in SUBSET DOMAIN rest /\ \A m \in lonely : DOMAIN rest[m] = {}
    OBVIOUS
  <2> HIDE DEF lonely
  <2> QED BY <1>4, <2>1, WithoutLonely
<1>6. GoodLists(M)
  BY <1>2, <1>4, <1>5
<1> QED BY <1>6, MatrixGone DEF RemoveNode, M

LEMMA RemoveConnectionKeeps ==
  ASSUME GraphInv, NEW a \in Nodes, NEW b \in Nodes, RemoveConnection(a, b)
  PROVE  GraphInv'
<1> DEFINE L == adjacencyLists
           M == adjacencyLists'
           rest == [m \in DOMAIN L |-> CASE m = a -> WithoutKey(L[a], b)
                                         [] m = b -> WithoutKey(L[b], a)
                                         [] OTHER -> L[m]]
           kept == {n \in DOMAIN rest : n \notin {a, b} \/ DOMAIN rest[n] # {}}
           lonely == DOMAIN rest \ kept
<1>1. GoodLists(L) /\ a # b /\ a \in DOMAIN L /\ b \in DOMAIN L[a]
  BY DEF GraphInv, RemoveConnection, HasConnection, HasNode
<1>2. M = rest \/ M = [m \in kept |-> rest[m]]
  BY DEF RemoveConnection
<1> HIDE DEF L, M
<1>3. /\ DOMAIN rest = DOMAIN L
      /\ b \in DOMAIN L
      /\ \A m \in DOMAIN L : \A k :
           /\ k \in DOMAIN rest[m] <=> k \in DOMAIN L[m] /\ ~(m = a /\ k = b) /\ ~(m = b /\ k = a)
           /\ k \in DOMAIN rest[m] => rest[m][k] = L[m][k]
  <2>1. b \in DOMAIN L
    BY <1>1 DEF GoodLists
  <2>2. /\ DOMAIN rest = DOMAIN L
        /\ rest[a] = WithoutKey(L[a], b) /\ rest[b] = WithoutKey(L[b], a)
        /\ \A m \in DOMAIN L : m # a /\ m # b => rest[m] = L[m]
    BY <1>1, <2>1
  <2> HIDE DEF rest
  <2>3. DOMAIN rest[a] = DOMAIN L[a] \ {b} /\ \A k \in DOMAIN L[a] \ {b} : rest[a][k] = L[a][k]
    BY <2>2 DEF WithoutKey
  <2>4. DOMAIN rest[b] = DOMAIN L[b] \ {a} /\ \A k \in DOMAIN L[b] \ {a} : rest[b][k] = L[b][k]
    BY <2>2 DEF WithoutKey
  <2>5. ASSUME NEW m \in DOMAIN L, NEW k
        PROVE  /\ k \in DOMAIN rest[m] <=> k \in DOMAIN L[m] /\ ~(m = a /\ k = b) /\ ~(m = b /\ k = a)
               /\ k \in DOMAIN rest[m] => rest[m][k] = L[m][k]
    BY <1>1, <2>2, <2>3, <2>4
  <2> QED BY <2>1, <2>2, <2>5
<1> HIDE DEF rest
<1>4. GoodLists(rest)
  BY <1>1, <1>3 DEF GoodLists
<1>5. GoodLists([m \in kept |-> rest[m]])
  <2>1. lonely \in SUBSET DOMAIN rest /\ (\A m \in lonely : DOMAIN rest[m] = {}) /\ kept = DOMAIN rest \ lonely
    OBVIOUS
  <2> HIDE DEF lonely, kept
  <2> QED BY <1>4, <2>1, WithoutLonely
<1>6. GoodLists(M)
  BY <1>2, <1>4, <1>5
<1> QED BY <1>6, MatrixGone DEF RemoveConnection, M

LEMMA GetShortestPathKeeps ==
  ASSUME GraphInv, NEW from \in Nodes, NEW to \in Nodes, GetShortestPath(from, to)
  PROVE  GraphInv'
<1> DEFINE L == adjacencyLists
           m == IF dijkstra.isValidPath /\ dijkstra.rootNode = from THEN dijkstra
                ELSE Matrix(L, from)
<1>1. /\ from \in DOMAIN L /\ to \in DOMAIN L /\ from # to
      /\ dijkstra' = m /\ adjacencyLists' = L
      /\ lastPath' = IF to \notin DOMAIN m.filledFrom THEN NoPath
                     ELSE IF Misaligned(m) THEN Misread
                     ELSE [nodes |-> PathIn(m, from, to), from |-> from, to |-> to]
  BY DEF GetShortestPath, HasNode
<1>2. GoodLists(L)
  BY DEF GraphInv
<1>3. /\ m.isValidPath /\ m.rootNode = from /\ from \in DOMAIN m.filledFrom
      /\ m = Matrix(m.filledFrom, from) /\ GoodLists(m.filledFrom)
      /\ Within(m.filledFrom, L)
  <2>1. CASE dijkstra.isValidPath /\ dijkstra.rootNode = from
    <3>1. m = dijkstra
      BY <2>1
    <3> HIDE DEF m
    <3> QED BY <2>1, <3>1 DEF GraphInv
  <2>2. CASE ~(dijkstra.isValidPath /\ dijkstra.rootNode = from)
    <3>1. m = Matrix(L, from)
      BY <2>2
    <3>2. /\ Matrix(L, from).isValidPath /\ Matrix(L, from).rootNode = from
          /\ Matrix(L, from).filledFrom = L
      BY DEF Matrix
    <3>3. Within(L, L)
      BY DEF Within
    <3> HIDE DEF m
    <3> QED BY <1>1, <1>2, <3>1, <3>2, <3>3
  <2> QED BY <2>1, <2>2
<1> HIDE DEF m
<1>4. ASSUME lastPath' \notin {NoPath, Misread}
      PROVE  /\ lastPath'.from = from /\ lastPath'.to = to /\ to \in DOMAIN m.filledFrom
             /\ lastPath'.nodes = PathIn(m, from, to)
  BY <1>1, <1>4
<1> QED BY <1>1, <1>2, <1>3, <1>4 DEF GraphInv

\* The edges go both ways, and a path found is a way along the graph as it is, and in
\* the graph that the matrix was filled from no other is shorter; none is found only if
\* that graph has none.
THEOREM PathsCorrect == GraphSpec => []PathsAreShortest
<1>1. GraphInit => GraphInv
  <2> SUFFICES ASSUME GraphInit PROVE GraphInv
    OBVIOUS
  <2>1. adjacencyLists = << >> /\ dijkstra.isValidPath = FALSE /\ lastPath = NoPath
    BY DEF GraphInit, NoMatrix
  <2>2. DOMAIN adjacencyLists = {}
    BY <2>1
  <2>3. GoodLists(adjacencyLists)
    BY <2>2 DEF GoodLists
  <2> QED BY <2>1, <2>3 DEF GraphInv
<1>2. GraphInv /\ [GraphNext]_graphVars => GraphInv'
  <2> SUFFICES ASSUME GraphInv, [GraphNext]_graphVars PROVE GraphInv'
    OBVIOUS
  <2>1. ASSUME NEW a \in Nodes, AddNode(a) PROVE GraphInv'
    BY <2>1, AddNodeKeeps
  <2>2. ASSUME NEW a \in Nodes, RemoveNode(a) PROVE GraphInv'
    BY <2>2, RemoveNodeKeeps
  <2>3. ASSUME NEW a \in Nodes, NEW b \in Nodes, NEW w \in EdgeWeights, AddConnection(a, b, w)
        PROVE  GraphInv'
    BY <2>3, AddConnectionKeeps
  <2>4. ASSUME NEW a \in Nodes, NEW b \in Nodes, RemoveConnection(a, b) PROVE GraphInv'
    BY <2>4, RemoveConnectionKeeps
  <2>5. ASSUME NEW a \in Nodes, NEW b \in Nodes, GetShortestPath(a, b) PROVE GraphInv'
    BY <2>5, GetShortestPathKeeps
  <2>6. CASE GraphClear
    <3>1. ClearDijkstra /\ adjacencyLists' = << >>
      BY <2>6 DEF GraphClear
    <3>2. DOMAIN adjacencyLists' = {}
      BY <3>1
    <3>3. GoodLists(adjacencyLists')
      BY <3>2 DEF GoodLists
    <3> QED BY <3>1, <3>3, MatrixGone
  <2>7. CASE UNCHANGED graphVars
    BY <2>7 DEF graphVars, GraphInv
  <2> QED BY <2>1, <2>2, <2>3, <2>4, <2>5, <2>6, <2>7 DEF GraphNext
<1>3. GraphInv => PathsAreShortest
  <2> SUFFICES ASSUME GraphInv PROVE PathsAreShortest
    OBVIOUS
  <2>1. GoodLists(adjacencyLists)
    BY DEF GraphInv
  <2>2. \A a, b \in Nodes : HasConnection(a, b) =>
          HasConnection(b, a) /\ adjacencyLists[a][b] = adjacencyLists[b][a]
    BY <2>1 DEF GoodLists, HasConnection, HasNode
  <2>3. ASSUME lastPath \notin {NoPath, Misread}, ~OnlyTwoUnlinked(dijkstra.filledFrom)
        PROVE  LET p == lastPath.nodes
                   filled == dijkstra.filledFrom
                   ways == Ways(filled, lastPath.from, lastPath.to)
               IN  IF p = << >> THEN ways = {}
                   ELSE /\ IsWay(adjacencyLists, p, lastPath.from, lastPath.to)
                        /\ IsWay(filled, p, lastPath.from, lastPath.to)
                        /\ \A q \in ways : Cost(filled, p) <= Cost(filled, q)
    <3> DEFINE F == dijkstra.filledFrom
               from == lastPath.from
               to == lastPath.to
               p == lastPath.nodes
    <3>1. /\ from \in DOMAIN F /\ to \in DOMAIN F /\ to # from
          /\ GoodLists(F) /\ Within(F, adjacencyLists)
          /\ dijkstra = Matrix(F, from) /\ p = PathIn(dijkstra, from, to)
      BY <2>3 DEF GraphInv
    <3> HIDE DEF F, from, to, p
    <3>2. IF p = << >> THEN Ways(F, from, to) = {}
          ELSE IsWay(F, p, from, to) /\ \A q \in Ways(F, from, to) : Cost(F, p) <= Cost(F, q)
      <4>1. CASE Cardinality(DOMAIN F) # 2
        BY <3>1, <4>1, PathIsShortest
      <4>2. CASE Cardinality(DOMAIN F) = 2
        <5>1. Edges(F) # {}
          BY <2>3, <4>2 DEF OnlyTwoUnlinked, F
        <5>2. p = <<from, to>>
          BY <3>1, <4>2 DEF PathIn, F
        <5>3. p # << >>
          BY <5>2
        <5> QED BY <3>1, <4>2, <5>1, <5>2, <5>3, LinkIsShortest
      <4> QED BY <4>1, <4>2
    <3>3. IsWay(F, p, from, to) => IsWay(adjacencyLists, p, from, to)
      BY <3>1 DEF IsWay, Within
    <3> QED BY <3>2, <3>3 DEF F, from, to, p
  <2> QED BY <2>2, <2>3 DEF PathsAreShortest
<1> QED BY <1>1, <1>2, <1>3, PTL DEF GraphSpec
=============================================================================
