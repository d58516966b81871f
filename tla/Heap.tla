-------------------------------- MODULE Heap --------------------------------
(***************************************************************************)
(* DataStructures::Heap of DS_Heap.h: a binary heap in a list.  An element *)
(* stands for its weight; positions count from 0.                          *)
(***************************************************************************)
EXTENDS Integers, Sequences, SequencesExt, FiniteSets

CONSTANTS Weights, IsMaxHeap,
          MaxHeapSize  \* bound of the model

ASSUME HeapAssumption == Weights \subseteq Int /\ IsMaxHeap \in BOOLEAN

VARIABLES heap,
          optimizeNextSeriesPush,
          inSeries,     \* the last calls are StartSeries and pushes of one series
          heldWeights,  \* how often a caller has put each weight in and not taken it out
          poppedInside, \* Pop(i) with i > 0 happened since the heap was empty
          lastPop       \* the last Pop(0), unless poppedInside: what it returned, and heldWeights
heapVars == <<heap, optimizeNextSeriesPush, inSeries, heldWeights, poppedInside, lastPop>>

NoWeights == [w \in Weights |-> 0]

HeapInit == /\ heap = << >> /\ optimizeNextSeriesPush = FALSE /\ inSeries = FALSE
            /\ heldWeights = NoWeights /\ poppedInside = FALSE /\ lastPop = << >>

\* a belongs nearer to the root than b.
Precedes(a, b) == IF IsMaxHeap THEN a > b ELSE a < b
Parent(i) == (i - 1) \div 2
At(h, i) == h[i + 1]
Swap(h, i, j) == [h EXCEPT ![i + 1] = h[j + 1], ![j + 1] = h[i + 1]]

\* The loops of Push and Pop go from a heap and the place of an element that moves in
\* it, <<h, i>>, to the next.
Places == Seq(Weights) \X Nat

\* The loop of Push: the element at i goes up.
Rises(h, i) == i \in 1 .. Len(h) - 1 /\ Precedes(At(h, i), At(h, Parent(i)))
SiftUp[p \in Places] ==
  LET h == p[1]
      i == p[2]
  IN  IF Rises(h, i) THEN SiftUp[<<Swap(h, i, Parent(i)), Parent(i)>>] ELSE h

\* The loop of Pop: the element at i goes down, past the child that precedes.
\* Mutant of Favourite: the left child without a look at the right one.
FavouriteLeft(h, l, r) == l
Favourite(h, l, r) ==
  IF r >= Len(h) \/ Precedes(At(h, l), At(h, r)) THEN l ELSE r

Child(h, i) == Favourite(h, 2 * i + 1, 2 * i + 2)
Sinks(h, i) == 2 * i + 1 < Len(h) /\ Precedes(At(h, Child(h, i)), At(h, i))
SiftDown[p \in Places] ==
  LET h == p[1]
      i == p[2]
  IN  IF Sinks(h, i) THEN SiftDown[<<Swap(h, i, Child(h, i)), Child(h, i)>>] ELSE h

-----------------------------------------------------------------------------
Pushed(weight) == SiftUp[<<Append(heap, weight), Len(heap)>>]

Push(weight) ==
  /\ Len(heap) < MaxHeapSize
  /\ heap' = Pushed(weight) /\ heldWeights' = [heldWeights EXCEPT ![weight] = @ + 1]
  /\ inSeries' = FALSE
  /\ UNCHANGED <<optimizeNextSeriesPush, poppedInside, lastPop>>

StartSeries ==
  /\ optimizeNextSeriesPush' = FALSE /\ inSeries' = TRUE
  /\ UNCHANGED <<heap, heldWeights, poppedInside, lastPop>>

\* No element from the new one's parent on has to come after it.
FitsAtTheEnd(weight) ==
  \A i \in Parent(Len(heap)) .. Len(heap) - 1 : i >= 0 => ~Precedes(weight, At(heap, i))

\* DS_Heap.h:50 asks for weights in heap order, each no nearer to the root than
\* the one before, which the optimised push has left at the end.
PushSeries(weight) ==
  LET straight == optimizeNextSeriesPush \/ FitsAtTheEnd(weight)
  IN  /\ inSeries /\ Len(heap) < MaxHeapSize
      /\ optimizeNextSeriesPush => ~Precedes(weight, Last(heap))
      /\ heap' = IF straight THEN Append(heap, weight) ELSE Pushed(weight)
      /\ optimizeNextSeriesPush' = straight
      /\ heldWeights' = [heldWeights EXCEPT ![weight] = @ + 1]
      /\ UNCHANGED <<inSeries, poppedInside, lastPop>>

Pop(startingIndex) ==
  LET popped == At(heap, startingIndex)
      moved == ReplaceAt(heap, startingIndex + 1, Last(heap))
  IN  /\ startingIndex < Len(heap)
      /\ heap' = SiftDown[<<Front(moved), startingIndex>>]
      /\ heldWeights' = [heldWeights EXCEPT ![popped] = @ - 1]
      /\ lastPop' = IF startingIndex = 0 /\ ~poppedInside THEN <<popped, heldWeights>> ELSE << >>
      /\ poppedInside' = (Len(heap) > 1 /\ (poppedInside \/ startingIndex > 0))
      /\ inSeries' = FALSE
      /\ UNCHANGED optimizeNextSeriesPush

\* Clear does not end a series: only StartSeries does.
HeapClear == /\ heap # << >>
             /\ heap' = << >> /\ heldWeights' = NoWeights /\ poppedInside' = FALSE
             /\ inSeries' = FALSE
             /\ UNCHANGED <<optimizeNextSeriesPush, lastPop>>

HeapNext ==
  \/ \E weight \in Weights : Push(weight) \/ PushSeries(weight)
  \/ \E i \in 0 .. MaxHeapSize - 1 : Pop(i)
  \/ StartSeries \/ HeapClear

HeapSpec == HeapInit /\ [][HeapNext]_heapVars

-----------------------------------------------------------------------------
(***************************************************************************)
(* Whatever is pushed and popped, singly or in series, the heap holds what *)
(* the caller has in it, and Pop(0) returns the first by weight of all it  *)
(* held.  Pop(i) inside the heap puts the last element in the place of the *)
(* one it takes and moves it only down, so after one the order is promised *)
(* again only when the heap has been empty.                                *)
(***************************************************************************)
PopTakesTheFirst ==
  /\ \A w \in Weights : heldWeights[w] = Cardinality({i \in DOMAIN heap : heap[i] = w})
  /\ lastPop # << >> => \A w \in Weights : lastPop[2][w] > 0 => ~Precedes(w, lastPop[1])
=============================================================================
