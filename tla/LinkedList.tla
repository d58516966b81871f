---------------------------- MODULE LinkedList ----------------------------
(***************************************************************************)
(* DS_LinkedList.h: CircularLinkedList, a ring of nodes linked both ways   *)
(* with a root and a current position, and LinkedList, the same class with *)
(* steps that stop at the ends.  A node is the number of its allocation.   *)
(***************************************************************************)
EXTENDS Integers, Sequences, SequencesExt

CONSTANTS ListItems,
          Others,   \* contents of the lists Concatenate is called with
          MaxNodes  \* bound of the model

ASSUME LinkedListAssumption ==
  ListItems \subseteq Int /\ Others \subseteq Seq(ListItems) /\ MaxNodes \in Nat

VARIABLES ring,      \* the nodes with their pointers, root and position
          circular,  \* which of the two classes
          wanted,    \* the list a caller has built, from the root
          cursor,    \* the place of the current element in it, 0 when empty
          doubled    \* an empty list has been concatenated, and holds the other twice
linkedVars == <<ring, circular, wanted, cursor, doubled>>

NoNode == 0
EmptyRing == [next |-> << >>, previous |-> << >>, item |-> << >>,
              root |-> NoNode, position |-> NoNode]
LinkedInit == /\ ring = EmptyRing /\ circular \in BOOLEAN /\ wanted = << >> /\ cursor = 0
              /\ doubled = FALSE

RingNodes(r) == DOMAIN r.next
Fresh(r) == CHOOSE n \in 1 .. MaxNodes \ RingNodes(r) :
              \A m \in 1 .. MaxNodes \ RingNodes(r) : n <= m

\* A new node n with the item x between a and the node b after it.  Mutant of
\* Linked: b does not learn of it.
LinkedOneWay(r, a, b, n, x) ==
  [r EXCEPT !.next     = [m \in RingNodes(r) \union {n} |->
                            IF m = n THEN b ELSE IF m = a THEN n ELSE r.next[m]],
            !.previous = [m \in RingNodes(r) \union {n} |-> IF m = n THEN a ELSE r.previous[m]],
            !.item     = [m \in RingNodes(r) \union {n} |-> IF m = n THEN x ELSE r.item[m]]]
Linked(r, a, b, n, x) ==
  [r EXCEPT !.next     = [m \in RingNodes(r) \union {n} |->
                            IF m = n THEN b ELSE IF m = a THEN n ELSE r.next[m]],
            !.previous = [m \in RingNodes(r) \union {n} |->
                            IF m = n THEN a ELSE IF m = b THEN n ELSE r.previous[m]],
            !.item     = [m \in RingNodes(r) \union {n} |-> IF m = n THEN x ELSE r.item[m]]]

\* Insert before the position; at the root the new node is the root and current.
InsertedNode(r, x) ==
  LET n == Fresh(r)
      linked == Linked(r, r.previous[r.position], r.position, n, x)
  IN  IF r.root = NoNode THEN [Linked(r, n, n, n, x) EXCEPT !.root = n, !.position = n]
      ELSE IF r.position = r.root THEN [linked EXCEPT !.root = n, !.position = n]
      ELSE linked

\* Add after the position, which stays.
AddedNode(r, x) ==
  LET n == Fresh(r)
  IN  IF r.root = NoNode THEN [Linked(r, n, n, n, x) EXCEPT !.root = n, !.position = n]
      ELSE Linked(r, r.position, r.next[r.position], n, x)

\* Del: the element after the deleted one is current.
DeletedNode(r) ==
  LET gone == r.position
      after == r.next[gone]
      before == r.previous[gone]
      left == RingNodes(r) \ {gone}
  IN  IF after = gone THEN EmptyRing
      ELSE [next     |-> [m \in left |-> IF m = before THEN after ELSE r.next[m]],
            previous |-> [m \in left |-> IF m = after THEN before ELSE r.previous[m]],
            item     |-> [m \in left |-> r.item[m]],
            root     |-> IF r.root = gone THEN after ELSE r.root,
            position |-> after]

\* The items from a node along a pointer field until it comes round.
ItemsAlong(r, link, from) ==
  LET nodes[k \in 1 .. Cardinality(RingNodes(r))] == IF k = 1 THEN from ELSE link[nodes[k - 1]]
  IN  [k \in DOMAIN nodes |-> r.item[nodes[k]]]
NodeAt(r, k) == LET nodes[i \in 1 .. k] == IF i = 1 THEN r.root ELSE r.next[nodes[i - 1]]
                IN  nodes[k]
FromRoot(r) == IF r.root = NoNode THEN << >> ELSE ItemsAlong(r, r.next, r.root)

\* A copy of a list: new nodes, current at the same place.
BuiltList(items, place) ==
  LET size == Len(items)
  IN  IF size = 0 THEN EmptyRing
      ELSE [next     |-> [n \in 1 .. size |-> IF n = size THEN 1 ELSE n + 1],
            previous |-> [n \in 1 .. size |-> IF n = 1 THEN size ELSE n - 1],
            item     |-> items, root |-> 1, position |-> place]

\* Concatenate: the items of the other list go after the last one, one by one;
\* an empty list first becomes a copy of the other, and then gets it again.
AddedAtEnd(r, x) == LET added == AddedNode(r, x) IN [added EXCEPT !.position = added.next[@]]
Concatenated(r, other) ==
  LET from == IF r.root = NoNode THEN BuiltList(other, 1) ELSE r
      added[k \in 0 .. Len(other)] ==
        IF k = 0 THEN [from EXCEPT !.position = from.previous[from.root]]
        ELSE AddedAtEnd(added[k - 1], other[k])
  IN  added[Len(other)]

\* Mergesort.  Each half is built with Add and no step: its first item, then
\* the others the other way round.
HalfAdded(items) == IF items = << >> THEN << >> ELSE <<Head(items)>> \o Reverse(Tail(items))

\* The smaller of the two first items; of equal ones that of L2.
Merge(L1, L2) ==
  LET first[k \in 0 .. Len(L1) + Len(L2)] ==   \* how many of the first k are of L1
        IF k = 0 THEN 0
        ELSE LET n == first[k - 1]
                 takes == n < Len(L1) /\ (k - n > Len(L2) \/ L1[n + 1] < L2[k - n])
             IN  IF takes THEN n + 1 ELSE n
  IN  [k \in 1 .. Len(L1) + Len(L2) |->
         IF first[k] > first[k - 1] THEN L1[first[k]] ELSE L2[k - first[k]]]

\* Mergesort, of a list that is halved at most depth times.
Halved[depth \in Nat] ==
  [items \in Seq(ListItems) |->
     LET half == Len(items) \div 2
     IN  IF depth = 0 \/ Len(items) <= 1 THEN items
         ELSE Merge(Halved[depth - 1][HalfAdded(SubSeq(items, 1, half))],
                    Halved[depth - 1][HalfAdded(SubSeq(items, half + 1, Len(items)))])]
Mergesort(items) == Halved[Len(items)][items]

-----------------------------------------------------------------------------
\* The calls; beside each, what it does to a sequence with a current element.
Becomes(items, place) == wanted' = items /\ cursor' = place /\ UNCHANGED <<circular, doubled>>
Ordered(items) ==
  LET p == CHOOSE p \in Bijection(DOMAIN items, DOMAIN items) :
             \A i, j \in DOMAIN items : i < j => items[p[i]] <= items[p[j]]
  IN  [k \in DOMAIN items |-> items[p[k]]]
HasRoom(n) == Len(wanted) + n <= MaxNodes

InsertItem(x) ==
  /\ HasRoom(1) /\ ring' = InsertedNode(ring, x)
  /\ IF wanted = << >> THEN Becomes(<<x>>, 1)
     ELSE Becomes(InsertAt(wanted, cursor, x), IF cursor = 1 THEN 1 ELSE cursor + 1)

AddItem(x) ==
  /\ HasRoom(1) /\ ring' = AddedNode(ring, x)
  /\ IF wanted = << >> THEN Becomes(<<x>>, 1)
     ELSE Becomes(InsertAt(wanted, cursor + 1, x), cursor)

ReplaceItem(x) == /\ wanted # << >> /\ ring' = [ring EXCEPT !.item[ring.position] = x]
                  /\ Becomes([wanted EXCEPT ![cursor] = x], cursor)

\* Del, and Pop, which returns the item as well.
DelItem == /\ wanted # << >> /\ ring' = DeletedNode(ring)
           /\ Becomes(RemoveAt(wanted, cursor), IF Len(wanted) = 1 THEN 0
                                                ELSE IF cursor = Len(wanted) THEN 1 ELSE cursor)

\* Find moves to the first such item; a search that fails does not move.
FindItem(x) ==
  /\ x \in ToSet(wanted)
  /\ ring' = [ring EXCEPT !.position = NodeAt(ring, SelectInSeq(FromRoot(ring), LAMBDA y : y = x))]
  /\ Becomes(wanted, SelectInSeq(wanted, LAMBDA y : y = x))

\* operator++ and operator--.
StepOn == /\ wanted # << >> /\ (circular \/ ring.next[ring.position] # ring.root)
          /\ ring' = [ring EXCEPT !.position = ring.next[@]]
          /\ Becomes(wanted, IF cursor = Len(wanted) THEN 1 ELSE cursor + 1)
StepBack == /\ wanted # << >> /\ (circular \/ ring.position # ring.root)
            /\ ring' = [ring EXCEPT !.position = ring.previous[@]]
            /\ Becomes(wanted, IF cursor = 1 THEN Len(wanted) ELSE cursor - 1)

Beginning == /\ wanted # << >> /\ ring' = [ring EXCEPT !.position = ring.root]
             /\ Becomes(wanted, 1)
End == /\ wanted # << >> /\ ring' = [ring EXCEPT !.position = ring.previous[ring.root]]
       /\ Becomes(wanted, Len(wanted))

ClearItems == wanted # << >> /\ ring' = EmptyRing /\ Becomes(<< >>, 0)

\* A copy takes the list's place.
CopyItems == /\ wanted # << >> /\ \E place \in 1 .. Len(wanted) :
                  /\ NodeAt(ring, place) = ring.position
                  /\ ring' = BuiltList(FromRoot(ring), place)
             /\ Becomes(wanted, cursor)

Concatenate(other) ==
  /\ other # << >> /\ HasRoom(IF wanted = << >> THEN 2 * Len(other) ELSE Len(other))
  /\ ring' = Concatenated(ring, other)
  /\ wanted' = wanted \o other /\ cursor' = Len(wanted') /\ UNCHANGED circular
  /\ doubled' = (wanted = << >>)

SortItems == /\ Len(wanted) > 1 /\ ring' = BuiltList(Mergesort(FromRoot(ring)), 1)
             /\ Becomes(Ordered(wanted), 1)

LinkedStep == \/ \E x \in ListItems : InsertItem(x) \/ AddItem(x) \/ ReplaceItem(x) \/ FindItem(x)
              \/ \E other \in Others : Concatenate(other)
              \/ DelItem \/ StepOn \/ StepBack \/ Beginning \/ End \/ ClearItems
              \/ CopyItems \/ SortItems

\* A doubled list is not the caller's any more: nothing is said of what follows.
LinkedNext == ~doubled /\ LinkedStep
LinkedSpec == LinkedInit /\ [][LinkedNext]_linkedVars

-----------------------------------------------------------------------------
\* Whatever the calls, the ring is the caller's list: forwards from the root it
\* shows the items in order, backwards from the end the same items the other way
\* round, no node is outside of it, and the position is the current element.  Only
\* Concatenate into an empty list breaks this (AppendsTheOther).
RingIsTheList ==
  ~doubled =>
    /\ Cardinality(RingNodes(ring)) = Len(wanted)
    /\ wanted # << >> =>
         /\ FromRoot(ring) = wanted
         /\ ItemsAlong(ring, ring.previous, ring.previous[ring.root]) = Reverse(wanted)
         /\ ring.position = NodeAt(ring, cursor)

=============================================================================
