----------------------------- MODULE BPlusTree ------------------------------
(***************************************************************************)
(* DataStructures::BPlusTree of DS_BPlusTree.h.  A page is a record of its *)
(* keys and, in an index page, its children; the data of a leaf move with  *)
(* its keys and the links between leaves follow their order, so neither is *)
(* there.  Indices count from 0, as in the code.                           *)
(***************************************************************************)
EXTENDS Integers, Sequences, FiniteSets, SequencesExt, BinarySearch

CONSTANTS TreeKeys, Order

ASSUME BPlusTreeAssumption == TreeKeys \subseteq Int /\ Order \in Nat /\ Order > 1

VARIABLES bRoot,
          heldKeys,       \* what a caller has inserted and not deleted
          insertedTwice   \* a key that was there has been inserted
bPlusVars == <<bRoot, heldKeys, insertedTwice>>

NoPage == [keys |-> << >>, children |-> << >>]
Leaf(keys) == [keys |-> keys, children |-> << >>]
IndexPage(keys, children) == [keys |-> keys, children |-> children]
IsLeaf(page) == page.children = << >>
PageSize(page) == Len(page.keys)
KeyAt(page, i) == page.keys[i + 1]
ChildAt(page, i) == page.children[i + 1]
WithKey(page, i, key) == [page EXCEPT !.keys[i + 1] = key]
WithChild(page, i, child) == [page EXCEPT !.children[i + 1] = child]

BPlusInit == bRoot = NoPage /\ heldKeys = {} /\ insertedTwice = FALSE

GetIndexOf(key, page) ==
  GetIndexFromKey(PageSize(page), [i \in 0 .. PageSize(page) - 1 |-> Compare(key, KeyAt(page, i))])

\* The branch below which a key is: past the separator that equals it.
\* Mutant of Branch: before it.
BranchBefore(key, page) == GetIndexOf(key, page).index
Branch(key, page) ==
  LET f == GetIndexOf(key, page) IN IF f.exists THEN f.index + 1 ELSE f.index

RECURSIVE GetLeafFromKey(_, _)
GetLeafFromKey(key, page) ==
  IF IsLeaf(page) THEN page ELSE GetLeafFromKey(key, ChildAt(page, Branch(key, page)))

-----------------------------------------------------------------------------
(***************************************************************************)
(* Insertion.  A result is the page as it becomes, a page split off to its *)
(* right with the key that separates them, and the ReturnAction that       *)
(* replaces key1 by key2 above.                                            *)
(***************************************************************************)
NoAction == [key1 |-> 0, key2 |-> 0, replace |-> FALSE]
Result(page, newPage, separator) ==
  [page |-> page, newPage |-> newPage, separator |-> separator, action |-> NoAction]

\* Where InsertIntoNode has room: key at i and, in an index page, node after it.
Placed(key, i, node, page) ==
  [keys |-> InsertAt(page.keys, i + 1, key),
   children |-> IF IsLeaf(page) THEN << >> ELSE InsertAt(page.children, i + 2, node)]

\* InsertIntoNode.  A full page is split; an index page gives its middle key up.
InsertIntoNode(key, i, node, page) ==
  IF PageSize(page) < Order THEN Result(Placed(key, i, node, page), NoPage, 0)
  ELSE LET whole == Placed(key, i, node, page)
           n == IF i >= (Order + 1) \div 2 THEN Order \div 2 ELSE (Order + 1) \div 2
           right == SubSeq(whole.keys, n + 1, Order + 1)
       IN  IF IsLeaf(page)
             THEN Result(Leaf(SubSeq(whole.keys, 1, n)), Leaf(right), Head(right))
             ELSE Result(IndexPage(SubSeq(whole.keys, 1, n), SubSeq(whole.children, 1, n + 1)),
                         IndexPage(Tail(right), SubSeq(whole.children, n + 2, Order + 2)),
                         Head(right))

\* The child in branch b is a full leaf: its head goes to the left sibling, or its
\* last key to the right one, if that has room.
CanRotateLeft(page, b) == b > 0 /\ PageSize(ChildAt(page, b - 1)) < Order
CanRotateRight(page, b) == b < PageSize(page) /\ PageSize(ChildAt(page, b + 1)) < Order

RotatedLeft(key, page, b) ==
  LET source == ChildAt(page, b)
      dest == Leaf(Append(ChildAt(page, b - 1).keys, Head(source.keys)))
      rest == Leaf(Tail(source.keys))
      kept == IF key > Head(source.keys) THEN Placed(key, GetIndexOf(key, rest).index, NoPage, rest)
                                         ELSE Leaf(<<key>> \o rest.keys)
  IN  WithKey(WithChild(WithChild(page, b - 1, dest), b, kept), b - 1, Head(kept.keys))

RotatedRight(key, page, b) ==
  LET source == ChildAt(page, b)
      dest == ChildAt(page, b + 1)
      moved == IF key < Last(source.keys) THEN Last(source.keys) ELSE key
      rest == Leaf(Front(source.keys))
      kept == IF key < Last(source.keys) THEN Placed(key, GetIndexOf(key, rest).index, NoPage, rest)
                                         ELSE source
  IN  WithKey(WithChild(WithChild(page, b, kept), b + 1, Leaf(<<moved>> \o dest.keys)), b, moved)

\* key1 of the action is the sibling's first key, or the leaf's own.
Replacing(page, key1, key2) ==
  [Result(page, NoPage, 0) EXCEPT !.action = [key1 |-> key1, key2 |-> key2, replace |-> TRUE]]

\* What the page becomes when its child in branch b is a full leaf, and a sibling
\* has room.
RotatedInto(key, page, b, child) ==
  IF CanRotateLeft(page, b)
    THEN LET second == IF key > child.keys[1] THEN child.keys[2] ELSE key
         IN  Replacing(RotatedLeft(key, page, b), child.keys[1], second)
  ELSE LET new == RotatedRight(key, page, b)
       IN  Replacing(new, ChildAt(page, b + 1).keys[1], KeyAt(new, b))

\* What it becomes with the result of the insertion into branch b.
InsertedBelow(page, b, below) ==
  LET above == IF below.action.replace /\ b > 0 /\ KeyAt(page, b - 1) = below.action.key1
                 THEN WithKey(page, b - 1, below.action.key2) ELSE page
      here == WithChild(above, b, below.page)
  IN  IF below.newPage = NoPage THEN [below EXCEPT !.page = here]
      ELSE InsertIntoNode(below.separator, b, below.newPage, here)

RECURSIVE InsertBranchDown(_, _)
InsertBranchDown(key, page) ==
  LET f == GetIndexOf(key, page)
      b == Branch(key, page)
      child == ChildAt(page, b)
      fullLeaf == IsLeaf(child) /\ PageSize(child) = Order
  IN  IF IsLeaf(page)
        THEN IF f.exists THEN Result(page, NoPage, 0) ELSE InsertIntoNode(key, b, NoPage, page)
      ELSE IF fullLeaf /\ f.exists THEN Result(page, NoPage, 0)
      ELSE IF fullLeaf /\ (CanRotateLeft(page, b) \/ CanRotateRight(page, b))
        THEN RotatedInto(key, page, b, child)
      ELSE InsertedBelow(page, b, InsertBranchDown(key, child))

Insert(key) ==
  LET r == InsertBranchDown(key, bRoot)
  IN  /\ ~insertedTwice
      /\ bRoot' = IF bRoot = NoPage THEN Leaf(<<key>>)
                  ELSE IF r.newPage = NoPage THEN r.page
                  ELSE IndexPage(<<r.separator>>, <<r.page, r.newPage>>)
      /\ heldKeys' = heldKeys \union {key}
      /\ insertedTwice' = (key \in heldKeys)

-----------------------------------------------------------------------------
(***************************************************************************)
(* Deletion.  A result is the page as it becomes, whether the key was in   *)
(* it, whether the page is too small now, the ReturnAction that sets the   *)
(* key of a branch above (set, key1), and the key at index 0 of a page     *)
(* that has none left, which some of the reads below meet (ghost).         *)
(***************************************************************************)
Underflows(page) == PageSize(page) < Order \div 2
HasExcess(page) == PageSize(page) > Order \div 2
FirstKey(page, ghost) == IF page.keys = << >> THEN ghost ELSE Head(page.keys)

\* DeleteFromPageAtIndex: in an index page with the child on the right of the key.
Without(page, i) ==
  [keys |-> RemoveAt(page.keys, i + 1),
   children |-> IF IsLeaf(page) THEN << >> ELSE RemoveAt(page.children, i + 2)]

\* FixUnderflow, when the left sibling has a key to spare: its last.
FromLeft(b, cur) ==
  LET source == ChildAt(cur, b - 1)
      dest == ChildAt(cur, b)
      filled == IF IsLeaf(dest) THEN Leaf(<<Last(source.keys)>> \o dest.keys)
                ELSE IndexPage(<<KeyAt(cur, b - 1)>> \o dest.keys,
                               <<Last(source.children)>> \o dest.children)
      less == [keys |-> Front(source.keys),
               children |-> IF IsLeaf(source) THEN << >> ELSE Front(source.children)]
  IN  WithKey(WithChild(WithChild(cur, b, filled), b - 1, less), b - 1, Last(source.keys))

\* When the right one has: its first, and an index page takes rightRootKey for it.
FromRight(b, cur, rightRootKey) ==
  LET source == ChildAt(cur, b + 1)
      dest == ChildAt(cur, b)
      filled == IF IsLeaf(dest) THEN Leaf(Append(dest.keys, Head(source.keys)))
                ELSE IndexPage(Append(dest.keys, rightRootKey),
                               Append(dest.children, Head(source.children)))
      less == [keys |-> Tail(source.keys),
               children |-> IF IsLeaf(source) THEN << >> ELSE Tail(source.children)]
  IN  WithKey(WithChild(WithChild(cur, b, filled), b + 1, less), b,
              IF IsLeaf(dest) THEN source.keys[2] ELSE Head(source.keys))

\* When neither has: the branches d and d + 1 become one.
Merged(d, cur, rightRootKey) ==
  LET dest == ChildAt(cur, d)
      source == ChildAt(cur, d + 1)
      whole == IF IsLeaf(dest) THEN Leaf(dest.keys \o source.keys)
               ELSE IndexPage(dest.keys \o <<rightRootKey>> \o source.keys,
                              dest.children \o source.children)
  IN  WithChild(Without(cur, d), d, whole)

\* With an order of 2 or 3 a leaf can have lost its only key: the key of its
\* branch is set again.
FixUnderflow(b, r, rightRootKey) ==
  LET cur == r.page
      dest == ChildAt(cur, b)
      emptied == IsLeaf(dest) /\ Order <= 3 /\ dest.keys = << >>
      d == IF b < PageSize(cur) THEN b ELSE b - 1
      right == FromRight(b, cur, rightRootKey)
      new == FirstKey(ChildAt(right, b), 0)
      merged == Merged(d, cur, rightRootKey)
      leftmost == IsLeaf(dest) /\ b = 0
      done == [r EXCEPT !.underflow = FALSE]
  IN  IF b > 0 /\ HasExcess(ChildAt(cur, b - 1)) THEN [done EXCEPT !.page = FromLeft(b, cur)]
      ELSE IF b < PageSize(cur) /\ HasExcess(ChildAt(cur, b + 1))
        THEN CASE emptied /\ b = 0 -> [done EXCEPT !.page = right, !.set = TRUE, !.key1 = new]
               [] emptied /\ b > 0 -> [done EXCEPT !.page = WithKey(right, b - 1, new)]
               [] ~IsLeaf(dest) /\ ~r.set ->
                    [done EXCEPT !.page = right, !.set = TRUE, !.key1 = FirstKey(dest, r.ghost)]
               [] OTHER -> [done EXCEPT !.page = right]
      ELSE [r EXCEPT
              !.page = IF d = b /\ b > 0 /\ Order <= 3 /\ IsLeaf(dest)
                         THEN WithKey(merged, b - 1, Head(ChildAt(merged, b).keys)) ELSE merged,
              !.underflow = Underflows(merged),
              !.set = @ \/ leftmost,
              !.key1 = IF leftmost THEN Head(ChildAt(merged, 0).keys) ELSE @,
              !.ghost = KeyAt(cur, d)]

\* The key at `at' goes from the leaf in branch b of cur.
DeletedInLeaf(key, cur, b, child, at) ==
  LET leaf == Without(child, at.index)
      head == FirstKey(leaf, key)
  IN  [page |-> IF at.index = 0 /\ b > 0
                  THEN WithKey(WithChild(cur, b, leaf), b - 1, head)
                  ELSE WithChild(cur, b, leaf),
       found |-> at.exists, underflow |-> Underflows(leaf),
       set |-> at.index = 0 /\ b = 0, key1 |-> head, ghost |-> key]

\* r is the result of the index page in branch b; f tells whether cur has the key.
DeletedBelow(cur, b, f, r) ==
  LET below == WithChild(cur, b, r.page)
  IN  IF r.set /\ f.exists THEN [r EXCEPT !.page = WithKey(below, f.index, r.key1), !.set = FALSE]
      ELSE [r EXCEPT !.page = below]

Rebalanced(b, r) ==
  IF r.underflow THEN FixUnderflow(b, r, KeyAt(r.page, IF b < PageSize(r.page) THEN b ELSE b - 1))
  ELSE r

RECURSIVE FindDeleteRebalance(_, _)
FindDeleteRebalance(key, cur) ==
  LET b == Branch(key, cur)
      child == ChildAt(cur, b)
  IN  Rebalanced(b, IF IsLeaf(child) THEN DeletedInLeaf(key, cur, b, child, GetIndexOf(key, child))
                    ELSE DeletedBelow(cur, b, GetIndexOf(key, cur),
                                      FindDeleteRebalance(key, child)))

Delete(key) ==
  LET rest == Without(bRoot, GetIndexOf(key, bRoot).index)
      r == FindDeleteRebalance(key, bRoot)
  IN  /\ key \in heldKeys /\ ~insertedTwice
      /\ bRoot' = IF IsLeaf(bRoot) THEN (IF rest.keys = << >> THEN NoPage ELSE rest)
                  ELSE IF r.underflow /\ PageSize(r.page) = 0 THEN ChildAt(r.page, 0)
                  ELSE r.page
      /\ heldKeys' = heldKeys \ {key}
      /\ UNCHANGED insertedTwice

BPlusClear == /\ bRoot # NoPage
              /\ bRoot' = NoPage /\ heldKeys' = {} /\ insertedTwice' = FALSE

BPlusNext == \/ \E key \in TreeKeys : Insert(key) \/ Delete(key)
             \/ BPlusClear

BPlusSpec == BPlusInit /\ [][BPlusNext]_bPlusVars

-----------------------------------------------------------------------------
RECURSIVE LeafKeys(_)
LeafKeys(page) ==
  IF IsLeaf(page) THEN page.keys
  ELSE FlattenSeq([i \in 1 .. Len(page.children) |-> LeafKeys(page.children[i])])

(***************************************************************************)
(* As long as no key has been inserted a second time (a full leaf does not *)
(* look for it before it gives a key to its neighbour), the leaves hold    *)
(* what has been inserted and not deleted, in order and once, and a search *)
(* by the separators comes to the leaf of every such key: through splits,  *)
(* rotations, merges and the keys they set above.                          *)
(***************************************************************************)
EveryKeyFound ==
  ~insertedTwice =>
    /\ LET keys == LeafKeys(bRoot)
       IN  /\ ToSet(keys) = heldKeys
           /\ \A i \in 1 .. Len(keys) - 1 : keys[i] < keys[i + 1]
    /\ \A key \in heldKeys : GetIndexOf(key, GetLeafFromKey(key, bRoot)).exists
=============================================================================
