----------------------------- MODULE SearchTree -----------------------------
(***************************************************************************)
(* DataStructures::BinarySearchTree and AVLBalancedBinarySearchTree of     *)
(* DS_BinarySearchTree.h.  A tree is << >> or <<left, item, right>>; the   *)
(* parent a loop of the code looks up by item is the enclosing tuple.      *)
(***************************************************************************)
EXTENDS Integers, Sequences, FiniteSets, SequencesExt

CONSTANT TreeItems

ASSUME SearchTreeAssumption == TreeItems \subseteq Int

VARIABLES root,
          avl,          \* the balanced class
          heldItems,    \* what a caller has put in and not taken out
          everDeleted   \* Del has taken an item since the tree was empty
treeVars == <<root, avl, heldItems, everDeleted>>

Nil == << >>
Left(t) == t[1]
ItemOf(t) == t[2]
Right(t) == t[3]

TreeInit == root = Nil /\ avl \in BOOLEAN /\ heldItems = {} /\ everDeleted = FALSE

RECURSIVE Height(_), TreeSize(_)
Height(t) ==
  IF t = Nil THEN 0
  ELSE 1 + (IF Height(Left(t)) > Height(Right(t)) THEN Height(Left(t)) ELSE Height(Right(t)))
TreeSize(t) == IF t = Nil THEN 0 ELSE 1 + TreeSize(Left(t)) + TreeSize(Right(t))

-----------------------------------------------------------------------------
\* The rotations lift the left (RotateRight) or right child over t.
RotateRight(t) == LET c == Left(t)
                  IN  <<Left(c), ItemOf(c), <<Right(c), ItemOf(t), Right(t)>>>>
RotateLeft(t) == LET c == Right(t)
                 IN  <<<<Left(t), ItemOf(t), Left(c)>>, ItemOf(c), Right(c)>>

DoubleRotateLeft(t) == RotateLeft(<<Left(t), ItemOf(t), RotateRight(Right(t))>>)
DoubleRotateRight(t) == RotateRight(<<RotateLeft(Left(t)), ItemOf(t), Right(t)>>)

\* One round of BalanceTree's loop.
Rotated(t) ==
  LET diff == Height(Right(t)) - Height(Left(t))
      heavier == IF diff > 0 THEN Right(t) ELSE Left(t)
      outer == IF diff > 0 THEN Height(Right(heavier)) > Height(Left(heavier))
                           ELSE Height(Left(heavier)) > Height(Right(heavier))
  IN  CASE diff = 2  -> IF outer THEN RotateLeft(t) ELSE DoubleRotateLeft(t)
        [] diff = -2 -> IF outer THEN RotateRight(t) ELSE DoubleRotateRight(t)
        [] OTHER     -> t

\* BalanceTree at t after a deletion: the parent it goes to next after a rotation is
\* the child that was just lifted.
RECURSIVE Balanced(_)
Balanced(t) == IF ~avl \/ Rotated(t) = t THEN t ELSE Balanced(Rotated(t))

\* Add, and BalanceTree on the way back to the root: the first rotation ends it
\* (rotateOnce), and an item that is there already does not start it.
RECURSIVE TreeAdd(_, _), TreeDel(_, _), Least(_), DropLeast(_)
TreeAdd(t, item) ==
  LET Grown(below, tree) ==
        IF below.done THEN [tree |-> tree, done |-> TRUE]
        ELSE [tree |-> Rotated(tree), done |-> Rotated(tree) # tree]
      left == TreeAdd(Left(t), item)
      right == TreeAdd(Right(t), item)
  IN  CASE t = Nil          -> [tree |-> <<Nil, item, Nil>>, done |-> ~avl]
        [] item < ItemOf(t) -> Grown(left, <<left.tree, ItemOf(t), Right(t)>>)
        [] item > ItemOf(t) -> Grown(right, <<Left(t), ItemOf(t), right.tree>>)
        [] OTHER            -> [tree |-> t, done |-> TRUE]

Least(t) == IF Left(t) = Nil THEN ItemOf(t) ELSE Least(Left(t))
DropLeast(t) ==
  IF Left(t) = Nil THEN Right(t)
  ELSE Balanced(<<DropLeast(Left(t)), ItemOf(t), Right(t)>>)

\* Del of an item that is in t: of two children, the least item on the right
\* takes the place.
TreeDel(t, item) ==
  CASE item < ItemOf(t) -> Balanced(<<TreeDel(Left(t), item), ItemOf(t), Right(t)>>)
    [] item > ItemOf(t) -> Balanced(<<Left(t), ItemOf(t), TreeDel(Right(t), item)>>)
    [] OTHER ->
         IF Left(t) = Nil THEN Right(t) ELSE IF Right(t) = Nil THEN Left(t)
         ELSE Balanced(<<Left(t), Least(Right(t)), DropLeast(Right(t))>>)

-----------------------------------------------------------------------------
Add(item) == /\ root' = TreeAdd(root, item).tree
             /\ heldItems' = heldItems \union {item}
             /\ UNCHANGED <<avl, everDeleted>>

\* Del of a tree of one node clears it, whatever item it was called for.
DelLast(item) == /\ TreeSize(root) = 1
                 /\ root' = Nil /\ heldItems' = {} /\ everDeleted' = FALSE
                 /\ UNCHANGED avl

Del(item) == /\ TreeSize(root) > 1 /\ item \in heldItems
             /\ root' = TreeDel(root, item)
             /\ heldItems' = heldItems \ {item} /\ everDeleted' = TRUE
             /\ UNCHANGED avl

TreeClear == /\ root # Nil
             /\ root' = Nil /\ heldItems' = {} /\ everDeleted' = FALSE
             /\ UNCHANGED avl

TreeNext == \/ \E item \in TreeItems : Add(item) \/ DelLast(item) \/ Del(item)
            \/ TreeClear

TreeSpec == TreeInit /\ [][TreeNext]_treeVars

-----------------------------------------------------------------------------
\* Where a loop with FindParent is: the node of an item, and its parent's item
\* with the side it hangs on.
RECURSIVE NodeOf(_, _), ParentOf(_, _)
NodeOf(t, item) == IF item = ItemOf(t) THEN t
                   ELSE NodeOf(IF item < ItemOf(t) THEN Left(t) ELSE Right(t), item)
ParentOf(t, item) ==
  LET side == IF item < ItemOf(t) THEN Left(t) ELSE Right(t)
  IN  IF ItemOf(side) = item THEN <<ItemOf(t), IF item < ItemOf(t) THEN "left" ELSE "right">>
      ELSE ParentOf(side, item)

\* The loop of DisplayInorder: direction is that of the last FindParent.
RECURSIVE DisplayInorder(_, _, _, _)
DisplayInorder(current, direction, just_printed, out) ==
  LET t == NodeOf(root, current)
      up == ParentOf(root, current)
  IN  IF Len(out) = TreeSize(root) THEN out
      ELSE IF Left(t) # Nil /\ direction = "root"
        THEN DisplayInorder(ItemOf(Left(t)), "root", just_printed, out)
      ELSE IF direction # "right" /\ ~just_printed
        THEN DisplayInorder(current, direction, TRUE, Append(out, current))
      ELSE IF Right(t) # Nil /\ direction # "right"
        THEN DisplayInorder(ItemOf(Right(t)), "root", FALSE, out)
      ELSE DisplayInorder(up[1], up[2], FALSE, out)

\* DisplayPreorder, whose loop puts an item out whenever it goes down to it.
RECURSIVE DisplayPreorder(_, _, _)
DisplayPreorder(current, direction, out) ==
  LET t == NodeOf(root, current)
      up == ParentOf(root, current)
      Down(u) == DisplayPreorder(ItemOf(u), "root", Append(out, ItemOf(u)))
  IN  IF Len(out) = TreeSize(root) THEN out
      ELSE IF Left(t) # Nil /\ direction = "root" THEN Down(Left(t))
      ELSE IF Right(t) # Nil /\ direction # "right" THEN Down(Right(t))
      ELSE DisplayPreorder(up[1], up[2], out)

RECURSIVE DisplayPostorder(_)
DisplayPostorder(t) ==
  IF t = Nil THEN << >>
  ELSE DisplayPostorder(Left(t)) \o DisplayPostorder(Right(t)) \o <<ItemOf(t)>>

\* DisplayBreadthFirstSearch, and the copy that adds what it meets to a new tree.
RECURSIVE BreadthFirst(_)
BreadthFirst(queue) ==
  IF queue = << >> THEN << >>
  ELSE LET t == Head(queue)
       IN  <<ItemOf(t)>> \o BreadthFirst(Tail(queue)
             \o SelectSeq(<<Left(t), Right(t)>>, LAMBDA u : u # Nil))

RECURSIVE PlainAdd(_, _)
PlainAdd(t, item) ==
  CASE t = Nil        -> <<Nil, item, Nil>>
    [] item < ItemOf(t) -> <<PlainAdd(Left(t), item), ItemOf(t), Right(t)>>
    [] OTHER          -> <<Left(t), ItemOf(t), PlainAdd(Right(t), item)>>
TreeOf(items) == FoldLeft(PlainAdd, Nil, items)
TreeCopy == TreeOf(BreadthFirst(IF root = Nil THEN << >> ELSE <<root>>))

-----------------------------------------------------------------------------
RECURSIVE Even(_)
Even(t) == t = Nil \/ /\ Height(Right(t)) - Height(Left(t)) \in -1 .. 1
                      /\ Even(Left(t)) /\ Even(Right(t))


\* DS_BinarySearchTree.h:141: "An AVLBalancedBinarySearchTree is a binary tree that is
\* always balanced", and line 44, "after every deletion and addition".  After a deletion
\* Rotated turns twice where the heavier child is level, which can leave a node
\* below with subtrees two apart, and nothing returns to it.
AlwaysBalanced == avl => Even(root)
=============================================================================
