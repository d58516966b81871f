------------------------------- MODULE Queue --------------------------------
(***************************************************************************)
(* DataStructures::Queue of DS_Queue.h: a ring of allocation_size cells    *)
(* with a read index head and a write index tail, one cell of it unused.   *)
(***************************************************************************)
EXTENDS Integers, Sequences

CONSTANTS Elements,
          NoElement,   \* what a fresh cell holds
          FirstRing,   \* cells of the first allocation: 16 in the code
          KeptRing,    \* Clear keeps a ring of at most this size: 32 in the code
          MaxRing      \* bound of the model: no ring is allocated beyond it

ASSUME QueueAssumption == NoElement \notin Elements /\ FirstRing \in Nat \ {0, 1}
                          /\ KeptRing \in Nat /\ MaxRing \in Nat

VARIABLES array,  \* a function on the cells 0 .. allocation_size - 1 and others
          head, tail, allocation_size
queueVars == <<array, head, tail, allocation_size>>

QueueInit == /\ array = [c \in {} |-> NoElement]
             /\ head = 0 /\ tail = 0 /\ allocation_size = 0

QueueSize == IF head <= tail THEN tail - head ELSE allocation_size - head + tail
IsEmpty == head = tail

\* The cell of a position, and the next and the previous cell of the ring.
Cell(position) ==
  IF head + position >= allocation_size THEN head + position - allocation_size
                                        ELSE head + position
\* Mutant of Succ: the index runs past the last cell before it starts again.
SuccLate(c) == IF c = allocation_size THEN 0 ELSE c + 1
Succ(c) == IF c + 1 = allocation_size THEN 0 ELSE c + 1
Pred(c) == IF c = 0 THEN allocation_size - 1 ELSE c - 1

\* The first count positions, moved to the start of a ring of the given size.
Unrolled(a, count, size) ==
  [c \in 0 .. size - 1 |-> IF c < count THEN a[Cell(c)] ELSE NoElement]

-----------------------------------------------------------------------------
QueuePush(input) ==
  \/ /\ allocation_size = 0
     /\ array' = [c \in 0 .. FirstRing - 1 |-> IF c = 0 THEN input ELSE NoElement]
     /\ head' = 0 /\ tail' = 1 /\ allocation_size' = FirstRing
  \/ /\ allocation_size > 0 /\ Succ(tail) # head
     /\ array' = [array EXCEPT ![tail] = input]
     /\ tail' = Succ(tail)
     /\ UNCHANGED <<head, allocation_size>>
  \/ /\ allocation_size > 0 /\ Succ(tail) = head /\ 2 * allocation_size <= MaxRing
     /\ array' = Unrolled([array EXCEPT ![tail] = input], allocation_size, 2 * allocation_size)
     /\ head' = 0 /\ tail' = allocation_size
     /\ allocation_size' = 2 * allocation_size

\* PushAtHead before a position that is there: Push makes room at the end, with
\* a larger ring if it has to, and the positions from index on move up by one.
PushAtHead(input, index) ==
  /\ index < QueueSize
  /\ \/ /\ Succ(tail) # head
        /\ array' = [c \in DOMAIN array |->
                       IF c = Cell(index) THEN input
                       ELSE IF \E p \in index + 1 .. QueueSize : c = Cell(p)
                         THEN array[Pred(c)] ELSE array[c]]
        /\ tail' = Succ(tail)
        /\ UNCHANGED <<head, allocation_size>>
     \/ /\ Succ(tail) = head /\ 2 * allocation_size <= MaxRing
        /\ array' = [c \in 0 .. 2 * allocation_size - 1 |->
                       IF c = index THEN input
                       ELSE IF c < index THEN array[Cell(c)]
                       ELSE IF c < allocation_size THEN array[Cell(c - 1)] ELSE NoElement]
        /\ head' = 0 /\ tail' = allocation_size
        /\ allocation_size' = 2 * allocation_size

QueuePop == /\ ~IsEmpty
            /\ head' = Succ(head)
            /\ UNCHANGED <<array, tail, allocation_size>>

\* PopDeref: Pop that leaves a null pointer in the cell.
PopDeref == /\ ~IsEmpty
            /\ head' = Succ(head)
            /\ array' = [array EXCEPT ![head] = NoElement]
            /\ UNCHANGED <<tail, allocation_size>>

PopTail == /\ ~IsEmpty
           /\ tail' = Pred(tail)
           /\ UNCHANGED <<array, head, allocation_size>>

RemoveAtIndex(position) ==
  /\ position < QueueSize
  /\ array' = [c \in DOMAIN array |->
                 IF \E p \in position .. QueueSize - 2 : c = Cell(p) THEN array[Succ(c)] ELSE array[c]]
  /\ tail' = Pred(tail)
  /\ UNCHANGED <<head, allocation_size>>

QueueClear ==
  /\ allocation_size > 0
  /\ head' = 0 /\ tail' = 0
  /\ allocation_size' = IF allocation_size > KeptRing THEN 0 ELSE allocation_size
  /\ array' = IF allocation_size > KeptRing THEN [c \in {} |-> NoElement] ELSE array

\* The ring of a copy (copy constructor, operator=; of a queue that is not empty) has one cell to spare; so has
\* at least that of Compress, whose size is the first power of two that will do.
Refit(size) == /\ array' = Unrolled(array, QueueSize, size)
               /\ head' = 0 /\ tail' = QueueSize /\ allocation_size' = size

QueueCopy == QueueSize > 0 /\ QueueSize + 1 <= MaxRing /\ Refit(QueueSize + 1)

Compress == /\ allocation_size > 0
            /\ \E size \in QueueSize + 1 .. 2 * QueueSize + 1 :
                 (\E n \in 0 .. size : size = 2 ^ n) /\ Refit(size)

ClearAndForceAllocation(size) ==
  /\ array' = [c \in 0 .. size - 1 |-> NoElement]
  /\ head' = 0 /\ tail' = 0 /\ allocation_size' = size

QueueNext ==
  \/ \E input \in Elements :
       QueuePush(input) \/ \E index \in 0 .. MaxRing - 1 : PushAtHead(input, index)
  \/ QueuePop \/ PopDeref \/ PopTail
  \/ \E position \in 0 .. MaxRing - 1 : RemoveAtIndex(position)
  \/ QueueClear \/ QueueCopy \/ Compress
  \/ \E size \in 0 .. FirstRing : ClearAndForceAllocation(size)

QueueSpec == QueueInit /\ [][QueueNext]_queueVars

-----------------------------------------------------------------------------
(***************************************************************************)
(* The ring is the sequence it stands for: every operation does to the     *)
(* positions, read through head, what it is called for, at every wrap of   *)
(* the two indices and across every change of the ring's size.             *)
(***************************************************************************)
Content == [position \in 1 .. QueueSize |-> array[Cell(position - 1)]]
Promise == INSTANCE QueuePromise WITH content <- Content
IsASequence == Promise!Spec
=============================================================================
